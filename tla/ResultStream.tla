----------------------------- MODULE ResultStream -----------------------------
(***************************************************************************)
(* What a TDatabase promises about the queue HandleCommand returns         *)
(* (11_join_server/database.hpp): for each request, some rows and then     *)
(* exactly one status, and that status does come.                          *)
(*                                                                         *)
(* Database implements this specification; JoinServer is built on it.      *)
(***************************************************************************)
EXTENDS Naturals, Sequences

CONSTANTS Requests,   \* the commands that may be handed to the database
          Rows,       \* the row messages
          Statuses    \* the status messages

VARIABLES state,      \* "idle", "open" or "closed", for each request
          stream      \* the messages pushed for it

streamVars == <<state, stream>>

StreamInit ==
    /\ state = [r \in Requests |-> "idle"]
    /\ stream = [r \in Requests |-> << >>]

Open(r) ==
    /\ state[r] = "idle"
    /\ state' = [state EXCEPT ![r] = "open"]
    /\ UNCHANGED stream

Emit(r) ==
    /\ state[r] = "open"
    /\ \E row \in Rows : stream' = [stream EXCEPT ![r] = Append(@, row)]
    /\ UNCHANGED state

Close(r) ==
    /\ state[r] = "open"
    /\ \E status \in Statuses : stream' = [stream EXCEPT ![r] = Append(@, status)]
    /\ state' = [state EXCEPT ![r] = "closed"]

StreamNext == \E r \in Requests : Open(r) \/ Emit(r) \/ Close(r)

StreamFairness == \A r \in Requests : WF_streamVars(Close(r))

StreamSafety == StreamInit /\ [][StreamNext]_streamVars

StreamSpec == StreamSafety /\ StreamFairness
===============================================================================
