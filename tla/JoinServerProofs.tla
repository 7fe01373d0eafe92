--------------------------- MODULE JoinServerProofs ---------------------------
(***************************************************************************)
(* Theorems about JoinServer, for any sessions, threads and inputs.        *)
(*                                                                         *)
(* The argument is the life of a session: the stages below are all there   *)
(* are, each says what its one operation or handler is, and how much of    *)
(* the stream of the database its client has been sent.                    *)
(***************************************************************************)
EXTENDS JoinServer, FiniteSetTheorems, SequenceTheorems, TLAPS

TypeOK ==
    /\ client \in [Sessions -> {"idle", "connecting", "sent", "gone", "left"}]
    /\ input \in [Sessions -> Outcomes]
    /\ accepted \in SUBSET Sessions
    /\ threads \in SUBSET IoThreads
    /\ thread \in [IoThreads -> Sessions \union {NoSession}]
    /\ popped \in [Sessions -> Nat]
    /\ received \in [Sessions -> Seq(Messages)]
    /\ process \in {"up", "down"}
    /\ state \in [Sessions -> {"idle", "open", "closed"}]
    /\ stream \in [Sessions -> Seq(Messages)]

\* What ResultStream says of a stream at any time.
StreamOK(s) ==
    /\ state[s] = "idle" => stream[s] = << >>
    /\ state[s] = "closed" => Len(stream[s]) > 0
    /\ \A i \in 1 .. Len(stream[s]) :
          stream[s][i] \in Statuses <=> state[s] = "closed" /\ i = Len(stream[s])

-------------------------------------------------------------------------------
(* The stages of a session *)

Results == {"pending", "ok", "failed"}

Quiet(s) == OpsOf(s) = {} /\ ThreadsIn(s) = {}
Only(s, op) == OpsOf(s) = {op} /\ ThreadsIn(s) = {}

\* The client has been sent the first n messages of the stream.
Sent(s, n) ==
    /\ Len(received[s]) = n
    /\ n <= Len(stream[s])
    /\ \A i \in 1 .. n : received[s][i] = stream[s][i]

Unasked(s) == popped[s] = 0 /\ stream[s] = << >> /\ state[s] = "idle"
Asked(s) == s \in accepted /\ input[s] = "command" /\ state[s] # "idle"

Unaccepted(s) == s \notin accepted /\ Quiet(s) /\ Unasked(s) /\ received[s] = << >>

Reading(s) ==
    /\ s \in accepted /\ Unasked(s) /\ received[s] = << >>
    /\ \E status \in Results :
          /\ Only(s, ReadOp(s, status))
          /\ status = "failed" => client[s] = "gone"

Unread(s) ==
    /\ s \in accepted /\ Unasked(s) /\ received[s] = << >>
    /\ Quiet(s) /\ client[s] = "gone"

Refusing(s) ==
    /\ s \in accepted /\ input[s] = "malformed" /\ Unasked(s)
    /\ \E status \in Results :
          /\ Only(s, WriteOp(s, "error", status))
          /\ received[s] = IF status = "ok" THEN <<"error">> ELSE << >>
          /\ status = "failed" => client[s] = "left"

Refused(s) ==
    /\ s \in accepted /\ input[s] = "malformed" /\ Unasked(s)
    /\ Quiet(s)
    /\ received[s] = <<"error">> \/ (received[s] = << >> /\ client[s] = "left")

Popping(s) ==
    /\ Asked(s)
    /\ OpsOf(s) = {} /\ \E w \in IoThreads : ThreadsIn(s) = {w}
    /\ Sent(s, popped[s])

Writing(s) ==
    /\ Asked(s)
    /\ popped[s] \in 1 .. Len(stream[s])
    /\ \E status \in Results :
          /\ Only(s, WriteOp(s, stream[s][popped[s]], status))
          /\ Sent(s, IF status = "ok" THEN popped[s] ELSE popped[s] - 1)
          /\ status = "failed" => client[s] = "left"

Answered(s) ==
    /\ Asked(s)
    /\ Quiet(s)
    /\ popped[s] <= Len(stream[s])
    /\ \/ state[s] = "closed" /\ popped[s] = Len(stream[s]) /\ Sent(s, popped[s])
       \/ client[s] = "left" /\ \E n \in 0 .. popped[s] : Sent(s, n)

Stage(s) ==
    \/ Unaccepted(s) \/ Reading(s) \/ Unread(s)
    \/ Refusing(s) \/ Refused(s)
    \/ Popping(s) \/ Writing(s) \/ Answered(s)

SessionInv ==
    /\ TypeOK
    /\ \A s \in Sessions : StreamOK(s)
    /\ \A s \in Sessions : Stage(s)

-------------------------------------------------------------------------------
(* Operations and threads *)

LEMMA OpFields ==
    ASSUME NEW s, NEW m, NEW status
    PROVE  /\ ReadOp(s, status).session = s /\ WriteOp(s, m, status).session = s
           /\ ReadOp(s, status).kind = "read" /\ WriteOp(s, m, status).kind = "write"
           /\ ReadOp(s, status).status = status /\ WriteOp(s, m, status).status = status
           /\ WriteOp(s, m, status).message = m
  BY DEF ReadOp, WriteOp

LEMMA OpsAdded ==
    ASSUME NEW op, ops' = ops \union {op}
    PROVE  /\ OpsOf(op.session)' = OpsOf(op.session) \union {op}
           /\ \A q : q # op.session => OpsOf(q)' = OpsOf(q)
  BY DEF OpsOf

LEMMA OpsRemoved ==
    ASSUME NEW op, ops' = ops \ {op}
    PROVE  /\ OpsOf(op.session)' = OpsOf(op.session) \ {op}
           /\ \A q : q # op.session => OpsOf(q)' = OpsOf(q)
  BY DEF OpsOf

LEMMA OpsReplaced ==
    ASSUME NEW old, NEW new, new.session = old.session, ops' = Replace(old, new)
    PROVE  /\ OpsOf(old.session)' = (OpsOf(old.session) \ {old}) \union {new}
           /\ \A q : q # old.session => OpsOf(q)' = OpsOf(q)
  BY DEF OpsOf, Replace

LEMMA ThreadTaken ==
    ASSUME TypeOK, NEW s \in Sessions, NEW w \in IoThreads, thread[w] = NoSession,
           thread' = [thread EXCEPT ![w] = s]
    PROVE  /\ ThreadsIn(s)' = ThreadsIn(s) \union {w}
           /\ \A q \in Sessions : q # s => ThreadsIn(q)' = ThreadsIn(q)
  BY NoSessionAssumption DEF TypeOK, ThreadsIn

LEMMA ThreadFreed ==
    ASSUME TypeOK, NEW w \in IoThreads, NEW s \in Sessions, thread[w] = s,
           thread' = [thread EXCEPT ![w] = NoSession]
    PROVE  /\ ThreadsIn(s)' = ThreadsIn(s) \ {w}
           /\ \A q \in Sessions : q # s => ThreadsIn(q)' = ThreadsIn(q)
  BY NoSessionAssumption DEF TypeOK, ThreadsIn

-------------------------------------------------------------------------------
(* Every session stays in one of the stages *)

\* A step that touches neither the operations, nor the threads, nor the stream
\* of a session leaves it in its stage, even if its client leaves.
LEMMA StageKept ==
    ASSUME NEW q \in Sessions, Stage(q),
           OpsOf(q)' = OpsOf(q), ThreadsIn(q)' = ThreadsIn(q),
           q \in accepted' <=> q \in accepted, UNCHANGED input,
           popped'[q] = popped[q], received'[q] = received[q],
           state'[q] = state[q], stream'[q] = stream[q],
           client[q] \in {"gone", "left"} => client'[q] = client[q]
    PROVE  Stage(q)'
  <1>1. CASE Unaccepted(q) \/ Reading(q) \/ Unread(q)
    BY <1>1 DEF Stage, Unaccepted, Reading, Unread, Unasked, Quiet, Only
  <1>2. CASE Refusing(q) \/ Refused(q)
    BY <1>2 DEF Stage, Refusing, Refused, Unasked, Quiet, Only
  <1>3. CASE Popping(q)
    BY <1>3 DEF Stage, Popping, Asked, Sent
  <1>4. CASE Writing(q)
    BY <1>4 DEF Stage, Writing, Asked, Only, Sent
  <1>5. CASE Answered(q)
    BY <1>5 DEF Stage, Answered, Asked, Quiet, Sent
  <1> QED
    BY <1>1, <1>2, <1>3, <1>4, <1>5 DEF Stage

\* What the operation of a session, or the lack of one, says of its stage.
LEMMA StageOfRead ==
    ASSUME NEW s \in Sessions, Stage(s), NEW status, ReadOp(s, status) \in ops
    PROVE  Reading(s) /\ Only(s, ReadOp(s, status))
  <1>1. ReadOp(s, status) \in OpsOf(s)
    BY OpFields DEF OpsOf
  <1>2. ASSUME NEW op, Only(s, op) PROVE op = ReadOp(s, status)
    BY <1>1, <1>2 DEF Only
  <1>3. \A m, t : ~ Only(s, WriteOp(s, m, t))
    BY <1>2, OpFields
  <1> QED
    BY <1>1, <1>2, <1>3
    DEF Stage, Unaccepted, Reading, Unread, Refusing, Refused, Popping, Writing,
        Answered, Quiet

LEMMA StageOfWrite ==
    ASSUME NEW s \in Sessions, Stage(s), NEW m, NEW status, WriteOp(s, m, status) \in ops
    PROVE  /\ Only(s, WriteOp(s, m, status))
           /\ \/ Refusing(s) /\ m = "error"
              \/ Writing(s) /\ m = stream[s][popped[s]]
  <1>1. WriteOp(s, m, status) \in OpsOf(s)
    BY OpFields DEF OpsOf
  <1>2. ASSUME NEW op, Only(s, op) PROVE op = WriteOp(s, m, status)
    BY <1>1, <1>2 DEF Only
  <1>3. \A t : ~ Only(s, ReadOp(s, t))
    BY <1>2, OpFields
  <1>4. \A n, t : Only(s, WriteOp(s, n, t)) => n = m /\ Only(s, WriteOp(s, m, status))
    BY <1>2, OpFields
  <1> QED
    BY <1>1, <1>3, <1>4
    DEF Stage, Unaccepted, Reading, Unread, Refusing, Refused, Popping, Writing,
        Answered, Quiet

LEMMA StageOfPop ==
    ASSUME NEW w \in IoThreads, thread[w] \in Sessions, Stage(thread[w])
    PROVE  Popping(thread[w]) /\ ThreadsIn(thread[w]) = {w}
  <1>1. w \in ThreadsIn(thread[w])
    BY DEF ThreadsIn
  <1> QED
    BY <1>1
    DEF Stage, Unaccepted, Reading, Unread, Refusing, Refused, Popping, Writing,
        Answered, Quiet, Only

-------------------------------------------------------------------------------
(* Types and streams *)

LEMMA InitTypes == Init => TypeOK /\ \A s \in Sessions : StreamOK(s)
  <1> SUFFICES ASSUME Init PROVE TypeOK /\ \A s \in Sessions : StreamOK(s)
    OBVIOUS
  <1>1. << >> \in Seq(Messages) /\ Len(<< >>) = 0
    BY EmptySeq
  <1>2. TypeOK
    BY <1>1, InputsAssumption DEF Init, TypeOK, Database!StreamInit
  <1>3. \A s \in Sessions : stream[s] = << >> /\ state[s] = "idle"
    BY DEF Init, Database!StreamInit
  <1> QED
    BY <1>1, <1>2, <1>3 DEF StreamOK

\* How the database changes a stream.
LEMMA StreamStep ==
    ASSUME TypeOK, NEW s \in Sessions, StreamOK(s),
           PushRow(s) \/ PushStatus(s)
    PROVE  \E m \in Messages :
             /\ state[s] = "open" /\ state'[s] \in {"open", "closed"}
             /\ state' \in [Sessions -> {"idle", "open", "closed"}]
             /\ \A q \in Sessions : q # s => state'[q] = state[q]
             /\ stream' = [stream EXCEPT ![s] = Append(@, m)]
             /\ m \in Statuses <=> state'[s] = "closed"
             /\ UNCHANGED <<client, sessionVars>>
  <1>1. CASE PushRow(s)
    <2>1. RowMessage \in Messages /\ RowMessage \notin Statuses
      BY DEF RowMessage, Messages, Statuses
    <2> QED
      BY <1>1, <2>1 DEF PushRow, Database!Emit, TypeOK
  <1>2. CASE PushStatus(s)
    <2>1. Statuses \subseteq Messages
      BY DEF Messages
    <2> QED
      BY <1>2, <2>1 DEF PushStatus, Database!Close, TypeOK
  <1> QED
    BY <1>1, <1>2

LEMMA AppendStream ==
    ASSUME TypeOK, NEW s \in Sessions, NEW m \in Messages,
           stream' = [stream EXCEPT ![s] = Append(@, m)]
    PROVE  /\ stream' \in [Sessions -> Seq(Messages)]
           /\ Len(stream[s]) \in Nat /\ Len(stream'[s]) = Len(stream[s]) + 1
           /\ \A i \in 1 .. Len(stream[s]) : stream'[s][i] = stream[s][i]
           /\ stream'[s][Len(stream[s]) + 1] = m
           /\ \A q \in Sessions : q # s => stream'[q] = stream[q]
  <1>1. stream[s] \in Seq(Messages)
    BY DEF TypeOK
  <1>2. stream'[s] = Append(stream[s], m)
    BY DEF TypeOK
  <1>3. Append(stream[s], m) \in Seq(Messages)
    BY <1>1, AppendProperties
  <1>4. /\ Len(stream[s]) \in Nat /\ Len(stream'[s]) = Len(stream[s]) + 1
        /\ \A i \in 1 .. Len(stream[s]) : stream'[s][i] = stream[s][i]
        /\ stream'[s][Len(stream[s]) + 1] = m
    BY <1>1, <1>2, AppendProperties, LenProperties
  <1> QED
    BY <1>3, <1>4 DEF TypeOK

LEMMA StepTypes == TypeOK /\ (\A s \in Sessions : StreamOK(s)) /\ [Next]_vars => TypeOK'
  <1> SUFFICES ASSUME TypeOK, \A s \in Sessions : StreamOK(s), [Next]_vars PROVE TypeOK'
    OBVIOUS
  <1>1. ASSUME NEW s \in Sessions, Connect(s) \/ Send(s) \/ Leave(s) PROVE TypeOK'
    BY <1>1 DEF Connect, Send, Leave, TypeOK, sessionVars, streamVars
  <1>2. ASSUME NEW s \in Sessions, CompleteRead(s) PROVE TypeOK'
    BY <1>2 DEF CompleteRead, TypeOK, streamVars
  <1>3. ASSUME NEW s \in Sessions, CompleteWrite(s) PROVE TypeOK'
    <2>1. received[s] \in Seq(Messages)
      BY DEF TypeOK
    <2>2. \A m \in Messages : Append(received[s], m) \in Seq(Messages)
      BY <2>1, AppendProperties
    <2>3. received' \in [Sessions -> Seq(Messages)]
      BY <1>3, <2>2 DEF CompleteWrite, TypeOK
    <2> QED
      BY <1>3, <2>3 DEF CompleteWrite, TypeOK, streamVars
  <1>4. ASSUME NEW s \in Sessions, PushRow(s) \/ PushStatus(s) PROVE TypeOK'
    BY <1>4, StreamStep, AppendStream DEF TypeOK, sessionVars
  <1>5. ASSUME NEW s \in Sessions, NEW w \in IoThreads, Handler(w, s) PROVE TypeOK'
    <2>1. CASE OnReadCommand(w, s)
      BY <2>1 DEF OnReadCommand, Database!Open, TypeOK
    <2>2. CASE Accept(w, s) \/ OnReadThrowing(w, s) \/ OnRowWritten(w, s)
      BY <2>2 DEF Accept, OnReadThrowing, OnRowWritten, TypeOK, streamVars
    <2>3. CASE OnReadError(w, s) \/ OnReadMalformed(w, s) \/ OnLastWritten(w, s)
      BY <2>3 DEF OnReadError, OnReadMalformed, OnLastWritten, TypeOK, streamVars
    <2> QED
      BY <1>5, <2>1, <2>2, <2>3 DEF Handler
  <1>6. ASSUME NEW w \in IoThreads, PopMessage(w) PROVE TypeOK'
    <2>1. \A s \in Sessions : popped[s] + 1 \in Nat
      BY DEF TypeOK
    <2>2. popped' \in [Sessions -> Nat]
      BY <1>6, <2>1 DEF PopMessage, TypeOK
    <2> QED
      BY <1>6, <2>2 DEF PopMessage, TypeOK, streamVars
  <1>7. CASE UNCHANGED vars
    BY <1>7 DEF vars, sessionVars, streamVars, TypeOK
  <1> QED
    BY <1>1, <1>2, <1>3, <1>4, <1>5, <1>6, <1>7 DEF Next

LEMMA StepStreams ==
    TypeOK /\ (\A s \in Sessions : StreamOK(s)) /\ [Next]_vars
        => (\A s \in Sessions : StreamOK(s))'
  <1> SUFFICES ASSUME TypeOK, \A s \in Sessions : StreamOK(s), [Next]_vars,
                      NEW q \in Sessions
               PROVE  StreamOK(q)'
    OBVIOUS
  <1>1. ASSUME NEW s \in Sessions, PushRow(s) \/ PushStatus(s) PROVE StreamOK(q)'
    <2>1. PICK m \in Messages :
             /\ state[s] = "open" /\ state'[s] \in {"open", "closed"}
             /\ \A r \in Sessions : r # s => state'[r] = state[r]
             /\ stream' = [stream EXCEPT ![s] = Append(@, m)]
             /\ m \in Statuses <=> state'[s] = "closed"
      BY <1>1, StreamStep
    <2>2. /\ Len(stream[s]) \in Nat /\ Len(stream'[s]) = Len(stream[s]) + 1
          /\ \A i \in 1 .. Len(stream[s]) : stream'[s][i] = stream[s][i]
          /\ stream'[s][Len(stream[s]) + 1] = m
          /\ \A r \in Sessions : r # s => stream'[r] = stream[r]
      BY <2>1, AppendStream
    <2>3. CASE q # s
      BY <2>1, <2>2, <2>3 DEF StreamOK
    <2>4. CASE q = s
      <3>1. ASSUME NEW i \in 1 .. Len(stream'[s])
            PROVE  stream'[s][i] \in Statuses <=> state'[s] = "closed" /\ i = Len(stream'[s])
        <4>1. CASE i \in 1 .. Len(stream[s])
          BY <2>1, <2>2, <4>1 DEF StreamOK
        <4>2. CASE i = Len(stream[s]) + 1
          BY <2>1, <2>2, <4>2
        <4> QED
          BY <2>2, <4>1, <4>2
      <3> QED
        BY <2>1, <2>2, <2>4, <3>1 DEF StreamOK
    <2> QED
      BY <2>3, <2>4
  <1>2. ASSUME NEW s \in Sessions, NEW w \in IoThreads, OnReadCommand(w, s)
        PROVE  StreamOK(q)'
    <2>1. /\ UNCHANGED stream /\ state[s] = "idle"
          /\ state'[s] = "open" /\ \A r \in Sessions : r # s => state'[r] = state[r]
      BY <1>2 DEF OnReadCommand, Database!Open, TypeOK
    <2> QED
      BY <2>1 DEF StreamOK
  <1>3. CASE UNCHANGED streamVars
    BY <1>3 DEF streamVars, StreamOK
  <1>4. ASSUME NEW s \in Sessions,
               Connect(s) \/ Send(s) \/ Leave(s) \/ CompleteRead(s) \/ CompleteWrite(s)
        PROVE  UNCHANGED streamVars
    BY <1>4 DEF Connect, Send, Leave, CompleteRead, CompleteWrite
  <1>5. ASSUME NEW s \in Sessions, NEW w \in IoThreads, Handler(w, s), ~ OnReadCommand(w, s)
        PROVE  UNCHANGED streamVars
    BY <1>5 DEF Handler, Accept, OnReadError, OnReadMalformed, OnReadThrowing,
                OnRowWritten, OnLastWritten
  <1>6. ASSUME NEW w \in IoThreads, PopMessage(w) PROVE UNCHANGED streamVars
    BY <1>6 DEF PopMessage
  <1>7. CASE UNCHANGED vars
    BY <1>3, <1>7 DEF vars, streamVars
  <1> QED
    BY <1>1, <1>2, <1>3, <1>4, <1>5, <1>6, <1>7 DEF Next

-------------------------------------------------------------------------------
(* The steps of a session *)

LEMMA InitStages == Init => \A s \in Sessions : Stage(s)
  <1> SUFFICES ASSUME Init, NEW s \in Sessions PROVE Stage(s)
    OBVIOUS
  <1>1. Quiet(s)
    BY NoSessionAssumption DEF Init, Quiet, OpsOf, ThreadsIn
  <1> QED
    BY <1>1 DEF Init, Database!StreamInit, Stage, Unaccepted, Unasked

LEMMA CompleteReadStage ==
    ASSUME TypeOK, NEW s \in Sessions, Stage(s), CompleteRead(s)
    PROVE  Stage(s)'
  <1>1. PICK status \in {"ok", "failed"} :
             /\ status = "failed" => client[s] = "gone"
             /\ ops' = Replace(ReadOp(s, "pending"), ReadOp(s, status))
    BY DEF CompleteRead
  <1>2. Reading(s) /\ Only(s, ReadOp(s, "pending"))
    BY StageOfRead DEF CompleteRead
  <1>3. OpsOf(s)' = {ReadOp(s, status)}
    BY <1>1, <1>2, OpFields, OpsReplaced DEF Only
  <1>4. Only(s, ReadOp(s, status))'
    BY <1>2, <1>3 DEF CompleteRead, Only, ThreadsIn
  <1> QED
    BY <1>1, <1>2, <1>4 DEF CompleteRead, streamVars, Stage, Reading, Unasked, Results

LEMMA CompleteWriteStage ==
    ASSUME TypeOK, NEW s \in Sessions, Stage(s), CompleteWrite(s)
    PROVE  Stage(s)'
  <1>1. PICK m \in Messages, status \in {"ok", "failed"} :
             /\ WriteOp(s, m, "pending") \in ops
             /\ status = "failed" => client[s] = "left"
             /\ ops' = Replace(WriteOp(s, m, "pending"), WriteOp(s, m, status))
             /\ received' = IF status = "ok" THEN [received EXCEPT ![s] = Append(@, m)]
                                             ELSE received
    BY DEF CompleteWrite
  <1>2. /\ Only(s, WriteOp(s, m, "pending"))
        /\ \/ Refusing(s) /\ m = "error"
           \/ Writing(s) /\ m = stream[s][popped[s]]
    BY <1>1, StageOfWrite
  <1>3. OpsOf(s)' = {WriteOp(s, m, status)}
    BY <1>1, <1>2, OpFields, OpsReplaced DEF Only
  <1>4. Only(s, WriteOp(s, m, status))'
    BY <1>2, <1>3 DEF CompleteWrite, Only, ThreadsIn
  <1>5. \A t : Only(s, WriteOp(s, "error", t)) => OpsOf(s) = {WriteOp(s, "error", t)}
    BY DEF Only
  <1>6. \A n, t : Only(s, WriteOp(s, n, t)) => t = "pending"
    BY <1>2, OpFields DEF Only
  <1>7. received[s] \in Seq(Messages)
    BY DEF TypeOK
  <1>8. received'[s] = IF status = "ok" THEN Append(received[s], m) ELSE received[s]
    BY <1>1 DEF TypeOK
  <1>9. CASE Refusing(s) /\ m = "error"
    <2>1. received[s] = << >>
      BY <1>6, <1>9 DEF Refusing
    <2>2. received'[s] = IF status = "ok" THEN <<"error">> ELSE << >>
      BY <1>8, <1>9, <2>1
    <2> QED
      BY <1>1, <1>4, <1>9, <2>2
      DEF CompleteWrite, streamVars, Stage, Refusing, Unasked, Results
  <1>10. CASE Writing(s) /\ m = stream[s][popped[s]]
    <2>1. /\ popped[s] \in 1 .. Len(stream[s]) /\ Sent(s, popped[s] - 1)
      BY <1>6, <1>10 DEF Writing
    <2>2. popped[s] \in Nat /\ Len(stream[s]) \in Nat
      BY LenProperties DEF TypeOK
    <2>3. UNCHANGED <<popped, state, stream, input, accepted, client>>
      BY DEF CompleteWrite, streamVars
    <2>4. CASE status = "ok"
      <3>1. /\ Len(received'[s]) = popped[s]
            /\ \A i \in 1 .. popped[s] - 1 : received'[s][i] = received[s][i]
            /\ received'[s][popped[s]] = m
        BY <1>7, <1>8, <2>1, <2>2, <2>4, AppendProperties DEF Sent
      <3>2. \A i \in 1 .. popped[s] : i \in 1 .. popped[s] - 1 \/ i = popped[s]
        BY <2>2
      <3>3. Sent(s, popped[s])'
        BY <1>10, <2>1, <2>2, <2>3, <3>1, <3>2 DEF Sent
      <3> QED
        BY <1>4, <1>10, <2>3, <2>4, <3>3 DEF Stage, Writing, Asked, Results
    <2>5. CASE status = "failed"
      <3>1. Sent(s, popped[s] - 1)'
        BY <1>8, <2>1, <2>3, <2>5 DEF Sent
      <3> QED
        BY <1>1, <1>4, <1>10, <2>3, <2>5, <3>1 DEF Stage, Writing, Asked, Results
    <2> QED
      BY <2>4, <2>5
  <1> QED
    BY <1>2, <1>9, <1>10

LEMMA AcceptStage ==
    ASSUME TypeOK, NEW s \in Sessions, Stage(s), NEW w \in IoThreads, Accept(w, s)
    PROVE  Stage(s)'
  <1>1. Unaccepted(s)
    BY DEF Accept, Stage, Reading, Unread, Refusing, Refused, Popping, Writing, Answered,
           Asked
  <1>2. OpsOf(s)' = {ReadOp(s, "pending")}
    BY <1>1, OpFields, OpsAdded DEF Accept, Unaccepted, Quiet
  <1>3. Only(s, ReadOp(s, "pending"))'
    BY <1>1, <1>2 DEF Accept, Unaccepted, Quiet, Only, ThreadsIn
  <1> QED
    BY <1>1, <1>3 DEF Accept, streamVars, Stage, Unaccepted, Reading, Unasked, Results

LEMMA ReadHandlersStage ==
    ASSUME TypeOK, NEW s \in Sessions, Stage(s), NEW w \in IoThreads,
           OnReadError(w, s) \/ OnReadMalformed(w, s) \/ OnReadThrowing(w, s)
           \/ OnReadCommand(w, s)
    PROVE  Stage(s)'
  <1>1. CASE OnReadError(w, s)
    <2>1. Reading(s) /\ Only(s, ReadOp(s, "failed"))
      BY <1>1, StageOfRead DEF OnReadError
    <2>2. client[s] = "gone"
      <3>1. PICK status \in Results : /\ Only(s, ReadOp(s, status))
                                      /\ status = "failed" => client[s] = "gone"
        BY <2>1 DEF Reading
      <3>2. ReadOp(s, status) = ReadOp(s, "failed")
        BY <2>1, <3>1 DEF Only
      <3>3. status = "failed"
        BY <3>2, OpFields
      <3> QED
        BY <3>1, <3>3
    <2>3. OpsOf(s)' = {}
      BY <1>1, <2>1, OpFields, OpsRemoved DEF OnReadError, Only
    <2>4. Quiet(s)'
      BY <1>1, <2>1, <2>3 DEF OnReadError, Only, Quiet, ThreadsIn
    <2> QED
      BY <1>1, <2>1, <2>2, <2>4
      DEF OnReadError, streamVars, Stage, Reading, Unread, Unasked
  <1>2. CASE OnReadMalformed(w, s)
    <2>1. Reading(s) /\ Only(s, ReadOp(s, "ok"))
      BY <1>2, StageOfRead DEF OnReadMalformed
    <2>2. OpsOf(s)' = {WriteOp(s, "error", "pending")}
      BY <1>2, <2>1, OpFields, OpsReplaced DEF OnReadMalformed, Only
    <2>3. Only(s, WriteOp(s, "error", "pending"))'
      BY <1>2, <2>1, <2>2 DEF OnReadMalformed, Only, ThreadsIn
    <2> QED
      BY <1>2, <2>1, <2>3
      DEF OnReadMalformed, streamVars, Stage, Reading, Refusing, Unasked, Results
  <1>3. CASE OnReadThrowing(w, s)
    <2>1. OpsOf(s)' = OpsOf(s) /\ ThreadsIn(s)' = ThreadsIn(s)
      BY <1>3 DEF OnReadThrowing, OpsOf, ThreadsIn
    <2> QED
      BY <1>3, <2>1, StageKept DEF OnReadThrowing, streamVars
  <1>4. CASE OnReadCommand(w, s)
    <2>1. Reading(s) /\ Only(s, ReadOp(s, "ok"))
      BY <1>4, StageOfRead DEF OnReadCommand
    <2>2. OpsOf(s)' = {}
      BY <1>4, <2>1, OpFields, OpsRemoved DEF OnReadCommand, Only
    <2>3. ThreadsIn(s)' = {w}
      BY <1>4, <2>1, ThreadTaken DEF OnReadCommand, Idle, Only
    <2>4. /\ state'[s] = "open" /\ UNCHANGED <<stream, popped, received, accepted, input>>
          /\ input[s] = "command"
      BY <1>4 DEF OnReadCommand, Database!Open, TypeOK
    <2>5. Sent(s, popped[s])'
      BY <2>1, <2>4 DEF Reading, Unasked, Sent
    <2> QED
      BY <2>1, <2>2, <2>3, <2>4, <2>5 DEF Stage, Reading, Popping, Asked
  <1> QED
    BY <1>1, <1>2, <1>3, <1>4

LEMMA PopStage ==
    ASSUME TypeOK, NEW w \in IoThreads, thread[w] \in Sessions, Stage(thread[w]),
           StreamOK(thread[w]), PopMessage(w), NEW s \in Sessions, s = thread[w]
    PROVE  Stage(s)'
  <1> DEFINE m == stream[s][popped[s] + 1]
  <1>1. Popping(s) /\ ThreadsIn(s) = {w}
    BY StageOfPop
  <1>2. OpsOf(s)' = {WriteOp(s, m, "pending")}
    BY <1>1, OpFields, OpsAdded DEF PopMessage, Popping
  <1>3. ThreadsIn(s)' = {}
    <2>1. thread' = [thread EXCEPT ![w] = NoSession]
      BY DEF PopMessage
    <2>2. ThreadsIn(s)' = ThreadsIn(s) \ {w}
      BY <2>1, ThreadFreed
    <2> QED
      BY <1>1, <2>2
  <1>4. /\ popped[s] \in Nat /\ Len(stream[s]) \in Nat /\ popped[s] < Len(stream[s])
        /\ popped'[s] = popped[s] + 1
        /\ UNCHANGED <<state, stream, received, accepted, input, client>>
    BY LenProperties DEF PopMessage, streamVars, TypeOK
  <1>5. popped'[s] \in 1 .. Len(stream[s]) /\ popped'[s] - 1 = popped[s]
    BY <1>4
  <1>6. Sent(s, popped[s]) /\ Asked(s)
    BY <1>1 DEF Popping
  <1>7. Sent(s, popped[s] - 1)'
    BY <1>4, <1>5, <1>6 DEF Sent
  <1>8. Only(s, WriteOp(s, stream[s][popped[s]], "pending"))'
    BY <1>2, <1>3, <1>4 DEF Only
  <1> QED
    BY <1>4, <1>5, <1>6, <1>7, <1>8 DEF Stage, Writing, Asked, Results

LEMMA WriteHandlersStage ==
    ASSUME TypeOK, NEW s \in Sessions, Stage(s), StreamOK(s), NEW w \in IoThreads,
           OnRowWritten(w, s) \/ OnLastWritten(w, s)
    PROVE  Stage(s)'
  <1>1. CASE OnRowWritten(w, s)
    <2>1. /\ Only(s, WriteOp(s, RowMessage, "ok")) /\ Writing(s)
      BY <1>1, StageOfWrite DEF OnRowWritten, RowMessage
    <2>2. Sent(s, popped[s]) /\ Asked(s)
      <3>1. PICK status \in Results :
                 /\ Only(s, WriteOp(s, stream[s][popped[s]], status))
                 /\ Sent(s, IF status = "ok" THEN popped[s] ELSE popped[s] - 1)
        BY <2>1 DEF Writing
      <3>2. WriteOp(s, stream[s][popped[s]], status) = WriteOp(s, RowMessage, "ok")
        BY <2>1, <3>1 DEF Only
      <3>3. status = "ok"
        BY <3>2, OpFields
      <3> QED
        BY <2>1, <3>1, <3>3 DEF Writing
    <2>3. OpsOf(s)' = {}
      BY <1>1, <2>1, OpFields, OpsRemoved DEF OnRowWritten, Only
    <2>4. ThreadsIn(s)' = {w}
      BY <1>1, <2>1, ThreadTaken DEF OnRowWritten, Idle, Only
    <2>5. Sent(s, popped[s])' /\ Asked(s)'
      BY <1>1, <2>2 DEF OnRowWritten, streamVars, Sent, Asked
    <2> QED
      BY <2>3, <2>4, <2>5 DEF Stage, Popping
  <1>2. CASE OnLastWritten(w, s)
    <2>1. PICK m \in Messages, status \in {"ok", "failed"} :
               /\ m \in Statuses \/ status = "failed"
               /\ WriteOp(s, m, status) \in ops
               /\ ops' = ops \ {WriteOp(s, m, status)}
      BY <1>2 DEF OnLastWritten
    <2>2. /\ Only(s, WriteOp(s, m, status))
          /\ \/ Refusing(s) /\ m = "error"
             \/ Writing(s) /\ m = stream[s][popped[s]]
      BY <2>1, StageOfWrite
    <2>3. OpsOf(s)' = {}
      BY <2>1, <2>2, OpFields, OpsRemoved DEF Only
    <2>4. Quiet(s)'
      BY <1>2, <2>2, <2>3 DEF OnLastWritten, Only, Quiet, ThreadsIn
    <2>5. UNCHANGED <<popped, received, state, stream, input, accepted, client>>
      BY <1>2 DEF OnLastWritten, streamVars
    <2>6. \A n, t : Only(s, WriteOp(s, n, t)) => t = status
      BY <2>2, OpFields DEF Only
    <2>7. CASE Refusing(s)
      BY <2>1, <2>4, <2>5, <2>6, <2>7 DEF Stage, Refusing, Refused, Unasked
    <2>8. CASE Writing(s) /\ m = stream[s][popped[s]]
      <3>1. /\ popped[s] \in 1 .. Len(stream[s]) /\ popped[s] \in Nat
            /\ Len(stream[s]) \in Nat /\ Asked(s)
        BY <2>8, LenProperties DEF Writing, TypeOK
      <3>2. Asked(s)'
        BY <2>5, <3>1 DEF Asked
      <3>3. CASE status = "failed"
        <4>1. client[s] = "left" /\ Sent(s, popped[s] - 1)
          BY <2>6, <2>8, <3>3 DEF Writing
        <4>2. popped[s] - 1 \in 0 .. popped[s]
          BY <3>1
        <4>3. Answered(s)
              \/ (popped[s] <= Len(stream[s]) /\ client[s] = "left"
                  /\ \E n \in 0 .. popped[s] : Sent(s, n))
          BY <3>1, <4>1, <4>2
        <4>4. popped[s] <= Len(stream[s]) /\ client[s] = "left"
              /\ \E n \in 0 .. popped[s] : Sent(s, n)
          BY <3>1, <4>1, <4>2
        <4>5. (popped[s] <= Len(stream[s]) /\ client[s] = "left"
               /\ \E n \in 0 .. popped[s] : Sent(s, n))'
          BY <2>5, <4>4 DEF Sent
        <4> QED
          BY <2>4, <3>2, <4>5 DEF Stage, Answered
      <3>4. CASE status = "ok" /\ m \in Statuses
        <4>1. Sent(s, popped[s])
          BY <2>6, <2>8, <3>4 DEF Writing
        <4>2. state[s] = "closed" /\ popped[s] = Len(stream[s])
          BY <2>8, <3>1, <3>4 DEF StreamOK
        <4>3. (state[s] = "closed" /\ popped[s] = Len(stream[s]) /\ Sent(s, popped[s]))'
          BY <2>5, <4>1, <4>2 DEF Sent
        <4>4. (popped[s] <= Len(stream[s]))'
          BY <2>5, <3>1
        <4> QED
          BY <2>4, <3>2, <4>3, <4>4 DEF Stage, Answered
      <3> QED
        BY <2>1, <3>3, <3>4
    <2> QED
      BY <2>2, <2>7, <2>8
  <1> QED
    BY <1>1, <1>2

\* A stream that grows leaves what has been sent of it as it was.
LEMMA PushStage ==
    ASSUME TypeOK, NEW s \in Sessions, Stage(s), StreamOK(s), PushRow(s) \/ PushStatus(s)
    PROVE  Stage(s)'
  <1>1. PICK m \in Messages :
             /\ state[s] = "open" /\ state'[s] \in {"open", "closed"}
             /\ stream' = [stream EXCEPT ![s] = Append(@, m)]
             /\ UNCHANGED <<client, sessionVars>>
    BY StreamStep
  <1>2. /\ Len(stream[s]) \in Nat /\ Len(stream'[s]) = Len(stream[s]) + 1
        /\ \A i \in 1 .. Len(stream[s]) : stream'[s][i] = stream[s][i]
    BY <1>1, AppendStream
  <1>3. UNCHANGED <<client, input, accepted, ops, thread, popped, received>>
    BY <1>1 DEF sessionVars
  <1>4. OpsOf(s)' = OpsOf(s) /\ ThreadsIn(s)' = ThreadsIn(s)
    BY <1>3 DEF OpsOf, ThreadsIn
  <1>5. popped[s] \in Nat
    BY DEF TypeOK
  <1>6. \A n \in Int : n <= Len(stream[s]) => n <= Len(stream'[s])
    BY <1>2
  <1>7. ASSUME NEW n \in Int, Sent(s, n)
        PROVE  /\ Len(received'[s]) = n
               /\ n <= Len(stream'[s])
               /\ \A i \in 1 .. n : received'[s][i] = stream'[s][i]
    <2>1. \A i \in 1 .. n : i \in 1 .. Len(stream[s])
      BY <1>2, <1>7 DEF Sent
    <2> QED
      BY <1>2, <1>3, <1>6, <1>7, <2>1 DEF Sent
  <1>8. Asked(s) => Asked(s)'
    BY <1>1, <1>3 DEF Asked
  <1>9. CASE Popping(s)
    <2>1. Sent(s, popped[s])'
      BY <1>3, <1>5, <1>7, <1>9 DEF Popping, Sent
    <2> QED
      BY <1>4, <1>8, <1>9, <2>1 DEF Stage, Popping
  <1>10. CASE Writing(s)
    <2>1. PICK status \in Results :
               /\ Only(s, WriteOp(s, stream[s][popped[s]], status))
               /\ Sent(s, IF status = "ok" THEN popped[s] ELSE popped[s] - 1)
               /\ status = "failed" => client[s] = "left"
      BY <1>10 DEF Writing
    <2> DEFINE n == IF status = "ok" THEN popped[s] ELSE popped[s] - 1
    <2>2. n \in Int
      BY <1>5
    <2>3. Sent(s, n)'
      BY <1>3, <1>7, <2>1, <2>2 DEF Sent
    <2>4. popped[s] \in 1 .. Len(stream[s]) /\ popped[s] \in 1 .. Len(stream'[s])
      BY <1>2, <1>10 DEF Writing
    <2>5. Only(s, WriteOp(s, stream[s][popped[s]], status))'
      BY <1>2, <1>3, <1>4, <2>1, <2>4 DEF Only
    <2> QED
      BY <1>3, <1>8, <1>10, <2>1, <2>3, <2>4, <2>5 DEF Stage, Writing
  <1>11. CASE Answered(s)
    <2>1. PICK n \in 0 .. popped[s] : client[s] = "left" /\ Sent(s, n)
      BY <1>1, <1>11 DEF Answered
    <2>2. Sent(s, n)' /\ (client[s] = "left")' /\ n \in 0 .. popped'[s]
      BY <1>3, <1>7, <2>1 DEF Sent
    <2>3. popped'[s] <= Len(stream'[s])
      BY <1>3, <1>5, <1>6, <1>11 DEF Answered
    <2> QED
      BY <1>4, <1>8, <1>11, <2>2, <2>3 DEF Stage, Answered, Quiet
  <1>12. ~ Unasked(s)
    BY <1>1 DEF Unasked
  <1> QED
    BY <1>9, <1>10, <1>11, <1>12 DEF Stage, Unaccepted, Reading, Unread, Refusing, Refused

LEMMA StepStages == SessionInv /\ [Next]_vars => (\A q \in Sessions : Stage(q))'
  <1> SUFFICES ASSUME SessionInv, [Next]_vars, NEW q \in Sessions PROVE Stage(q)'
    OBVIOUS
  <1> USE DEF SessionInv
  <1>1. ASSUME NEW s \in Sessions, Connect(s) \/ Send(s) \/ Leave(s) PROVE Stage(q)'
    <2>1. /\ UNCHANGED <<sessionVars, streamVars>>
          /\ client[q] \in {"gone", "left"} => client'[q] = client[q]
      BY <1>1 DEF Connect, Send, Leave, TypeOK
    <2>2. OpsOf(q)' = OpsOf(q) /\ ThreadsIn(q)' = ThreadsIn(q)
      BY <2>1 DEF sessionVars, OpsOf, ThreadsIn
    <2> QED
      BY <2>1, <2>2, StageKept DEF sessionVars, streamVars
  <1>2. ASSUME NEW s \in Sessions, CompleteRead(s) PROVE Stage(q)'
    <2>1. CASE q = s
      BY <1>2, <2>1, CompleteReadStage
    <2>2. CASE q # s
      <3>1. OpsOf(q)' = OpsOf(q) /\ ThreadsIn(q)' = ThreadsIn(q)
        BY <1>2, <2>2, OpFields, OpsReplaced DEF CompleteRead, ThreadsIn
      <3> QED
        BY <1>2, <3>1, StageKept DEF CompleteRead, streamVars
    <2> QED
      BY <2>1, <2>2
  <1>3. ASSUME NEW s \in Sessions, CompleteWrite(s) PROVE Stage(q)'
    <2>1. CASE q = s
      BY <1>3, <2>1, CompleteWriteStage
    <2>2. CASE q # s
      <3>1. OpsOf(q)' = OpsOf(q) /\ ThreadsIn(q)' = ThreadsIn(q)
        BY <1>3, <2>2, OpFields, OpsReplaced DEF CompleteWrite, ThreadsIn
      <3>2. received'[q] = received[q]
        BY <1>3, <2>2 DEF CompleteWrite, TypeOK
      <3> QED
        BY <1>3, <3>1, <3>2, StageKept DEF CompleteWrite, streamVars
    <2> QED
      BY <2>1, <2>2
  <1>4. ASSUME NEW s \in Sessions, PushRow(s) \/ PushStatus(s) PROVE Stage(q)'
    <2>1. CASE q = s
      BY <1>4, <2>1, PushStage
    <2>2. CASE q # s
      <3>1. /\ state'[q] = state[q] /\ stream'[q] = stream[q]
            /\ UNCHANGED <<client, sessionVars>>
        BY <1>4, <2>2, StreamStep, AppendStream
      <3>2. OpsOf(q)' = OpsOf(q) /\ ThreadsIn(q)' = ThreadsIn(q)
        BY <3>1 DEF sessionVars, OpsOf, ThreadsIn
      <3> QED
        BY <3>1, <3>2, StageKept DEF sessionVars
    <2> QED
      BY <2>1, <2>2
  <1>5. ASSUME NEW s \in Sessions, NEW w \in IoThreads, Handler(w, s) PROVE Stage(q)'
    <2>1. CASE q = s
      BY <1>5, <2>1, AcceptStage, ReadHandlersStage, WriteHandlersStage DEF Handler
    <2>2. CASE q # s
      <3>1. OpsOf(q)' = OpsOf(q)
        <4>1. CASE UNCHANGED ops
          BY <4>1 DEF OpsOf
        <4>2. ASSUME NEW op, op.session = s, ops' = ops \union {op} \/ ops' = ops \ {op}
              PROVE  OpsOf(q)' = OpsOf(q)
          BY <2>2, <4>2, OpsAdded, OpsRemoved
        <4>3. CASE Accept(w, s)
          BY <4>2, <4>3, OpFields DEF Accept
        <4>4. CASE OnReadMalformed(w, s)
          BY <2>2, <4>4, OpFields, OpsReplaced DEF OnReadMalformed
        <4>5. CASE OnReadError(w, s) \/ OnReadCommand(w, s) \/ OnRowWritten(w, s)
          BY <4>2, <4>5, OpFields DEF OnReadError, OnReadCommand, OnRowWritten
        <4>6. CASE OnLastWritten(w, s)
          <5>1. PICK m, status : ops' = ops \ {WriteOp(s, m, status)}
            BY <4>6 DEF OnLastWritten
          <5> QED
            BY <4>2, <5>1, OpFields
        <4> QED
          BY <1>5, <4>1, <4>3, <4>4, <4>5, <4>6 DEF Handler, OnReadThrowing
      <3>2. ThreadsIn(q)' = ThreadsIn(q)
        <4>1. CASE UNCHANGED thread
          BY <4>1 DEF ThreadsIn
        <4>2. CASE thread[w] = NoSession /\ thread' = [thread EXCEPT ![w] = s]
          BY <2>2, <4>2, ThreadTaken
        <4> QED
          BY <1>5, <4>1, <4>2
          DEF Handler, Accept, OnReadError, OnReadMalformed, OnReadThrowing, OnReadCommand,
              OnRowWritten, OnLastWritten, Idle
      <3>3. /\ q \in accepted' <=> q \in accepted
            /\ state'[q] = state[q]
            /\ UNCHANGED <<client, input, popped, received, stream>>
        BY <1>5, <2>2
        DEF Handler, Accept, OnReadError, OnReadMalformed, OnReadThrowing, OnReadCommand,
            OnRowWritten, OnLastWritten, Database!Open, TypeOK, streamVars
      <3> QED
        BY <3>1, <3>2, <3>3, StageKept
    <2> QED
      BY <2>1, <2>2
  <1>6. ASSUME NEW w \in IoThreads, PopMessage(w) PROVE Stage(q)'
    <2>1. thread[w] \in Sessions
      BY <1>6 DEF PopMessage, TypeOK
    <2>2. CASE q = thread[w]
      BY <1>6, <2>1, <2>2, PopStage
    <2>3. CASE q # thread[w]
      <3>1. PICK op : op.session = thread[w] /\ ops' = ops \union {op}
        BY <1>6, OpFields DEF PopMessage
      <3>2. thread' = [thread EXCEPT ![w] = NoSession]
            /\ UNCHANGED <<client, input, accepted, received, state, stream>>
        BY <1>6 DEF PopMessage, streamVars
      <3>3. OpsOf(q)' = OpsOf(q) /\ ThreadsIn(q)' = ThreadsIn(q)
        BY <2>1, <2>3, <3>1, <3>2, OpsAdded, ThreadFreed
      <3>4. popped'[q] = popped[q]
        BY <1>6, <2>3 DEF PopMessage, TypeOK
      <3> QED
        BY <3>2, <3>3, <3>4, StageKept
    <2> QED
      BY <2>2, <2>3
  <1>7. CASE UNCHANGED vars
    <2>1. OpsOf(q)' = OpsOf(q) /\ ThreadsIn(q)' = ThreadsIn(q)
      BY <1>7 DEF vars, sessionVars, OpsOf, ThreadsIn
    <2> QED
      BY <1>7, <2>1, StageKept DEF vars, sessionVars, streamVars
  <1> QED
    BY <1>1, <1>2, <1>3, <1>4, <1>5, <1>6, <1>7 DEF Next

\* Every session is in one of the stages at any time.
THEOREM SessionInvCorrect == Spec => []SessionInv
  <1>1. Init => SessionInv
    BY InitTypes, InitStages DEF SessionInv
  <1>2. SessionInv /\ [Next]_vars => SessionInv'
    <2> SUFFICES ASSUME SessionInv, [Next]_vars PROVE SessionInv'
      OBVIOUS
    <2>1. TypeOK' /\ (\A s \in Sessions : StreamOK(s))'
      BY StepTypes, StepStreams DEF SessionInv
    <2>2. (\A s \in Sessions : Stage(s))'
      BY StepStages
    <2> QED
      BY <2>1, <2>2 DEF SessionInv
  <1> QED
    BY <1>1, <1>2, PTL DEF Spec

-------------------------------------------------------------------------------
(* What the stages give *)

\* What has been sent is the beginning of the stream.
LEMMA SentPrefix ==
    ASSUME TypeOK, NEW s \in Sessions, NEW n \in Int, Sent(s, n)
    PROVE  /\ Len(received[s]) = n /\ n \in Nat /\ n <= Len(stream[s])
           /\ received[s] = SubSeq(stream[s], 1, Len(received[s]))
  <1>1. /\ received[s] \in Seq(Messages) /\ stream[s] \in Seq(Messages)
        /\ Len(received[s]) \in Nat /\ Len(stream[s]) \in Nat
    BY LenProperties DEF TypeOK
  <1>2. n \in Nat /\ Len(received[s]) = n /\ n <= Len(stream[s])
    BY <1>1 DEF Sent
  <1> DEFINE prefix == SubSeq(stream[s], 1, n)
  <1>3. \A i \in 1 .. n : stream[s][i] \in Messages
    BY <1>1, <1>2, ElementOfSeq
  <1>4. /\ prefix \in Seq(Messages) /\ Len(prefix) = n
        /\ \A i \in 1 .. n : prefix[i] = stream[s][i]
    BY <1>1, <1>2, <1>3, SubSeqProperties
  <1>5. \A i \in 1 .. n : received[s][i] = prefix[i]
    BY <1>4 DEF Sent
  <1>6. received[s] = prefix
    BY <1>1, <1>2, <1>4, <1>5, SeqEqual
  <1> QED
    BY <1>2, <1>6

LEMMA StageSingle ==
    ASSUME NEW s \in Sessions, Stage(s)
    PROVE  Cardinality(OpsOf(s)) + Cardinality(ThreadsIn(s)) <= 1
  <1>1. /\ Cardinality({}) = 0
        /\ \A x : Cardinality({x}) = 1
    BY FS_EmptySet, FS_Singleton
  <1>2. \/ OpsOf(s) = {} /\ ThreadsIn(s) = {}
        \/ (\E op : OpsOf(s) = {op}) /\ ThreadsIn(s) = {}
        \/ OpsOf(s) = {} /\ \E w : ThreadsIn(s) = {w}
    BY DEF Stage, Unaccepted, Reading, Unread, Refusing, Refused, Popping, Writing,
           Answered, Quiet, Only
  <1>3. CASE OpsOf(s) = {} /\ ThreadsIn(s) = {}
    BY <1>1, <1>3
  <1>4. CASE (\E op : OpsOf(s) = {op}) /\ ThreadsIn(s) = {}
    <2>1. Cardinality(OpsOf(s)) = 1 /\ Cardinality(ThreadsIn(s)) = 0
      BY <1>1, <1>4
    <2> QED
      BY <2>1
  <1>5. CASE OpsOf(s) = {} /\ \E w : ThreadsIn(s) = {w}
    <2>1. Cardinality(OpsOf(s)) = 0 /\ Cardinality(ThreadsIn(s)) = 1
      BY <1>1, <1>5
    <2> QED
      BY <2>1
  <1> QED
    BY <1>2, <1>3, <1>4, <1>5

LEMMA StageInOrder ==
    ASSUME TypeOK, NEW s \in Sessions, Stage(s)
    PROVE  InOrder(s)
  <1>1. popped[s] \in Nat /\ Len(stream[s]) \in Nat
    BY LenProperties DEF TypeOK
  <1>2. CASE Unasked(s) /\ received[s] = << >>
    <2>1. popped[s] = 0 /\ stream[s] = << >> /\ Len(received[s]) = 0 /\ Len(stream[s]) = 0
      BY <1>2 DEF Unasked
    <2>2. Sent(s, 0)
      BY <2>1 DEF Sent
    <2> QED
      BY <1>2, <2>1, <2>2, SentPrefix DEF InOrder
  <1>3. CASE Refusing(s) \/ Refused(s)
    BY <1>3 DEF Refusing, Refused, Unasked, InOrder
  <1>4. ASSUME Asked(s), NEW n \in Int, Sent(s, n), n <= popped[s], popped[s] <= Len(stream[s])
        PROVE  InOrder(s)
    BY <1>4, SentPrefix DEF InOrder, Asked
  <1>5. CASE Popping(s)
    BY <1>1, <1>4, <1>5 DEF Popping, Sent
  <1>6. CASE Writing(s)
    <2>1. \E n \in Int : Sent(s, n) /\ n <= popped[s]
      BY <1>1, <1>6 DEF Writing
    <2> QED
      BY <1>1, <1>4, <1>6, <2>1 DEF Writing
  <1>7. CASE Answered(s)
    <2>1. \E n \in Int : Sent(s, n) /\ n <= popped[s]
      BY <1>1, <1>7 DEF Answered
    <2> QED
      BY <1>4, <1>7, <2>1 DEF Answered
  <1> QED
    BY <1>2, <1>3, <1>5, <1>6, <1>7 DEF Stage, Unaccepted, Reading, Unread

\* However the handlers of the sessions are spread over threads, those of one
\* session do not overlap, and what its client has been sent is the beginning
\* of the answer of the database, in its order.
THEOREM AnswersInOrderCorrect == Spec => []AnswersInOrder
  <1>1. SessionInv => AnswersInOrder
    BY StageSingle, StageInOrder DEF SessionInv, AnswersInOrder, OneActivity
  <1> QED
    BY <1>1, SessionInvCorrect, PTL

\* A session whose client stays ends with the status, after all of the answer.
THEOREM AnswerCompleteCorrect == Spec => []AnswerComplete
  <1>1. ASSUME SessionInv, NEW s \in Sessions, Over(s), client[s] \in {"connecting", "sent"}
        PROVE  /\ received[s] # << >>
               /\ received[s][Len(received[s])] \in Statuses
               /\ input[s] = "command" => received[s] = stream[s]
    <2>1. Refused(s) \/ Answered(s)
      <3>1. Stage(s)
        BY <1>1 DEF SessionInv
      <3>2. s \in accepted /\ OpsOf(s) = {} /\ ThreadsIn(s) = {}
        BY <1>1 DEF Over
      <3>3. \A x : {x} # {}
        OBVIOUS
      <3> QED
        BY <1>1, <3>1, <3>2, <3>3
        DEF Stage, Unaccepted, Reading, Unread, Refusing, Popping, Writing, Only
    <2>2. CASE Refused(s)
      <3>1. received[s] = <<"error">> /\ input[s] = "malformed"
        BY <1>1, <2>2 DEF Refused
      <3> QED
        BY <3>1 DEF Statuses
    <2>3. CASE Answered(s)
      <3>1. /\ state[s] = "closed" /\ popped[s] = Len(stream[s])
            /\ Sent(s, popped[s])
        BY <1>1, <2>3 DEF Answered
      <3>2. /\ TypeOK /\ stream[s] \in Seq(Messages) /\ Len(stream[s]) \in Nat
            /\ received[s] \in Seq(Messages)
        BY <1>1, LenProperties DEF SessionInv, TypeOK
      <3>3. Len(stream[s]) > 0 /\ stream[s][Len(stream[s])] \in Statuses
        BY <1>1, <3>1, <3>2 DEF SessionInv, StreamOK
      <3>4. /\ Len(received[s]) = Len(stream[s])
            /\ \A i \in 1 .. Len(stream[s]) : received[s][i] = stream[s][i]
        BY <3>1 DEF Sent
      <3>5. received[s] = stream[s]
        BY <3>2, <3>4, SeqEqual
      <3>6. received[s] # << >>
        BY <3>2, <3>3, <3>4
      <3> QED
        BY <3>3, <3>5, <3>6
    <2> QED
      BY <2>1, <2>2, <2>3
  <1>2. SessionInv => AnswerComplete
    BY <1>1 DEF AnswerComplete
  <1> QED
    BY <1>2, SessionInvCorrect, PTL
===============================================================================
