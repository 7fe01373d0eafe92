------------------------------ MODULE JoinServer ------------------------------
(***************************************************************************)
(* The TCP front of 11_join_server (server.cpp, parser.cpp): TServer       *)
(* accepts connections, a TSession per connection reads one command, hands *)
(* it to the database and writes the messages of the result queue back.    *)
(*                                                                         *)
(* All handlers run on the threads of one io_context, without strands, and *)
(* DoWriteQueueMessage blocks its thread in Pop.  The database is used     *)
(* through ResultStream, which Database implements.  The socket operations *)
(* (boost::asio) and the clients are the environment.                      *)
(***************************************************************************)
EXTENDS Naturals, Sequences, FiniteSets

CONSTANTS Sessions,    \* the connections that clients may make
          IoThreads,   \* the most threads that run the io_context
          Inputs,      \* what the first chunk read from a client may be
          MaxRows,     \* bound: rows the database sends for one command
          NoSession    \* a thread that runs no handler

\* A chunk is one command ended by a newline, something the parser refuses (an
\* unknown command, a wrong number of terms, a line cut by TCP before its
\* newline), or a command whose row id makes std::stoi throw.
Outcomes == {"command", "malformed", "throwing"}

ASSUME InputsAssumption == Inputs \subseteq Outcomes
ASSUME MaxRowsAssumption == MaxRows \in Nat
ASSUME NoSessionAssumption == NoSession \notin Sessions

RowMessage == "row"
Statuses == {"success", "error"}
Messages == {RowMessage} \union Statuses

VARIABLES client,    \* "idle", "connecting", "sent" for a client that waits for its
                     \* answer, "gone" if it left before it sent, "left" if after
          input,     \* the chunk the client of a session sends
          accepted,  \* sessions that have been started
          ops,       \* asynchronous operations of sessions, pending or completed
          threads,   \* those of IoThreads that the machine is good for
          thread,    \* the session in whose Pop a thread is, or NoSession
          popped,    \* number of messages a session has taken from its queue
          received,  \* what its client has been sent
          process,   \* "up", or "down" after an uncaught exception
          state, stream   \* the result queues: see ResultStream

sessionVars == <<input, accepted, ops, threads, thread, popped, received, process>>
streamVars == <<state, stream>>
vars == <<client, input, accepted, ops, threads, thread, popped, received, process,
          state, stream>>

Database == INSTANCE ResultStream WITH
                Requests <- Sessions, Rows <- {RowMessage}

\* An operation reads, or writes a message; it is pending, then ok or failed.
ReadOp(s, status) == [session |-> s, kind |-> "read", message |-> "none", status |-> status]
WriteOp(s, m, status) == [session |-> s, kind |-> "write", message |-> m, status |-> status]

Replace(old, new) == (ops \ {old}) \union {new}

\* main starts as many threads as hardware_concurrency says, four at most; if
\* it says 0, which it may, main returns at once.
Init ==
    /\ client = [s \in Sessions |-> "idle"]
    /\ input \in [Sessions -> Inputs]
    /\ accepted = {}
    /\ ops = {}
    /\ threads \in SUBSET IoThreads
    /\ thread = [w \in IoThreads |-> NoSession]
    /\ popped = [s \in Sessions |-> 0]
    /\ received = [s \in Sessions |-> << >>]
    /\ process = IF threads = {} THEN "down" ELSE "up"
    /\ Database!StreamInit

-------------------------------------------------------------------------------
(* The environment: clients and sockets *)

Connect(s) ==
    /\ client[s] = "idle"
    /\ client' = [client EXCEPT ![s] = "connecting"]
    /\ UNCHANGED <<sessionVars, streamVars>>

Send(s) ==
    /\ client[s] = "connecting"
    /\ client' = [client EXCEPT ![s] = "sent"]
    /\ UNCHANGED <<sessionVars, streamVars>>

Leave(s) ==
    /\ \/ client[s] = "connecting" /\ client' = [client EXCEPT ![s] = "gone"]
       \/ client[s] = "sent" /\ client' = [client EXCEPT ![s] = "left"]
    /\ UNCHANGED <<sessionVars, streamVars>>

\* A read completes with what the client sent, or with an error if it sent nothing.
CompleteRead(s) ==
    /\ ReadOp(s, "pending") \in ops
    /\ \/ /\ client[s] \in {"sent", "left"}
          /\ ops' = Replace(ReadOp(s, "pending"), ReadOp(s, "ok"))
       \/ /\ client[s] = "gone"
          /\ ops' = Replace(ReadOp(s, "pending"), ReadOp(s, "failed"))
    /\ UNCHANGED <<client, input, threads, accepted, thread, popped, received, process, streamVars>>

\* A write delivers its message; once the client has left it may fail, or fill
\* a socket nobody reads.
CompleteWrite(s) ==
    /\ \E m \in Messages :
        /\ WriteOp(s, m, "pending") \in ops
        /\ \/ /\ ops' = Replace(WriteOp(s, m, "pending"), WriteOp(s, m, "ok"))
              /\ received' = [received EXCEPT ![s] = Append(@, m)]
           \/ /\ client[s] = "left"
              /\ ops' = Replace(WriteOp(s, m, "pending"), WriteOp(s, m, "failed"))
              /\ UNCHANGED received
    /\ UNCHANGED <<client, input, threads, accepted, thread, popped, process, streamVars>>

-------------------------------------------------------------------------------
(* The handlers, each run by a thread w that is in none *)

Idle(w) == process = "up" /\ w \in threads /\ thread[w] = NoSession

\* The accept handler starts the session, whose Start is DoRead, and accepts again.
Accept(w, s) ==
    /\ Idle(w)
    /\ client[s] # "idle"
    /\ s \notin accepted
    /\ accepted' = accepted \union {s}
    /\ ops' = ops \union {ReadOp(s, "pending")}
    /\ UNCHANGED <<client, input, threads, thread, popped, received, process, streamVars>>

\* The read failed: the session has nothing more to do and goes away.
OnReadError(w, s) ==
    /\ Idle(w)
    /\ ReadOp(s, "failed") \in ops
    /\ ops' = ops \ {ReadOp(s, "failed")}
    /\ UNCHANGED <<client, input, threads, accepted, thread, popped, received, process, streamVars>>

\* Parser_.Handle refuses the chunk: DoWriteStatus, and nothing after it.
OnReadMalformed(w, s) ==
    /\ Idle(w)
    /\ ReadOp(s, "ok") \in ops
    /\ input[s] = "malformed"
    /\ ops' = Replace(ReadOp(s, "ok"), WriteOp(s, "error", "pending"))
    /\ UNCHANGED <<client, input, threads, accepted, thread, popped, received, process, streamVars>>

\* std::stoi throws through io_context::run and the function of the thread,
\* where nothing catches: std::terminate.
OnReadThrowing(w, s) ==
    /\ Idle(w)
    /\ ReadOp(s, "ok") \in ops
    /\ input[s] = "throwing"
    /\ process' = "down"
    /\ UNCHANGED <<client, input, threads, accepted, ops, thread, popped, received, streamVars>>

\* HandleCommand, and DoWriteQueueMessage up to its Pop.
OnReadCommand(w, s) ==
    /\ Idle(w)
    /\ ReadOp(s, "ok") \in ops
    /\ input[s] = "command"
    /\ Database!Open(s)
    /\ ops' = ops \ {ReadOp(s, "ok")}
    /\ thread' = [thread EXCEPT ![w] = s]
    /\ UNCHANGED <<client, input, threads, accepted, popped, received, process>>

\* Mutant: the next row is fetched while the previous one is being written.
PopMessageAhead(w) ==
    LET s == thread[w]
    IN  /\ process = "up"
        /\ s # NoSession
        /\ popped[s] < Len(stream[s])
        /\ popped' = [popped EXCEPT ![s] = @ + 1]
        /\ ops' = ops \union {WriteOp(s, stream[s][popped[s] + 1], "pending")}
        /\ thread' = [thread EXCEPT ![w] =
                        IF stream[s][popped[s] + 1] = RowMessage THEN s ELSE NoSession]
        /\ UNCHANGED <<client, input, threads, accepted, received, process, streamVars>>

\* Pop returns a message as soon as there is one; it is put in Buffer_ and
\* written, and the thread is free again.
PopMessage(w) ==
    LET s == thread[w]
    IN  /\ process = "up"
        /\ s # NoSession
        /\ popped[s] < Len(stream[s])
        /\ popped' = [popped EXCEPT ![s] = @ + 1]
        /\ ops' = ops \union {WriteOp(s, stream[s][popped[s] + 1], "pending")}
        /\ thread' = [thread EXCEPT ![w] = NoSession]
        /\ UNCHANGED <<client, input, threads, accepted, received, process, streamVars>>

\* Mutant: `finished` is not looked at.
OnRowWrittenAlways(w, s) ==
    /\ Idle(w)
    /\ \E m \in Messages :
        /\ WriteOp(s, m, "ok") \in ops
        /\ input[s] = "command"
        /\ ops' = ops \ {WriteOp(s, m, "ok")}
    /\ thread' = [thread EXCEPT ![w] = s]
    /\ UNCHANGED <<client, input, threads, accepted, popped, received, process, streamVars>>

\* Mutant: the session stops after a row.
OnRowWrittenOnce(w, s) ==
    /\ Idle(w)
    /\ WriteOp(s, RowMessage, "ok") \in ops
    /\ ops' = ops \ {WriteOp(s, RowMessage, "ok")}
    /\ UNCHANGED <<client, input, threads, accepted, thread, popped, received, process, streamVars>>

\* A row was written: on to the next message.
OnRowWritten(w, s) ==
    /\ Idle(w)
    /\ WriteOp(s, RowMessage, "ok") \in ops
    /\ ops' = ops \ {WriteOp(s, RowMessage, "ok")}
    /\ thread' = [thread EXCEPT ![w] = s]
    /\ UNCHANGED <<client, input, threads, accepted, popped, received, process, streamVars>>

\* A status was written, or a write failed: the session goes away.
OnLastWritten(w, s) ==
    /\ Idle(w)
    /\ \E m \in Messages, status \in {"ok", "failed"} :
        /\ m \in Statuses \/ status = "failed"
        /\ WriteOp(s, m, status) \in ops
        /\ ops' = ops \ {WriteOp(s, m, status)}
    /\ UNCHANGED <<client, input, threads, accepted, thread, popped, received, process, streamVars>>

-------------------------------------------------------------------------------
(* The database *)

PushRow(s) ==
    /\ process = "up"
    /\ Len(stream[s]) < MaxRows
    /\ Database!Emit(s)
    /\ UNCHANGED <<client, sessionVars>>

PushStatus(s) ==
    /\ process = "up"
    /\ Database!Close(s)
    /\ UNCHANGED <<client, sessionVars>>

-------------------------------------------------------------------------------

Handler(w, s) ==
    \/ Accept(w, s)
    \/ OnReadError(w, s)
    \/ OnReadMalformed(w, s)
    \/ OnReadThrowing(w, s)
    \/ OnReadCommand(w, s)
    \/ OnRowWritten(w, s)
    \/ OnLastWritten(w, s)

Next ==
    \/ \E s \in Sessions :
        \/ Connect(s) \/ Send(s) \/ Leave(s)
        \/ CompleteRead(s) \/ CompleteWrite(s)
        \/ PushRow(s) \/ PushStatus(s)
        \/ \E w \in IoThreads : Handler(w, s)
    \/ \E w \in IoThreads : PopMessage(w)

\* The io_context runs every completed handler once a thread is free, sockets
\* complete what they can, and the database answers (ResultStream).  Clients
\* promise nothing.
Fairness ==
    /\ \A s \in Sessions : /\ SF_vars(\E w \in IoThreads : Handler(w, s))
                           /\ WF_vars(CompleteRead(s))
                           /\ WF_vars(CompleteWrite(s))
                           /\ WF_vars(PushStatus(s))
    /\ \A w \in IoThreads : WF_vars(PopMessage(w))

Spec == Init /\ [][Next]_vars /\ Fairness

-------------------------------------------------------------------------------
(* Properties *)

OpsOf(s) == {o \in ops : o.session = s}
ThreadsIn(s) == {w \in IoThreads : thread[w] = s}

\* There is no strand: that no two handlers of a session overlap, and that
\* Buffer_ is not refilled while a write of it is in flight, rests on a session
\* having one operation or one handler at any time.
OneActivity ==
    \A s \in Sessions : Cardinality(OpsOf(s)) + Cardinality(ThreadsIn(s)) <= 1

\* A client gets the messages of its command in the order in which the database
\* pushed them, none twice, none skipped, and nothing but its own.
InOrder(s) ==
    IF input[s] = "command"
    THEN /\ Len(received[s]) <= popped[s]
         /\ popped[s] <= Len(stream[s])
         /\ received[s] = SubSeq(stream[s], 1, Len(received[s]))
    ELSE stream[s] = << >> /\ received[s] \in {<< >>, <<"error">>}

\* Each session answers in order, and nothing overlaps on the way.
AnswersInOrder == OneActivity /\ \A s \in Sessions : InOrder(s)

\* A session that has gone away although its client stayed has delivered all of
\* the answer, to its status.
Over(s) == s \in accepted /\ OpsOf(s) = {} /\ ThreadsIn(s) = {}

AnswerComplete ==
    \A s \in Sessions :
        Over(s) /\ client[s] \in {"connecting", "sent"} =>
            /\ received[s] # << >>
            /\ received[s][Len(received[s])] \in Statuses
            /\ input[s] = "command" => received[s] = stream[s]

\* A client that sent something and stays gets its status, even if there are
\* more sessions than threads and each thread is blocked in a Pop; unless the
\* process went down.
EveryClientAnswered ==
    \A s \in Sessions :
        client[s] = "sent" ~>
            \/ client[s] = "left"
            \/ process = "down"
            \/ \E i \in DOMAIN received[s] : received[s][i] \in Statuses
===============================================================================
