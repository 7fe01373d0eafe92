--------------------------------- MODULE Async ---------------------------------
(***************************************************************************)
(* 09_async behind async::connect, receive and disconnect (async.cpp): a   *)
(* parser for each handle with its own accumulator (state.cpp), and        *)
(* printers that write every block to the screen and to a file of its own, *)
(* on two thread pools (printer.cpp).                                      *)
(*                                                                         *)
(* Each handle is used by one thread.  StorageMutex is held shared by      *)
(* HandleLine and exclusively by MakeParser and RemoveParser; RemoveParser *)
(* keeps it while it prints what the accumulator holds.                    *)
(*                                                                         *)
(* The process ends when a parser throws (main gives up, a thread of the   *)
(* tests terminates), and when a block without commands is written to a    *)
(* file: front() of a vector that never held anything reads through null.  *)
(***************************************************************************)
EXTENDS Integers, Sequences, FiniteSets, Braces

CONSTANTS
    Clients,     \* threads, each with a handle
    BulkSizes,   \* arguments of async::connect
    MaxLines,    \* bound: lines all clients send
    MaxSeconds   \* bound: the clock stops there

ASSUME BulkSizesAssumption == BulkSizes \subseteq Nat
ASSUME BoundsAssumption == MaxLines \in Nat /\ MaxSeconds \in Nat

VARIABLES
    pc,          \* where the client is in its call
    bulk,        \* BlockSize of the parser
    input,       \* history: the lines the client has sent
    level,       \* TDynamicBlock::NestingLevel, 0 in TNormalBlock
    buffer,      \* Accumulator of the state the parser is in
    block,       \* the block the call has given to the printers
    instance,    \* which controller Instance points to, 0 for nullptr
    home,        \* the controller that made the parser of the client
    leaving,     \* clients in RemoveParser: they hold StorageMutex exclusively
    seconds,     \* the system clock
    screen,      \* blocks on the standard output
    writer,      \* the block each thread of the file pool is writing
    files,       \* by name: what the files hold
    terminated,
    filePending, fileRunning, fileFinished, filePhase,   \* pool File
    outPending, outRunning, outFinished, outPhase        \* pool StdOut

parserVars == <<bulk, input, level, buffer>>
controllerVars == <<instance, home>>
callVars == <<pc, controllerVars, bulk, input, level, buffer, block, leaving>>
outputVars == <<seconds, screen, writer, files, terminated>>
fileVars == <<filePending, fileRunning, fileFinished, filePhase>>
outVars == <<outPending, outRunning, outFinished, outPhase>>
vars == <<pc, bulk, input, level, buffer, block, instance, home, leaving, seconds, screen, writer,
          files, terminated, filePending, fileRunning, fileFinished, filePhase,
          outPending, outRunning, outFinished, outPhase>>

Command == [n : Nat, second : Nat]

\* A block is told from others by its client and the lines it had sent by then.
Blocks == [client : Clients, line : Nat, list : Seq(Command)]
NoBlock == [client |-> "none", line |-> 0, list |-> << >>]

FileThreads == 1 .. 2
StdOutThreads == 1

File == INSTANCE TaskPool WITH
          Tasks <- Blocks, Capacity <- Cardinality(FileThreads),
          pending <- filePending, running <- fileRunning,
          finished <- fileFinished, phase <- filePhase

StdOut == INSTANCE TaskPool WITH
            Tasks <- Blocks, Capacity <- StdOutThreads,
            pending <- outPending, running <- outRunning,
            finished <- outFinished, phase <- outPhase

Init ==
    /\ pc = [c \in Clients |-> "new"]
    /\ bulk \in [Clients -> BulkSizes]
    /\ input = [c \in Clients |-> << >>]
    /\ level = [c \in Clients |-> 0]
    /\ buffer = [c \in Clients |-> << >>]
    /\ block = [c \in Clients |-> NoBlock]
    /\ instance = 0
    /\ home = [c \in Clients |-> 0]
    /\ leaving = {}
    /\ seconds = 0
    /\ screen = << >>
    /\ writer = [t \in FileThreads |-> NoBlock]
    /\ files = << >>
    /\ terminated = FALSE
    /\ File!PoolInit
    /\ StdOut!PoolInit

Inside == {c \in Clients : pc[c] \in {"file", "stdout", "wait"}}

-------------------------------------------------------------------------------
(* connect, disconnect and receive *)

\* Commands moved out of the accumulator go to the printers.
GiveToPrinters(c, list) ==
    /\ block' = [block EXCEPT ![c] = [client |-> c, line |-> Len(input'[c]), list |-> list]]
    /\ buffer' = [buffer EXCEPT ![c] = << >>]
    /\ pc' = [pc EXCEPT ![c] = "file"]

GiveIfAny(c) ==
    IF buffer[c] # << >> THEN GiveToPrinters(c, buffer[c]) ELSE UNCHANGED <<block, buffer, pc>>

\* Mutant: Instance is not looked at again under InstanceMutex.
CreateControllerBlindly(c) ==
    /\ pc[c] = "create"
    /\ instance' = instance + 1
    /\ pc' = [pc EXCEPT ![c] = "new"]
    /\ UNCHANGED <<home, parserVars, block, leaving, outputVars, fileVars, outVars>>

\* GetInstance has seen nullptr and looks again under InstanceMutex.
CreateController(c) ==
    /\ pc[c] = "create"
    /\ instance' = IF instance = 0 THEN 1 ELSE instance
    /\ pc' = [pc EXCEPT ![c] = "new"]
    /\ UNCHANGED <<home, parserVars, block, leaving, outputVars, fileVars, outVars>>

\* GetInstance, and MakeParser of the controller there is.
Connect(c) ==
    /\ pc[c] = "new"
    /\ IF instance = 0
       THEN /\ pc' = [pc EXCEPT ![c] = "create"]
            /\ UNCHANGED home
       ELSE /\ Inside = {}
            /\ pc' = [pc EXCEPT ![c] = "idle"]
            /\ home' = [home EXCEPT ![c] = instance]
    /\ UNCHANGED <<instance, parserVars, block, leaving, outputVars, fileVars, outVars>>

\* RemoveParser: TNormalBlock prints what it holds, TDynamicBlock drops it.
Disconnect(c) ==
    /\ pc[c] = "idle"
    /\ Inside = {}
    /\ UNCHANGED <<controllerVars, bulk, input, level, outputVars, fileVars, outVars>>
    /\ IF level[c] = 0 /\ buffer[c] # << >>
       THEN /\ GiveToPrinters(c, buffer[c])
            /\ leaving' = leaving \union {c}
       ELSE /\ pc' = [pc EXCEPT ![c] = "gone"]
            /\ buffer' = [buffer EXCEPT ![c] = << >>]
            /\ UNCHANGED <<block, leaving>>

Lines == UNION {{c} \X (DOMAIN input[c]) : c \in Clients}

Receive(c, line) ==
    /\ pc[c] = "idle"
    /\ leaving = {}
    /\ Cardinality(Lines) < MaxLines
    /\ input' = [input EXCEPT ![c] = Append(@, line)]
    /\ UNCHANGED <<controllerVars, bulk, leaving, seconds, screen, writer, files, fileVars, outVars>>

\* A command is registered with the time of its construction.
NewCommand(c) == [n |-> Count(input'[c], Len(input'[c]), "command"), second |-> seconds]

\* Mutant: a block may grow past the bulk size.
NormalCommandLate(c) ==
    /\ Receive(c, "command")
    /\ level[c] = 0
    /\ LET list == Append(buffer[c], NewCommand(c))
       IN  IF Len(list) = bulk[c] + 1
           THEN GiveToPrinters(c, list)
           ELSE buffer' = [buffer EXCEPT ![c] = list] /\ UNCHANGED <<pc, block>>
    /\ UNCHANGED <<level, terminated>>

NormalCommand(c) ==
    /\ Receive(c, "command")
    /\ level[c] = 0
    /\ LET list == Append(buffer[c], NewCommand(c))
       IN  IF Len(list) = bulk[c]
           THEN GiveToPrinters(c, list)
           ELSE buffer' = [buffer EXCEPT ![c] = list] /\ UNCHANGED <<pc, block>>
    /\ UNCHANGED <<level, terminated>>

DynamicCommand(c) ==
    /\ Receive(c, "command")
    /\ level[c] > 0
    /\ buffer' = [buffer EXCEPT ![c] = Append(@, NewCommand(c))]
    /\ UNCHANGED <<pc, block, level, terminated>>

\* "{": TNormalBlock prints what it holds first.
BlockStart(c) ==
    /\ Receive(c, "open")
    /\ level' = [level EXCEPT ![c] = @ + 1]
    /\ IF level[c] = 0 THEN GiveIfAny(c) ELSE UNCHANGED <<block, buffer, pc>>
    /\ UNCHANGED terminated

\* "}" in TDynamicBlock: the outermost one prints the block, even an empty one.
BlockEnd(c) ==
    /\ Receive(c, "close")
    /\ level[c] > 0
    /\ level' = [level EXCEPT ![c] = @ - 1]
    /\ IF level[c] = 1 THEN GiveToPrinters(c, buffer[c]) ELSE UNCHANGED <<block, buffer, pc>>
    /\ UNCHANGED terminated

\* "}" in TNormalBlock, and an empty line anywhere, throw std::invalid_argument.
Invalid(c) ==
    /\ \/ Receive(c, "close") /\ level[c] = 0
       \/ Receive(c, "")
    /\ terminated' = TRUE
    /\ UNCHANGED <<pc, level, buffer, block>>

-------------------------------------------------------------------------------
(* TCompositePrinter::HandleBlock: enqueue on both pools, then wait for both *)

EnqueueFile(c) ==
    /\ pc[c] = "file"
    /\ File!Submit(block[c])
    /\ pc' = [pc EXCEPT ![c] = "stdout"]
    /\ UNCHANGED <<controllerVars, parserVars, block, leaving, outputVars, outVars>>

EnqueueStdOut(c) ==
    /\ pc[c] = "stdout"
    /\ StdOut!Submit(block[c])
    /\ pc' = [pc EXCEPT ![c] = "wait"]
    /\ UNCHANGED <<controllerVars, parserVars, block, leaving, outputVars, fileVars>>

\* Both futures are ready: the call returns and gives back StorageMutex.
Printed(c) ==
    /\ pc[c] = "wait"
    /\ block[c] \in fileFinished
    /\ block[c] \in outFinished
    /\ block' = [block EXCEPT ![c] = NoBlock]
    /\ leaving' = leaving \ {c}
    /\ pc' = [pc EXCEPT ![c] = IF c \in leaving THEN "gone" ELSE "idle"]
    /\ UNCHANGED <<controllerVars, parserVars, outputVars, fileVars, outVars>>

-------------------------------------------------------------------------------
(* TFilePrinter and TStdOutPrinter on the threads of the pools *)

\* Mutant: the name without the time.
NameByThread(t, b) == [second |-> 0, thread |-> t]

\* bulk<second of the first command>_<thread>.log
Name(t, b) == [second |-> b.list[1].second, thread |-> t]

StartFile(t) ==
    /\ writer[t] = NoBlock
    /\ File!Start
    /\ writer' = [writer EXCEPT ![t] = Head(filePending)]
    /\ UNCHANGED <<callVars, seconds, screen, files, terminated, outVars>>

\* Mutant: the block is written again as long as no success was reported.
WriteFileAgain(t) ==
    LET b == writer[t]
    IN  /\ b # NoBlock
        /\ IF b.list = << >>
           THEN terminated' = TRUE /\ UNCHANGED files
           ELSE /\ files' = [n \in DOMAIN files \union {Name(t, b)} |->
                               IF n = Name(t, b) THEN b ELSE files[n]]
                /\ UNCHANGED terminated
        /\ UNCHANGED <<writer, fileVars, callVars, seconds, screen, outVars>>

\* std::ofstream empties a file that is there already.
WriteFile(t) ==
    LET b == writer[t]
    IN  /\ b # NoBlock
        /\ IF b.list = << >>
           THEN terminated' = TRUE /\ UNCHANGED <<writer, files, fileVars>>
           ELSE /\ files' = [n \in DOMAIN files \union {Name(t, b)} |->
                               IF n = Name(t, b) THEN b ELSE files[n]]
                /\ writer' = [writer EXCEPT ![t] = NoBlock]
                /\ File!Finish(b)
                /\ UNCHANGED terminated
        /\ UNCHANGED <<callVars, seconds, screen, outVars>>

StartStdOut == StdOut!Start /\ UNCHANGED <<callVars, outputVars, fileVars>>

WriteStdOut(b) ==
    /\ StdOut!Finish(b)
    /\ screen' = Append(screen, b)
    /\ UNCHANGED <<callVars, seconds, writer, files, terminated, fileVars>>

Tick ==
    /\ seconds < MaxSeconds
    /\ seconds' = seconds + 1
    /\ UNCHANGED <<callVars, screen, writer, files, terminated, fileVars, outVars>>

-------------------------------------------------------------------------------

Line(c) ==
    \/ NormalCommand(c)
    \/ DynamicCommand(c)
    \/ BlockStart(c)
    \/ BlockEnd(c)
    \/ Invalid(c)

Call(c) ==
    \/ EnqueueFile(c)
    \/ EnqueueStdOut(c)
    \/ Printed(c)

Printers ==
    \/ \E t \in FileThreads : StartFile(t) \/ WriteFile(t)
    \/ StartStdOut
    \/ \E b \in outRunning : WriteStdOut(b)

Stopped ==
    /\ terminated \/ \A c \in Clients : pc[c] = "gone"
    /\ UNCHANGED vars

Next ==
    \/ /\ ~terminated
       /\ \/ \E c \in Clients : CreateController(c) \/ Connect(c) \/ Line(c) \/ Call(c) \/ Disconnect(c)
          \/ Printers
          \/ Tick
    \/ Stopped

\* Threads are scheduled; nobody promises to connect, to send or to leave.
Fairness ==
    /\ \A c \in Clients : WF_vars(~terminated /\ Call(c))
    /\ WF_vars(~terminated /\ \E t \in FileThreads : StartFile(t))
    /\ \A t \in FileThreads : WF_vars(~terminated /\ WriteFile(t))
    /\ WF_vars(~terminated /\ StartStdOut)
    /\ WF_vars(~terminated /\ \E b \in outRunning : WriteStdOut(b))

Spec == Init /\ [][Next]_vars /\ Fairness

-------------------------------------------------------------------------------
(* Properties *)

OnScreen == {screen[i] : i \in DOMAIN screen}
Given(c) == {b \in OnScreen \union {block[c]} : b # NoBlock /\ b.client = c}
Numbers(list) == {list[i].n : i \in DOMAIN list}

\* Whatever a client sends is printed in the blocks of the reference, each once,
\* as soon as it is due (state.cpp), and nothing else is; what braces left open
\* enclose is dropped (tests.cpp).
BlocksMatchInput ==
    \A c \in Clients : ~terminated =>
        /\ {Numbers(b.list) : b \in Given(c)} \ {{}}
           = Bulks(input[c], bulk[c], c \in leaving \/ pc[c] = "gone")
        /\ \A b \in Given(c) : \A i \in DOMAIN b.list : b.list[i].n = b.list[1].n + i - 1
        /\ \A b, d \in Given(c) : b # d => Numbers(b.list) \intersect Numbers(d.list) = {}

\* A file holds its block as long as no other block has its first command in the
\* same second, whichever threads write them and when.
FileKept ==
    \A b \in fileFinished :
        (\A d \in fileFinished \ {b} : d.list[1].second # b.list[1].second)
        => \E n \in DOMAIN files : files[n] = b

\* Every thread finds its parser in the controller that Instance points to, even
\* if several threads make the first call of connect at once (tests.cpp).
HandlesKnown ==
    \A c \in Clients : pc[c] \notin {"new", "create"} => home[c] = instance

\* A call that prints returns, also if it keeps StorageMutex from all others.
EveryCallReturns ==
    \A c \in Clients : c \in Inside ~> (pc[c] \in {"idle", "gone"} \/ terminated)
===============================================================================
