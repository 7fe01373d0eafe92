------------------------------ MODULE BulkServer ------------------------------
(***************************************************************************)
(* 10_bulk_server behind async::connect, receive and disconnect: the       *)
(* parsers of the connections (parser.cpp, state.cpp), the accumulator     *)
(* they share and those they own (accumulator.cpp), and the printers with  *)
(* their thread pools (printer.cpp), kept by TParserController             *)
(* (async.cpp).                                                            *)
(*                                                                         *)
(* A command outside braces goes to the shared accumulator, which prints   *)
(* a block when it holds as many commands as the bulk size; a "{" prints   *)
(* what the shared accumulator holds; commands inside braces are printed   *)
(* by the outermost "}".  Whoever prints waits for both printers, and      *)
(* keeps the mutex of the shared accumulator if the block came from there. *)
(*                                                                         *)
(* StorageMutex is held shared by HandleLine, so by every client that is   *)
(* inside a line, and exclusively by MakeParser and RemoveParser, whose    *)
(* work is one step.  An exception of a parser leaves the thread that runs *)
(* io_context::run and terminates the process.                             *)
(***************************************************************************)
EXTENDS Integers, Sequences, FiniteSets, Braces

CONSTANTS
    Clients,     \* connections, each with the parser it was given
    BulkSizes,   \* arguments of async::connect
    IoThreads,   \* threads that run the handlers of the connections
    MaxLines     \* bound: lines all clients send

ASSUME IoThreadsAssumption == IoThreads \in Nat \ {0}
ASSUME BulkSizesAssumption == BulkSizes \subseteq Nat
ASSUME MaxLinesAssumption == MaxLines \in Nat

VARIABLES
    pc,          \* where the client, or the handler of its current line, is
    bulk,        \* BlockSize_ of the parser
    input,       \* history: the lines the client has sent
    commands,    \* how many of them are commands
    level,       \* TDynamicBlock::NestingLevel_, 0 in TNormalBlock
    own,         \* TDefaultAccumulator::Buffer_ of the dynamic block
    shared,      \* TThreadSafeGroupingAccumulator::Buffer_
    block,       \* the block the handler has given to the printers
    screen,      \* blocks on the standard output, in order
    files,       \* blocks in files
    terminated,  \* an exception has ended the process
    filePending, fileRunning, fileFinished, filePhase,   \* pool File
    outPending, outRunning, outFinished, outPhase        \* pool StdOut

clientVars == <<pc, bulk, input, commands, level, own, shared, block, terminated>>
fileVars == <<filePending, fileRunning, fileFinished, filePhase>>
outVars == <<outPending, outRunning, outFinished, outPhase>>
vars == <<pc, bulk, input, commands, level, own, shared, block, screen, files,
          terminated, filePending, fileRunning, fileFinished, filePhase,
          outPending, outRunning, outFinished, outPhase>>

Command == [client : Clients, n : Nat]

\* A block remembers which accumulator it was moved from.
Blocks == [origin : {"none", "shared", "own"}, list : Seq(Command)]
Block(origin, list) == [origin |-> origin, list |-> list]
NoBlock == Block("none", << >>)

\* TParserController gives two threads to the files and one to the screen.
FileThreads == 2
StdOutThreads == 1

File == INSTANCE TaskPool WITH
          Tasks <- Blocks, Capacity <- FileThreads,
          pending <- filePending, running <- fileRunning,
          finished <- fileFinished, phase <- filePhase

StdOut == INSTANCE TaskPool WITH
            Tasks <- Blocks, Capacity <- StdOutThreads,
            pending <- outPending, running <- outRunning,
            finished <- outFinished, phase <- outPhase

Init ==
    /\ pc = [c \in Clients |-> "new"]
    /\ bulk \in [Clients -> BulkSizes]
    /\ input = [c \in Clients |-> << >>]
    /\ commands = [c \in Clients |-> 0]
    /\ level = [c \in Clients |-> 0]
    /\ own = [c \in Clients |-> << >>]
    /\ shared = << >>
    /\ block = [c \in Clients |-> NoBlock]
    /\ screen = << >>
    /\ files = {}
    /\ terminated = FALSE
    /\ File!PoolInit
    /\ StdOut!PoolInit

-------------------------------------------------------------------------------
(* Locks *)

\* Clients inside HandleLine: they hold StorageMutex shared and an io thread.
Inside == {c \in Clients : pc[c] \in {"add", "dump", "file", "stdout", "wait"}}

\* Mutant: the mutex is released before the block is given to the printers.
NobodyHolds == {}

\* Who holds the mutex of the shared accumulator between two steps.
Holder == {c \in Clients : /\ pc[c] \in {"file", "stdout", "wait"}
                           /\ block[c].origin = "shared"}

-------------------------------------------------------------------------------
(* connect and disconnect *)

Connect(c) ==
    /\ pc[c] = "new"
    /\ Inside = {}
    /\ pc' = [pc EXCEPT ![c] = "idle"]
    /\ UNCHANGED <<bulk, input, commands, level, own, shared, block, screen, files,
                   terminated, fileVars, outVars>>

\* RemoveParser: TEndOfFile changes nothing in either state, and the commands
\* of an open dynamic block go with the parser.
Disconnect(c) ==
    /\ pc[c] = "idle"
    /\ Inside = {}
    /\ pc' = [pc EXCEPT ![c] = "gone"]
    /\ own' = [own EXCEPT ![c] = << >>]
    /\ UNCHANGED <<bulk, input, commands, level, shared, block, screen, files,
                   terminated, fileVars, outVars>>

-------------------------------------------------------------------------------
(* receive: TParser::HandleLine and the states *)

Lines == UNION {{c} \X (DOMAIN input[c]) : c \in Clients}

Receive(c, line) ==
    /\ pc[c] = "idle"
    /\ Cardinality(Inside) < IoThreads
    /\ Cardinality(Lines) < MaxLines
    /\ input' = [input EXCEPT ![c] = Append(@, line)]
    /\ UNCHANGED <<bulk, shared, screen, files, fileVars, outVars>>

NextCommand(c) == [client |-> c, n |-> commands[c] + 1]

\* A command in TNormalBlock goes for the shared accumulator ...
NormalCommand(c) ==
    /\ Receive(c, "command")
    /\ level[c] = 0
    /\ commands' = [commands EXCEPT ![c] = @ + 1]
    /\ pc' = [pc EXCEPT ![c] = "add"]
    /\ UNCHANGED <<level, own, block, terminated>>

\* ... and in TDynamicBlock into its own.
DynamicCommand(c) ==
    /\ Receive(c, "command")
    /\ level[c] > 0
    /\ commands' = [commands EXCEPT ![c] = @ + 1]
    /\ own' = [own EXCEPT ![c] = Append(@, NextCommand(c))]
    /\ UNCHANGED <<pc, level, block, terminated>>

\* "{": in TNormalBlock the shared accumulator is dumped first.
BlockStart(c) ==
    /\ Receive(c, "open")
    /\ level' = [level EXCEPT ![c] = @ + 1]
    /\ pc' = IF level[c] = 0 THEN [pc EXCEPT ![c] = "dump"] ELSE pc
    /\ UNCHANGED <<commands, own, block, terminated>>

\* Mutant: any "}" ends the dynamic block.
InnerBlockEnd(c) ==
    /\ Receive(c, "close")
    /\ level[c] > 0
    /\ level' = [level EXCEPT ![c] = @ - 1]
    /\ IF own[c] # << >>
       THEN /\ block' = [block EXCEPT ![c] = Block("own", own[c])]
            /\ own' = [own EXCEPT ![c] = << >>]
            /\ pc' = [pc EXCEPT ![c] = "file"]
       ELSE UNCHANGED <<block, own, pc>>
    /\ UNCHANGED <<commands, terminated>>

\* "}" in TDynamicBlock: the outermost one dumps what was collected, if any.
BlockEnd(c) ==
    /\ Receive(c, "close")
    /\ level[c] > 0
    /\ level' = [level EXCEPT ![c] = @ - 1]
    /\ IF level[c] = 1 /\ own[c] # << >>
       THEN /\ block' = [block EXCEPT ![c] = Block("own", own[c])]
            /\ own' = [own EXCEPT ![c] = << >>]
            /\ pc' = [pc EXCEPT ![c] = "file"]
       ELSE UNCHANGED <<block, own, pc>>
    /\ UNCHANGED <<commands, terminated>>

\* "}" in TNormalBlock, and an empty line anywhere, throw std::invalid_argument.
Invalid(c) ==
    /\ \/ Receive(c, "close") /\ level[c] = 0
       \/ Receive(c, "")
    /\ terminated' = TRUE
    /\ UNCHANGED <<pc, commands, level, own, block>>

-------------------------------------------------------------------------------
(* The shared accumulator *)

LastCommand(c) == [client |-> c, n |-> commands[c]]

\* Mutant: one command more than the bulk size.
AddCommandLate(c) ==
    /\ pc[c] = "add"
    /\ Holder = {}
    /\ LET buffer == Append(shared, LastCommand(c))
       IN  IF Len(buffer) = bulk[c] + 1
           THEN /\ block' = [block EXCEPT ![c] = Block("shared", buffer)]
                /\ shared' = << >>
                /\ pc' = [pc EXCEPT ![c] = "file"]
           ELSE /\ shared' = buffer
                /\ pc' = [pc EXCEPT ![c] = "idle"]
                /\ UNCHANGED block
    /\ UNCHANGED <<bulk, input, commands, level, own, screen, files, terminated,
                   fileVars, outVars>>

AddCommand(c) ==
    /\ pc[c] = "add"
    /\ Holder = {}
    /\ LET buffer == Append(shared, LastCommand(c))
       IN  IF Len(buffer) = bulk[c]
           THEN /\ block' = [block EXCEPT ![c] = Block("shared", buffer)]
                /\ shared' = << >>
                /\ pc' = [pc EXCEPT ![c] = "file"]
           ELSE /\ shared' = buffer
                /\ pc' = [pc EXCEPT ![c] = "idle"]
                /\ UNCHANGED block
    /\ UNCHANGED <<bulk, input, commands, level, own, screen, files, terminated,
                   fileVars, outVars>>

\* Mutant: the buffer is copied, not moved, and not cleared.
DumpCopy(c) ==
    /\ pc[c] = "dump"
    /\ Holder = {}
    /\ IF shared # << >>
       THEN /\ block' = [block EXCEPT ![c] = Block("shared", shared)]
            /\ pc' = [pc EXCEPT ![c] = "file"]
       ELSE /\ pc' = [pc EXCEPT ![c] = "idle"]
            /\ UNCHANGED block
    /\ UNCHANGED <<bulk, input, commands, level, own, shared, screen, files, terminated,
                   fileVars, outVars>>

\* Mutant: spins until there is something to dump.
DumpSpin(c) ==
    /\ pc[c] = "dump"
    /\ Holder = {}
    /\ IF shared # << >>
       THEN /\ block' = [block EXCEPT ![c] = Block("shared", shared)]
            /\ pc' = [pc EXCEPT ![c] = "file"]
       ELSE UNCHANGED <<block, pc>>
    /\ shared' = << >>
    /\ UNCHANGED <<bulk, input, commands, level, own, screen, files, terminated,
                   fileVars, outVars>>

Dump(c) ==
    /\ pc[c] = "dump"
    /\ Holder = {}
    /\ IF shared # << >>
       THEN /\ block' = [block EXCEPT ![c] = Block("shared", shared)]
            /\ pc' = [pc EXCEPT ![c] = "file"]
       ELSE /\ pc' = [pc EXCEPT ![c] = "idle"]
            /\ UNCHANGED block
    /\ shared' = << >>
    /\ UNCHANGED <<bulk, input, commands, level, own, screen, files, terminated,
                   fileVars, outVars>>

-------------------------------------------------------------------------------
(* TCompositePrinter::HandleBlock: enqueue on both pools, then wait for both *)

EnqueueFile(c) ==
    /\ pc[c] = "file"
    /\ File!Submit(block[c])
    /\ pc' = [pc EXCEPT ![c] = "stdout"]
    /\ UNCHANGED <<bulk, input, commands, level, own, shared, block, screen, files,
                   terminated, outVars>>

EnqueueStdOut(c) ==
    /\ pc[c] = "stdout"
    /\ StdOut!Submit(block[c])
    /\ pc' = [pc EXCEPT ![c] = "wait"]
    /\ UNCHANGED <<bulk, input, commands, level, own, shared, block, screen, files,
                   terminated, fileVars>>

\* Both futures are ready: the handler returns and gives back its locks.
Printed(c) ==
    /\ pc[c] = "wait"
    /\ block[c] \in fileFinished
    /\ block[c] \in outFinished
    /\ block' = [block EXCEPT ![c] = NoBlock]
    /\ pc' = [pc EXCEPT ![c] = "idle"]
    /\ UNCHANGED <<bulk, input, commands, level, own, shared, screen, files,
                   terminated, fileVars, outVars>>

StartFile == File!Start /\ UNCHANGED <<clientVars, screen, files, outVars>>
StartStdOut == StdOut!Start /\ UNCHANGED <<clientVars, screen, files, fileVars>>

WriteFile(b) ==
    /\ File!Finish(b)
    /\ files' = files \union {b}
    /\ UNCHANGED <<clientVars, screen, outVars>>

WriteStdOut(b) ==
    /\ StdOut!Finish(b)
    /\ screen' = Append(screen, b)
    /\ UNCHANGED <<clientVars, files, fileVars>>

-------------------------------------------------------------------------------

Line(c) ==
    \/ NormalCommand(c)
    \/ DynamicCommand(c)
    \/ BlockStart(c)
    \/ BlockEnd(c)
    \/ Invalid(c)

Handler(c) ==
    \/ AddCommand(c)
    \/ Dump(c)
    \/ EnqueueFile(c)
    \/ EnqueueStdOut(c)
    \/ Printed(c)

Printers ==
    \/ StartFile
    \/ StartStdOut
    \/ \E b \in fileRunning : WriteFile(b)
    \/ \E b \in outRunning : WriteStdOut(b)

\* Every client is gone, or the process is.
Stopped ==
    /\ terminated \/ \A c \in Clients : pc[c] = "gone"
    /\ UNCHANGED vars

Next ==
    \/ /\ ~terminated
       /\ \/ \E c \in Clients : Connect(c) \/ Line(c) \/ Handler(c) \/ Disconnect(c)
          \/ Printers
    \/ Stopped

\* Threads are scheduled; nobody promises to connect, to send or to leave.
Fairness ==
    /\ \A c \in Clients : WF_vars(~terminated /\ Handler(c))
    /\ WF_vars(~terminated /\ StartFile)
    /\ WF_vars(~terminated /\ StartStdOut)
    /\ WF_vars(~terminated /\ \E b \in fileRunning : WriteFile(b))
    /\ WF_vars(~terminated /\ \E b \in outRunning : WriteStdOut(b))

Spec == Init /\ [][Next]_vars /\ Fairness

-------------------------------------------------------------------------------
(* Properties *)

OnScreen == {screen[i] : i \in DOMAIN screen}

\* Where command m is: every entry of a buffer or of a block that holds it.
WaitingAt(m) == {<<"waiting", c>> : c \in {d \in Clients : pc[d] = "add" /\ LastCommand(d) = m}}
SharedAt(m) == {<<"shared", i>> : i \in {j \in DOMAIN shared : shared[j] = m}}
OwnAt(m) ==
    UNION {{<<"own", c, i>> : i \in {j \in DOMAIN own[c] : own[c][j] = m}} : c \in Clients}
PrintingAt(m) ==
    UNION {{<<"printing", c, i>> : i \in {j \in DOMAIN block[c].list : block[c].list[j] = m}} :
              c \in {d \in Clients : block[d] \notin OnScreen}}
ScreenAt(m) ==
    UNION {{<<"screen", b, i>> : i \in {j \in DOMAIN screen[b].list : screen[b].list[j] = m}} :
              b \in DOMAIN screen}

Places(m) ==
    WaitingAt(m) \union SharedAt(m) \union OwnAt(m) \union PrintingAt(m) \union ScreenAt(m)

\* No command is lost or printed twice, whoever flushes the accumulator the
\* clients share; only those of a dynamic block that its client left open, or
\* that nobody ever flushes, are not printed.
CommandInOnePlace ==
    \A c \in Clients : \A n \in 1 .. commands[c] :
        LET places == Places([client |-> c, n |-> n])
        IN  IF pc[c] = "gone" THEN Cardinality(places) <= 1 ELSE Cardinality(places) = 1

\* The commands of a client are printed in the order in which it sent them and
\* none is left behind, although they take two ways, through the accumulator
\* that others flush as well and through its own blocks (state.cpp).
Earlier(i, j, k, l) == i < k \/ (i = k /\ j < l)

PrintedInOrder ==
    \A k \in DOMAIN screen : \A l \in DOMAIN screen[k].list :
        LET m == screen[k].list[l]
        IN  \A n \in 1 .. m.n - 1 :
               \E i \in DOMAIN screen : \E j \in DOMAIN screen[i].list :
                  /\ screen[i].list[j] = [client |-> m.client, n |-> n]
                  /\ Earlier(i, j, k, l)

\* What a client encloses in braces is printed as one block, with nothing of
\* anybody else in it, the braces inside notwithstanding.
DynamicBlocksWhole ==
    \A c \in Clients : ~terminated =>
        LET mine == {b \in OnScreen \union {block[c]} :
                        b.origin = "own" /\ b.list[1].client = c}
        IN  /\ \A b \in mine : \A i \in DOMAIN b.list :
                  b.list[i] = [client |-> c, n |-> b.list[1].n + i - 1]
            /\ {{b.list[i].n : i \in DOMAIN b.list} : b \in mine}
               = {Between(input[c], p) : p \in OuterPairs(input[c])} \ {{}}

\* "if enough data collected, dump it" (accumulator.cpp): when AddCommand
\* returns there are fewer commands in the buffer than the caller's bulk size.
EnoughDataIsDumped ==
    [][\A c \in Clients : pc[c] = "add" /\ pc'[c] = "idle" => Len(shared') < bulk[c]]_vars

\* Whoever waits for the mutex, for a thread of a pool or for its printers
\* gets on: every line a client sends is handled.
EveryLineHandled ==
    \A c \in Clients : c \in Inside ~> (pc[c] = "idle" \/ terminated)
===============================================================================
