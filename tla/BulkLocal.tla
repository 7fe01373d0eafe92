------------------------------- MODULE BulkLocal -------------------------------
(***************************************************************************)
(* 07_bulk: one parser that reads the standard input to its end            *)
(* (main.cpp, parser.cpp, state.cpp) and prints each block at once, to the *)
(* screen and then to a file named by the second in which its first        *)
(* command was read (printer.cpp).                                         *)
(***************************************************************************)
EXTENDS Braces

CONSTANTS
    BulkSizes,   \* arguments of the program
    MaxLines,    \* bound: lines of the input
    MaxSeconds   \* bound: the clock stops there

\* The argument is stored in a std::size_t.
ASSUME BulkSizesAssumption == BulkSizes \subseteq Nat

VARIABLES
    blockSize, \* BlockSize
    input,     \* history: the lines read so far
    level,     \* TDynamicBlock::NestingLevel, 0 in TNormalBlock
    commands,  \* Commands of the state
    seconds,   \* the system clock
    screen,    \* blocks printed to the standard output
    files,     \* by second: the block in the file of that name
    ended      \* "no", "eof", "thrown" or "crashed"

bulkVars == <<blockSize, input, level, commands, seconds, screen, files, ended>>

BulkInit ==
    /\ blockSize \in BulkSizes
    /\ input = << >>
    /\ level = 0
    /\ commands = << >>
    /\ seconds = 0
    /\ screen = << >>
    /\ files = << >>
    /\ ended = "no"

-------------------------------------------------------------------------------

\* What both printers make of a block with commands.
Emit(block) ==
    /\ screen' = Append(screen, block)
    /\ commands' = << >>
    /\ files' = [s \in DOMAIN files \union {block[1].second} |->
                   IF s = block[1].second THEN block ELSE files[s]]

\* Without a command the screen shows an empty block, and TFilePrinter takes the
\* front of a vector that never held anything and reads through null.
HandleBlock(block) ==
    IF block # << >>
    THEN Emit(block) /\ UNCHANGED ended
    ELSE screen' = Append(screen, block) /\ ended' = "crashed" /\ UNCHANGED <<commands, files>>

HandleIfAny ==
    IF commands # << >> THEN HandleBlock(commands)
                        ELSE UNCHANGED <<screen, commands, files, ended>>

Collected == Append(commands, [n |-> Count(input', Len(input'), "command"), second |-> seconds])

Command ==
    /\ IF level = 0 /\ Len(Collected) = blockSize
       THEN HandleBlock(Collected)
       ELSE commands' = Collected /\ UNCHANGED <<screen, files, ended>>
    /\ UNCHANGED level

BlockStart ==
    /\ level' = level + 1
    /\ IF level = 0 THEN HandleIfAny ELSE UNCHANGED <<screen, commands, files, ended>>

\* Mutant: the nesting level is not looked at.
BlockEndInner ==
    /\ level > 0
    /\ level' = level - 1
    /\ HandleBlock(commands)

BlockEnd ==
    /\ level > 0
    /\ level' = level - 1
    /\ IF level = 1 THEN HandleBlock(commands) ELSE UNCHANGED <<screen, commands, files, ended>>

\* A brace that closes nothing, an empty line: std::invalid_argument.
Throw ==
    /\ ended' = "thrown"
    /\ UNCHANGED <<level, commands, screen, files>>

HandleLine(line) ==
    /\ ended = "no"
    /\ Len(input) < MaxLines
    /\ input' = Append(input, line)
    /\ \/ line = "command" /\ Command
       \/ line = "open" /\ BlockStart
       \/ line = "close" /\ BlockEnd
       \/ line = "" /\ Throw
       \/ line = "close" /\ level = 0 /\ Throw
    /\ UNCHANGED <<blockSize, seconds>>

\* The end of the input: Terminate prints what a normal block has collected.
EndOfFile ==
    /\ ended = "no"
    /\ IF level = 0 /\ commands # << >> THEN Emit(commands)
                                     ELSE UNCHANGED <<screen, commands, files>>
    /\ ended' = "eof"
    /\ UNCHANGED <<blockSize, input, level, seconds>>

Tick ==
    /\ ended = "no"
    /\ seconds < MaxSeconds
    /\ seconds' = seconds + 1
    /\ UNCHANGED <<blockSize, input, level, commands, screen, files, ended>>

BulkStopped == ended # "no" /\ UNCHANGED bulkVars

BulkNext == (\E line \in LineKinds : HandleLine(line)) \/ EndOfFile \/ Tick \/ BulkStopped

BulkSpec == BulkInit /\ [][BulkNext]_bulkVars

-------------------------------------------------------------------------------
(* Properties *)

Numbers(block) == {block[i].n : i \in DOMAIN block}

\* The screen shows the blocks of the reference (Braces) in the order of their
\* commands, each as soon as it is due; of the blocks that began in one second
\* the last one is in the file.  A pair of braces with no command in it ends the
\* program, and nothing but that does so without an exception.
BlocksPrinted ==
    LET blocks == {screen[i] : i \in DOMAIN screen} \ {<< >>}
    IN  /\ {Numbers(b) : b \in blocks} = Bulks(input, blockSize, ended = "eof")
        /\ \A i, j \in DOMAIN screen : \A m \in Numbers(screen[i]), n \in Numbers(screen[j]) :
              i < j => m < n
        /\ \A b \in blocks :
              files[b[1].second] = b
              \/ \E d \in blocks : d[1].second = b[1].second /\ d[1].n > b[1].n
        /\ ended = "crashed" <=> \E p \in OuterPairs(input) : Between(input, p) = {}
===============================================================================
