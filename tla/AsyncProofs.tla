----------------------------- MODULE AsyncProofs -----------------------------
(***************************************************************************)
(* Theorems about Async, for any clients, bulk sizes and lines.            *)
(***************************************************************************)
EXTENDS Async, BracesProofs

Locations == {"new", "create", "idle", "file", "stdout", "wait", "gone"}

-------------------------------------------------------------------------------
(* One controller *)

\* The controller is made once, and whoever has a parser has it from there.
HandlesInv ==
    /\ pc \in [Clients -> Locations]
    /\ DOMAIN home = Clients
    /\ instance \in {0, 1}
    /\ \A c \in Clients : pc[c] \notin {"new", "create"} => home[c] = instance /\ instance # 0

LEMMA HandlesStep ==
    ASSUME HandlesInv, [Next]_vars
    PROVE  HandlesInv'
  <1> USE DEF HandlesInv, Locations
  <1>1. CASE UNCHANGED vars
    BY <1>1 DEF vars
  <1>2. ASSUME NEW c \in Clients, CreateController(c) PROVE HandlesInv'
    BY <1>2 DEF CreateController
  <1>3. ASSUME NEW c \in Clients, Connect(c) PROVE HandlesInv'
    <2>1. CASE instance = 0
      BY <1>3, <2>1 DEF Connect
    <2>2. CASE instance # 0
      BY <1>3, <2>2 DEF Connect
    <2> QED
      BY <2>1, <2>2
  <1>4. ASSUME NEW c \in Clients, pc[c] \notin {"new", "create"},
               NEW place \in {"idle", "file", "stdout", "wait", "gone"},
               pc' = [pc EXCEPT ![c] = place] \/ pc' = pc, UNCHANGED controllerVars
        PROVE  HandlesInv'
    BY <1>4 DEF controllerVars
  <1>5. ASSUME NEW c \in Clients, Line(c) PROVE HandlesInv'
    <2>1. pc[c] = "idle" /\ UNCHANGED controllerVars
      BY <1>5 DEF Line, NormalCommand, DynamicCommand, BlockStart, BlockEnd, Invalid, Receive
    <2>2. pc' = [pc EXCEPT ![c] = "file"] \/ pc' = pc
      BY <1>5 DEF Line, NormalCommand, DynamicCommand, BlockStart, BlockEnd, Invalid,
                  GiveToPrinters, GiveIfAny
    <2> QED
      BY <1>4, <2>1, <2>2
  <1>6. ASSUME NEW c \in Clients, Call(c) PROVE HandlesInv'
    <2>1. CASE EnqueueFile(c)
      BY <1>4, <2>1 DEF EnqueueFile
    <2>2. CASE EnqueueStdOut(c)
      BY <1>4, <2>2 DEF EnqueueStdOut
    <2>3. CASE Printed(c)
      <3>1. pc' = [pc EXCEPT ![c] = "gone"] \/ pc' = [pc EXCEPT ![c] = "idle"]
        BY <2>3 DEF Printed
      <3> QED
        BY <1>4, <2>3, <3>1 DEF Printed
    <2> QED
      BY <1>6, <2>1, <2>2, <2>3 DEF Call
  <1>7. ASSUME NEW c \in Clients, Disconnect(c) PROVE HandlesInv'
    <2>1. pc' = [pc EXCEPT ![c] = "gone"] \/ pc' = [pc EXCEPT ![c] = "file"]
      BY <1>7 DEF Disconnect, GiveToPrinters
    <2> QED
      BY <1>4, <1>7, <2>1 DEF Disconnect
  <1>8. CASE Printers \/ Tick
    BY <1>8 DEF Printers, Tick, StartFile, WriteFile, StartStdOut, WriteStdOut, callVars,
                controllerVars
  <1>9. CASE Stopped
    BY <1>1, <1>9 DEF Stopped
  <1>10. Next => \/ \E c \in Clients : CreateController(c) \/ Connect(c) \/ Line(c) \/ Call(c) \/ Disconnect(c)
                 \/ Printers \/ Tick \/ Stopped
    BY DEF Next
  <1> QED
    BY <1>1, <1>2, <1>3, <1>5, <1>6, <1>7, <1>8, <1>9, <1>10

\* Every thread has its parser from the one controller that Instance points to,
\* however many of them make the first call of connect at once (async.cpp).
THEOREM HandlesKnownCorrect == Spec => []HandlesKnown
  <1>1. Init => HandlesInv
    BY DEF Init, HandlesInv, Locations
  <1>2. HandlesInv /\ [Next]_vars => HandlesInv'
    BY HandlesStep
  <1>3. HandlesInv => HandlesKnown
    BY DEF HandlesInv, HandlesKnown
  <1> QED
    BY <1>1, <1>2, <1>3, PTL DEF Spec

-------------------------------------------------------------------------------
(* Files *)

\* A block that was written is in the file of its name, or another block with the
\* same second was written too.
FilesInv ==
    \A b \in fileFinished :
        \E t \in FileThreads :
            /\ Name(t, b) \in DOMAIN files
            /\ \/ files[Name(t, b)] = b
               \/ \E d \in fileFinished \ {b} : d.list[1].second = b.list[1].second

LEMMA FilesStep ==
    ASSUME FilesInv, [Next]_vars
    PROVE  FilesInv'
  <1>1. CASE UNCHANGED <<files, fileFinished>>
    BY <1>1 DEF FilesInv, Name
  <1>2. ASSUME NEW t \in FileThreads, WriteFile(t) PROVE FilesInv'
    <2> DEFINE b == writer[t]
    <2>1. CASE b.list = << >>
      BY <1>1, <1>2, <2>1 DEF WriteFile, fileVars
    <2>2. CASE b.list # << >>
      <3>1. /\ files' = [n \in DOMAIN files \union {Name(t, b)} |-> IF n = Name(t, b) THEN b ELSE files[n]]
            /\ fileFinished' = fileFinished \union {b}
        BY <1>2, <2>2 DEF WriteFile, File!Finish
      <3> HIDE DEF b
      <3>2. /\ DOMAIN files' = DOMAIN files \union {Name(t, b)} /\ files'[Name(t, b)] = b
            /\ \A n \in DOMAIN files : n # Name(t, b) => files'[n] = files[n]
        BY <3>1
      <3>3. \A s, r \in FileThreads : \A d, e : Name(s, d) = Name(r, e) => d.list[1].second = e.list[1].second
        BY DEF Name
      <3>4. ASSUME NEW d \in fileFinished'
            PROVE  \E s \in FileThreads :
                      /\ Name(s, d) \in DOMAIN files'
                      /\ \/ files'[Name(s, d)] = d
                         \/ \E e \in fileFinished' \ {d} : e.list[1].second = d.list[1].second
        <4>1. CASE d = b
          BY <3>2, <4>1
        <4>2. CASE d # b
          <5>1. d \in fileFinished
            BY <3>1, <3>4, <4>2
          <5>2. PICK s \in FileThreads :
                   /\ Name(s, d) \in DOMAIN files
                   /\ \/ files[Name(s, d)] = d
                      \/ \E e \in fileFinished \ {d} : e.list[1].second = d.list[1].second
            BY <5>1 DEF FilesInv
          <5>3. Name(s, d) \in DOMAIN files'
            BY <3>2, <5>2
          <5>4. CASE Name(s, d) = Name(t, b)
            <6>1. b.list[1].second = d.list[1].second /\ b \in fileFinished' \ {d}
              BY <3>1, <3>3, <4>2, <5>4
            <6> QED
              BY <5>3, <6>1
          <5>5. CASE Name(s, d) # Name(t, b)
            <6>1. files'[Name(s, d)] = files[Name(s, d)] /\ fileFinished \subseteq fileFinished'
              BY <3>1, <3>2, <5>2, <5>5
            <6> QED
              BY <5>2, <5>3, <6>1
          <5> QED
            BY <5>4, <5>5
        <4> QED
          BY <4>1, <4>2
      <3>5. \A s, d : Name(s, d)' = Name(s, d)
        BY DEF Name
      <3> QED
        BY <3>4 DEF FilesInv, Name
    <2> QED
      BY <2>1, <2>2
  <1>3. ASSUME NEW c \in Clients, CreateController(c) \/ Connect(c) \/ Line(c) \/ Call(c) \/ Disconnect(c)
        PROVE  UNCHANGED <<files, fileFinished>>
    <2>1. CASE Line(c)
      BY <2>1 DEF Line, NormalCommand, DynamicCommand, BlockStart, BlockEnd, Invalid, Receive, fileVars
    <2>2. CASE Call(c)
      BY <2>2 DEF Call, EnqueueFile, EnqueueStdOut, Printed, File!Submit, outputVars, fileVars
    <2>3. CASE CreateController(c) \/ Connect(c) \/ Disconnect(c)
      BY <2>3 DEF CreateController, Connect, Disconnect, outputVars, fileVars
    <2> QED
      BY <1>3, <2>1, <2>2, <2>3
  <1>4. ASSUME NEW t \in FileThreads, StartFile(t) PROVE UNCHANGED <<files, fileFinished>>
    BY <1>4 DEF StartFile, File!Start
  <1>5. CASE StartStdOut \/ (\E b \in outRunning : WriteStdOut(b)) \/ Tick \/ Stopped
    BY <1>1, <1>5 DEF StartStdOut, WriteStdOut, Tick, Stopped, outputVars, fileVars, vars
  <1>6. CASE UNCHANGED vars
    BY <1>1, <1>6 DEF vars
  <1>7. Next => \/ \E c \in Clients : CreateController(c) \/ Connect(c) \/ Line(c) \/ Call(c) \/ Disconnect(c)
                \/ \E t \in FileThreads : StartFile(t) \/ WriteFile(t)
                \/ StartStdOut \/ (\E b \in outRunning : WriteStdOut(b)) \/ Tick \/ Stopped
    BY DEF Next, Printers
  <1> QED
    BY <1>1, <1>2, <1>3, <1>4, <1>5, <1>6, <1>7

\* A block is lost from its file only if another block begins in the same second,
\* whatever the threads of the pool do (printer.cpp).
THEOREM FileKeptCorrect == Spec => []FileKept
  <1>1. Init => FilesInv
    BY DEF Init, FilesInv, File!PoolInit
  <1>2. FilesInv /\ [Next]_vars => FilesInv'
    BY FilesStep
  <1>3. FilesInv => FileKept
    BY DEF FilesInv, FileKept
  <1> QED
    BY <1>1, <1>2, <1>3, PTL DEF Spec

-------------------------------------------------------------------------------
(* Blocks and the numbers of their commands *)

\* The commands from first to last, in order.
Run(list, first, last) ==
    /\ list \in Seq(Command)
    /\ Len(list) = last - first + 1
    /\ \A i \in DOMAIN list : list[i].n = first + i - 1

NumberSets(blocks) == {Numbers(b.list) : b \in blocks} \ {{}}

\* No command twice, none out of order, and all of them before `first`.
WellGiven(blocks, first) ==
    /\ \A b \in blocks : Numbers(b.list) \subseteq 1 .. first - 1
    /\ \A b \in blocks : \A i \in DOMAIN b.list : b.list[i].n = b.list[1].n + i - 1
    /\ \A b, d \in blocks : b # d => Numbers(b.list) \intersect Numbers(d.list) = {}

LEMMA RunNumbers ==
    ASSUME NEW list, NEW first \in Nat, NEW last \in Nat, first <= last + 1, Run(list, first, last)
    PROVE  /\ Numbers(list) = first .. last
           /\ \A i \in DOMAIN list : list[i].n = list[1].n + i - 1
           /\ list = << >> <=> first = last + 1
  <1>1. /\ list \in Seq(Command) /\ Len(list) = last - first + 1
        /\ \A i \in DOMAIN list : list[i].n = first + i - 1
    BY DEF Run
  <1>2. DOMAIN list = 1 .. Len(list) /\ Len(list) \in Nat
    BY <1>1, LenProperties
  <1>3. Numbers(list) \subseteq first .. last
    BY <1>1, <1>2 DEF Numbers
  <1>4. ASSUME NEW n \in first .. last PROVE n \in Numbers(list)
    <2>1. (n - first) + 1 \in DOMAIN list
      BY <1>1, <1>2
    <2>2. list[(n - first) + 1].n = n
      BY <1>1, <2>1
    <2> QED
      BY <2>1, <2>2 DEF Numbers
  <1>5. \A i \in DOMAIN list : list[i].n = list[1].n + i - 1
    <2> TAKE i \in DOMAIN list
    <2>1. 1 \in DOMAIN list
      BY <1>2
    <2>2. list[1].n = first + 1 - 1 /\ list[i].n = first + i - 1
      BY <1>1, <2>1
    <2> QED
      BY <1>2, <2>2
  <1>6. list = << >> <=> Len(list) = 0
    BY <1>1, EmptySeq
  <1>7. Len(list) = 0 <=> first = last + 1
    BY <1>1
  <1> QED
    BY <1>3, <1>4, <1>5, <1>6, <1>7

LEMMA RunAppend ==
    ASSUME NEW list, NEW first \in Nat, NEW last \in Nat, first <= last + 1, Run(list, first, last),
           NEW m \in Command, m.n = last + 1
    PROVE  Run(Append(list, m), first, last + 1) /\ Len(Append(list, m)) = last + 2 - first
  <1>1. /\ list \in Seq(Command) /\ Len(list) = last - first + 1
        /\ \A i \in DOMAIN list : list[i].n = first + i - 1
    BY DEF Run
  <1>2. DOMAIN list = 1 .. Len(list) /\ Len(list) \in Nat
    BY <1>1, LenProperties
  <1>3. /\ Append(list, m) \in Seq(Command) /\ Len(Append(list, m)) = Len(list) + 1
        /\ \A i \in 1 .. Len(list) : Append(list, m)[i] = list[i]
        /\ Append(list, m)[Len(list) + 1] = m
    BY <1>1, AppendProperties
  <1>4. DOMAIN Append(list, m) = 1 .. Len(list) + 1
    BY <1>3, LenProperties
  <1>5. ASSUME NEW i \in 1 .. Len(list) + 1 PROVE Append(list, m)[i].n = first + i - 1
    <2>1. CASE i \in 1 .. Len(list)
      BY <1>1, <1>2, <1>3, <2>1
    <2>2. CASE i = Len(list) + 1
      BY <1>1, <1>3, <2>2
    <2> QED
      BY <1>2, <2>1, <2>2
  <1>6. Len(list) + 1 = (last + 1) - first + 1 /\ Len(list) + 1 = last + 2 - first
    BY <1>1
  <1>7. Run(Append(list, m), first, last + 1)
    BY <1>3, <1>4, <1>5, <1>6 DEF Run
  <1> QED
    BY <1>3, <1>6, <1>7

BlockRun(b, first, last) == Run(b.list, first, last)
With(blocks, b) == blocks \union {b}

\* A block with the commands from first to last is given.
LEMMA BlockGiven ==
    ASSUME NEW blocks, NEW b, NEW first \in Nat \ {0}, NEW last \in Nat,
           first <= last + 1, WellGiven(blocks, first), BlockRun(b, first, last)
    PROVE  /\ WellGiven(With(blocks, b), last + 1)
           /\ first <= last =>
                NumberSets(With(blocks, b)) = NumberSets(blocks) \union {first .. last}
           /\ first = last + 1 => NumberSets(With(blocks, b)) = NumberSets(blocks)
  <1> DEFINE more == With(blocks, b)
  <1>0. more = blocks \union {b}
    BY DEF With
  <1> HIDE DEF more
  <1>1. /\ \A d \in blocks : Numbers(d.list) \subseteq 1 .. first - 1
        /\ \A d \in blocks : \A i \in DOMAIN d.list : d.list[i].n = d.list[1].n + i - 1
        /\ \A d, e \in blocks : d # e => Numbers(d.list) \intersect Numbers(e.list) = {}
    BY DEF WellGiven
  <1>2. /\ Numbers(b.list) = first .. last
        /\ \A i \in DOMAIN b.list : b.list[i].n = b.list[1].n + i - 1
    <2>1. Run(b.list, first, last)
      BY DEF BlockRun
    <2>2. PICK list : list = b.list
      OBVIOUS
    <2>3. /\ Numbers(list) = first .. last
          /\ \A i \in DOMAIN list : list[i].n = list[1].n + i - 1
      BY <2>1, <2>2, RunNumbers
    <2> QED
      BY <2>2, <2>3
  <1>3. ASSUME NEW d \in more PROVE Numbers(d.list) \subseteq 1 .. (last + 1) - 1
    <2>1. CASE d \in blocks
      <3>1. Numbers(d.list) \subseteq 1 .. first - 1 /\ 1 .. first - 1 \subseteq 1 .. (last + 1) - 1
        BY <1>1, <2>1
      <3> QED
        BY <3>1
    <2>2. CASE d = b
      <3>1. first .. last \subseteq 1 .. (last + 1) - 1
        OBVIOUS
      <3> QED
        BY <1>2, <2>2, <3>1
    <2> QED
      BY <1>0, <2>1, <2>2
  <1>4. \A d \in blocks : Numbers(d.list) \intersect Numbers(b.list) = {}
    <2> TAKE d \in blocks
    <2>1. Numbers(d.list) \subseteq 1 .. first - 1
      BY <1>1
    <2>2. (1 .. first - 1) \intersect (first .. last) = {}
      OBVIOUS
    <2> QED
      BY <1>2, <2>1, <2>2
  <1>5. \A d, e \in more : d # e => Numbers(d.list) \intersect Numbers(e.list) = {}
    BY <1>0, <1>1, <1>4
  <1>6. \A d \in more : \A i \in DOMAIN d.list : d.list[i].n = d.list[1].n + i - 1
    BY <1>0, <1>1, <1>2
  <1>7. WellGiven(more, last + 1)
    BY <1>3, <1>5, <1>6 DEF WellGiven
  <1>8. {Numbers(d.list) : d \in more} = {Numbers(d.list) : d \in blocks} \union {Numbers(b.list)}
    BY <1>0
  <1>9. first <= last => first .. last # {}
    <2>1. first <= last => first \in first .. last
      OBVIOUS
    <2> QED
      BY <2>1
  <1>10. first = last + 1 => first .. last = {}
    OBVIOUS
  <1> QED
    BY <1>2, <1>7, <1>8, <1>9, <1>10 DEF NumberSets, more

-------------------------------------------------------------------------------
(* A parser: what it holds and what it has given to the printers *)

ParserOK(list, size, held, blocks, first) ==
    /\ Grouped(list, size, first)
    /\ Run(held, first, Total(list))
    /\ WellGiven(blocks, first)
    /\ NumberSets(blocks) = BulksSoFar(list, size)

Parsed(list, size, held, blocks) == \E first : ParserOK(list, size, held, blocks, first)

\* After the last line.
Ended(list, size, blocks) ==
    /\ \E first : WellGiven(blocks, first)
    /\ NumberSets(blocks) = Bulks(list, size, TRUE)

LEMMA ParserType ==
    ASSUME NEW list, NEW size \in Nat, NEW held, NEW blocks, NEW first,
           ParserOK(list, size, held, blocks, first)
    PROVE  /\ list \in Seq(LineKinds) /\ Len(list) \in Nat /\ Total(list) \in Nat
           /\ first \in Nat \ {0} /\ first <= Total(list) + 1
           /\ Depth(list, Len(list)) \in Nat
           /\ held \in Seq(Command) /\ Len(held) = Total(list) - first + 1
  <1>1. Grouped(list, size, first) /\ Run(held, first, Total(list))
    BY DEF ParserOK
  <1>2. Shaped(list, size, first)
    BY <1>1, GroupedType
  <1> QED
    BY <1>1, <1>2, ShapedType DEF Run

LEMMA RunNothing ==
    ASSUME NEW first \in Nat, NEW last \in Nat, first = last + 1
    PROVE  Run(<< >>, first, last)
  BY DEF Run

\* The number of the next command.
LEMMA NextNumber ==
    ASSUME NEW list \in Seq(LineKinds)
    PROVE  Count(Append(list, "command"), Len(Append(list, "command")), "command") = Total(list) + 1
  <1>1. "command" \in LineKinds
    BY DEF LineKinds
  <1> QED
    BY <1>1, LineAdded, LineCounts DEF Total

\* A command is held back ...
LEMMA CommandHeld ==
    ASSUME NEW list, NEW size \in Nat, NEW held, NEW blocks, Parsed(list, size, held, blocks),
           NEW m \in Command, m.n = Total(list) + 1,
           Depth(list, Len(list)) = 0 => Len(Append(held, m)) # size
    PROVE  Parsed(Append(list, "command"), size, Append(held, m), blocks)
  <1> DEFINE longer == Append(list, "command")
  <1>1. PICK first : ParserOK(list, size, held, blocks, first)
    BY DEF Parsed
  <1>2. /\ Total(list) \in Nat /\ first \in Nat /\ first <= Total(list) + 1
        /\ Grouped(list, size, first) /\ Run(held, first, Total(list))
    BY <1>1, ParserType DEF ParserOK
  <1>3. Run(Append(held, m), first, Total(list) + 1) /\ Len(Append(held, m)) = Total(list) + 2 - first
    BY <1>2, RunAppend
  <1>4. Depth(list, Len(list)) = 0 => Total(list) + 2 - first # size
    BY <1>3
  <1>5. /\ Grouped(longer, size, first)
        /\ BulksSoFar(longer, size) = BulksSoFar(list, size)
        /\ Total(longer) = Total(list) + 1
    BY <1>2, <1>4, GroupedCommand
  <1> HIDE DEF longer
  <1>6. ParserOK(longer, size, Append(held, m), blocks, first)
    BY <1>1, <1>3, <1>5 DEF ParserOK
  <1> QED
    BY <1>6 DEF Parsed, longer

\* ... or completes the block.
LEMMA CommandGiven ==
    ASSUME NEW list, NEW size \in Nat, NEW held, NEW blocks, Parsed(list, size, held, blocks),
           NEW m \in Command, m.n = Total(list) + 1,
           Depth(list, Len(list)) = 0, Len(Append(held, m)) = size,
           NEW b, b.list = Append(held, m)
    PROVE  Parsed(Append(list, "command"), size, << >>, blocks \union {b})
  <1> DEFINE longer == Append(list, "command")
  <1>1. PICK first : ParserOK(list, size, held, blocks, first)
    BY DEF Parsed
  <1>2. /\ Total(list) \in Nat /\ first \in Nat \ {0} /\ first <= Total(list) + 1
        /\ Grouped(list, size, first) /\ Run(held, first, Total(list))
        /\ WellGiven(blocks, first) /\ NumberSets(blocks) = BulksSoFar(list, size)
    BY <1>1, ParserType DEF ParserOK
  <1>3. Run(Append(held, m), first, Total(list) + 1) /\ Len(Append(held, m)) = Total(list) + 2 - first
    BY <1>2, RunAppend
  <1>4. PICK last \in Nat : last = Total(list) + 1
    BY <1>2
  <1>5. /\ Grouped(longer, size, Total(list) + 2)
        /\ BulksSoFar(longer, size) = BulksSoFar(list, size) \union {first .. Total(list) + 1}
        /\ Total(longer) = Total(list) + 1
    BY <1>2, <1>3, GroupedFull
  <1> HIDE DEF longer
  <1>6. Run(b.list, first, last) /\ first <= last /\ first <= last + 1
    BY <1>2, <1>3, <1>4
  <1>7. /\ WellGiven(blocks \union {b}, last + 1)
        /\ NumberSets(blocks \union {b}) = NumberSets(blocks) \union {first .. last}
    <2>1. first \in Nat \ {0} /\ WellGiven(blocks, first)
      BY <1>2
    <2>2. BlockRun(b, first, last) /\ first <= last + 1
      BY <1>6 DEF BlockRun
    <2>3. /\ WellGiven(With(blocks, b), last + 1)
          /\ first <= last => NumberSets(With(blocks, b)) = NumberSets(blocks) \union {first .. last}
      BY <2>1, <2>2, BlockGiven
    <2> QED
      BY <1>6, <2>3 DEF With
  <1>8. Run(<< >>, last + 1, last)
    BY <1>4, RunNothing
  <1>9. last + 1 = Total(list) + 2
    BY <1>2, <1>4
  <1>10. ParserOK(longer, size, << >>, blocks \union {b}, last + 1)
    <2>1. Grouped(longer, size, last + 1) /\ Run(<< >>, last + 1, Total(longer))
      BY <1>4, <1>5, <1>8, <1>9
    <2>2. NumberSets(blocks \union {b}) = BulksSoFar(longer, size)
      BY <1>2, <1>4, <1>5, <1>7
    <2> QED
      BY <1>7, <2>1, <2>2 DEF ParserOK
  <1> QED
    BY <1>10 DEF Parsed, longer

\* A brace inside braces that leaves some open changes nothing.
LEMMA BraceHeld ==
    ASSUME NEW list, NEW size \in Nat, NEW held, NEW blocks, Parsed(list, size, held, blocks),
           NEW line \in {"open", "close"}, Depth(list, Len(list)) > 0,
           Depth(Append(list, line), Len(list) + 1) > 0
    PROVE  Parsed(Append(list, line), size, held, blocks)
  <1>1. PICK first : ParserOK(list, size, held, blocks, first)
    BY DEF Parsed
  <1>2. Grouped(list, size, first)
    BY <1>1 DEF ParserOK
  <1>3. /\ Grouped(Append(list, line), size, first)
        /\ BulksSoFar(Append(list, line), size) = BulksSoFar(list, size)
        /\ Total(Append(list, line)) = Total(list)
    BY <1>2, GroupedNested
  <1>4. ParserOK(Append(list, line), size, held, blocks, first)
    BY <1>1, <1>3 DEF ParserOK
  <1> QED
    BY <1>4 DEF Parsed

\* The outermost brace makes a block of what is held, if anything is.
LEMMA BraceGiven ==
    ASSUME NEW list, NEW size \in Nat, NEW held, NEW blocks, Parsed(list, size, held, blocks),
           NEW line \in {"open", "close"},
           line = "open" => Depth(list, Len(list)) = 0,
           line = "close" => Depth(list, Len(list)) = 1
    PROVE  /\ held = << >> => Parsed(Append(list, line), size, << >>, blocks)
           /\ \A b : b.list = held => Parsed(Append(list, line), size, << >>, blocks \union {b})
  <1> DEFINE longer == Append(list, line)
  <1>1. PICK first : ParserOK(list, size, held, blocks, first)
    BY DEF Parsed
  <1>2. /\ Total(list) \in Nat /\ first \in Nat \ {0} /\ first <= Total(list) + 1
        /\ Grouped(list, size, first) /\ Run(held, first, Total(list))
        /\ WellGiven(blocks, first) /\ NumberSets(blocks) = BulksSoFar(list, size)
    BY <1>1, ParserType DEF ParserOK
  <1>3. /\ Grouped(longer, size, Total(list) + 1)
        /\ first <= Total(list) =>
              BulksSoFar(longer, size) = BulksSoFar(list, size) \union {first .. Total(list)}
        /\ first = Total(list) + 1 => BulksSoFar(longer, size) = BulksSoFar(list, size)
        /\ Total(longer) = Total(list)
    BY <1>2, GroupedBrace
  <1> HIDE DEF longer
  <1>4. Run(<< >>, Total(list) + 1, Total(list))
    BY <1>2, RunNothing
  <1>5. ASSUME held = << >> PROVE Parsed(longer, size, << >>, blocks)
    <2>1. first = Total(list) + 1
      BY <1>2, <1>5, RunNumbers
    <2>2. ParserOK(longer, size, << >>, blocks, first)
      BY <1>2, <1>3, <1>4, <2>1 DEF ParserOK
    <2> QED
      BY <2>2 DEF Parsed
  <1>6. ASSUME NEW b, b.list = held PROVE Parsed(longer, size, << >>, blocks \union {b})
    <2>1. /\ WellGiven(blocks \union {b}, Total(list) + 1)
          /\ first <= Total(list) =>
                NumberSets(blocks \union {b}) = NumberSets(blocks) \union {first .. Total(list)}
          /\ first = Total(list) + 1 => NumberSets(blocks \union {b}) = NumberSets(blocks)
      <3>1. first \in Nat \ {0} /\ WellGiven(blocks, first) /\ first <= Total(list) + 1
            /\ Total(list) \in Nat
        BY <1>2
      <3>2. BlockRun(b, first, Total(list))
        BY <1>2, <1>6 DEF BlockRun
      <3>3. /\ WellGiven(With(blocks, b), Total(list) + 1)
            /\ first <= Total(list) =>
                  NumberSets(With(blocks, b)) = NumberSets(blocks) \union {first .. Total(list)}
            /\ first = Total(list) + 1 => NumberSets(With(blocks, b)) = NumberSets(blocks)
        BY <3>1, <3>2, BlockGiven
      <3> QED
        BY <3>3 DEF With
    <2>2. first <= Total(list) \/ first = Total(list) + 1
      BY <1>2
    <2>3. NumberSets(blocks \union {b}) = BulksSoFar(longer, size)
      <3>1. CASE first <= Total(list)
        BY <1>2, <1>3, <2>1, <3>1
      <3>2. CASE first = Total(list) + 1
        BY <1>2, <1>3, <2>1, <3>2
      <3> QED
        BY <2>2, <3>1, <3>2
    <2>4. ParserOK(longer, size, << >>, blocks \union {b}, Total(list) + 1)
      BY <1>3, <1>4, <2>1, <2>3 DEF ParserOK
    <2> QED
      BY <2>4 DEF Parsed
  <1> QED
    BY <1>5, <1>6 DEF longer

\* After the last line what is outside braces is printed, what is inside is not.
LEMMA InputEnds ==
    ASSUME NEW list, NEW size \in Nat, NEW held, NEW blocks, Parsed(list, size, held, blocks)
    PROVE  /\ Depth(list, Len(list)) # 0 \/ held = << >> => Ended(list, size, blocks)
           /\ Depth(list, Len(list)) = 0 =>
                \A b : b.list = held => Ended(list, size, blocks \union {b})
  <1>1. PICK first : ParserOK(list, size, held, blocks, first)
    BY DEF Parsed
  <1>2. /\ Total(list) \in Nat /\ first \in Nat \ {0} /\ first <= Total(list) + 1
        /\ Grouped(list, size, first) /\ Run(held, first, Total(list))
        /\ WellGiven(blocks, first) /\ NumberSets(blocks) = BulksSoFar(list, size)
    BY <1>1, ParserType DEF ParserOK
  <1>3. PICK all : all = Bulks(list, size, TRUE)
    OBVIOUS
  <1>4. all = BulksSoFar(list, size)
                \union IF Depth(list, Len(list)) = 0 /\ first <= Total(list)
                       THEN {first .. Total(list)} ELSE {}
    BY <1>2, <1>3, GroupedEnd
  <1>5. \A given : (\E n : WellGiven(given, n)) /\ NumberSets(given) = all => Ended(list, size, given)
    BY <1>3 DEF Ended
  <1>6. ASSUME Depth(list, Len(list)) # 0 \/ held = << >> PROVE Ended(list, size, blocks)
    <2>1. ~ (Depth(list, Len(list)) = 0 /\ first <= Total(list))
      <3>1. held = << >> => first = Total(list) + 1
        BY <1>2, RunNumbers
      <3> QED
        BY <1>2, <1>6, <3>1
    <2>2. NumberSets(blocks) = all
      BY <1>2, <1>4, <2>1
    <2> QED
      BY <1>2, <1>5, <2>2
  <1>7. ASSUME Depth(list, Len(list)) = 0, NEW b, b.list = held
        PROVE  Ended(list, size, blocks \union {b})
    <2>1. /\ WellGiven(blocks \union {b}, Total(list) + 1)
          /\ first <= Total(list) =>
                NumberSets(blocks \union {b}) = NumberSets(blocks) \union {first .. Total(list)}
          /\ first = Total(list) + 1 => NumberSets(blocks \union {b}) = NumberSets(blocks)
      <3>1. first \in Nat \ {0} /\ WellGiven(blocks, first) /\ first <= Total(list) + 1
            /\ Total(list) \in Nat
        BY <1>2
      <3>2. BlockRun(b, first, Total(list))
        BY <1>2, <1>7 DEF BlockRun
      <3>3. /\ WellGiven(With(blocks, b), Total(list) + 1)
            /\ first <= Total(list) =>
                  NumberSets(With(blocks, b)) = NumberSets(blocks) \union {first .. Total(list)}
            /\ first = Total(list) + 1 => NumberSets(With(blocks, b)) = NumberSets(blocks)
        BY <3>1, <3>2, BlockGiven
      <3> QED
        BY <3>3 DEF With
    <2>2. NumberSets(blocks \union {b}) = all
      <3>1. CASE first <= Total(list)
        BY <1>2, <1>4, <1>7, <2>1, <3>1
      <3>2. CASE first = Total(list) + 1
        <4>1. ~ (first <= Total(list))
          BY <1>2, <3>2
        <4> QED
          BY <1>2, <1>4, <2>1, <3>2, <4>1
      <3> QED
        BY <1>2, <3>1, <3>2
    <2> QED
      BY <1>5, <2>1, <2>2
  <1> QED
    BY <1>6, <1>7

-------------------------------------------------------------------------------
(* Clients and printers *)

Printing == {"file", "stdout", "wait"}

\* After the last line of the client.
Over(c) == c \in leaving \/ pc[c] = "gone"

ClientOK(c) ==
    /\ pc[c] \in Locations
    /\ bulk[c] \in Nat
    /\ input[c] \in Seq(LineKinds)
    /\ block[c] = NoBlock <=> pc[c] \notin Printing
    /\ block[c] # NoBlock => block[c] \in Blocks /\ block[c].client = c
    /\ c \in leaving => pc[c] \in Printing
    /\ Over(c) => Ended(input[c], bulk[c], Given(c))
    /\ ~ Over(c) => /\ level[c] = Depth(input[c], Len(input[c]))
                    /\ Parsed(input[c], bulk[c], buffer[c], Given(c))

\* A block that was not yet printed is that of the call that waits for it.
OnItsWay(b) == b \in OnScreen \/ (b # NoBlock /\ b.client \in Clients /\ b = block[b.client])

StdOutOK ==
    /\ screen \in Seq(Blocks)
    /\ outPending \in Seq(Blocks)
    /\ outRunning \subseteq Blocks
    /\ outFinished \subseteq OnScreen
    /\ \A b \in outRunning : OnItsWay(b)
    /\ \A i \in DOMAIN outPending : OnItsWay(outPending[i])

DomainsOK ==
    /\ DOMAIN pc = Clients /\ DOMAIN bulk = Clients /\ DOMAIN input = Clients
    /\ DOMAIN level = Clients /\ DOMAIN buffer = Clients /\ DOMAIN block = Clients
    /\ seconds \in Nat

ParserInv == DomainsOK /\ StdOutOK /\ \A c \in Clients : ClientOK(c)

\* Nothing holds of the parsers once the process has ended.
AsyncInv == ~ terminated => ParserInv

OnlyAt(c, f, g) == DOMAIN g = DOMAIN f /\ \A d \in DOMAIN f \ {c} : g[d] = f[d]

LEMMA GivenKept ==
    ASSUME NEW d, screen' = screen, block'[d] = block[d]
    PROVE  Given(d)' = Given(d)
  BY DEF Given, OnScreen, NoBlock

LEMMA GivenMore ==
    ASSUME NEW c, NEW b, screen' = screen, block[c] = NoBlock, block'[c] = b,
           b # NoBlock, b.client = c
    PROVE  Given(c)' = Given(c) \union {b}
  BY DEF Given, OnScreen, NoBlock

LEMMA OtherClient ==
    ASSUME NEW d, ClientOK(d), pc'[d] = pc[d], bulk'[d] = bulk[d], input'[d] = input[d],
           level'[d] = level[d], buffer'[d] = buffer[d], block'[d] = block[d],
           d \in leaving' <=> d \in leaving, Given(d)' = Given(d)
    PROVE  ClientOK(d)'
  <1>1. Over(d)' <=> Over(d)
    BY DEF Over
  <1>2. PICK given : given = Given(d)
    OBVIOUS
  <1> QED
    BY <1>1, <1>2 DEF ClientOK

\* A step of one client.
LEMMA ClientActs ==
    ASSUME ParserInv, NEW c \in Clients,
           UNCHANGED <<bulk, screen, seconds>>,
           OnlyAt(c, pc, pc'), OnlyAt(c, input, input'), OnlyAt(c, level, level'),
           OnlyAt(c, buffer, buffer'), OnlyAt(c, block, block'),
           \A d \in Clients \ {c} : d \in leaving' <=> d \in leaving,
           block'[c] = block[c] \/ block[c] = NoBlock \/ block[c] \in OnScreen,
           ClientOK(c)'
    PROVE  /\ DomainsOK'
           /\ \A d \in Clients : ClientOK(d)'
           /\ \A b : OnItsWay(b) => OnItsWay(b)'
           /\ UNCHANGED <<outPending, outRunning, outFinished>> => ParserInv'
  <1>1. DomainsOK'
    BY DEF ParserInv, DomainsOK, OnlyAt
  <1>2. ASSUME NEW d \in Clients PROVE ClientOK(d)'
    <2>1. CASE d = c
      BY <2>1
    <2>2. CASE d # c
      <3>1. /\ pc'[d] = pc[d] /\ input'[d] = input[d] /\ level'[d] = level[d]
            /\ buffer'[d] = buffer[d] /\ block'[d] = block[d] /\ bulk'[d] = bulk[d]
            /\ d \in leaving' <=> d \in leaving
        BY <2>2 DEF ParserInv, DomainsOK, OnlyAt
      <3>2. Given(d)' = Given(d)
        BY <3>1, GivenKept
      <3> QED
        BY <3>1, <3>2, OtherClient DEF ParserInv
    <2> QED
      BY <2>1, <2>2
  <1>3. OnScreen' = OnScreen
    BY DEF OnScreen
  <1>4. ASSUME NEW b, OnItsWay(b) PROVE OnItsWay(b)'
    <2>1. CASE b \in OnScreen
      BY <1>3, <2>1 DEF OnItsWay
    <2>2. CASE b \notin OnScreen
      <3>1. b # NoBlock /\ b.client \in Clients /\ b = block[b.client]
        BY <1>4, <2>2 DEF OnItsWay
      <3>2. PICK d \in Clients : d = b.client
        BY <3>1
      <3>3. block'[d] = block[d]
        <4>1. CASE d = c
          BY <2>2, <3>1, <3>2, <4>1
        <4>2. CASE d # c
          BY <4>2 DEF ParserInv, DomainsOK, OnlyAt
        <4> QED
          BY <4>1, <4>2
      <3> QED
        BY <3>1, <3>2, <3>3 DEF OnItsWay, NoBlock
    <2> QED
      BY <2>1, <2>2
  <1>5. ASSUME UNCHANGED <<outPending, outRunning, outFinished>> PROVE StdOutOK'
    BY <1>3, <1>4, <1>5 DEF ParserInv, StdOutOK
  <1> QED
    BY <1>1, <1>2, <1>4, <1>5 DEF ParserInv

LEMMA NewBlock ==
    ASSUME NEW c \in Clients, NEW line \in Nat, NEW list \in Seq(Command),
           line > 0 \/ list # << >>
    PROVE  LET b == [client |-> c, line |-> line, list |-> list]
           IN  b \in Blocks /\ b # NoBlock /\ b.client = c /\ b.list = list
  BY DEF Blocks, NoBlock

\* What the call of a client gives to the printers counts as given from here.
LEMMA Gives ==
    ASSUME DomainsOK, NEW c \in Clients, NEW list \in Seq(Command), block[c] = NoBlock,
           screen' = screen, GiveToPrinters(c, list), Len(input'[c]) \in Nat,
           Len(input'[c]) > 0 \/ list # << >>
    PROVE  /\ OnlyAt(c, pc, pc') /\ OnlyAt(c, buffer, buffer') /\ OnlyAt(c, block, block')
           /\ pc'[c] = "file" /\ buffer'[c] = << >>
           /\ block'[c] \in Blocks /\ block'[c] # NoBlock /\ block'[c].client = c
           /\ \E b : b.list = list /\ Given(c)' = Given(c) \union {b}
  <1> DEFINE b == [client |-> c, line |-> Len(input'[c]), list |-> list]
  <1>1. /\ block' = [block EXCEPT ![c] = b]
        /\ buffer' = [buffer EXCEPT ![c] = << >>]
        /\ pc' = [pc EXCEPT ![c] = "file"]
    BY DEF GiveToPrinters
  <1>2. b \in Blocks /\ b # NoBlock /\ b.client = c /\ b.list = list
    <2>1. PICK line \in Nat : line = Len(input'[c])
      OBVIOUS
    <2> QED
      BY <2>1, NewBlock
  <1> HIDE DEF b
  <1>3. /\ OnlyAt(c, pc, pc') /\ OnlyAt(c, buffer, buffer') /\ OnlyAt(c, block, block')
        /\ pc'[c] = "file" /\ buffer'[c] = << >> /\ block'[c] = b
    BY <1>1 DEF OnlyAt, DomainsOK
  <1>4. Given(c)' = Given(c) \union {b}
    BY <1>2, <1>3, GivenMore
  <1> QED
    BY <1>2, <1>3, <1>4

-------------------------------------------------------------------------------
(* A line *)

\* What every line has in common.
LEMMA LineReceived ==
    ASSUME ParserInv, NEW c \in Clients, NEW line \in LineKinds, Receive(c, line)
    PROVE  /\ UNCHANGED <<bulk, screen, seconds, leaving, outPending, outRunning, outFinished>>
           /\ OnlyAt(c, input, input') /\ input'[c] = Append(input[c], line)
           /\ input'[c] \in Seq(LineKinds) /\ Len(input'[c]) = Len(input[c]) + 1
           /\ Len(input[c]) \in Nat /\ Len(input'[c]) > 0
           /\ pc[c] = "idle" /\ block[c] = NoBlock /\ ~ Over(c) /\ c \notin leaving
  <1>1. /\ UNCHANGED <<bulk, screen, seconds, leaving, outPending, outRunning, outFinished>>
        /\ pc[c] = "idle"
        /\ input' = [input EXCEPT ![c] = Append(input[c], line)]
    BY DEF Receive, outVars
  <1>2. OnlyAt(c, input, input') /\ input'[c] = Append(input[c], line)
    BY <1>1 DEF ParserInv, DomainsOK, OnlyAt
  <1>3. input[c] \in Seq(LineKinds)
    BY DEF ParserInv, ClientOK
  <1>4. input'[c] \in Seq(LineKinds) /\ Len(input'[c]) = Len(input[c]) + 1 /\ Len(input[c]) \in Nat
    BY <1>2, <1>3, LineAdded
  <1>5. block[c] = NoBlock /\ ~ Over(c) /\ c \notin leaving
    BY <1>1 DEF ParserInv, ClientOK, Printing, Over
  <1> QED
    BY <1>1, <1>2, <1>4, <1>5

\* What has to be shown of a line, whether a block is given or not.
LEMMA LineHandled ==
    ASSUME ParserInv, NEW c \in Clients, NEW line \in LineKinds, Receive(c, line),
           OnlyAt(c, level, level'), OnlyAt(c, pc, pc'), OnlyAt(c, buffer, buffer'),
           OnlyAt(c, block, block'),
           level'[c] = Depth(input'[c], Len(input'[c])),
           Parsed(input'[c], bulk[c], buffer'[c], Given(c)'),
           \/ pc'[c] = pc[c] /\ block'[c] = block[c]
           \/ pc'[c] = "file" /\ block'[c] \in Blocks /\ block'[c] # NoBlock /\ block'[c].client = c
    PROVE  ParserInv'
  <1>1. /\ UNCHANGED <<bulk, screen, seconds, leaving, outPending, outRunning, outFinished>>
        /\ OnlyAt(c, input, input') /\ input'[c] \in Seq(LineKinds)
        /\ pc[c] = "idle" /\ block[c] = NoBlock /\ ~ Over(c) /\ c \notin leaving
    BY LineReceived
  <1>2. ~ Over(c)' /\ bulk'[c] = bulk[c] /\ bulk[c] \in Nat /\ c \notin leaving'
    BY <1>1 DEF Over, ParserInv, ClientOK
  <1>3. PICK given : given = Given(c)'
    OBVIOUS
  <1>4. pc'[c] \in Locations
    BY <1>1 DEF Locations
  <1>5. block'[c] = NoBlock <=> pc'[c] \notin Printing
    BY <1>1 DEF Printing
  <1>6. block'[c] # NoBlock => block'[c] \in Blocks /\ block'[c].client = c
    BY <1>1
  <1>7. ClientOK(c)'
    BY <1>1, <1>2, <1>3, <1>4, <1>5, <1>6 DEF ClientOK
  <1> QED
    BY <1>1, <1>7, ClientActs

\* The same for a block that is given ...
LEMMA LineGives ==
    ASSUME ParserInv, NEW c \in Clients, NEW line \in LineKinds, Receive(c, line),
           NEW list \in Seq(Command), GiveToPrinters(c, list),
           OnlyAt(c, level, level'), level'[c] = Depth(input'[c], Len(input'[c])),
           \A b : b.list = list => Parsed(input'[c], bulk[c], << >>, Given(c) \union {b})
    PROVE  ParserInv'
  <1>1. screen' = screen /\ block[c] = NoBlock /\ Len(input'[c]) \in Nat /\ Len(input'[c]) > 0
    BY LineReceived
  <1>2. /\ OnlyAt(c, pc, pc') /\ OnlyAt(c, buffer, buffer') /\ OnlyAt(c, block, block')
        /\ pc'[c] = "file" /\ buffer'[c] = << >>
        /\ block'[c] \in Blocks /\ block'[c] # NoBlock /\ block'[c].client = c
        /\ \E b : b.list = list /\ Given(c)' = Given(c) \union {b}
    BY <1>1, Gives DEF ParserInv
  <1>3. Parsed(input'[c], bulk[c], buffer'[c], Given(c)')
    BY <1>2
  <1> QED
    BY <1>2, <1>3, LineHandled

\* ... and for none.
LEMMA LineKeeps ==
    ASSUME ParserInv, NEW c \in Clients, NEW line \in LineKinds, Receive(c, line),
           UNCHANGED <<pc, block>>, OnlyAt(c, buffer, buffer'),
           OnlyAt(c, level, level'), level'[c] = Depth(input'[c], Len(input'[c])),
           Parsed(input'[c], bulk[c], buffer'[c], Given(c))
    PROVE  ParserInv'
  <1>1. screen' = screen
    BY LineReceived
  <1>2. Given(c)' = Given(c)
    BY <1>1, GivenKept
  <1>3. OnlyAt(c, pc, pc') /\ OnlyAt(c, block, block')
    BY DEF OnlyAt
  <1>4. Parsed(input'[c], bulk[c], buffer'[c], Given(c)')
    BY <1>2
  <1> QED
    BY <1>3, <1>4, LineHandled

\* What the parser of a client holds when a line comes.
LEMMA LineFinds ==
    ASSUME ParserInv, NEW c \in Clients, ~ Over(c)
    PROVE  /\ bulk[c] \in Nat /\ input[c] \in Seq(LineKinds) /\ buffer[c] \in Seq(Command)
           /\ level[c] = Depth(input[c], Len(input[c])) /\ level[c] \in Nat
           /\ Parsed(input[c], bulk[c], buffer[c], Given(c))
  <1>1. /\ bulk[c] \in Nat /\ input[c] \in Seq(LineKinds)
        /\ level[c] = Depth(input[c], Len(input[c]))
        /\ Parsed(input[c], bulk[c], buffer[c], Given(c))
    BY DEF ParserInv, ClientOK
  <1>2. PICK first : ParserOK(input[c], bulk[c], buffer[c], Given(c), first)
    BY <1>1 DEF Parsed
  <1> QED
    BY <1>1, <1>2, ParserType

LEMMA CommandNumbered ==
    ASSUME ParserInv, NEW c \in Clients, Receive(c, "command")
    PROVE  /\ NewCommand(c) \in Command
           /\ NewCommand(c).n = Total(input[c]) + 1
           /\ Depth(input'[c], Len(input'[c])) = Depth(input[c], Len(input[c]))
  <1>0. "command" \in LineKinds
    BY DEF LineKinds
  <1>1. input'[c] = Append(input[c], "command") /\ ~ Over(c) /\ Len(input'[c]) = Len(input[c]) + 1
    BY <1>0, LineReceived
  <1>2. PICK list \in Seq(LineKinds) : list = input[c]
    BY <1>1, LineFinds
  <1>3. Count(Append(list, "command"), Len(Append(list, "command")), "command") = Total(list) + 1
    BY NextNumber
  <1>4. Total(list) + 1 \in Nat
    <2>1. PICK first : ParserOK(list, bulk[c], buffer[c], Given(c), first)
      BY <1>1, <1>2, LineFinds DEF Parsed
    <2>2. Total(list) \in Nat
      BY <1>1, <1>2, <2>1, LineFinds, ParserType
    <2> QED
      BY <2>2
  <1>5. NewCommand(c) = [n |-> Total(list) + 1, second |-> seconds]
    BY <1>1, <1>2, <1>3 DEF NewCommand
  <1>6. Depth(Append(list, "command"), Len(list) + 1) = Depth(list, Len(list))
    BY LineCounts
  <1> QED
    BY <1>1, <1>2, <1>4, <1>5, <1>6 DEF Command, ParserInv, DomainsOK

LEMMA NormalCommandStep ==
    ASSUME ParserInv, NEW c \in Clients, NormalCommand(c)
    PROVE  ParserInv'
  <1>0. "command" \in LineKinds /\ Receive(c, "command")
    BY DEF LineKinds, NormalCommand
  <1>1. input'[c] = Append(input[c], "command") /\ ~ Over(c)
    BY <1>0, LineReceived
  <1>2. PICK list \in Seq(LineKinds) : list = input[c]
    BY <1>1, LineFinds
  <1>3. PICK size \in Nat : size = bulk[c]
    BY <1>1, LineFinds
  <1>4. PICK held \in Seq(Command) : held = buffer[c]
    BY <1>1, LineFinds
  <1>5. PICK given : given = Given(c)
    OBVIOUS
  <1>6. PICK m \in Command : m = NewCommand(c) /\ m.n = Total(list) + 1
    BY <1>0, <1>2, CommandNumbered
  <1>7. Depth(list, Len(list)) = 0 /\ Parsed(list, size, held, given) /\ level[c] = 0
    BY <1>1, <1>2, <1>3, <1>4, <1>5, <1>6, LineFinds DEF NormalCommand
  <1>8. level' = level /\ OnlyAt(c, level, level') /\ level'[c] = Depth(input'[c], Len(input'[c]))
    BY <1>0, <1>2, <1>3, <1>4, <1>5, <1>6, <1>7, CommandNumbered DEF NormalCommand, OnlyAt
  <1>9. Append(held, m) \in Seq(Command)
    BY AppendProperties
  <1>10. CASE Len(Append(held, m)) = size
    <2>1. GiveToPrinters(c, Append(held, m))
      BY <1>2, <1>3, <1>4, <1>5, <1>6, <1>10 DEF NormalCommand
    <2>2. \A b : b.list = Append(held, m) => Parsed(Append(list, "command"), size, << >>, given \union {b})
      BY <1>2, <1>3, <1>4, <1>5, <1>6, <1>7, <1>10, CommandGiven
    <2> QED
      BY <1>0, <1>1, <1>2, <1>3, <1>4, <1>5, <1>6, <1>8, <1>9, <2>1, <2>2, LineGives
  <1>11. CASE Len(Append(held, m)) # size
    <2>1. buffer' = [buffer EXCEPT ![c] = Append(held, m)] /\ UNCHANGED <<pc, block>>
      BY <1>2, <1>3, <1>4, <1>5, <1>6, <1>11 DEF NormalCommand
    <2>2. OnlyAt(c, buffer, buffer') /\ buffer'[c] = Append(held, m)
      BY <2>1 DEF ParserInv, DomainsOK, OnlyAt
    <2>3. Parsed(Append(list, "command"), size, Append(held, m), given)
      BY <1>2, <1>3, <1>4, <1>5, <1>6, <1>7, <1>11, CommandHeld
    <2> QED
      BY <1>0, <1>1, <1>2, <1>3, <1>4, <1>5, <1>6, <1>8, <2>1, <2>2, <2>3, LineKeeps
  <1> QED
    BY <1>10, <1>11

LEMMA DynamicCommandStep ==
    ASSUME ParserInv, NEW c \in Clients, DynamicCommand(c)
    PROVE  ParserInv'
  <1>0. "command" \in LineKinds /\ Receive(c, "command")
    BY DEF LineKinds, DynamicCommand
  <1>1. input'[c] = Append(input[c], "command") /\ ~ Over(c)
    BY <1>0, LineReceived
  <1>2. PICK list \in Seq(LineKinds) : list = input[c]
    BY <1>1, LineFinds
  <1>3. PICK size \in Nat : size = bulk[c]
    BY <1>1, LineFinds
  <1>4. PICK held \in Seq(Command) : held = buffer[c]
    BY <1>1, LineFinds
  <1>5. PICK given : given = Given(c)
    OBVIOUS
  <1>6. PICK m \in Command : m = NewCommand(c) /\ m.n = Total(list) + 1
    BY <1>0, <1>2, CommandNumbered
  <1>7. Depth(list, Len(list)) # 0 /\ Parsed(list, size, held, given)
    BY <1>1, <1>2, <1>3, <1>4, <1>5, <1>6, LineFinds DEF DynamicCommand
  <1>8. level' = level /\ OnlyAt(c, level, level') /\ level'[c] = Depth(input'[c], Len(input'[c]))
    BY <1>0, <1>1, <1>2, <1>3, <1>4, <1>5, <1>6, LineFinds, CommandNumbered DEF DynamicCommand, OnlyAt
  <1>9. buffer' = [buffer EXCEPT ![c] = Append(held, m)] /\ UNCHANGED <<pc, block>>
    BY <1>2, <1>3, <1>4, <1>5, <1>6 DEF DynamicCommand
  <1>10. OnlyAt(c, buffer, buffer') /\ buffer'[c] = Append(held, m)
    BY <1>9 DEF ParserInv, DomainsOK, OnlyAt
  <1>11. Parsed(Append(list, "command"), size, Append(held, m), given)
    BY <1>2, <1>3, <1>4, <1>5, <1>6, <1>7, CommandHeld
  <1> QED
    BY <1>0, <1>1, <1>2, <1>3, <1>4, <1>5, <1>6, <1>8, <1>9, <1>10, <1>11, LineKeeps

LEMMA BlockStartStep ==
    ASSUME ParserInv, NEW c \in Clients, BlockStart(c)
    PROVE  ParserInv'
  <1>0. "open" \in LineKinds /\ Receive(c, "open")
    BY DEF LineKinds, BlockStart
  <1>1. input'[c] = Append(input[c], "open") /\ ~ Over(c) /\ Len(input'[c]) = Len(input[c]) + 1
    BY <1>0, LineReceived
  <1>2. PICK list \in Seq(LineKinds) : list = input[c]
    BY <1>1, LineFinds
  <1>3. PICK size \in Nat : size = bulk[c]
    BY <1>1, LineFinds
  <1>4. PICK held \in Seq(Command) : held = buffer[c]
    BY <1>1, LineFinds
  <1>5. PICK given : given = Given(c)
    OBVIOUS
  <1>6. PICK deep \in Nat : deep = level[c]
    BY <1>1, LineFinds
  <1>7. deep = Depth(list, Len(list)) /\ Parsed(list, size, held, given)
    BY <1>1, <1>2, <1>3, <1>4, <1>5, <1>6, LineFinds
  <1>8. Depth(Append(list, "open"), Len(list) + 1) = deep + 1
    BY <1>7, LineCounts
  <1>9. OnlyAt(c, level, level') /\ level'[c] = deep + 1
    BY <1>2, <1>3, <1>4, <1>5, <1>6 DEF BlockStart, ParserInv, DomainsOK, OnlyAt
  <1>10. level'[c] = Depth(input'[c], Len(input'[c]))
    BY <1>1, <1>2, <1>3, <1>4, <1>5, <1>6, <1>8, <1>9
  <1>11. CASE deep = 0 /\ held # << >>
    <2>1. GiveToPrinters(c, held)
      BY <1>2, <1>3, <1>4, <1>5, <1>6, <1>11 DEF BlockStart, GiveIfAny
    <2>2. \A b : b.list = held => Parsed(Append(list, "open"), size, << >>, given \union {b})
      BY <1>7, <1>11, BraceGiven
    <2> QED
      BY <1>0, <1>1, <1>2, <1>3, <1>4, <1>5, <1>6, <1>9, <1>10, <2>1, <2>2, LineGives
  <1>12. CASE ~ (deep = 0 /\ held # << >>)
    <2>1. UNCHANGED <<block, buffer, pc>>
      BY <1>2, <1>3, <1>4, <1>5, <1>6, <1>12 DEF BlockStart, GiveIfAny
    <2>2. Parsed(Append(list, "open"), size, held, given)
      <3>1. CASE deep = 0
        BY <1>7, <1>12, <3>1, BraceGiven
      <3>2. CASE deep # 0
        BY <1>7, <1>8, <3>2, BraceHeld
      <3> QED
        BY <3>1, <3>2
    <2>3. OnlyAt(c, buffer, buffer') /\ buffer'[c] = held
      BY <1>2, <1>3, <1>4, <1>5, <1>6, <2>1 DEF OnlyAt
    <2> QED
      BY <1>0, <1>1, <1>2, <1>3, <1>4, <1>5, <1>6, <1>9, <1>10, <2>1, <2>2, <2>3, LineKeeps
  <1> QED
    BY <1>11, <1>12

LEMMA BlockEndStep ==
    ASSUME ParserInv, NEW c \in Clients, BlockEnd(c)
    PROVE  ParserInv'
  <1>0. "close" \in LineKinds /\ Receive(c, "close")
    BY DEF LineKinds, BlockEnd
  <1>1. input'[c] = Append(input[c], "close") /\ ~ Over(c) /\ Len(input'[c]) = Len(input[c]) + 1
    BY <1>0, LineReceived
  <1>2. PICK list \in Seq(LineKinds) : list = input[c]
    BY <1>1, LineFinds
  <1>3. PICK size \in Nat : size = bulk[c]
    BY <1>1, LineFinds
  <1>4. PICK held \in Seq(Command) : held = buffer[c]
    BY <1>1, LineFinds
  <1>5. PICK given : given = Given(c)
    OBVIOUS
  <1>6. PICK deep \in Nat : deep = level[c]
    BY <1>1, LineFinds
  <1>7. deep = Depth(list, Len(list)) /\ Parsed(list, size, held, given) /\ deep > 0
    BY <1>1, <1>2, <1>3, <1>4, <1>5, <1>6, LineFinds DEF BlockEnd
  <1>8. Depth(Append(list, "close"), Len(list) + 1) = deep - 1
    BY <1>7, LineCounts
  <1>9. OnlyAt(c, level, level') /\ level'[c] = deep - 1
    BY <1>2, <1>3, <1>4, <1>5, <1>6 DEF BlockEnd, ParserInv, DomainsOK, OnlyAt
  <1>10. level'[c] = Depth(input'[c], Len(input'[c]))
    BY <1>1, <1>2, <1>3, <1>4, <1>5, <1>6, <1>8, <1>9
  <1>11. CASE deep = 1
    <2>1. GiveToPrinters(c, held)
      BY <1>2, <1>3, <1>4, <1>5, <1>6, <1>11 DEF BlockEnd
    <2>2. \A b : b.list = held => Parsed(Append(list, "close"), size, << >>, given \union {b})
      BY <1>7, <1>11, BraceGiven
    <2> QED
      BY <1>0, <1>1, <1>2, <1>3, <1>4, <1>5, <1>6, <1>9, <1>10, <2>1, <2>2, LineGives
  <1>12. CASE deep # 1
    <2>1. UNCHANGED <<block, buffer, pc>>
      BY <1>2, <1>3, <1>4, <1>5, <1>6, <1>12 DEF BlockEnd
    <2>2. Parsed(Append(list, "close"), size, held, given)
      BY <1>7, <1>8, <1>12, BraceHeld
    <2>3. OnlyAt(c, buffer, buffer') /\ buffer'[c] = held
      BY <1>2, <1>3, <1>4, <1>5, <1>6, <2>1 DEF OnlyAt
    <2> QED
      BY <1>0, <1>1, <1>2, <1>3, <1>4, <1>5, <1>6, <1>9, <1>10, <2>1, <2>2, <2>3, LineKeeps
  <1> QED
    BY <1>11, <1>12

-------------------------------------------------------------------------------
(* Connecting, printing and leaving *)

LEMMA ConnectStep ==
    ASSUME ParserInv, NEW c \in Clients, CreateController(c) \/ Connect(c)
    PROVE  ParserInv'
  <1>1. /\ UNCHANGED <<bulk, input, level, buffer, block, screen, seconds, leaving,
                       outPending, outRunning, outFinished>>
        /\ pc[c] \in {"new", "create"}
    BY DEF CreateController, Connect, parserVars, outputVars, outVars
  <1>2. PICK place \in {"new", "create", "idle"} : pc' = [pc EXCEPT ![c] = place]
    BY DEF CreateController, Connect
  <1>3. OnlyAt(c, pc, pc') /\ pc'[c] = place
    BY <1>2 DEF ParserInv, DomainsOK, OnlyAt
  <1>4. /\ OnlyAt(c, input, input') /\ OnlyAt(c, level, level') /\ OnlyAt(c, buffer, buffer')
        /\ OnlyAt(c, block, block')
    BY <1>1 DEF OnlyAt
  <1>5. PICK given : given = Given(c) /\ given = Given(c)'
    BY <1>1, GivenKept
  <1>6. ~ Over(c) /\ ~ Over(c)'
    BY <1>1, <1>3 DEF ParserInv, ClientOK, Over, Printing
  <1>7. ClientOK(c)'
    <2>1. ClientOK(c)
      BY DEF ParserInv
    <2>2. /\ bulk'[c] = bulk[c] /\ input'[c] = input[c] /\ level'[c] = level[c]
          /\ buffer'[c] = buffer[c] /\ block'[c] = block[c] /\ leaving' = leaving
      BY <1>1
    <2>3. pc[c] \notin Printing /\ pc'[c] \notin Printing /\ pc'[c] \in Locations
      BY <1>1, <1>3 DEF Printing, Locations
    <2> QED
      BY <1>5, <1>6, <2>1, <2>2, <2>3 DEF ClientOK
  <1> QED
    BY <1>1, <1>3, <1>4, <1>7, ClientActs

LEMMA EnqueueFileStep ==
    ASSUME ParserInv, NEW c \in Clients, EnqueueFile(c)
    PROVE  ParserInv'
  <1>1. /\ UNCHANGED <<bulk, input, level, buffer, block, screen, seconds, leaving,
                       outPending, outRunning, outFinished>>
        /\ pc[c] = "file" /\ pc' = [pc EXCEPT ![c] = "stdout"]
    BY DEF EnqueueFile, parserVars, outputVars, outVars
  <1>2. OnlyAt(c, pc, pc') /\ pc'[c] = "stdout"
    BY <1>1 DEF ParserInv, DomainsOK, OnlyAt
  <1>3. /\ OnlyAt(c, input, input') /\ OnlyAt(c, level, level') /\ OnlyAt(c, buffer, buffer')
        /\ OnlyAt(c, block, block')
    BY <1>1 DEF OnlyAt
  <1>4. PICK given : given = Given(c) /\ given = Given(c)'
    BY <1>1, GivenKept
  <1>5. Over(c)' <=> Over(c)
    BY <1>1, <1>2 DEF Over
  <1>6. ClientOK(c)'
    <2>1. ClientOK(c)
      BY DEF ParserInv
    <2>2. /\ bulk'[c] = bulk[c] /\ input'[c] = input[c] /\ level'[c] = level[c]
          /\ buffer'[c] = buffer[c] /\ block'[c] = block[c] /\ leaving' = leaving
      BY <1>1
    <2>3. pc[c] \in Printing /\ pc'[c] \in Printing /\ pc'[c] \in Locations
      BY <1>1, <1>2 DEF Printing, Locations
    <2> QED
      BY <1>4, <1>5, <2>1, <2>2, <2>3 DEF ClientOK
  <1> QED
    BY <1>1, <1>2, <1>3, <1>6, ClientActs

LEMMA EnqueueStdOutStep ==
    ASSUME ParserInv, NEW c \in Clients, EnqueueStdOut(c)
    PROVE  ParserInv'
  <1>1. /\ UNCHANGED <<bulk, input, level, buffer, block, screen, seconds, leaving,
                       outRunning, outFinished>>
        /\ outPending' = Append(outPending, block[c])
        /\ pc[c] = "stdout" /\ pc' = [pc EXCEPT ![c] = "wait"]
    BY DEF EnqueueStdOut, parserVars, outputVars, StdOut!Submit
  <1>2. OnlyAt(c, pc, pc') /\ pc'[c] = "wait"
    BY <1>1 DEF ParserInv, DomainsOK, OnlyAt
  <1>3. /\ OnlyAt(c, input, input') /\ OnlyAt(c, level, level') /\ OnlyAt(c, buffer, buffer')
        /\ OnlyAt(c, block, block')
    BY <1>1 DEF OnlyAt
  <1>4. PICK given : given = Given(c) /\ given = Given(c)'
    BY <1>1, GivenKept
  <1>5. Over(c)' <=> Over(c)
    BY <1>1, <1>2 DEF Over
  <1>6. ClientOK(c)'
    <2>1. ClientOK(c)
      BY DEF ParserInv
    <2>2. /\ bulk'[c] = bulk[c] /\ input'[c] = input[c] /\ level'[c] = level[c]
          /\ buffer'[c] = buffer[c] /\ block'[c] = block[c] /\ leaving' = leaving
      BY <1>1
    <2>3. pc[c] \in Printing /\ pc'[c] \in Printing /\ pc'[c] \in Locations
      BY <1>1, <1>2 DEF Printing, Locations
    <2> QED
      BY <1>4, <1>5, <2>1, <2>2, <2>3 DEF ClientOK
  <1>7. DomainsOK' /\ (\A d \in Clients : ClientOK(d)') /\ \A b : OnItsWay(b) => OnItsWay(b)'
    BY <1>1, <1>2, <1>3, <1>6, ClientActs
  <1>8. block[c] \in Blocks /\ block[c] # NoBlock /\ block[c].client = c
    BY <1>1 DEF ParserInv, ClientOK, Printing
  <1>9. OnItsWay(block[c])
    BY <1>8 DEF OnItsWay
  <1>10. StdOutOK'
    <2> DEFINE b == block[c]
    <2>1. b \in Blocks /\ OnItsWay(b) /\ outPending' = Append(outPending, b)
      BY <1>1, <1>8, <1>9
    <2>2. outPending \in Seq(Blocks) /\ \A i \in DOMAIN outPending : OnItsWay(outPending[i])
      BY DEF ParserInv, StdOutOK
    <2> HIDE DEF b
    <2>3. /\ outPending' \in Seq(Blocks)
          /\ DOMAIN outPending = 1 .. Len(outPending) /\ Len(outPending) \in Nat
          /\ \A i \in 1 .. Len(outPending) : outPending'[i] = outPending[i]
          /\ outPending'[Len(outPending) + 1] = b
          /\ Len(outPending') = Len(outPending) + 1
      BY <2>1, <2>2, AppendProperties, LenProperties
    <2>4. DOMAIN outPending' = 1 .. Len(outPending) + 1
      BY <2>3, LenProperties
    <2>5. ASSUME NEW i \in 1 .. Len(outPending) + 1 PROVE OnItsWay(outPending'[i])
      <3>1. CASE i \in 1 .. Len(outPending)
        BY <2>2, <2>3, <3>1
      <3>2. CASE i = Len(outPending) + 1
        BY <2>1, <2>3, <3>2
      <3> QED
        BY <2>3, <3>1, <3>2
    <2>6. \A i \in DOMAIN outPending' : OnItsWay(outPending[i])'
      <3>1. \A x : OnItsWay(x) => OnItsWay(x)'
        BY <1>7
      <3> QED
        BY <2>4, <2>5, <3>1
    <2>7. OnScreen' = OnScreen
      BY <1>1 DEF OnScreen
    <2> QED
      BY <1>1, <1>7, <2>3, <2>6, <2>7 DEF StdOutOK, ParserInv
  <1> QED
    BY <1>7, <1>10 DEF ParserInv

\* The call returns: its block is on the screen.
LEMMA PrintedStep ==
    ASSUME ParserInv, NEW c \in Clients, Printed(c)
    PROVE  ParserInv'
  <1>1. /\ UNCHANGED <<bulk, input, level, buffer, screen, seconds, outPending, outRunning, outFinished>>
        /\ block' = [block EXCEPT ![c] = NoBlock]
        /\ leaving' = leaving \ {c}
        /\ pc[c] = "wait" /\ block[c] \in outFinished
        /\ pc' = [pc EXCEPT ![c] = IF c \in leaving THEN "gone" ELSE "idle"]
    BY DEF Printed, parserVars, outputVars, outVars
  <1>2. block[c] \in OnScreen
    BY <1>1 DEF ParserInv, StdOutOK
  <1>3. /\ OnlyAt(c, pc, pc') /\ pc'[c] = IF c \in leaving THEN "gone" ELSE "idle"
        /\ OnlyAt(c, block, block') /\ block'[c] = NoBlock
    BY <1>1 DEF ParserInv, DomainsOK, OnlyAt
  <1>4. OnlyAt(c, input, input') /\ OnlyAt(c, level, level') /\ OnlyAt(c, buffer, buffer')
    BY <1>1 DEF OnlyAt
  <1>5. PICK given : given = Given(c) /\ given = Given(c)'
    <2>1. Given(c)' = {b \in OnScreen' \union {NoBlock} : b # NoBlock /\ b.client = c}
      BY <1>3 DEF Given, NoBlock
    <2>2. OnScreen' = OnScreen
      BY <1>1 DEF OnScreen
    <2>3. Given(c) = {b \in OnScreen \union {NoBlock} : b # NoBlock /\ b.client = c}
      BY <1>2 DEF Given
    <2> QED
      BY <2>1, <2>2, <2>3
  <1>6. Over(c)' <=> Over(c)
    BY <1>1, <1>3 DEF Over
  <1>7. ClientOK(c)'
    <2>1. ClientOK(c)
      BY DEF ParserInv
    <2>2. /\ bulk'[c] = bulk[c] /\ input'[c] = input[c] /\ level'[c] = level[c]
          /\ buffer'[c] = buffer[c] /\ block'[c] = NoBlock' /\ c \notin leaving'
      BY <1>1, <1>3 DEF NoBlock
    <2>3. pc'[c] \notin Printing /\ pc'[c] \in Locations
      BY <1>3 DEF Printing, Locations
    <2> QED
      BY <1>5, <1>6, <2>1, <2>2, <2>3 DEF ClientOK
  <1> QED
    BY <1>1, <1>2, <1>3, <1>4, <1>7, ClientActs

LEMMA DisconnectStep ==
    ASSUME ParserInv, NEW c \in Clients, Disconnect(c)
    PROVE  ParserInv'
  <1>1. /\ UNCHANGED <<bulk, input, level, screen, seconds, outPending, outRunning, outFinished>>
        /\ pc[c] = "idle"
    BY DEF Disconnect, outputVars, outVars
  <1>2. ~ Over(c) /\ c \notin leaving /\ block[c] = NoBlock
    BY <1>1 DEF ParserInv, ClientOK, Over, Printing
  <1>3. OnlyAt(c, input, input') /\ OnlyAt(c, level, level')
    BY <1>1 DEF OnlyAt
  <1>4. PICK list \in Seq(LineKinds) : list = input[c]
    BY <1>2, LineFinds
  <1>5. PICK size \in Nat : size = bulk[c]
    BY <1>2, LineFinds
  <1>6. PICK held \in Seq(Command) : held = buffer[c]
    BY <1>2, LineFinds
  <1>7. PICK given : given = Given(c)
    OBVIOUS
  <1>8. level[c] = Depth(list, Len(list)) /\ Parsed(list, size, held, given)
    BY <1>2, <1>4, <1>5, <1>6, <1>7, LineFinds
  <1>9. CASE level[c] = 0 /\ held # << >>
    <2>1. GiveToPrinters(c, held) /\ leaving' = leaving \union {c}
      BY <1>6, <1>9 DEF Disconnect
    <2>2. /\ OnlyAt(c, pc, pc') /\ OnlyAt(c, buffer, buffer') /\ OnlyAt(c, block, block')
          /\ pc'[c] = "file"
          /\ block'[c] \in Blocks /\ block'[c] # NoBlock /\ block'[c].client = c
          /\ \E b : b.list = held /\ Given(c)' = Given(c) \union {b}
      <3>1. Len(input'[c]) \in Nat
        BY <1>1, <1>4, LenProperties
      <3> QED
        BY <1>1, <1>2, <1>9, <2>1, <3>1, Gives DEF ParserInv
    <2>3. PICK more : more = Given(c)'
      OBVIOUS
    <2>4. Ended(list, size, more)
      <3>1. PICK b : b.list = held /\ more = given \union {b}
        BY <1>7, <2>2, <2>3
      <3>2. Depth(list, Len(list)) = 0
        BY <1>8, <1>9
      <3>3. \A d : d.list = held => Ended(list, size, given \union {d})
        BY <1>8, <3>2, InputEnds
      <3> QED
        BY <3>1, <3>3
    <2>5. Over(c)' /\ c \in leaving'
      BY <2>1 DEF Over
    <2>6. ClientOK(c)'
      <3>1. bulk'[c] = size /\ size \in Nat /\ input'[c] = list /\ list \in Seq(LineKinds)
        BY <1>1, <1>4, <1>5
      <3>2. pc'[c] \in Locations /\ pc'[c] \in Printing
        BY <2>2 DEF Locations, Printing
      <3>3. block'[c] # NoBlock' /\ block'[c] \in Blocks' /\ block'[c].client = c
        BY <2>2 DEF NoBlock, Blocks, Command
      <3> QED
        BY <2>3, <2>4, <2>5, <3>1, <3>2, <3>3 DEF ClientOK
    <2> QED
      BY <1>1, <1>2, <1>3, <2>1, <2>2, <2>6, ClientActs
  <1>10. CASE ~ (level[c] = 0 /\ held # << >>)
    <2>1. /\ pc' = [pc EXCEPT ![c] = "gone"] /\ buffer' = [buffer EXCEPT ![c] = << >>]
          /\ UNCHANGED <<block, leaving>>
      BY <1>6, <1>10 DEF Disconnect
    <2>2. /\ OnlyAt(c, pc, pc') /\ OnlyAt(c, buffer, buffer') /\ OnlyAt(c, block, block')
          /\ pc'[c] = "gone"
      BY <2>1 DEF ParserInv, DomainsOK, OnlyAt
    <2>3. Given(c)' = given
      BY <1>1, <1>7, <2>1, GivenKept
    <2>4. Ended(list, size, given)
      BY <1>8, <1>10, InputEnds
    <2>5. Over(c)'
      BY <2>2 DEF Over
    <2>6. ClientOK(c)'
      <3>1. bulk'[c] = size /\ size \in Nat /\ input'[c] = list /\ list \in Seq(LineKinds)
        BY <1>1, <1>4, <1>5
      <3>2. pc'[c] \in Locations /\ pc'[c] \notin Printing
        BY <2>2 DEF Locations, Printing
      <3>3. block'[c] = NoBlock' /\ c \notin leaving'
        BY <1>2, <2>1 DEF NoBlock
      <3> QED
        BY <2>3, <2>4, <2>5, <3>1, <3>2, <3>3 DEF ClientOK
    <2> QED
      BY <1>1, <1>2, <1>3, <2>1, <2>2, <2>6, ClientActs
  <1> QED
    BY <1>9, <1>10

-------------------------------------------------------------------------------
(* The printers *)

\* Steps that leave the clients and what was given alone.
LEMMA ClientsKept ==
    ASSUME ParserInv, UNCHANGED callVars, seconds' \in Nat,
           \A c \in Clients : Given(c)' = Given(c)
    PROVE  DomainsOK' /\ \A c \in Clients : ClientOK(c)'
  <1>1. UNCHANGED <<pc, bulk, input, level, buffer, block, leaving>>
    BY DEF callVars
  <1>2. DomainsOK'
    BY <1>1 DEF ParserInv, DomainsOK
  <1>3. ASSUME NEW c \in Clients PROVE ClientOK(c)'
    BY <1>1, OtherClient DEF ParserInv
  <1> QED
    BY <1>2, <1>3

LEMMA StartStdOutStep ==
    ASSUME ParserInv, StartStdOut
    PROVE  ParserInv'
  <1>1. /\ UNCHANGED callVars /\ UNCHANGED <<seconds, screen, outFinished, block>>
        /\ outPending # << >> /\ outPending' = Tail(outPending)
        /\ outRunning' = outRunning \union {Head(outPending)}
    BY DEF StartStdOut, outputVars, callVars, StdOut!Start
  <1>2. OnScreen' = OnScreen
    BY <1>1 DEF OnScreen
  <1>3. \A b : OnItsWay(b) => OnItsWay(b)'
    BY <1>1, <1>2 DEF OnItsWay, NoBlock
  <1>4. outPending \in Seq(Blocks) /\ \A i \in DOMAIN outPending : OnItsWay(outPending[i])
    BY DEF ParserInv, StdOutOK
  <1>5. /\ Head(outPending) = outPending[1] /\ Head(outPending) \in Blocks
        /\ Tail(outPending) \in Seq(Blocks)
        /\ Len(outPending) \in Nat /\ Len(outPending) > 0 /\ DOMAIN outPending = 1 .. Len(outPending)
        /\ Len(Tail(outPending)) = Len(outPending) - 1
        /\ \A i \in 1 .. Len(outPending) - 1 : Tail(outPending)[i] = outPending[i + 1]
    BY <1>1, <1>4, HeadTailProperties, LenProperties, EmptySeq
  <1>6. DOMAIN outPending' = 1 .. Len(outPending) - 1
    BY <1>1, <1>5, LenProperties
  <1>7. OnItsWay(Head(outPending))
    BY <1>4, <1>5
  <1>8. ASSUME NEW i \in 1 .. Len(outPending) - 1 PROVE OnItsWay(outPending[i])'
    <2>1. i + 1 \in DOMAIN outPending
      BY <1>5
    <2>2. outPending'[i] = outPending[i + 1]
      BY <1>1, <1>5
    <2>3. OnItsWay(outPending[i + 1])
      BY <1>4, <2>1
    <2>4. PICK b : b = outPending[i + 1]
      OBVIOUS
    <2>5. OnItsWay(b)'
      BY <1>3, <2>3, <2>4
    <2> QED
      BY <1>2, <2>2, <2>4, <2>5 DEF OnItsWay
  <1>9. \A b \in outRunning' : OnItsWay(b)'
    BY <1>1, <1>3, <1>7 DEF ParserInv, StdOutOK
  <1>10. StdOutOK'
    BY <1>1, <1>2, <1>5, <1>6, <1>8, <1>9 DEF ParserInv, StdOutOK
  <1>11. \A c \in Clients : Given(c)' = Given(c)
    BY <1>1, GivenKept
  <1> QED
    BY <1>1, <1>10, <1>11, ClientsKept DEF ParserInv, DomainsOK

LEMMA WriteStdOutStep ==
    ASSUME ParserInv, NEW b \in outRunning, WriteStdOut(b)
    PROVE  ParserInv'
  <1>1. /\ UNCHANGED callVars /\ UNCHANGED <<seconds, block, outPending>>
        /\ screen' = Append(screen, b)
        /\ outRunning' = outRunning \ {b} /\ outFinished' = outFinished \union {b}
    BY DEF WriteStdOut, callVars, StdOut!Finish
  <1>2. screen \in Seq(Blocks) /\ b \in Blocks /\ OnItsWay(b)
    BY DEF ParserInv, StdOutOK
  <1>3. /\ screen' \in Seq(Blocks) /\ Len(screen) \in Nat
        /\ DOMAIN screen = 1 .. Len(screen) /\ DOMAIN screen' = 1 .. Len(screen) + 1
        /\ \A i \in 1 .. Len(screen) : screen'[i] = screen[i]
        /\ screen'[Len(screen) + 1] = b
    BY <1>1, <1>2, AppendProperties, LenProperties
  <1>4. OnScreen' = OnScreen \union {b}
    <2>1. \A x \in OnScreen \union {b} : x \in OnScreen'
      BY <1>3 DEF OnScreen
    <2>2. ASSUME NEW i \in 1 .. Len(screen) + 1 PROVE screen'[i] \in OnScreen \union {b}
      BY <1>3 DEF OnScreen
    <2> QED
      BY <1>3, <2>1, <2>2 DEF OnScreen
  <1>5. \A x : OnItsWay(x) => OnItsWay(x)'
    BY <1>1, <1>4 DEF OnItsWay, NoBlock
  <1>6. ASSUME NEW c \in Clients PROVE Given(c)' = Given(c)
    <2>1. b # NoBlock /\ b.client = c => b \in Given(c)
      BY <1>2 DEF OnItsWay, Given
    <2>2. Given(c)' = {x \in OnScreen \union {b} \union {block[c]} : x # NoBlock /\ x.client = c}
      BY <1>1, <1>4 DEF Given, NoBlock
    <2> QED
      BY <2>1, <2>2 DEF Given
  <1>7. \A i \in DOMAIN outPending : OnItsWay(outPending[i])'
    <2> TAKE i \in DOMAIN outPending
    <2>1. PICK x : x = outPending[i]
      OBVIOUS
    <2>2. OnItsWay(x)'
      BY <1>5, <2>1 DEF ParserInv, StdOutOK
    <2>3. outPending'[i] = x
      BY <1>1, <2>1
    <2> QED
      BY <2>2, <2>3 DEF OnItsWay
  <1>8. StdOutOK'
    BY <1>1, <1>3, <1>4, <1>5, <1>7 DEF ParserInv, StdOutOK
  <1> QED
    BY <1>1, <1>6, <1>8, ClientsKept DEF ParserInv, DomainsOK

\* Files and the clock are of no account.
LEMMA RestStep ==
    ASSUME ParserInv, UNCHANGED callVars, UNCHANGED <<screen, outVars>>, seconds' \in Nat
    PROVE  ParserInv'
  <1>1. UNCHANGED <<block, outPending, outRunning, outFinished>> /\ OnScreen' = OnScreen
    BY DEF callVars, outVars, OnScreen
  <1>2. \A b : OnItsWay(b)' <=> OnItsWay(b)
    BY <1>1 DEF OnItsWay, NoBlock
  <1>3. \A i \in DOMAIN outPending : OnItsWay(outPending[i])'
    <2> TAKE i \in DOMAIN outPending
    <2>1. OnItsWay(outPending[i])
      BY DEF ParserInv, StdOutOK
    <2> QED
      BY <1>1, <2>1 DEF OnItsWay, NoBlock
  <1>4. StdOutOK'
    BY <1>1, <1>2, <1>3 DEF ParserInv, StdOutOK
  <1>5. \A c \in Clients : Given(c)' = Given(c)
    BY <1>1, GivenKept
  <1> QED
    BY <1>4, <1>5, ClientsKept DEF ParserInv

LEMMA AsyncStep ==
    ASSUME AsyncInv, [Next]_vars
    PROVE  AsyncInv'
  <1> SUFFICES ASSUME ~ terminated' PROVE ParserInv'
    BY DEF AsyncInv
  <1>1. ASSUME UNCHANGED vars PROVE ParserInv'
    <2>1. ParserInv
      BY <1>1 DEF AsyncInv, vars
    <2>2. UNCHANGED callVars /\ UNCHANGED <<screen, outVars>> /\ seconds' = seconds
      BY <1>1 DEF vars, callVars, controllerVars, outVars
    <2> QED
      BY <2>1, <2>2, RestStep DEF ParserInv, DomainsOK
  <1>2. ASSUME ~ terminated, NEW c \in Clients, Line(c) PROVE ParserInv'
    <2>1. ParserInv /\ ~ Invalid(c)
      BY <1>2 DEF AsyncInv, Invalid
    <2> QED
      BY <1>2, <2>1, NormalCommandStep, DynamicCommandStep, BlockStartStep, BlockEndStep DEF Line
  <1>3. ASSUME ~ terminated, NEW c \in Clients,
               CreateController(c) \/ Connect(c) \/ Call(c) \/ Disconnect(c)
        PROVE  ParserInv'
    <2>1. ParserInv
      BY <1>3 DEF AsyncInv
    <2> QED
      BY <1>3, <2>1, ConnectStep, EnqueueFileStep, EnqueueStdOutStep, PrintedStep, DisconnectStep DEF Call
  <1>4. ASSUME ~ terminated, NEW t \in FileThreads, StartFile(t) \/ WriteFile(t) PROVE ParserInv'
    <2>1. ParserInv /\ UNCHANGED callVars /\ UNCHANGED <<screen, outVars>> /\ seconds' = seconds
      BY <1>4 DEF AsyncInv, StartFile, WriteFile
    <2> QED
      BY <2>1, RestStep DEF ParserInv, DomainsOK
  <1>5. ASSUME ~ terminated, Tick PROVE ParserInv'
    <2>1. ParserInv /\ UNCHANGED callVars /\ UNCHANGED <<screen, outVars>> /\ seconds' = seconds + 1
      BY <1>5 DEF AsyncInv, Tick
    <2> QED
      BY <2>1, RestStep DEF ParserInv, DomainsOK
  <1>6. ASSUME ~ terminated, StartStdOut PROVE ParserInv'
    BY <1>6, StartStdOutStep DEF AsyncInv
  <1>7. ASSUME ~ terminated, NEW b \in outRunning, WriteStdOut(b) PROVE ParserInv'
    BY <1>7, WriteStdOutStep DEF AsyncInv
  <1>8. ASSUME Next PROVE ParserInv'
    <2>1. CASE Stopped
      BY <1>1, <2>1 DEF Stopped
    <2>2. ASSUME ~ terminated,
                 NEW c \in Clients,
                 CreateController(c) \/ Connect(c) \/ Line(c) \/ Call(c) \/ Disconnect(c)
          PROVE  ParserInv'
      BY <1>2, <1>3, <2>2
    <2>3. ASSUME ~ terminated, Printers PROVE ParserInv'
      BY <1>4, <1>6, <1>7, <2>3 DEF Printers
    <2> QED
      BY <1>5, <1>8, <2>1, <2>2, <2>3 DEF Next
  <1> QED
    BY <1>1, <1>8

LEMMA AsyncStart ==
    ASSUME Init
    PROVE  AsyncInv
  <1>1. /\ pc = [c \in Clients |-> "new"]
        /\ bulk \in [Clients -> BulkSizes]
        /\ input = [c \in Clients |-> << >>]
        /\ level = [c \in Clients |-> 0]
        /\ buffer = [c \in Clients |-> << >>]
        /\ block = [c \in Clients |-> NoBlock]
        /\ leaving = {} /\ seconds = 0 /\ screen = << >>
        /\ outPending = << >> /\ outRunning = {} /\ outFinished = {}
    BY DEF Init, StdOut!PoolInit
  <1>2. OnScreen = {}
    BY <1>1 DEF OnScreen
  <1>3. DomainsOK /\ StdOutOK
    BY <1>1 DEF DomainsOK, StdOutOK
  <1>4. ASSUME NEW c \in Clients PROVE ClientOK(c)
    <2>1. PICK size \in Nat : size = bulk[c]
      BY <1>1, BulkSizesAssumption
    <2>2. PICK given : given = Given(c) /\ given = {}
      BY <1>1, <1>2 DEF Given
    <2>3. Parsed(<< >>, size, << >>, given)
      <3>1. Grouped(<< >>, size, 1) /\ BulksSoFar(<< >>, size) = {} /\ Total(<< >>) = 0
        BY GroupedNothing
      <3>2. Run(<< >>, 1, 0)
        BY RunNothing
      <3>3. WellGiven(given, 1) /\ NumberSets(given) = {}
        BY <2>2 DEF WellGiven, NumberSets
      <3>4. ParserOK(<< >>, size, << >>, given, 1)
        BY <3>1, <3>2, <3>3 DEF ParserOK
      <3> QED
        BY <3>4 DEF Parsed
    <2>4. Depth(<< >>, Len(<< >>)) = 0
      <3>1. << >> \in Seq(LineKinds)
        OBVIOUS
      <3> DEFINE list == << >>
      <3>2. Count(list, 0, "open") = 0 /\ Count(list, 0, "close") = 0 /\ Len(list) = 0
        BY <3>1, CountStep
      <3> QED
        BY <3>2 DEF Depth
    <2>5. ~ Over(c)
      BY <1>1 DEF Over
    <2> QED
      BY <1>1, <2>1, <2>2, <2>3, <2>4, <2>5 DEF ClientOK, Locations, Printing
  <1> QED
    BY <1>3, <1>4 DEF AsyncInv, ParserInv

LEMMA AsyncInvImpliesBlocksMatchInput == AsyncInv => BlocksMatchInput
  <1> SUFFICES ASSUME AsyncInv, NEW c \in Clients, ~ terminated
               PROVE  /\ {Numbers(b.list) : b \in Given(c)} \ {{}}
                         = Bulks(input[c], bulk[c], c \in leaving \/ pc[c] = "gone")
                      /\ \A b \in Given(c) : \A i \in DOMAIN b.list : b.list[i].n = b.list[1].n + i - 1
                      /\ \A b, d \in Given(c) : b # d => Numbers(b.list) \intersect Numbers(d.list) = {}
    BY DEF BlocksMatchInput
  <1>1. ClientOK(c)
    BY DEF AsyncInv, ParserInv
  <1>2. CASE Over(c)
    <2>1. Ended(input[c], bulk[c], Given(c))
      BY <1>1, <1>2 DEF ClientOK
    <2>2. (\E first : WellGiven(Given(c), first)) /\ NumberSets(Given(c)) = Bulks(input[c], bulk[c], TRUE)
      BY <2>1 DEF Ended
    <2>3. Bulks(input[c], bulk[c], TRUE) = Bulks(input[c], bulk[c], c \in leaving \/ pc[c] = "gone")
      BY <1>2 DEF Over, Bulks, Due
    <2> QED
      BY <2>2, <2>3 DEF WellGiven, NumberSets
  <1>3. CASE ~ Over(c)
    <2>1. Parsed(input[c], bulk[c], buffer[c], Given(c))
      BY <1>1, <1>3 DEF ClientOK
    <2>2. (\E first : WellGiven(Given(c), first)) /\ NumberSets(Given(c)) = BulksSoFar(input[c], bulk[c])
      BY <2>1 DEF Parsed, ParserOK
    <2>3. BulksSoFar(input[c], bulk[c]) = Bulks(input[c], bulk[c], c \in leaving \/ pc[c] = "gone")
      BY <1>3 DEF Over, BulksSoFar, Bulks, Due
    <2> QED
      BY <2>2, <2>3 DEF WellGiven, NumberSets
  <1> QED
    BY <1>2, <1>3

\* What a client has given to the printers is at any time what its lines make
\* due: each block once, with the commands the reference groups together and in
\* their order, whatever the other clients and the pools do (state.cpp).
THEOREM BlocksMatchInputCorrect == Spec => []BlocksMatchInput
  <1>1. Init => AsyncInv
    BY AsyncStart
  <1>2. AsyncInv /\ [Next]_vars => AsyncInv'
    BY AsyncStep
  <1>3. AsyncInv => BlocksMatchInput
    BY AsyncInvImpliesBlocksMatchInput
  <1> QED
    BY <1>1, <1>2, <1>3, PTL DEF Spec

===============================================================================
