-------------------------- MODULE FilesAndLinesProofs --------------------------
(***************************************************************************)
(* Theorems about the programs that read files or lines to their end: what *)
(* 08 bayan reads is what it needs (Bayan), 02 ip_filter prints what its   *)
(* filters let through, in order (IpFilter), a parser of 10 bulk_server    *)
(* gets the lines of its session (BulkSession), and a client of 11         *)
(* join_server gets the rows that its requests stand for (JoinText).  They *)
(* hold for any files and their contents, any size of blocks and buffers,  *)
(* any order in which an unordered set may be walked, and any lines, words *)
(* and reads.                                                              *)
(***************************************************************************)
EXTENDS Bayan, LinePrograms, FiniteSetTheorems, SequenceTheorems, WellFoundedInduction, TLAPS

-------------------------------------------------------------------------------
(* 08 bayan *)

BlockValues == [1 .. BlockSize -> Nat]
Tasks == [file : Files, block : Nat]

TypeOK ==
    /\ content \in [Files -> Seq(Nat)]
    /\ tasks \in Seq(Tasks)
    /\ DOMAIN readState = Files
    /\ node \in [Files -> Seq(BlockValues)]
    /\ Nodes \subseteq Seq(BlockValues)
    /\ \A n \in Nodes : IsFiniteSet(trailing[n]) /\ trailing[n] \subseteq Files

\* The nodes on the way of a file are its blocks, and the crawler knows the next.
PathOK(f) ==
    /\ \A i \in 1 .. Len(node[f]) : node[f][i] = Checksum(f, i - 1)
    /\ Len(node[f]) > 0 => Exists(f, Len(node[f]) - 1)
    /\ readState[f] = IF Len(node[f]) = 0 THEN 0 ELSE NextBlock(f, Len(node[f]) - 1)

\* Another file has the same first b blocks, and both have been read up to there.
Shared(f, b) ==
    /\ b <= Len(node[f])
    /\ \E g \in Files \ {f} : b <= Len(node[g]) /\ \A i \in 1 .. b : node[f][i] = node[g][i]

\* A task asks for the first block, or for one behind blocks that are shared.
AskedOK(f, b) == (b = 0 /\ Exists(f, 0)) \/ (b > 0 /\ Shared(f, b))
TaskOK(task) == AskedOK(task.file, task.block)

\* What was read behind the first block was asked for.
NeedOK(f) == Len(node[f]) > 1 => Shared(f, Len(node[f]) - 1)

\* The way to n is the beginning of that of g.
Passed(n, g) == Len(n) <= Len(node[g]) /\ \A i \in 1 .. Len(n) : n[i] = node[g][i]

\* Somebody has been at every node, and whoever is trailing in it has.
NodeOK(n) == (\E g \in Files : Passed(n, g)) /\ \A g \in trailing[n] : Passed(n, g)

BayanInv ==
    /\ TypeOK
    /\ ~failed
    /\ \A f \in Files : PathOK(f) /\ NeedOK(f)
    /\ \A i \in 1 .. Len(tasks) : TaskOK(tasks[i])
    /\ \A n \in Nodes : NodeOK(n)

-------------------------------------------------------------------------------
(* The queue *)

LEMMA TailTasks ==
    ASSUME tasks \in Seq(Tasks), tasks # << >>
    PROVE  /\ Tail(tasks) \in Seq(Tasks)
           /\ Head(tasks) \in Tasks /\ Head(tasks) = tasks[1] /\ 1 \in 1 .. Len(tasks)
           /\ \A i \in 1 .. Len(Tail(tasks)) : \E j \in 1 .. Len(tasks) : Tail(tasks)[i] = tasks[j]
  <1>1. /\ Tail(tasks) \in Seq(Tasks) /\ Len(Tail(tasks)) = Len(tasks) - 1 /\ Len(tasks) \in Nat
        /\ Len(tasks) > 0
        /\ \A i \in 1 .. Len(Tail(tasks)) : Tail(tasks)[i] = tasks[i + 1]
    BY HeadTailProperties, LenProperties, EmptySeq
  <1>2. Head(tasks) = tasks[1] /\ Head(tasks) \in Tasks
    BY HeadTailProperties
  <1>3. \A i \in 1 .. Len(Tail(tasks)) : i + 1 \in 1 .. Len(tasks)
    BY <1>1
  <1> QED
    BY <1>1, <1>2, <1>3

\* What is asked for is one task for each file of the set.
LEMMA AskedTasks ==
    ASSUME NEW fs \in SUBSET Files, IsFiniteSet(fs), NEW b \in Nat, NEW asked \in Asked(fs, b)
    PROVE  /\ asked \in Seq(Tasks)
           /\ \A i \in 1 .. Len(asked) : asked[i].file \in fs /\ asked[i].block = b
  <1>1. PICK s \in SetToSeqs(fs) : asked = [i \in DOMAIN s |-> Task(s[i], b)]
    BY DEF Asked
  <1>2. PICK n \in Nat : n = Cardinality(fs)
    BY FS_CardinalityType
  <1>3. s \in [1 .. n -> fs]
    BY <1>1, <1>2 DEF SetToSeqs
  <1>4. \A i \in 1 .. n : Task(s[i], b) \in Tasks /\ Task(s[i], b).file \in fs /\ Task(s[i], b).block = b
    BY <1>3 DEF Task, Tasks
  <1>5. DOMAIN asked = 1 .. n /\ asked \in [1 .. n -> Tasks]
    BY <1>1, <1>3, <1>4
  <1>6. asked \in Seq(Tasks) /\ Len(asked) = n
    BY <1>5, SeqDef, LenProperties
  <1> QED
    BY <1>1, <1>3, <1>4, <1>6

-------------------------------------------------------------------------------
(* A file goes on by one block *)

\* What the step does to the file, whether it is alone in the node or not.
Advances(f) ==
    /\ UNCHANGED content
    /\ node' = [node EXCEPT ![f] = Child(f, Len(node[f]))]

\* Nobody goes back on the way he has gone.
NodesKept ==
    \A g \in Files : /\ Len(node[g]) \in Nat /\ Len(node'[g]) \in Nat
                      /\ Len(node[g]) <= Len(node'[g])
                      /\ \A i \in 1 .. Len(node[g]) : node'[g][i] = node[g][i]

LEMMA NodesGrow ==
    ASSUME TypeOK, NEW f \in Files, Advances(f)
    PROVE  /\ node' \in [Files -> Seq(BlockValues)]
           /\ Len(node[f]) \in Nat /\ Len(node'[f]) = Len(node[f]) + 1
           /\ node'[f] = Child(f, Len(node[f]))
           /\ node'[f][Len(node[f]) + 1] = Checksum(f, Len(node[f]))
           /\ \A g \in Files \ {f} : node'[g] = node[g]
           /\ NodesKept
  <1>1. PICK b \in Nat : b = Len(node[f])
    BY LenProperties DEF TypeOK
  <1>2. Checksum(f, b) \in BlockValues
    <2>1. ASSUME NEW i \in 1 .. BlockSize, b * BlockSize + i <= Len(content[f])
          PROVE  content[f][b * BlockSize + i] \in Nat
      <3>1. PICK k \in Nat : k = b * BlockSize + i
        BY BlockSizeAssumption
      <3>2. content[f] \in Seq(Nat) /\ Len(content[f]) \in Nat
        BY LenProperties DEF TypeOK
      <3>3. PICK l \in Nat : l = Len(content[f])
        BY <3>2
      <3>4. k # 0
        BY <3>1, BlockSizeAssumption
      <3>5. k \in 1 .. l
        BY <2>1, <3>1, <3>3, <3>4
      <3> QED
        BY <3>1, <3>2, <3>3, <3>5, ElementOfSeq
    <2> QED
      BY <2>1 DEF Checksum, BlockValues
  <1>3. node[f] \in Seq(BlockValues)
    BY DEF TypeOK
  <1>4. /\ Child(f, b) \in Seq(BlockValues) /\ Len(Child(f, b)) = b + 1
        /\ Child(f, b)[b + 1] = Checksum(f, b)
        /\ \A i \in 1 .. b : Child(f, b)[i] = node[f][i]
    BY <1>1, <1>2, <1>3, AppendProperties DEF Child
  <1>5. node' = [node EXCEPT ![f] = Child(f, b)]
    BY <1>1 DEF Advances
  <1>6. node'[f] = Child(f, b) /\ \A g \in Files \ {f} : node'[g] = node[g]
    BY <1>5 DEF TypeOK
  <1>7. node' \in [Files -> Seq(BlockValues)]
    BY <1>4, <1>5 DEF TypeOK
  <1>8. \A g \in Files : Len(node[g]) \in Nat
    BY LenProperties DEF TypeOK
  <1>9. NodesKept
    <2> SUFFICES ASSUME NEW g \in Files
                 PROVE  /\ Len(node[g]) \in Nat /\ Len(node'[g]) \in Nat /\ Len(node[g]) <= Len(node'[g])
                        /\ \A i \in 1 .. Len(node[g]) : node'[g][i] = node[g][i]
      BY DEF NodesKept
    <2>1. CASE g = f
      BY <2>1, <1>1, <1>4, <1>6
    <2>2. CASE g # f
      BY <2>2, <1>6, <1>8
    <2> QED
      BY <2>1, <2>2
  <1>10. node'[f] = Child(f, Len(node[f])) /\ node'[f][Len(node[f]) + 1] = Checksum(f, Len(node[f]))
    BY <1>1, <1>4, <1>6
  <1>11. Len(node'[f]) = Len(node[f]) + 1
    BY <1>1, <1>4, <1>6
  <1> QED
    BY <1>6, <1>7, <1>8, <1>9, <1>10, <1>11

LEMMA SharedGrows ==
    ASSUME NEW g \in Files, NEW b \in Nat, Shared(g, b), NodesKept
    PROVE  Shared(g, b)'
  <1>1. PICK h \in Files \ {g} : b <= Len(node[h]) /\ \A i \in 1 .. b : node[g][i] = node[h][i]
    BY DEF Shared
  <1>2. b <= Len(node[g])
    BY DEF Shared
  <1>3. b <= Len(node'[g]) /\ b <= Len(node'[h])
    BY <1>1, <1>2 DEF NodesKept
  <1>4. \A i \in 1 .. b : node'[g][i] = node'[h][i]
    <2> TAKE i \in 1 .. b
    <2>1. i \in 1 .. Len(node[g]) /\ i \in 1 .. Len(node[h])
      BY <1>1, <1>2 DEF NodesKept
    <2>2. node'[g][i] = node[g][i] /\ node'[h][i] = node[h][i]
      BY <2>1 DEF NodesKept
    <2> QED
      BY <1>1, <2>2
  <1> QED
    BY <1>1, <1>3, <1>4 DEF Shared

LEMMA PassedGrows ==
    ASSUME NEW n, NEW g \in Files, Len(n) \in Nat, Passed(n, g), NodesKept
    PROVE  Passed(n, g)'
  <1>1. Len(n) <= Len(node'[g])
    BY DEF Passed, NodesKept
  <1>2. \A i \in 1 .. Len(n) : n[i] = node'[g][i]
    <2> TAKE i \in 1 .. Len(n)
    <2>1. i \in 1 .. Len(node[g])
      BY DEF Passed, NodesKept
    <2> QED
      BY <2>1 DEF Passed, NodesKept
  <1> QED
    BY <1>1, <1>2 DEF Passed

\* A task that is not outdated asks for the block behind those that were read, and
\* there is one.
LEMMA TaskIsNext ==
    ASSUME TypeOK, NEW f \in Files, PathOK(f), NEW b \in Nat, AskedOK(f, b), ~Outdated(f, b)
    PROVE  b = Len(node[f]) /\ Exists(f, b)
  <1>1. Len(node[f]) \in Nat
    BY LenProperties DEF TypeOK
  <1>2. b <= Len(node[f])
    BY <1>1 DEF AskedOK, Shared
  <1>3. readState[f] # End /\ ~ (b < readState[f])
    BY DEF Outdated
  <1>4. CASE Len(node[f]) = 0
    BY <1>1, <1>2, <1>4 DEF AskedOK
  <1>5. CASE Len(node[f]) # 0
    <2>1. PICK k \in Nat : k + 1 = Len(node[f])
      <3>1. Len(node[f]) - 1 \in Nat /\ (Len(node[f]) - 1) + 1 = Len(node[f])
        BY <1>1, <1>5
      <3> QED
        BY <3>1
    <2>2. readState[f] = NextBlock(f, k)
      BY <2>1 DEF PathOK
    <2>3. readState[f] = k + 1 /\ Exists(f, k + 1)
      BY <1>3, <2>2 DEF NextBlock, Exists
    <2> QED
      BY <1>2, <1>3, <2>1, <2>3
  <1> QED
    BY <1>4, <1>5

\* What a file is depends on the disk only.
LEMMA BlocksKept ==
    ASSUME UNCHANGED content, NEW g, NEW b
    PROVE  /\ Checksum(g, b)' = Checksum(g, b)
           /\ Exists(g, b)' <=> Exists(g, b)
           /\ NextBlock(g, b)' = NextBlock(g, b)
  BY DEF Checksum, Exists, NextBlock

LEMMA PathStays ==
    ASSUME UNCHANGED content, NEW g \in Files, PathOK(g),
           node'[g] = node[g], readState'[g] = readState[g]
    PROVE  PathOK(g)'
  <1>1. /\ \A b : Checksum(g, b)' = Checksum(g, b)
        /\ \A b : Exists(g, b)' <=> Exists(g, b)
        /\ \A b : NextBlock(g, b)' = NextBlock(g, b)
    BY BlocksKept
  <1>2. PICK l : l = Len(node[g])
    OBVIOUS
  <1>3. Len(node'[g]) = l
    BY <1>2
  <1>4. \A i \in 1 .. l : node'[g][i] = Checksum(g, i - 1)'
    BY <1>1, <1>2 DEF PathOK
  <1>5. l > 0 => Exists(g, l - 1)'
    BY <1>1, <1>2 DEF PathOK
  <1>6. readState'[g] = IF l = 0 THEN 0 ELSE NextBlock(g, l - 1)'
    BY <1>1, <1>2 DEF PathOK
  <1> QED
    BY <1>3, <1>4, <1>5, <1>6 DEF PathOK

LEMMA PathGrows ==
    ASSUME TypeOK, NEW f \in Files, \A g \in Files : PathOK(g), Advances(f),
           Exists(f, Len(node[f])),
           readState' = [readState EXCEPT ![f] = NextBlock(f, Len(node[f]))]
    PROVE  \A g \in Files : PathOK(g)'
  <1>1. PICK k \in Nat : k = Len(node[f])
    BY LenProperties DEF TypeOK
  <1>2. /\ Len(node'[f]) = k + 1 /\ node'[f][k + 1] = Checksum(f, k)
        /\ \A i \in 1 .. k : node'[f][i] = node[f][i]
        /\ \A g \in Files \ {f} : node'[g] = node[g]
    BY <1>1, NodesGrow DEF NodesKept
  <1>3. UNCHANGED content
    BY DEF Advances
  <1>4. readState'[f] = NextBlock(f, k) /\ \A g \in Files \ {f} : readState'[g] = readState[g]
    BY <1>1 DEF TypeOK
  <1>5. /\ \A b : Checksum(f, b)' = Checksum(f, b)
        /\ \A b : Exists(f, b)' <=> Exists(f, b)
        /\ \A b : NextBlock(f, b)' = NextBlock(f, b)
    BY <1>3, BlocksKept
  <1>6. \A i \in 1 .. k : node[f][i] = Checksum(f, i - 1)
    BY <1>1 DEF PathOK
  <1>7. \A i \in 1 .. k + 1 : node'[f][i] = Checksum(f, i - 1)'
    <2> TAKE i \in 1 .. k + 1
    <2>1. CASE i = k + 1
      BY <2>1, <1>2, <1>5
    <2>2. CASE i # k + 1
      <3>1. i \in 1 .. k
        BY <2>2
      <3> QED
        BY <3>1, <1>2, <1>5, <1>6
    <2> QED
      BY <2>1, <2>2
  <1>8. Exists(f, k + 1 - 1)'
    BY <1>1, <1>5
  <1>9. readState'[f] = NextBlock(f, k + 1 - 1)'
    BY <1>4, <1>5
  <1>10. PathOK(f)'
    BY <1>2, <1>7, <1>8, <1>9 DEF PathOK
  <1>11. \A g \in Files \ {f} : PathOK(g)'
    BY <1>2, <1>3, <1>4, PathStays
  <1> QED
    BY <1>10, <1>11

LEMMA NeedGrows ==
    ASSUME TypeOK, NEW f \in Files, \A g \in Files : NeedOK(g), Advances(f),
           Len(node[f]) = 0 \/ Shared(f, Len(node[f]))
    PROVE  \A g \in Files : NeedOK(g)'
  <1>1. PICK k \in Nat : k = Len(node[f])
    BY LenProperties DEF TypeOK
  <1>2. /\ Len(node'[f]) = k + 1 /\ NodesKept
        /\ \A g \in Files \ {f} : node'[g] = node[g]
    BY <1>1, NodesGrow
  <1>3. NeedOK(f)'
    <2>1. CASE k = 0
      BY <2>1, <1>2 DEF NeedOK
    <2>2. CASE k # 0
      <3>1. Shared(f, k)
        BY <2>2, <1>1
      <3>2. Shared(f, k)'
        BY <3>1, <1>2, SharedGrows
      <3>3. k + 1 - 1 = k
        OBVIOUS
      <3> QED
        BY <3>2, <3>3, <1>2 DEF NeedOK
    <2> QED
      BY <2>1, <2>2
  <1>4. ASSUME NEW g \in Files \ {f}
        PROVE  NeedOK(g)'
    <2>1. PICK l \in Nat : l = Len(node[g])
      BY LenProperties DEF TypeOK
    <2>2. Len(node'[g]) = l
      BY <2>1, <1>2
    <2>3. CASE l > 1
      <3>1. PICK m \in Nat : m = l - 1
        BY <2>3
      <3>2. Shared(g, m)
        BY <3>1, <2>1, <2>3 DEF NeedOK
      <3>3. Shared(g, m)'
        BY <3>2, <1>2, SharedGrows
      <3> QED
        BY <3>1, <3>3, <2>2 DEF NeedOK
    <2>4. CASE ~ (l > 1)
      BY <2>4, <2>2 DEF NeedOK
    <2> QED
      BY <2>3, <2>4
  <1> QED
    BY <1>3, <1>4

\* The tasks that stay in the queue stay justified.
LEMMA TaskStays ==
    ASSUME NodesKept, UNCHANGED content, NEW task \in Tasks, TaskOK(task)
    PROVE  TaskOK(task)'
  <1>1. task.file \in Files /\ task.block \in Nat
    BY DEF Tasks
  <1>2. PICK f \in Files, b \in Nat : f = task.file /\ b = task.block
    BY <1>1
  <1>3. AskedOK(f, b)
    BY <1>2 DEF TaskOK
  <1>4. AskedOK(f, b)'
    <2>1. CASE b = 0
      BY <2>1, <1>3, BlocksKept DEF AskedOK
    <2>2. CASE b # 0
      BY <2>2, <1>3, SharedGrows DEF AskedOK
    <2> QED
      BY <2>1, <2>2
  <1> QED
    BY <1>2, <1>4 DEF TaskOK, AskedOK, Shared, Exists

LEMMA NodeStays ==
    ASSUME TypeOK, NodesKept, NEW n \in Nodes, NodeOK(n), n \in DOMAIN trailing', trailing'[n] \subseteq trailing[n]
    PROVE  NodeOK(n)'
  <1>1. Len(n) \in Nat
    BY LenProperties DEF TypeOK
  <1>2. \A g \in Files : Passed(n, g) => Passed(n, g)'
    BY <1>1, PassedGrows
  <1>3. trailing[n] \subseteq Files
    BY DEF TypeOK
  <1> QED
    BY <1>2, <1>3 DEF NodeOK

\* The node that f goes to, when he is there.
LEMMA ChildPassed ==
    ASSUME TypeOK, NEW f \in Files, Advances(f), NEW n, n = Child(f, Len(node[f]))
    PROVE  /\ Passed(n, f)' /\ n \in Seq(BlockValues) /\ Len(n) = Len(node[f]) + 1 /\ NodesKept
           /\ \A g \in Files : Passed(n, g) => Passed(n, g)' /\ g # f
  <1>1. /\ node' \in [Files -> Seq(BlockValues)] /\ node'[f] = n
        /\ Len(node[f]) \in Nat /\ Len(node'[f]) = Len(node[f]) + 1 /\ NodesKept
    BY NodesGrow
  <1>2. n \in Seq(BlockValues) /\ Len(n) = Len(node[f]) + 1
    BY <1>1
  <1>3. PICK l \in Nat : l = Len(n) /\ l = Len(node[f]) + 1
    BY <1>1, <1>2
  <1>4. Passed(n, f)'
    BY <1>1, <1>3 DEF Passed
  <1>5. \A g \in Files : Passed(n, g) => Passed(n, g)'
    BY <1>1, <1>3, PassedGrows
  <1>6. ~ Passed(n, f)
    BY <1>1, <1>3 DEF Passed
  <1> QED
    BY <1>1, <1>2, <1>4, <1>5, <1>6

\* Who is at a node with another one shares the blocks on the way there.
LEMMA TwoPassed ==
    ASSUME NEW n, NEW l \in Nat, l = Len(n), NEW f \in Files, NEW g \in Files,
           f # g, Passed(n, f)', Passed(n, g)'
    PROVE  Shared(f, l)'
  BY DEF Passed, Shared

-------------------------------------------------------------------------------
(* The steps *)

LEMMA FirstTask ==
    ASSUME BayanInv, tasks # << >>
    PROVE  /\ Head(tasks).file \in Files /\ Head(tasks).block \in Nat
           /\ AskedOK(Head(tasks).file, Head(tasks).block)
           /\ Tail(tasks) \in Seq(Tasks)
           /\ \A i \in 1 .. Len(Tail(tasks)) : Tail(tasks)[i] \in Tasks /\ TaskOK(Tail(tasks)[i])
  <1>1. /\ tasks \in Seq(Tasks)
        /\ \A i \in 1 .. Len(tasks) : tasks[i] \in Tasks /\ TaskOK(tasks[i])
    BY ElementOfSeq DEF BayanInv, TypeOK
  <1>2. /\ Tail(tasks) \in Seq(Tasks)
        /\ Head(tasks) \in Tasks /\ Head(tasks) = tasks[1] /\ 1 \in 1 .. Len(tasks)
        /\ \A i \in 1 .. Len(Tail(tasks)) : \E j \in 1 .. Len(tasks) : Tail(tasks)[i] = tasks[j]
    BY <1>1, TailTasks
  <1>3. TaskOK(Head(tasks))
    BY <1>1, <1>2
  <1>4. Head(tasks).file \in Files /\ Head(tasks).block \in Nat
    BY <1>2 DEF Tasks
  <1>5. \A i \in 1 .. Len(Tail(tasks)) : Tail(tasks)[i] \in Tasks /\ TaskOK(Tail(tasks)[i])
    BY <1>1, <1>2
  <1> QED
    BY <1>2, <1>3, <1>4, <1>5 DEF TaskOK

LEMMA InitBayanInv == Init => BayanInv
  <1> SUFFICES ASSUME Init PROVE BayanInv
    OBVIOUS
  <1>1. content \in [Files -> Seq(Nat)]
    BY DisksAssumption DEF Init
  <1>2. << >> \in Seq(BlockValues) /\ Len(<< >>) = 0 /\ << >> \in Seq(Tasks)
    OBVIOUS
  <1>3. Nodes = {}
    BY DEF Init, Nodes
  <1>4. TypeOK
    BY <1>1, <1>2, <1>3 DEF Init, TypeOK, Root
  <1>5. \A f \in Files : PathOK(f) /\ NeedOK(f)
    BY <1>2 DEF Init, Root, PathOK, NeedOK
  <1>6. \A i \in 1 .. Len(tasks) : TaskOK(tasks[i])
    BY <1>2 DEF Init
  <1> QED
    BY <1>3, <1>4, <1>5, <1>6 DEF BayanInv, Init

LEMMA EntryPreservesInv ==
    ASSUME BayanInv, NEW f \in Files, HandleDirectoryEntry(f)
    PROVE  BayanInv'
  <1>1. UNCHANGED <<content, readState, node, trailing, failed>>
    BY DEF HandleDirectoryEntry
  <1>2. tasks' = tasks \/ (Len(content[f]) # 0 /\ tasks' = Append(tasks, Task(f, 0)))
    BY DEF HandleDirectoryEntry
  <1>3. Task(f, 0) \in Tasks /\ (Len(content[f]) # 0 => TaskOK(Task(f, 0)))
    <2>1. Len(content[f]) \in Nat
      BY LenProperties DEF BayanInv, TypeOK
    <2>2. Len(content[f]) # 0 => AskedOK(f, 0)
      BY <2>1, BlockSizeAssumption DEF AskedOK, Exists
    <2> QED
      BY <2>2 DEF Task, Tasks, TaskOK
  <1>5. PICK l \in Nat : l = Len(tasks)
    BY LenProperties DEF BayanInv, TypeOK
  <1>6. tasks' \in Seq(Tasks) /\ \A i \in 1 .. Len(tasks') : TaskOK(tasks'[i])
    <2>1. CASE tasks' = tasks
      BY <2>1 DEF BayanInv, TypeOK
    <2>2. CASE Len(content[f]) # 0 /\ tasks' = Append(tasks, Task(f, 0))
      <3>1. /\ tasks' \in Seq(Tasks) /\ Len(tasks') = l + 1 /\ tasks'[l + 1] = Task(f, 0)
            /\ \A i \in 1 .. l : tasks'[i] = tasks[i]
        BY <2>2, <1>3, <1>5, AppendProperties DEF BayanInv, TypeOK
      <3>2. \A i \in 1 .. l + 1 : i = l + 1 \/ i \in 1 .. l
        OBVIOUS
      <3>3. TaskOK(Task(f, 0))
        BY <2>2, <1>3
      <3>4. \A i \in 1 .. l : TaskOK(tasks[i])
        BY <1>5 DEF BayanInv
      <3> QED
        BY <3>1, <3>2, <3>3, <3>4
    <2> QED
      BY <1>2, <2>1, <2>2
  <1>7. TypeOK'
    BY <1>1, <1>6 DEF BayanInv, TypeOK, Nodes
  <1>8. \A g \in Files : PathOK(g)' /\ NeedOK(g)'
    <2>1. \A g \in Files : PathOK(g)'
      BY <1>1, PathStays DEF BayanInv
    <2>2. \A g \in Files : NeedOK(g)'
      BY <1>1 DEF BayanInv, NeedOK, Shared
    <2> QED
      BY <2>1, <2>2
  <1>9. \A n \in Nodes' : NodeOK(n)'
    BY <1>1 DEF BayanInv, Nodes, NodeOK, Passed
  <1>10. (\A i \in 1 .. Len(tasks) : TaskOK(tasks[i]))'
    BY <1>1, <1>6 DEF TaskOK, AskedOK, Shared, Exists
  <1> QED
    BY <1>1, <1>7, <1>8, <1>9, <1>10 DEF BayanInv

\* A task is dropped, or nothing happens.
LEMMA DropPreservesInv ==
    ASSUME BayanInv, UNCHANGED <<content, readState, node, trailing, failed>>,
           tasks' = tasks \/ (tasks # << >> /\ tasks' = Tail(tasks))
    PROVE  BayanInv'
  <1>1. tasks' \in Seq(Tasks) /\ \A i \in 1 .. Len(tasks') : TaskOK(tasks'[i])
    BY FirstTask DEF BayanInv, TypeOK
  <1>3. TypeOK'
    BY <1>1 DEF BayanInv, TypeOK, Nodes
  <1>4. \A g \in Files : PathOK(g)' /\ NeedOK(g)'
    <2>1. \A g \in Files : PathOK(g)'
      BY PathStays DEF BayanInv
    <2>2. \A g \in Files : NeedOK(g)'
      BY DEF BayanInv, NeedOK, Shared
    <2> QED
      BY <2>1, <2>2
  <1>5. \A n \in Nodes' : NodeOK(n)'
    BY DEF BayanInv, Nodes, NodeOK, Passed
  <1>6. (\A i \in 1 .. Len(tasks) : TaskOK(tasks[i]))'
    BY <1>1 DEF TaskOK, AskedOK, Shared, Exists
  <1> QED
    BY <1>3, <1>4, <1>5, <1>6 DEF BayanInv

\* What both ways to register a block have in common.
Registers(f) ==
    /\ Advances(f)
    /\ Exists(f, Len(node[f]))
    /\ readState' = [readState EXCEPT ![f] = NextBlock(f, Len(node[f]))]
    /\ AskedOK(f, Len(node[f]))
    /\ failed' = failed

\* What a queue of tasks and the nodes have to be after it.
Justified(queue) == queue \in Seq(Tasks) /\ \A i \in 1 .. Len(queue) : TaskOK(queue[i])'

NodesSound ==
    /\ Nodes' \subseteq Seq(BlockValues)
    /\ \A n \in Nodes' : IsFiniteSet(trailing'[n]) /\ trailing'[n] \subseteq Files

LEMMA RegisterPreservesInv ==
    ASSUME NEW f \in Files, NEW queue, BayanInv, Registers(f), NodesSound,
           \A n \in Nodes' : NodeOK(n)', queue = tasks', Justified(queue)
    PROVE  BayanInv'
  <1>1. /\ TypeOK
        /\ \A g \in Files : PathOK(g)
        /\ \A g \in Files : NeedOK(g)
    BY DEF BayanInv
  <1>2. \A g \in Files : PathOK(g)'
    BY <1>1, PathGrows DEF Registers
  <1>3. \A g \in Files : NeedOK(g)'
    BY <1>1, NeedGrows DEF Registers, AskedOK
  <1>4. node' \in [Files -> Seq(BlockValues)]
    BY <1>1, NodesGrow DEF Registers
  <1>5. content' \in [Files -> Seq(Nat)] /\ DOMAIN readState' = Files
    BY <1>1 DEF TypeOK, Registers, Advances
  <1>6. TypeOK'
    BY <1>4, <1>5 DEF TypeOK, NodesSound, Justified
  <1>8. \A i \in 1 .. Len(queue) : TaskOK(queue[i])'
    BY DEF Justified
  <1>9. (\A i \in 1 .. Len(tasks) : TaskOK(tasks[i]))'
    BY <1>8 DEF TaskOK, AskedOK, Shared, Exists
  <1> QED
    BY <1>2, <1>3, <1>6, <1>9 DEF BayanInv, Registers

LEMMA AddNodePreservesInv ==
    ASSUME BayanInv, NEW f \in Files, Registers(f), tasks # << >>, AddNode(f, Len(node[f]))
    PROVE  BayanInv'
  <1>1. PICK child : child = Child(f, Len(node[f]))
    OBVIOUS
  <1>2. /\ Passed(child, f)' /\ child \in Seq(BlockValues) /\ NodesKept
    BY <1>1, ChildPassed DEF BayanInv, Registers
  <1>3. /\ child \notin Nodes
        /\ trailing' = [n \in Nodes \union {child} |->
                          IF n = child THEN {f}
                          ELSE IF n = node[f] THEN trailing[n] \ {f} ELSE trailing[n]]
        /\ tasks' = Tail(tasks)
    BY <1>1 DEF AddNode
  <1>4. /\ Nodes' = Nodes \union {child} /\ trailing'[child] = {f}
        /\ \A n \in Nodes : trailing'[n] \subseteq trailing[n]
    BY <1>3 DEF Nodes
  <1>5. NodesSound
    <2>1. \A n \in Nodes : IsFiniteSet(trailing'[n]) /\ trailing'[n] \subseteq Files
      BY <1>4, FS_Subset DEF BayanInv, TypeOK
    <2>2. IsFiniteSet({f})
      BY FS_Singleton
    <2> QED
      BY <1>2, <1>4, <2>1, <2>2 DEF NodesSound, BayanInv, TypeOK
  <1>6. \A n \in Nodes' : NodeOK(n)'
    <2>1. NodeOK(child)'
      BY <1>2, <1>4 DEF NodeOK
    <2>2. ASSUME NEW n \in Nodes PROVE NodeOK(n)'
      <3>1. n \in DOMAIN trailing'
        BY <1>4 DEF Nodes
      <3> QED
        BY <3>1, <1>2, <1>4, NodeStays DEF BayanInv
    <2> QED
      BY <1>4, <2>1, <2>2
  <1>7. PICK queue : queue = Tail(tasks)
    OBVIOUS
  <1>8. Justified(queue)
    <2>1. queue \in Seq(Tasks) /\ \A i \in 1 .. Len(queue) : queue[i] \in Tasks /\ TaskOK(queue[i])
      BY <1>7, FirstTask
    <2>2. \A i \in 1 .. Len(queue) : TaskOK(queue[i])'
      BY <1>2, <2>1, TaskStays DEF Registers, Advances
    <2> QED
      BY <2>1, <2>2 DEF Justified
  <1> QED
    BY <1>3, <1>5, <1>6, <1>7, <1>8, RegisterPreservesInv

LEMMA JoinNodePreservesInv ==
    ASSUME BayanInv, NEW f \in Files, Registers(f), tasks # << >>, JoinNode(f, Len(node[f]))
    PROVE  BayanInv'
  <1>1. PICK k \in Nat : k = Len(node[f])
    BY LenProperties DEF BayanInv, TypeOK
  <1>2. PICK child : child = Child(f, k)
    OBVIOUS
  <1>3. /\ Passed(child, f)' /\ child \in Seq(BlockValues) /\ Len(child) = k + 1 /\ NodesKept
        /\ \A g \in Files : Passed(child, g) => Passed(child, g)' /\ g # f
    BY <1>1, <1>2, ChildPassed DEF BayanInv, Registers
  <1>4. child \in Nodes /\ trailing' = [trailing EXCEPT ![child] = @ \union {f}]
    BY <1>1, <1>2 DEF JoinNode
  <1>5. PICK asked \in Asked(trailing'[child], k + 1) : tasks' = Tail(tasks) \o asked
    BY <1>1, <1>2 DEF JoinNode
  <1>6. /\ Nodes' = Nodes /\ trailing'[child] = trailing[child] \union {f}
        /\ \A n \in Nodes \ {child} : trailing'[n] = trailing[n]
    BY <1>4 DEF Nodes
  <1>7. NodeOK(child) /\ IsFiniteSet(trailing[child]) /\ trailing[child] \subseteq Files
    BY <1>4 DEF BayanInv, TypeOK
  <1>8. PICK ends : ends = trailing'[child]
    OBVIOUS
  <1>9. ends = trailing[child] \union {f} /\ ends \in SUBSET Files /\ IsFiniteSet(ends)
    BY <1>6, <1>7, <1>8, FS_AddElement
  <1>10. NodesSound
    BY <1>6, <1>8, <1>9 DEF NodesSound, BayanInv, TypeOK
  <1>11. PICK h \in Files : Passed(child, h)
    BY <1>7 DEF NodeOK
  <1>12. \A g \in ends : Passed(child, g)'
    BY <1>3, <1>7, <1>9 DEF NodeOK
  <1>13. \A n \in Nodes' : NodeOK(n)'
    <2>1. NodeOK(child)'
      BY <1>3, <1>8, <1>12 DEF NodeOK
    <2>2. ASSUME NEW n \in Nodes \ {child} PROVE NodeOK(n)'
      <3>1. n \in DOMAIN trailing' /\ trailing'[n] \subseteq trailing[n]
        BY <1>6 DEF Nodes
      <3> QED
        BY <3>1, <1>3, NodeStays DEF BayanInv
    <2> QED
      BY <1>6, <2>1, <2>2
  <1>14. ASSUME NEW g \in ends PROVE Shared(g, k + 1)'
    <2>1. g \in Files /\ Passed(child, g)' /\ k + 1 \in Nat
      BY <1>9, <1>12
    <2>2. CASE g = f
      BY <2>1, <2>2, <1>3, <1>11, TwoPassed
    <2>3. CASE g # f
      BY <2>1, <2>3, <1>3, TwoPassed
    <2> QED
      BY <2>2, <2>3
  <1>15. asked \in Seq(Tasks) /\ \A i \in 1 .. Len(asked) : asked[i].file \in ends /\ asked[i].block = k + 1
    <2>1. asked \in Asked(ends, k + 1) /\ k + 1 \in Nat
      BY <1>5, <1>8
    <2> QED
      BY <2>1, <1>9, AskedTasks
  <1>16. ASSUME NEW i \in 1 .. Len(asked) PROVE TaskOK(asked[i])'
    <2>1. asked[i].file \in ends /\ asked[i].block = k + 1 /\ k + 1 > 0
      BY <1>15
    <2>2. Shared(asked[i].file, asked[i].block)'
      BY <2>1, <1>14
    <2> QED
      BY <2>1, <2>2 DEF TaskOK, AskedOK
  <1>17. PICK rest : rest = Tail(tasks)
    OBVIOUS
  <1>18. rest \in Seq(Tasks) /\ \A i \in 1 .. Len(rest) : rest[i] \in Tasks /\ TaskOK(rest[i])
    BY <1>17, FirstTask
  <1>19. \A i \in 1 .. Len(rest) : TaskOK(rest[i])'
    BY <1>3, <1>18, TaskStays DEF Registers, Advances
  <1>20. Justified(rest \o asked)
    <2>1. /\ rest \o asked \in Seq(Tasks) /\ Len(rest \o asked) = Len(rest) + Len(asked)
          /\ \A i \in 1 .. Len(rest) + Len(asked) :
                (rest \o asked)[i] = IF i <= Len(rest) THEN rest[i] ELSE asked[i - Len(rest)]
      BY <1>15, <1>18, ConcatProperties
    <2>2. Len(rest) \in Nat /\ Len(asked) \in Nat
      BY <1>15, <1>18, LenProperties
    <2>3. PICK queue : queue = rest \o asked
      OBVIOUS
    <2>4. ASSUME NEW i \in 1 .. Len(queue) PROVE TaskOK(queue[i])'
      <3>1. CASE i <= Len(rest)
        <4>1. i \in 1 .. Len(rest) /\ queue[i] = rest[i]
          BY <3>1, <2>1, <2>2, <2>3
        <4> QED
          BY <4>1, <1>19
      <3>2. CASE ~ (i <= Len(rest))
        <4>1. PICK j : j = i - Len(rest)
          OBVIOUS
        <4>2. j \in 1 .. Len(asked) /\ queue[i] = asked[j]
          BY <4>1, <3>2, <2>1, <2>2, <2>3
        <4> QED
          BY <4>2, <1>16
      <3> QED
        BY <3>1, <3>2
    <2> QED
      BY <2>1, <2>3, <2>4 DEF Justified
  <1>21. rest \o asked = tasks'
    BY <1>5, <1>17
  <1> QED
    BY <1>10, <1>13, <1>20, <1>21, RegisterPreservesInv

LEMMA NextPreservesInv ==
    ASSUME BayanInv, Next
    PROVE  BayanInv'
  <1>1. CASE \E f \in Files : HandleDirectoryEntry(f)
    BY <1>1, EntryPreservesInv
  <1>2. CASE HandleNextTask
    <2>1. /\ tasks # << >> /\ UNCHANGED content
          /\ HandleTask(Head(tasks).file, Head(tasks).block)
      BY <1>2 DEF HandleNextTask
    <2>2. PICK f \in Files, b \in Nat :
             f = Head(tasks).file /\ b = Head(tasks).block /\ AskedOK(f, b)
      BY <2>1, FirstTask
    <2>3. HandleTask(f, b)
      BY <2>1, <2>2
    <2>4. CASE Outdated(f, b) /\ tasks' = Tail(tasks) /\ UNCHANGED <<readState, storage, failed>>
      BY <2>1, <2>4, DropPreservesInv DEF storage
    <2>5. CASE ~ Outdated(f, b)
      <3>1. b = Len(node[f]) /\ Exists(f, b)
        BY <2>2, <2>5, TaskIsNext DEF BayanInv
      <3>2. /\ readState' = [readState EXCEPT ![f] = NextBlock(f, b)]
            /\ AddNode(f, b) \/ JoinNode(f, b)
            /\ UNCHANGED failed
        BY <2>3, <2>5, <3>1 DEF HandleTask
      <3>3. node' = [node EXCEPT ![f] = Child(f, b)]
        BY <3>2 DEF AddNode, JoinNode
      <3>4. Registers(f)
        BY <2>1, <2>2, <3>1, <3>2, <3>3 DEF Registers, Advances
      <3> QED
        BY <2>1, <3>1, <3>2, <3>4, AddNodePreservesInv, JoinNodePreservesInv
    <2> QED
      BY <2>3, <2>4, <2>5 DEF HandleTask
  <1>3. CASE Stopped
    BY <1>3, DropPreservesInv DEF Stopped, vars
  <1> QED
    BY <1>1, <1>2, <1>3 DEF Next

-------------------------------------------------------------------------------
(* What the blocks of a file are *)

LEMMA Steps ==
    ASSUME NEW a \in Nat, NEW b \in Nat, NEW w \in Nat
    PROVE  /\ a * w \in Nat
           /\ a < b => a * w + w <= b * w
           /\ a >= b => a * w >= b * w
  <1>1. a * w \in Nat
    OBVIOUS
  <1>2. ASSUME a < b PROVE a * w + w <= b * w
    <2>1. PICK d \in Nat : b = a + 1 + d
      <3>1. b - a - 1 \in Nat /\ b = a + 1 + (b - a - 1)
        BY <1>2
      <3> QED
        BY <3>1
    <2>2. b * w = a * w + w + d * w /\ d * w \in Nat
      BY <2>1
    <2> QED
      BY <1>1, <2>2
  <1>3. ASSUME a >= b PROVE a * w >= b * w
    <2>1. PICK d \in Nat : a = b + d
      <3>1. a - b \in Nat /\ a = b + (a - b)
        BY <1>3
      <3> QED
        BY <3>1
    <2>2. a * w = b * w + d * w /\ d * w \in Nat /\ b * w \in Nat
      BY <2>1
    <2> QED
      BY <2>2
  <1> QED
    BY <1>1, <1>2, <1>3

\* Padding fills the last block, and adds none.
LEMMA Fills ==
    ASSUME NEW n \in Nat, NEW w \in Nat \ {0}
    PROVE  \E k \in Nat : /\ k * w = n + ((w - (n % w)) % w)
                          /\ (n + ((w - (n % w)) % w)) \div w = k
                          /\ n <= k * w /\ k * w < n + w
  <1>1. PICK q \in Nat, r \in 0 .. w - 1 : n = q * w + r /\ r = n % w
    <2>1. n % w \in 0 .. w - 1 /\ n \div w \in Nat /\ n = (w * (n \div w)) + (n % w)
      OBVIOUS
    <2>2. w * (n \div w) = (n \div w) * w
      BY <2>1
    <2> QED
      BY <2>1, <2>2
  <1>2. PICK p \in Nat : p = q * w
    OBVIOUS
  <1>3. PICK z : z = (w - r) % w
    OBVIOUS
  <1>4. CASE r = 0
    <2>1. z = 0
      BY <1>3, <1>4
    <2>2. n + z = p
      BY <1>1, <1>2, <1>4, <2>1
    <2>3. p \div w = q
      BY <1>2
    <2>4. n <= p /\ p < n + w
      BY <2>1, <2>2
    <2> QED
      BY <1>1, <1>2, <1>3, <2>2, <2>3, <2>4
  <1>5. CASE r # 0
    <2>1. w - r \in 0 .. w - 1
      BY <1>1, <1>5
    <2>2. z = w - r
      BY <1>3, <2>1
    <2>3. (q + 1) * w = p + w /\ ((q + 1) * w) \div w = q + 1
      BY <1>2
    <2>4. n + z = p + w
      BY <1>1, <1>2, <2>2
    <2>5. n <= p + w /\ p + w < n + w
      BY <1>1, <1>2, <1>5
    <2>6. PICK k \in Nat : k = q + 1
      OBVIOUS
    <2>7. k * w = n + z /\ (n + z) \div w = k /\ n <= k * w /\ k * w < n + w
      BY <2>3, <2>4, <2>5, <2>6
    <2> QED
      BY <1>1, <1>3, <2>7
  <1> QED
    BY <1>4, <1>5

LEMMA PaddedIs ==
    ASSUME TypeOK, NEW f \in Files, NEW n \in Nat, n = Len(content[f]),
           NEW z \in Nat, z = Padding(f)
    PROVE  /\ Padded(f) \in Seq(Nat) /\ Len(Padded(f)) = n + z
           /\ \A j \in 1 .. n + z : Padded(f)[j] = IF j <= n THEN content[f][j] ELSE 0
  <1>1. content[f] \in Seq(Nat)
    BY DEF TypeOK
  <1>2. PICK zeros : zeros = [i \in 1 .. z |-> 0]
    OBVIOUS
  <1>3. zeros \in Seq(Nat) /\ Len(zeros) = z /\ \A i \in 1 .. z : zeros[i] = 0
    <2>1. zeros \in [1 .. z -> Nat]
      BY <1>2
    <2> QED
      BY <1>2, <2>1, SeqDef, LenProperties
  <1>4. /\ Padded(f) \in Seq(Nat) /\ Len(Padded(f)) = n + z
        /\ \A j \in 1 .. n + z : Padded(f)[j] = IF j <= n THEN content[f][j] ELSE zeros[j - n]
    BY <1>1, <1>2, <1>3, ConcatProperties DEF Padded
  <1>5. \A j \in 1 .. n + z : j <= n \/ j - n \in 1 .. z
    OBVIOUS
  <1> QED
    BY <1>3, <1>4, <1>5

\* The blocks of a file are the checksums of those that exist.
LEMMA BlocksAre ==
    ASSUME TypeOK, NEW f \in Files
    PROVE  \E k \in Nat : /\ Blocks(f) \in Seq(BlockValues) /\ Len(Blocks(f)) = k
                          /\ \A b \in Nat : Exists(f, b) <=> b < k
                          /\ \A b \in 1 .. k : Blocks(f)[b] = Checksum(f, b - 1)
  <1>1. PICK n \in Nat : n = Len(content[f])
    BY LenProperties DEF TypeOK
  <1>2. PICK z \in Nat : z = Padding(f)
    <2>1. n % BlockSize \in 0 .. BlockSize - 1
      BY BlockSizeAssumption
    <2>2. PICK m \in Nat : m = BlockSize - (n % BlockSize)
      BY <2>1, BlockSizeAssumption
    <2>3. m % BlockSize \in Nat
      BY <2>2, BlockSizeAssumption
    <2> QED
      BY <1>1, <2>2, <2>3 DEF Padding
  <1>3. PICK k \in Nat : /\ k * BlockSize = n + z /\ (n + z) \div BlockSize = k
                         /\ n <= k * BlockSize /\ k * BlockSize < n + BlockSize
    BY <1>1, <1>2, BlockSizeAssumption, Fills DEF Padding
  <1>4. /\ Padded(f) \in Seq(Nat) /\ Len(Padded(f)) = n + z
        /\ \A j \in 1 .. n + z : Padded(f)[j] = IF j <= n THEN content[f][j] ELSE 0
    BY <1>1, <1>2, PaddedIs
  <1>5. ASSUME NEW b \in Nat
        PROVE  Exists(f, b) <=> b < k
    <2>1. PICK p \in Nat : p = b * BlockSize
      BY BlockSizeAssumption
    <2>2. PICK q \in Nat : q = k * BlockSize
      BY BlockSizeAssumption
    <2>3. b < k => p + BlockSize <= q
      BY <2>1, <2>2, Steps, BlockSizeAssumption
    <2>4. b >= k => p >= q
      BY <2>1, <2>2, Steps, BlockSizeAssumption
    <2> QED
      BY <1>1, <1>3, <2>1, <2>2, <2>3, <2>4, BlockSizeAssumption DEF Exists
  <1>6. /\ DOMAIN Blocks(f) = 1 .. k
        /\ \A b \in 1 .. k : Blocks(f)[b] = SubSeq(Padded(f), (b - 1) * BlockSize + 1, b * BlockSize)
    BY <1>3, <1>4 DEF Blocks
  <1>7. ASSUME NEW b \in 1 .. k
        PROVE  Blocks(f)[b] = Checksum(f, b - 1) /\ Blocks(f)[b] \in BlockValues
    <2>1. PICK a \in Nat : a = b - 1 /\ a < k
      OBVIOUS
    <2>2. PICK p \in Nat : p = a * BlockSize
      BY BlockSizeAssumption
    <2>3. b * BlockSize = p + BlockSize
      <3>1. b = a + 1 /\ BlockSize \in Nat
        BY <2>1, BlockSizeAssumption
      <3> QED
        BY <3>1, <2>2
    <2>4. p + BlockSize <= n + z
      <3>1. a * BlockSize + BlockSize <= k * BlockSize
        BY <2>1, Steps, BlockSizeAssumption
      <3> QED
        BY <3>1, <2>2, <1>3
    <2>5. PICK block : block = SubSeq(Padded(f), p + 1, p + BlockSize)
      OBVIOUS
    <2>6. \A i \in p + 1 .. p + BlockSize : Padded(f)[i] \in Nat
      <3> TAKE i \in p + 1 .. p + BlockSize
      <3>1. i \in 1 .. n + z
        BY <2>4, <1>3, BlockSizeAssumption
      <3> QED
        BY <3>1, <1>4, ElementOfSeq
    <2>7. /\ block \in Seq(Nat) /\ Len(block) = BlockSize
          /\ \A i \in 1 .. BlockSize : block[i] = Padded(f)[p + i]
      <3>1. PICK first \in Int, last \in Int : first = p + 1 /\ last = p + BlockSize
        BY BlockSizeAssumption
      <3>2. first <= last /\ last - first + 1 = BlockSize
        BY <3>1, BlockSizeAssumption
      <3>3. block = SubSeq(Padded(f), first, last) /\ \A i \in first .. last : Padded(f)[i] \in Nat
        BY <2>5, <2>6, <3>1
      <3>4. /\ block \in Seq(Nat) /\ Len(block) = last - first + 1
            /\ \A i \in 1 .. last - first + 1 : block[i] = Padded(f)[first + i - 1]
        BY <3>2, <3>3, SubSeqProperties
      <3>5. \A i \in 1 .. BlockSize : first + i - 1 = p + i
        BY <3>1, BlockSizeAssumption
      <3> QED
        BY <3>2, <3>4, <3>5
    <2>8. block \in BlockValues
      BY <2>7, LenProperties DEF BlockValues
    <2>9. \A i \in 1 .. BlockSize :
             block[i] = IF p + i <= n THEN content[f][p + i] ELSE 0
      <3> TAKE i \in 1 .. BlockSize
      <3>1. p + i \in 1 .. n + z
        BY <2>4, <1>3, BlockSizeAssumption
      <3> QED
        BY <3>1, <1>4, <2>7
    <2>10. Checksum(f, a) = [i \in 1 .. BlockSize |-> IF p + i <= n THEN content[f][p + i] ELSE 0]
      BY <1>1, <2>2 DEF Checksum
    <2>11. block = Checksum(f, a)
      BY <2>8, <2>9, <2>10 DEF BlockValues
    <2> QED
      BY <1>6, <2>1, <2>2, <2>3, <2>5, <2>8, <2>11
  <1>8. Blocks(f) \in [1 .. k -> BlockValues]
    BY <1>6, <1>7 DEF Blocks
  <1>9. Blocks(f) \in Seq(BlockValues) /\ Len(Blocks(f)) = k
    BY <1>8, SeqDef, LenProperties
  <1> QED
    BY <1>5, <1>7, <1>9

-------------------------------------------------------------------------------
(* The property *)

\* IsPrefix by elements.
LEMMA PrefixByElements ==
    ASSUME NEW S, NEW s \in Seq(S), NEW t \in Seq(S), NEW l \in Nat, l <= Len(s), l <= Len(t),
           \A i \in 1 .. l : s[i] = t[i]
    PROVE  IsPrefix(SubSeq(s, 1, l), t)
  <1>1. Len(s) \in Nat /\ Len(t) \in Nat
    BY LenProperties
  <1>2. \A i \in 1 .. l : s[i] \in S /\ t[i] \in S
    <2> TAKE i \in 1 .. l
    <2>1. i \in 1 .. Len(s) /\ i \in 1 .. Len(t)
      BY <1>1
    <2> QED
      BY <2>1, ElementOfSeq
  <1>3. PICK u : u = SubSeq(s, 1, l)
    OBVIOUS
  <1>4. PICK v : v = SubSeq(t, 1, l)
    OBVIOUS
  <1>5. u \in Seq(S) /\ Len(u) = l /\ \A i \in 1 .. l : u[i] = s[i]
    BY <1>2, <1>3, SubSeqProperties
  <1>6. v \in Seq(S) /\ Len(v) = l /\ \A i \in 1 .. l : v[i] = t[i]
    BY <1>2, <1>4, SubSeqProperties
  <1>7. u = v
    <2>1. Len(u) = Len(v) /\ \A i \in 1 .. Len(u) : u[i] = v[i]
      BY <1>5, <1>6
    <2> QED
      BY <1>5, <1>6, <2>1, SeqEqual
  <1>8. SubSeq(u, 1, Len(u)) = u
    BY <1>5, SubSeqFull
  <1>9. IsPrefix(u, t)
    BY <1>4, <1>5, <1>7, <1>8 DEF IsPrefix
  <1> QED
    BY <1>3, <1>9

LEMMA InvImpliesContiguous == BayanInv => BlocksContiguous
  <1> SUFFICES ASSUME BayanInv, NEW f \in Files
               PROVE  /\ IsPrefix(node[f], Blocks(f))
                      /\ readState[f] = IF node[f] # Root /\ node[f] = Blocks(f)
                                        THEN End ELSE Len(node[f])
    BY DEF BlocksContiguous
  <1>1. PICK l \in Nat : l = Len(node[f])
    BY LenProperties DEF BayanInv, TypeOK
  <1>2. PICK k \in Nat : /\ Blocks(f) \in Seq(BlockValues) /\ Len(Blocks(f)) = k
                         /\ \A b \in Nat : Exists(f, b) <=> b < k
                         /\ \A b \in 1 .. k : Blocks(f)[b] = Checksum(f, b - 1)
    BY BlocksAre DEF BayanInv
  <1>3. node[f] \in Seq(BlockValues) /\ PathOK(f)
    BY DEF BayanInv, TypeOK
  <1>4. l <= k
    <2>1. CASE l = 0
      BY <2>1
    <2>2. CASE l # 0
      <3>1. PICK b \in Nat : b = l - 1
        BY <2>2
      <3>2. Exists(f, b)
        BY <1>1, <1>3, <2>2, <3>1 DEF PathOK
      <3> QED
        BY <1>2, <3>1, <3>2
    <2> QED
      BY <2>1, <2>2
  <1>5. \A i \in 1 .. l : node[f][i] = Blocks(f)[i]
    BY <1>1, <1>2, <1>3, <1>4 DEF PathOK
  <1>6. IsPrefix(node[f], Blocks(f))
    <2>1. l <= Len(node[f]) /\ l <= Len(Blocks(f))
      BY <1>1, <1>2, <1>4
    <2>2. IsPrefix(SubSeq(node[f], 1, l), Blocks(f))
      BY <1>2, <1>3, <1>5, <2>1, PrefixByElements
    <2>3. SubSeq(node[f], 1, l) = node[f]
      BY <1>1, <1>3, SubSeqFull
    <2> QED
      BY <2>2, <2>3
  <1>7. node[f] = Blocks(f) <=> l = k
    BY <1>1, <1>2, <1>3, <1>5, SeqEqual
  <1>8. node[f] # Root <=> l # 0
    <2>1. Len(Root) = 0
      BY DEF Root
    <2>2. node[f] # << >> => Len(node[f]) \in Nat \ {0}
      BY <1>3, EmptySeq
    <2> QED
      BY <1>1, <2>1, <2>2 DEF Root
  <1>9. readState[f] = IF l # 0 /\ l = k THEN End ELSE l
    <2>1. CASE l = 0
      BY <1>1, <1>3, <2>1 DEF PathOK
    <2>2. CASE l # 0
      <3>1. PICK b \in Nat : b = l - 1 /\ b + 1 = l
        <4>1. l - 1 \in Nat /\ (l - 1) + 1 = l
          BY <2>2
        <4> QED
          BY <4>1
      <3>2. readState[f] = NextBlock(f, b)
        BY <1>1, <1>3, <2>2, <3>1 DEF PathOK
      <3>3. readState[f] = IF Exists(f, l) THEN l ELSE End
        BY <3>1, <3>2 DEF NextBlock, Exists
      <3>4. Exists(f, l) <=> l # k
        BY <1>2, <1>4
      <3> QED
        BY <2>2, <3>3, <3>4
    <2> QED
      BY <2>1, <2>2
  <1> QED
    BY <1>1, <1>6, <1>7, <1>8, <1>9

LEMMA InvImpliesIfNecessary == BayanInv => ReadIfNecessary
  <1> SUFFICES ASSUME BayanInv, NEW f \in Files, Len(node[f]) > 1
               PROVE  \E g \in Files \ {f} : IsPrefix(Front(node[f]), node[g])
    BY DEF ReadIfNecessary
  <1>1. PICK l \in Nat : l = Len(node[f]) - 1 /\ l <= Len(node[f])
    <2>1. Len(node[f]) \in Nat
      BY LenProperties DEF BayanInv, TypeOK
    <2>2. Len(node[f]) - 1 \in Nat /\ Len(node[f]) - 1 <= Len(node[f])
      BY <2>1
    <2> QED
      BY <2>2
  <1>2. Shared(f, l)
    BY <1>1 DEF BayanInv, NeedOK
  <1>3. PICK g \in Files \ {f} : l <= Len(node[g]) /\ \A i \in 1 .. l : node[f][i] = node[g][i]
    BY <1>2 DEF Shared
  <1>4. node[f] \in Seq(BlockValues) /\ node[g] \in Seq(BlockValues)
    BY DEF BayanInv, TypeOK
  <1>5. IsPrefix(SubSeq(node[f], 1, l), node[g])
    BY <1>1, <1>3, <1>4, PrefixByElements
  <1>6. Front(node[f]) = SubSeq(node[f], 1, l)
    BY <1>1 DEF Front
  <1> QED
    BY <1>5, <1>6

\* What the crawl reads is what it needs: the blocks of every file are registered
\* once each and in their order, the crawler knows which one is next and never asks
\* for one that does not exist, and it reads behind a block because another file has
\* the same blocks up to there (TBlockChecksumStorage::Register, HandleNextTask).
THEOREM ReadsInOrderIfNecessaryCorrect == Spec => []ReadsInOrderIfNecessary
  <1>1. BayanInv /\ [Next]_vars => BayanInv'
    <2>1. ASSUME BayanInv, UNCHANGED vars PROVE BayanInv'
      BY <2>1, DropPreservesInv DEF vars
    <2> QED
      BY <2>1, NextPreservesInv
  <1>2. BayanInv => ReadsInOrderIfNecessary
    BY InvImpliesContiguous, InvImpliesIfNecessary DEF ReadsInOrderIfNecessary, BayanInv
  <1> QED
    BY <1>1, <1>2, InitBayanInv, PTL DEF Spec

-------------------------------------------------------------------------------
(* Numbers in order *)

LEMMA NumbersUpTo ==
    ASSUME NEW n \in Nat
    PROVE  IsFiniteSet(1 .. n) /\ Cardinality(1 .. n) = n
<1>1. IsFiniteSet(1 .. n) /\ Cardinality(1 .. n) = IF 1 > n THEN 0 ELSE n - 1 + 1
  BY FS_Interval
<1> QED
  BY <1>1

LEMMA LeastOf ==
    ASSUME NEW S \in SUBSET Nat, S # {}
    PROVE  \E i \in S : \A j \in S : i <= j
<1>1. PICK i \in S : \A j \in S : ~ (<<j, i>> \in OpToRel(<, Nat))
  BY NatLessThanWellFounded, WFMin
<1>2. \A j \in S : ~ (j < i)
  BY <1>1 DEF OpToRel
<1> QED
  BY <1>2

\* The place of a number in a set.
Rank(S, i) == Cardinality({j \in S : j <= i})

LEMMA RankRises ==
    ASSUME NEW S, IsFiniteSet(S), S \subseteq Int, NEW i \in S
    PROVE  /\ Rank(S, i) \in 1 .. Cardinality(S)
           /\ \A k \in S : i < k => Rank(S, i) < Rank(S, k)
<1> DEFINE upTo(n) == {j \in S : j <= n}
<1>1. ASSUME NEW n \in S PROVE IsFiniteSet(upTo(n)) /\ Cardinality(upTo(n)) \in Nat
  BY FS_Subset, FS_CardinalityType
<1>2. Cardinality(upTo(i)) <= Cardinality(S) /\ Cardinality(S) \in Nat
  BY FS_Subset, FS_CardinalityType
<1>3. Cardinality(upTo(i)) # 0
  <2>1. i \in upTo(i)
    OBVIOUS
  <2> QED
    BY <1>1, <2>1, FS_EmptySet
<1>4. ASSUME NEW k \in S, i < k PROVE Cardinality(upTo(i)) < Cardinality(upTo(k))
  <2>1. upTo(i) \subseteq upTo(k) /\ k \in upTo(k) /\ k \notin upTo(i)
    <3>1. \A j \in S : j \in Int
      OBVIOUS
    <3>2. \A j \in S : j <= i => j <= k
      BY <1>4, <3>1
    <3>3. k <= k /\ ~ (k <= i)
      BY <1>4, <3>1
    <3> QED
      BY <3>2, <3>3
  <2>2. /\ Cardinality(upTo(i)) <= Cardinality(upTo(k))
        /\ Cardinality(upTo(k)) = Cardinality(upTo(i)) => upTo(k) = upTo(i)
    <3> HIDE DEF upTo
    <3> QED
      BY <1>1, <2>1, FS_Subset
  <2> QED
    BY <1>1, <2>1, <2>2
<1> QED
  BY <1>1, <1>2, <1>3, <1>4 DEF Rank

LEMMA NthIs ==
    ASSUME NEW S, IsFiniteSet(S), S \subseteq Int
    PROVE  /\ Cardinality(S) \in Nat
           /\ \A k \in 1 .. Cardinality(S) : Nth(S, k) \in S /\ Rank(S, Nth(S, k)) = k
           /\ \A i \in S : Rank(S, i) \in 1 .. Cardinality(S) /\ Nth(S, Rank(S, i)) = i
<1>1. PICK n \in Nat : n = Cardinality(S)
  BY FS_CardinalityType
<1>2. \A i \in S : Rank(S, i) \in 1 .. n /\ \A k \in S : i < k => Rank(S, i) < Rank(S, k)
  BY <1>1, RankRises
<1>3. \A i, k \in S : Rank(S, i) = Rank(S, k) => i = k
  <2> TAKE i \in S
  <2> TAKE k \in S
  <2>1. i \in Int /\ k \in Int
    OBVIOUS
  <2>2. i < k \/ k < i \/ i = k
    BY <2>1
  <2> QED
    BY <1>2, <2>2
<1>4. \A k \in 1 .. n : \E i \in S : Rank(S, i) = k
  <2> DEFINE place == [i \in S |-> Rank(S, i)]
  <2>1. place \in Injection(S, 1 .. n)
    BY <1>2, <1>3 DEF Injection, IsInjective
  <2>2. IsFiniteSet(1 .. n) /\ Cardinality(1 .. n) = n
    BY <1>1, NumbersUpTo
  <2>3. place \in Surjection(S, 1 .. n)
    <3> HIDE DEF place
    <3> QED
      BY <1>1, <2>1, <2>2, FS_Injection
  <2> QED
    BY <2>3 DEF Surjection
<1>5. \A k \in 1 .. n : Nth(S, k) \in S /\ Rank(S, Nth(S, k)) = k
  BY <1>4 DEF Nth, Rank
<1> QED
  BY <1>1, <1>2, <1>3, <1>5

LEMMA NthRises ==
    ASSUME NEW S, IsFiniteSet(S), S \subseteq Int,
           NEW k \in 1 .. Cardinality(S), NEW m \in 1 .. Cardinality(S), k < m
    PROVE  Nth(S, k) < Nth(S, m)
<1>1. PICK i \in S, j \in S : i = Nth(S, k) /\ j = Nth(S, m) /\ Rank(S, i) = k /\ Rank(S, j) = m
  BY NthIs
<1>2. i \in Int /\ j \in Int
  OBVIOUS
<1>3. j < i => Rank(S, j) < Rank(S, i)
  BY RankRises
<1>4. Cardinality(S) \in Nat
  BY NthIs
<1> QED
  BY <1>1, <1>2, <1>3, <1>4

\* The only rising list of all numbers of a set.
LEMMA InOrderIs ==
    ASSUME NEW n \in Nat, NEW S, S \subseteq Int, NEW f \in [1 .. n -> S],
           \A i, j \in 1 .. n : i < j => f[i] < f[j],
           \A x \in S : \E i \in 1 .. n : f[i] = x
    PROVE  IsFiniteSet(S) /\ Cardinality(S) = n /\ InOrder(S) = f
<1>0. \A i \in 1 .. n : f[i] \in S /\ f[i] \in Int
  OBVIOUS
<1>1. ASSUME NEW k \in 1 .. n
      PROVE  IsFiniteSet({x \in S : x <= f[k]}) /\ Rank(S, f[k]) = k
  <2> DEFINE below == {x \in S : x <= f[k]}
  <2> DEFINE g == [i \in 1 .. k |-> f[i]]
  <2>1. \A i \in 1 .. k : i \in 1 .. n /\ f[i] \in Int /\ f[i] <= f[k]
    <3> TAKE i \in 1 .. k
    <3>1. i \in 1 .. n /\ f[i] \in Int /\ f[k] \in Int
      BY <1>0
    <3>2. i < k \/ i = k
      OBVIOUS
    <3> QED
      BY <3>1, <3>2
  <2>2. \A x \in below : \E i \in 1 .. k : f[i] = x
    <3> TAKE x \in below
    <3>1. PICK i \in 1 .. n : f[i] = x
      OBVIOUS
    <3>2. ~ (k < i)
      <4> SUFFICES ASSUME k < i PROVE FALSE
        OBVIOUS
      <4>1. f[k] < f[i] /\ f[i] <= f[k] /\ f[i] \in Int /\ f[k] \in Int
        BY <1>0, <3>1
      <4> QED
        BY <4>1
    <3> QED
      BY <3>1, <3>2
  <2>3. \A i, j \in 1 .. k : f[i] = f[j] => i = j
    <3> TAKE i, j \in 1 .. k
    <3>1. i \in 1 .. n /\ j \in 1 .. n /\ f[i] \in Int /\ f[j] \in Int
      BY <1>0
    <3>2. i < j \/ j < i \/ i = j
      OBVIOUS
    <3> QED
      BY <3>1, <3>2
  <2>4. g \in Bijection(1 .. k, below)
    BY <2>1, <2>2, <2>3 DEF Bijection, Injection, Surjection, IsInjective
  <2>5. IsFiniteSet(1 .. k) /\ Cardinality(1 .. k) = k
    BY NumbersUpTo
  <2>6. IsFiniteSet(below) /\ Cardinality(below) = k
    <3> HIDE DEF below, g
    <3> QED
      BY <2>4, <2>5, FS_Bijection DEF ExistsBijection
  <2> QED
    BY <2>6 DEF Rank
<1>2. IsFiniteSet(S) /\ Cardinality(S) = n
  <2>1. IsFiniteSet(1 .. n) /\ Cardinality(1 .. n) = n
    BY NumbersUpTo
  <2>2. \A i, j \in 1 .. n : f[i] = f[j] => i = j
    <3> TAKE i, j \in 1 .. n
    <3>1. f[i] \in Int /\ f[j] \in Int
      BY <1>0
    <3>2. i < j \/ j < i \/ i = j
      OBVIOUS
    <3> QED
      BY <3>1, <3>2
  <2>3. f \in Bijection(1 .. n, S)
    BY <2>2 DEF Bijection, Injection, Surjection, IsInjective
  <2> QED
    BY <2>1, <2>3, FS_Bijection DEF ExistsBijection
<1>3. \A k \in 1 .. n : Nth(S, k) = f[k]
  <2> TAKE k \in 1 .. n
  <2>1. f[k] \in S /\ Nth(S, Rank(S, f[k])) = f[k]
    BY <1>2, NthIs
  <2> QED
    BY <1>1, <2>1
<1>4. InOrder(S) = [k \in 1 .. n |-> f[k]]
  BY <1>2, <1>3 DEF InOrder
<1> QED
  BY <1>2, <1>4

LEMMA InOrderOf ==
    ASSUME NEW S, IsFiniteSet(S), S \subseteq Int
    PROVE  /\ Cardinality(S) \in Nat
           /\ InOrder(S) \in [1 .. Cardinality(S) -> S]
           /\ \A i, j \in 1 .. Cardinality(S) : i < j => InOrder(S)[i] < InOrder(S)[j]
           /\ \A x \in S : \E i \in 1 .. Cardinality(S) : InOrder(S)[i] = x
<1>1. Cardinality(S) \in Nat
  BY NthIs
<1>2. \A k \in 1 .. Cardinality(S) : InOrder(S)[k] = Nth(S, k) /\ Nth(S, k) \in S
  BY NthIs DEF InOrder
<1>3. \A x \in S : Rank(S, x) \in 1 .. Cardinality(S) /\ Nth(S, Rank(S, x)) = x
  BY NthIs
<1>4. InOrder(S) \in [1 .. Cardinality(S) -> S]
  BY <1>2 DEF InOrder
<1>5. \A i, j \in 1 .. Cardinality(S) : i < j => Nth(S, i) < Nth(S, j)
  BY NthRises
<1> QED
  BY <1>1, <1>2, <1>3, <1>4, <1>5

\* What is kept of a list stays in order.
LEMMA KeptIs ==
    ASSUME NEW T, NEW list \in Seq(T), NEW S
    PROVE  /\ \A x : (\E k \in DOMAIN Kept(list, S) : Kept(list, S)[k] = x)
                     <=> x \in S /\ \E i \in DOMAIN list : list[i] = x
           /\ \A k, m \in DOMAIN Kept(list, S) : k < m =>
                 \E i, j \in DOMAIN list : i < j /\ Kept(list, S)[k] = list[i] /\ Kept(list, S)[m] = list[j]
<1>1. PICK n \in Nat : n = Len(list) /\ DOMAIN list = 1 .. n
  BY LenProperties
<1>2. PICK places : places = {i \in DOMAIN list : list[i] \in S}
  OBVIOUS
<1>3. IsFiniteSet(places) /\ places \subseteq Int
  <2>1. IsFiniteSet(1 .. n)
    BY NumbersUpTo
  <2>2. places \in SUBSET (1 .. n)
    BY <1>1, <1>2
  <2>3. IsFiniteSet(places)
    BY <2>1, <2>2, FS_Subset
  <2> QED
    BY <2>2, <2>3
<1>4. Kept(list, S) = [k \in 1 .. Cardinality(places) |-> list[Nth(places, k)]]
  BY <1>2 DEF Kept
<1>5. \A k \in 1 .. Cardinality(places) : Nth(places, k) \in places
  BY <1>3, NthIs
<1>6. \A i \in places : \E k \in 1 .. Cardinality(places) : Nth(places, k) = i
  BY <1>3, NthIs
<1>7. \A k, m \in 1 .. Cardinality(places) : k < m => Nth(places, k) < Nth(places, m)
  BY <1>3, NthRises
<1>8. \A i \in places : i \in DOMAIN list /\ list[i] \in S
  BY <1>2
<1>9. \A k, m \in 1 .. Cardinality(places) : k < m =>
         \E i, j \in DOMAIN list : i < j /\ list[Nth(places, k)] = list[i] /\ list[Nth(places, m)] = list[j]
  BY <1>5, <1>7, <1>8
<1>10. \A x : (\E k \in 1 .. Cardinality(places) : list[Nth(places, k)] = x)
              <=> x \in S /\ \E i \in DOMAIN list : list[i] = x
  BY <1>2, <1>5, <1>6
<1> HIDE <1>2
<1> QED
  BY <1>4, <1>9, <1>10

-------------------------------------------------------------------------------
(* 02 ip_filter *)

AllProper == \A i \in DOMAIN source : Filter!Proper(source[i])

Descending(list) == \A i, j \in DOMAIN list : i < j => ~Filter!Less(list[i], list[j])

FilterInv ==
    /\ source \in Seq(Lines)
    /\ phase \in {"reading", "sorted", "done", "thrown"}
    /\ AllProper =>
        /\ phase = "reading" => items = source
        /\ phase \in {"sorted", "done"} => items \in Filter!Permuted(source) /\ Descending(items)
        /\ phase = "sorted" => output = <<items>>
        /\ phase = "done" => output = <<items, Kept(items, {a \in Filter!ToSet(items) : a[1] = 1}),
                                        Kept(items, {a \in Filter!ToSet(items) : a[1] = 46 /\ a[2] = 70}),
                                        Kept(items, {a \in Filter!ToSet(items) : 46 \in Filter!ToSet(a)})>>

\* An address is read as it is written.
LEMMA ParseProper ==
    ASSUME NEW line \in Lines, Filter!Proper(line)
    PROVE  Filter!Parse(line) = line
<1>1. line = [i \in 1 .. 4 |-> line[i]]
  <2>1. line \in Seq({line[i] : i \in DOMAIN line}) /\ Len(line) = 4
    BY LinesAssumption DEF Filter!Proper
  <2> QED
    BY <2>1, LenProperties
<1>2. ASSUME NEW i \in 1 .. 4 PROVE Filter!Field(line, i) % 256 = line[i]
  <2>1. Len(line) = 4 /\ line[i] \in 0 .. 255
    BY DEF Filter!Proper
  <2>2. 1 + ((i - 1) % 4) = i
    OBVIOUS
  <2>3. Filter!Field(line, i) = line[i]
    BY <2>1, <2>2 DEF Filter!Field
  <2> QED
    BY <2>1, <2>3
<1> QED
  BY <1>1, <1>2 DEF Filter!Parse

LEMMA FilterKept ==
    ASSUME NEW list, NEW S
    PROVE  Filter!Kept(list, S) = Kept(list, S)
BY DEF Filter!Kept, Kept, Filter!Nth, Nth, Filter!Cardinality, Cardinality

LEMMA FourLists ==
    ASSUME NEW a, NEW b, NEW c, NEW d
    PROVE  <<a>> \o <<b, c, d>> = <<a, b, c, d>>
<1>1. PICK S : S = {a, b, c, d}
  OBVIOUS
<1>2. PICK one, three, four : one = <<a>> /\ three = <<b, c, d>> /\ four = <<a, b, c, d>>
  OBVIOUS
<1>3. /\ one \in Seq(S) /\ three \in Seq(S) /\ four \in Seq(S)
      /\ Len(one) = 1 /\ Len(three) = 3 /\ Len(four) = 4
      /\ one[1] = a /\ three[1] = b /\ three[2] = c /\ three[3] = d
      /\ four[1] = a /\ four[2] = b /\ four[3] = c /\ four[4] = d
  BY <1>1, <1>2
<1> HIDE <1>1, <1>2
<1>4. PICK all : all = one \o three
  OBVIOUS
<1>5. all \in Seq(S) /\ Len(all) = 4 /\ all[1] = a /\ all[2] = b /\ all[3] = c /\ all[4] = d
  <2>1. all \in Seq(S) /\ Len(all) = Len(one) + Len(three)
    BY <1>3, <1>4, ConcatProperties
  <2>2. \A i \in 1 .. 4 : all[i] = IF i <= 1 THEN one[i] ELSE three[i - 1]
    <3>1. \A i \in 1 .. Len(one) + Len(three) :
             all[i] = IF i <= Len(one) THEN one[i] ELSE three[i - Len(one)]
      BY <1>3, <1>4, ConcatProperties
    <3> QED
      BY <1>3, <3>1
  <2> QED
    BY <1>3, <2>1, <2>2
<1>6. \A i \in 1 .. 4 : all[i] = four[i]
  BY <1>3, <1>5
<1>7. all = four
  BY <1>3, <1>5, <1>6, SeqEqual
<1> QED
  BY <1>2, <1>4, <1>7

LEMMA FilterStep == FilterInv /\ [Filter!Next]_Filter!vars => FilterInv'
<1> SUFFICES ASSUME FilterInv, [Filter!Next]_Filter!vars PROVE FilterInv'
  OBVIOUS
<1>1. CASE UNCHANGED Filter!vars
  BY <1>1 DEF FilterInv, AllProper, Filter!vars
<1>2. ASSUME NEW line \in Lines, Filter!ReadLine(line) PROVE FilterInv'
  <2>1. source' = Append(source, line) /\ phase = "reading" /\ source \in Seq(Lines)
    BY <1>2 DEF Filter!ReadLine, FilterInv
  <2>2. source' \in Seq(Lines)
    BY <2>1
  <2>3. phase' \in {"reading", "thrown"} /\ (phase' = "reading" => items' = Append(items, Filter!Parse(line)))
    BY <1>2 DEF Filter!ReadLine
  <2>4. AllProper' => AllProper /\ Filter!Proper(line)
    <3>1. PICK n \in Nat : n = Len(source) /\ DOMAIN source = 1 .. n
      BY <2>1, LenProperties
    <3>2. PICK more : more = source'
      OBVIOUS
    <3>3. DOMAIN more = 1 .. n + 1 /\ more[n + 1] = line /\ \A i \in 1 .. n : more[i] = source[i]
      BY <2>1, <3>1, <3>2, AppendProperties
    <3>4. n + 1 \in 1 .. n + 1 /\ \A i \in 1 .. n : i \in 1 .. n + 1
      OBVIOUS
    <3> QED
      BY <3>1, <3>2, <3>3, <3>4 DEF AllProper
  <2>5. AllProper' /\ phase' = "reading" => items' = source'
    BY <2>1, <2>3, <2>4, ParseProper DEF FilterInv
  <2> QED
    BY <2>2, <2>3, <2>5 DEF FilterInv
<1>3. CASE Filter!Sort
  <2>1. UNCHANGED source /\ phase' = "sorted" /\ phase = "reading"
    BY <1>3 DEF Filter!Sort
  <2>2. PICK sorted \in Filter!Permuted(items) :
           /\ \A i, j \in DOMAIN items : i < j => ~Filter!Less(sorted[i], sorted[j])
           /\ items' = sorted /\ output' = <<sorted>>
    BY <1>3 DEF Filter!Sort
  <2>3. DOMAIN sorted = DOMAIN items
    BY DEF Filter!Permuted
  <2>4. Descending(sorted)
    BY <2>2, <2>3 DEF Descending
  <2>5. AllProper' => items' \in Filter!Permuted(source') /\ Descending(items')
    BY <2>1, <2>2, <2>4 DEF FilterInv, AllProper
  <2> QED
    BY <2>1, <2>2, <2>5 DEF FilterInv
<1>4. CASE Filter!Filter
  <2>1. UNCHANGED <<source, items>> /\ phase' = "done" /\ phase = "sorted"
    BY <1>4 DEF Filter!Filter
  <2>2. PICK k1, k2, k3 :
           /\ k1 = Kept(items, {a \in Filter!ToSet(items) : a[1] = 1})
           /\ k2 = Kept(items, {a \in Filter!ToSet(items) : a[1] = 46 /\ a[2] = 70})
           /\ k3 = Kept(items, {a \in Filter!ToSet(items) : 46 \in Filter!ToSet(a)})
    OBVIOUS
  <2>3. output' = output \o <<k1, k2, k3>>
    BY <1>4, <2>2, FilterKept DEF Filter!Filter
  <2>4. AllProper => items \in Filter!Permuted(source) /\ Descending(items) /\ output = <<items>>
    BY <2>1 DEF FilterInv
  <2>5. AllProper' => output' = <<items, k1, k2, k3>>
    <3>1. <<items>> \o <<k1, k2, k3>> = <<items, k1, k2, k3>>
      BY FourLists
    <3> QED
      BY <2>1, <2>3, <2>4, <3>1 DEF AllProper
  <2>6. AllProper' => items' \in Filter!Permuted(source') /\ Descending(items')
    BY <2>1, <2>4 DEF AllProper
  <2> QED
    BY <2>1, <2>2, <2>5, <2>6 DEF FilterInv
<1>5. CASE Filter!Stopped
  BY <1>1, <1>5 DEF Filter!Stopped
<1> QED
  BY <1>1, <1>2, <1>3, <1>4, <1>5 DEF Filter!Next

LEMMA FilterInvariant == Filter!Spec => []FilterInv
<1>1. Filter!Init => FilterInv
  BY DEF Filter!Init, FilterInv
<1> QED
  BY <1>1, FilterStep, PTL DEF Filter!Spec

Places(list, a) == {i \in DOMAIN list : list[i] = a}

\* A permuted list has each element as often.
LEMMA PermutedIs ==
    ASSUME NEW T, NEW list \in Seq(T), NEW sorted \in Filter!Permuted(list)
    PROVE  /\ sorted \in Seq(T) /\ DOMAIN sorted = DOMAIN list
           /\ \A a : Cardinality(Places(list, a)) = Cardinality(Places(sorted, a))
           /\ Filter!ToSet(sorted) = Filter!ToSet(list)
<1>1. PICK p \in Bijection(DOMAIN list, DOMAIN list) : sorted = [i \in DOMAIN list |-> list[p[i]]]
  BY DEF Filter!Permuted, Filter!Bijection, Bijection, Filter!Injection, Injection,
         Filter!Surjection, Surjection, Filter!IsInjective, IsInjective
<1>2. PICK n \in Nat : n = Len(list) /\ DOMAIN list = 1 .. n
  BY LenProperties
<1>3. /\ \A i \in DOMAIN list : p[i] \in DOMAIN list
      /\ \A i, j \in DOMAIN list : p[i] = p[j] => i = j
      /\ \A j \in DOMAIN list : \E i \in DOMAIN list : p[i] = j
  BY DEF Bijection, Injection, Surjection, IsInjective
<1>4. DOMAIN sorted = DOMAIN list /\ \A i \in DOMAIN list : sorted[i] = list[p[i]]
  BY <1>1
<1>5. sorted \in Seq(T)
  BY <1>1, <1>2, <1>3
<1>6. ASSUME NEW a
      PROVE  Cardinality(Places(list, a)) = Cardinality(Places(sorted, a))
  <2> DEFINE A == {i \in DOMAIN list : list[i] = a}
  <2> DEFINE B == {i \in DOMAIN sorted : sorted[i] = a}
  <2> DEFINE q == [i \in B |-> p[i]]
  <2>1. q \in Bijection(B, A)
    <3>1. \A i \in B : q[i] \in A
      BY <1>3, <1>4
    <3>2. \A i, j \in B : q[i] = q[j] => i = j
      BY <1>3, <1>4
    <3>3. \A j \in A : \E i \in B : q[i] = j
      <4> TAKE j \in A
      <4>1. PICK i \in DOMAIN list : p[i] = j
        BY <1>3
      <4>2. i \in B
        BY <1>4, <4>1
      <4> QED
        BY <4>1, <4>2
    <3> QED
      BY <3>1, <3>2, <3>3 DEF Bijection, Injection, Surjection, IsInjective
  <2>2. IsFiniteSet(B)
    <3>1. B \in SUBSET (1 .. n)
      BY <1>2, <1>4
    <3> QED
      BY <3>1, NumbersUpTo, FS_Subset
  <2>3. Cardinality(A) = Cardinality(B)
    <3> HIDE DEF A, B, q
    <3> QED
      BY <2>1, <2>2, FS_Bijection DEF ExistsBijection
  <2> QED
    BY <2>3 DEF Places
<1>7. Filter!ToSet(sorted) = Filter!ToSet(list)
  <2>1. \A i \in DOMAIN sorted : \E j \in DOMAIN list : sorted[i] = list[j]
    BY <1>3, <1>4
  <2>2. \A j \in DOMAIN list : \E i \in DOMAIN sorted : sorted[i] = list[j]
    <3> TAKE j \in DOMAIN list
    <3>1. PICK i \in DOMAIN list : p[i] = j
      BY <1>3
    <3> QED
      BY <1>4, <3>1
  <2> QED
    BY <2>1, <2>2 DEF Filter!ToSet
<1> QED
  BY <1>4, <1>5, <1>6, <1>7

\* What 02 prints (main.cpp): each address as often as it was read, from the
\* largest to the smallest, then what each of the filters lets through.
THEOREM OutputRightCorrect == Filter!Spec => []OutputRight
<1>1. FilterInv => OutputRight
  <2> SUFFICES ASSUME FilterInv, phase = "done", AllProper
               PROVE  /\ \A a : Cardinality(Places(source, a)) = Cardinality(Places(output[1], a))
                      /\ \A i, j \in DOMAIN output[1] : i < j => ~Filter!Less(output[1][i], output[1][j])
                      /\ \A k \in 2 .. 4 : \A i, j \in DOMAIN output[k] :
                            i < j => ~Filter!Less(output[k][i], output[k][j])
                      /\ Filter!ToSet(output[2]) = {a \in Filter!ToSet(source) : a[1] = 1}
                      /\ Filter!ToSet(output[3]) = {a \in Filter!ToSet(source) : a[1] = 46 /\ a[2] = 70}
                      /\ Filter!ToSet(output[4]) = {a \in Filter!ToSet(source) : \E i \in 1 .. 4 : a[i] = 46}
    <3>1. \A a : Filter!Cardinality({i \in DOMAIN source : source[i] = a}) = Cardinality(Places(source, a))
      BY DEF Places, Filter!Cardinality, Cardinality
    <3>2. \A a : Filter!Cardinality({i \in DOMAIN output[1] : output[1][i] = a})
                 = Cardinality(Places(output[1], a))
      BY DEF Places, Filter!Cardinality, Cardinality
    <3> QED
      BY <3>1, <3>2 DEF OutputRight, Filter!OutputRight, AllProper
  <2>1. items \in Filter!Permuted(source) /\ Descending(items) /\ source \in Seq(Lines)
    BY DEF FilterInv
  <2>2. PICK k1, k2, k3 :
           /\ k1 = Kept(items, {a \in Filter!ToSet(items) : a[1] = 1})
           /\ k2 = Kept(items, {a \in Filter!ToSet(items) : a[1] = 46 /\ a[2] = 70})
           /\ k3 = Kept(items, {a \in Filter!ToSet(items) : 46 \in Filter!ToSet(a)})
    OBVIOUS
  <2>3. output = <<items, k1, k2, k3>>
    BY <2>2 DEF FilterInv
  <2>4. output[1] = items /\ output[2] = k1 /\ output[3] = k2 /\ output[4] = k3
    BY <2>3
  <2>5. /\ items \in Seq(Lines) /\ Filter!ToSet(items) = Filter!ToSet(source)
        /\ \A a : Cardinality(Places(source, a)) = Cardinality(Places(items, a))
    BY <2>1, PermutedIs
  <2>6. ASSUME NEW S, NEW k, k = Kept(items, S)
        PROVE  /\ \A i, j \in DOMAIN k : i < j => ~Filter!Less(k[i], k[j])
               /\ S \subseteq Filter!ToSet(items) => Filter!ToSet(k) = S
    <3>1. /\ \A x : (\E i \in DOMAIN k : k[i] = x) <=> x \in S /\ \E i \in DOMAIN items : items[i] = x
          /\ \A i, j \in DOMAIN k : i < j =>
                \E a, b \in DOMAIN items : a < b /\ k[i] = items[a] /\ k[j] = items[b]
      BY <2>5, <2>6, KeptIs
    <3>2. \A i, j \in DOMAIN k : i < j => ~Filter!Less(k[i], k[j])
      BY <2>1, <3>1 DEF Descending
    <3>3. \A x : x \in Filter!ToSet(k) <=> x \in S /\ x \in Filter!ToSet(items)
      BY <3>1 DEF Filter!ToSet
    <3> QED
      BY <3>2, <3>3
  <2>7. \A a \in Filter!ToSet(source) : 46 \in Filter!ToSet(a) <=> \E i \in 1 .. 4 : a[i] = 46
    <3> TAKE a \in Filter!ToSet(source)
    <3>1. a \in Lines /\ Filter!Proper(a)
      BY <2>1, LenProperties DEF Filter!ToSet, AllProper
    <3>2. a \in Seq({a[i] : i \in DOMAIN a}) /\ Len(a) = 4
      BY <3>1, LinesAssumption DEF Filter!Proper
    <3>3. DOMAIN a = 1 .. 4
      BY <3>2, LenProperties
    <3> QED
      BY <3>3 DEF Filter!ToSet
  <2>8. Filter!ToSet(k1) = {a \in Filter!ToSet(source) : a[1] = 1}
    BY <2>2, <2>5, <2>6
  <2>9. Filter!ToSet(k2) = {a \in Filter!ToSet(source) : a[1] = 46 /\ a[2] = 70}
    BY <2>2, <2>5, <2>6
  <2>10. Filter!ToSet(k3) = {a \in Filter!ToSet(source) : \E i \in 1 .. 4 : a[i] = 46}
    BY <2>2, <2>5, <2>6, <2>7
  <2>11. \A k \in 2 .. 4 : \A i, j \in DOMAIN output[k] :
            i < j => ~Filter!Less(output[k][i], output[k][j])
    <3>1. \A k \in 2 .. 4 : k = 2 \/ k = 3 \/ k = 4
      OBVIOUS
    <3> QED
      BY <2>2, <2>4, <2>6, <3>1
  <2> QED
    BY <2>1, <2>4, <2>5, <2>8, <2>9, <2>10, <2>11 DEF Descending
<1> QED
  BY <1>1, FilterInvariant, PTL

-------------------------------------------------------------------------------
(* 11 join_server: widths *)

IsSum(f, widths, m) == f = [n \in 0 .. m |-> IF n = 0 THEN 0 ELSE f[n - 1] + widths[n] + 1]

LEMMA SumExists ==
    ASSUME NEW widths, NEW n \in Nat
    PROVE  \E f : IsSum(f, widths, n)
<1> DEFINE Bad == {m \in Nat : ~ \E f : IsSum(f, widths, m)}
<1> SUFFICES ASSUME Bad # {} PROVE FALSE
  OBVIOUS
<1>1. PICK m \in Bad : \A k \in Bad : m <= k
  <2>1. Bad \in SUBSET Nat
    OBVIOUS
  <2> HIDE DEF Bad
  <2> QED
    BY <2>1, LeastOf
<1>2. m # 0
  <2> DEFINE g == [k \in 0 .. 0 |-> 0]
  <2>1. IsSum(g, widths, 0)
    BY DEF IsSum
  <2> QED
    BY <2>1
<1>3. PICK f : IsSum(f, widths, m - 1)
  <2>1. m - 1 \in Nat /\ ~ (m <= m - 1)
    BY <1>2
  <2> QED
    BY <1>1, <2>1
<1>4. \A k \in 0 .. m - 1 : f[k] = IF k = 0 THEN 0 ELSE f[k - 1] + widths[k] + 1
  BY <1>3 DEF IsSum
<1> DEFINE g == [k \in 0 .. m |-> IF k = m THEN f[m - 1] + widths[m] + 1 ELSE f[k]]
<1>5. \A k \in 0 .. m : g[k] = IF k = 0 THEN 0 ELSE g[k - 1] + widths[k] + 1
  <2> TAKE k \in 0 .. m
  <2>1. CASE k = m
    <3>1. m - 1 \in 0 .. m /\ m - 1 # m /\ g[m - 1] = f[m - 1]
      BY <1>2
    <3> QED
      BY <1>2, <2>1, <3>1
  <2>2. CASE k # m
    <3>1. k \in 0 .. m - 1 /\ g[k] = f[k]
      BY <2>2
    <3>2. k # 0 => k - 1 \in 0 .. m /\ k - 1 # m /\ g[k - 1] = f[k - 1]
      BY <2>2
    <3> QED
      BY <1>4, <3>1, <3>2
  <2> QED
    BY <2>1, <2>2
<1>6. g = [k \in 0 .. m |-> IF k = 0 THEN 0 ELSE g[k - 1] + widths[k] + 1]
  <2>1. g = [k \in 0 .. m |-> g[k]]
    OBVIOUS
  <2> HIDE DEF g
  <2> QED
    BY <1>5, <2>1
<1>7. IsSum(g, widths, m)
  BY <1>6 DEF IsSum
<1> QED
  BY <1>7

LEMMA LengthIs ==
    ASSUME NEW widths, NEW n \in Nat, Len(widths) = n
    PROVE  \E f : IsSum(f, widths, n) /\ Text!Length(widths) = f[n]
<1> DEFINE f == CHOOSE f : IsSum(f, widths, n)
<1>1. IsSum(f, widths, n)
  BY SumExists
<1>2. Text!Length(widths) = f[n]
  BY DEF Text!Length, IsSum
<1> QED
  BY <1>1, <1>2

LEMMA LengthOfTwo ==
    ASSUME NEW a \in Nat, NEW b \in Nat, NEW widths, Len(widths) = 2, widths[1] = a, widths[2] = b
    PROVE  Text!Length(widths) = a + b + 2
<1>1. PICK f : IsSum(f, widths, 2) /\ Text!Length(widths) = f[2]
  BY LengthIs
<1>2. f[0] = 0 /\ f[1] = f[0] + a + 1 /\ f[2] = f[1] + b + 1
  BY <1>1 DEF IsSum
<1> QED
  BY <1>1, <1>2

LEMMA LengthOfThree ==
    ASSUME NEW a \in Nat, NEW b \in Nat, NEW c \in Nat, NEW widths, Len(widths) = 3,
           widths[1] = a, widths[2] = b, widths[3] = c
    PROVE  Text!Length(widths) = a + b + c + 3
<1>1. PICK f : IsSum(f, widths, 3) /\ Text!Length(widths) = f[3]
  BY LengthIs
<1>2. f[0] = 0 /\ f[1] = f[0] + a + 1 /\ f[2] = f[1] + b + 1 /\ f[3] = f[2] + c + 1
  BY <1>1 DEF IsSum
<1> QED
  BY <1>1, <1>2

LEMMA LengthOfFour ==
    ASSUME NEW a \in Nat, NEW b \in Nat, NEW c \in Nat, NEW d \in Nat, NEW widths, Len(widths) = 4,
           widths[1] = a, widths[2] = b, widths[3] = c, widths[4] = d
    PROVE  Text!Length(widths) = a + b + c + d + 4
<1>1. PICK f : IsSum(f, widths, 4) /\ Text!Length(widths) = f[4]
  BY LengthIs
<1>2. /\ f[0] = 0 /\ f[1] = f[0] + a + 1 /\ f[2] = f[1] + b + 1
      /\ f[3] = f[2] + c + 1 /\ f[4] = f[3] + d + 1
  BY <1>1 DEF IsSum
<1> QED
  BY <1>1, <1>2

-------------------------------------------------------------------------------
(* 11 join_server: ids *)

LEMMA RemainderIs ==
    ASSUME NEW m \in Nat \ {0}, NEW z \in Int, NEW r \in 0 .. m - 1
    PROVE  (z * m + r) % m = r
<1>1. PICK a \in Int : a = z * m + r
  OBVIOUS
<1>2. a = m * (a \div m) + (a % m) /\ a % m \in 0 .. m - 1 /\ a \div m \in Int
  OBVIOUS
<1>3. PICK q \in Int, s \in 0 .. m - 1 : q = a \div m /\ s = a % m
  BY <1>2
<1>4. m * q + s = z * m + r
  BY <1>1, <1>2, <1>3
<1>5. m * (q - z) = r - s
  BY <1>4
<1>6. q - z = 0
  <2>1. PICK d \in Int : d = q - z
    OBVIOUS
  <2>2. m * d = r - s /\ r - s < m /\ r - s > -m
    BY <1>5, <2>1
  <2>3. ~ (d >= 1)
    <3> SUFFICES ASSUME d >= 1 PROVE FALSE
      OBVIOUS
    <3>1. m * d >= m
      BY m \in Nat
    <3> QED
      BY <2>2, <3>1
  <2>4. ~ (d <= -1)
    <3> SUFFICES ASSUME d <= -1 PROVE FALSE
      OBVIOUS
    <3>1. m * d <= -m
      BY m \in Nat
    <3> QED
      BY <2>2, <3>1
  <2> QED
    BY <2>1, <2>3, <2>4
<1>7. r = s
  BY <1>5, <1>6
<1> QED
  BY <1>1, <1>3, <1>7

\* An id comes back as it was sent.
LEMMA IdComesBack ==
    ASSUME NEW w \in DOMAIN Number
    PROVE  /\ Number[w] \in Int
           /\ Text!RowId(Number[w]) \in Nat
           /\ Text!IntOf(Text!RowId(Number[w])) = Number[w]
<1>1. PICK m \in Nat \ {0}, h \in Nat : m = IntRange /\ m = 2 * h /\ h = m \div 2
  BY RangesAssumption
<1>2. PICK i \in -h .. h - 1 : i = Number[w]
  BY <1>1, WordsAssumption
<1>3. PICK big \in Nat \ {0} : big = IdRange /\ big % m = 0
  BY <1>1, RangesAssumption
<1>4. PICK k \in Int : big = k * m
  BY <1>3
<1>5. PICK z \in Int, r \in 0 .. big - 1 : i = big * z + r /\ r = i % big
  <2>1. i = big * (i \div big) + (i % big) /\ i % big \in 0 .. big - 1 /\ i \div big \in Int
    OBVIOUS
  <2> QED
    BY <2>1
<1>6. PICK y \in Int : y = k * z
  BY <1>4
<1>7. big * z = y * m
  BY <1>4, <1>6
<1>8. PICK low \in 0 .. m - 1 : low = IF i >= 0 THEN i ELSE i + m
  BY <1>1, <1>2
<1>9. r % m = low
  <2>1. CASE i >= 0
    <3>1. r = (-y) * m + low
      <4>1. (-y) * m = -(y * m)
        OBVIOUS
      <4>2. PICK t \in Int : t = y * m
        OBVIOUS
      <4>3. low = i /\ i = t + r
        BY <1>2, <1>5, <1>7, <1>8, <2>1, <4>2
      <4>4. r = -t + low
        BY <4>2, <4>3
      <4> QED
        BY <4>1, <4>2, <4>4
    <3> QED
      BY <3>1, RemainderIs, -y \in Int
  <2>2. CASE i < 0
    <3>1. r = (-y - 1) * m + low
      <4>1. (-y - 1) * m = -(y * m) - m
        OBVIOUS
      <4> QED
        BY <1>1, <1>2, <1>5, <1>7, <1>8, <2>2, <4>1
    <3> QED
      BY <3>1, RemainderIs, -y - 1 \in Int
  <2> QED
    BY <1>2, <2>1, <2>2
<1>10. Text!RowId(Number[w]) = r
  BY <1>2, <1>3, <1>5 DEF Text!RowId
<1>11. Text!IntOf(r) = IF low < h THEN low ELSE low - m
  BY <1>1, <1>9 DEF Text!IntOf
<1>12. Text!IntOf(r) = i
  <2>1. CASE i >= 0
    <3>1. low = i /\ low < h
      BY <1>2, <1>8, <2>1
    <3> QED
      BY <1>11, <3>1
  <2>2. CASE i < 0
    <3>1. low = i + m /\ ~ (low < h) /\ low - m = i
      BY <1>1, <1>2, <1>8, <2>2
    <3> QED
      BY <1>11, <3>1
  <2> QED
    BY <1>2, <2>1, <2>2
<1> QED
  BY <1>2, <1>10, <1>12

-------------------------------------------------------------------------------
(* 11 join_server: rows *)

Pair(i, w) == <<Text!IntCell(i), Text!StrCell(w)>>
Joined(i, v, w) == <<Text!IntCell(i), Text!StrCell(v), Text!StrCell(w)>>
LeftOnly(i, w) == <<Text!IntCell(i), Text!StrCell(w), Text!TNull>>
RightOnly(i, w) == <<Text!IntCell(i), Text!TNull, Text!StrCell(w)>>

LEMMA CellWidths ==
    ASSUME NEW i, NEW w
    PROVE  /\ Text!CellWidth(Text!IntCell(i)) = Text!Decimal(i)
           /\ Text!CellWidth(Text!StrCell(w)) = Width[w]
           /\ Text!CellWidth(Text!TNull) = 0
BY DEF Text!CellWidth, Text!IntCell, Text!StrCell, Text!TNull

LEMMA RowsFit ==
    ASSUME NEW i, NEW w, Text!Decimal(i) \in Nat, Width[w] \in Nat
    PROVE  /\ Text!Fits(Pair(i, w)) <=> Text!Decimal(i) + Width[w] + 2 <= RowSize
           /\ Text!Fits(LeftOnly(i, w)) <=> Text!Decimal(i) + Width[w] + 3 <= RowSize
           /\ Text!Fits(RightOnly(i, w)) <=> Text!Decimal(i) + Width[w] + 3 <= RowSize
<1>1. PICK a \in Nat, b \in Nat : a = Text!Decimal(i) /\ b = Width[w]
  OBVIOUS
<1>2. Text!Fits(Pair(i, w)) <=> a + b + 2 <= RowSize
  <2>1. PICK widths : widths = [k \in DOMAIN Pair(i, w) |-> Text!CellWidth(Pair(i, w)[k])]
    OBVIOUS
  <2>2. Len(widths) = 2 /\ widths[1] = a /\ widths[2] = b
    BY <1>1, <2>1, CellWidths DEF Pair
  <2>3. Text!Length(widths) = a + b + 2
    BY <2>2, LengthOfTwo
  <2> QED
    BY <2>1, <2>3 DEF Text!Fits
<1>3. Text!Fits(LeftOnly(i, w)) <=> a + b + 3 <= RowSize
  <2>1. PICK widths : widths = [k \in DOMAIN LeftOnly(i, w) |-> Text!CellWidth(LeftOnly(i, w)[k])]
    OBVIOUS
  <2>2. Len(widths) = 3 /\ widths[1] = a /\ widths[2] = b /\ widths[3] = 0
    BY <1>1, <2>1, CellWidths DEF LeftOnly
  <2>3. Text!Length(widths) = a + b + 0 + 3
    BY <2>2, LengthOfThree, 0 \in Nat
  <2> QED
    BY <2>1, <2>3 DEF Text!Fits
<1>4. Text!Fits(RightOnly(i, w)) <=> a + b + 3 <= RowSize
  <2>1. PICK widths : widths = [k \in DOMAIN RightOnly(i, w) |-> Text!CellWidth(RightOnly(i, w)[k])]
    OBVIOUS
  <2>2. Len(widths) = 3 /\ widths[1] = a /\ widths[2] = 0 /\ widths[3] = b
    BY <1>1, <2>1, CellWidths DEF RightOnly
  <2>3. Text!Length(widths) = a + 0 + b + 3
    BY <2>2, LengthOfThree, 0 \in Nat
  <2> QED
    BY <2>1, <2>3 DEF Text!Fits
<1> QED
  BY <1>1, <1>2, <1>3, <1>4

\* What came in one INSERT fits when it goes out.
LEMMA InsertedFits ==
    ASSUME NEW line \in Requests, Text!Is(line, "INSERT", 4), line[3] \in DOMAIN Number
    PROVE  /\ line[4] \in DOMAIN Width /\ Width[line[4]] \in Nat
           /\ Text!Decimal(Number[line[3]]) \in Nat
           /\ Text!Decimal(Number[line[3]]) + Width[line[4]] + 3 <= RowSize
<1>1. line \in Seq(DOMAIN Width) /\ Len(line) = 4 /\ Text!Whole(line)
  BY RequestsAssumption DEF Text!Is
<1>2. DOMAIN line = 1 .. 4 /\ \A k \in 1 .. 4 : line[k] \in DOMAIN Width
  <2>1. PICK S : S = DOMAIN Width
    OBVIOUS
  <2>2. line \in Seq(S)
    BY <1>1, <2>1
  <2>3. DOMAIN line = 1 .. 4 /\ \A k \in 1 .. 4 : line[k] \in S
    BY <1>1, <2>2, LenProperties
  <2> QED
    BY <2>1, <2>3
<1>3. \A k \in 1 .. 4 : Width[line[k]] \in Nat
  <2>1. \A w \in DOMAIN Width : Width[w] \in Nat
    BY WordsAssumption
  <2> QED
    BY <1>2, <2>1
<1>4. PICK a \in Nat, b \in Nat, c \in Nat, d \in Nat :
         a = Width[line[1]] /\ b = Width[line[2]] /\ c = Width[line[3]] /\ d = Width[line[4]]
  <2>1. \A k \in {1, 2, 3, 4} : Width[line[k]] \in Nat
    BY <1>3
  <2> QED
    BY <2>1
<1>5. a + b + c + d + 4 <= RowSize
  <2>1. PICK widths : widths = [k \in DOMAIN line |-> Width[line[k]]]
    OBVIOUS
  <2>2. Len(widths) = 4 /\ widths[1] = a /\ widths[2] = b /\ widths[3] = c /\ widths[4] = d
    BY <1>2, <1>4, <2>1
  <2>3. Text!Length(widths) = a + b + c + d + 4
    BY <2>2, LengthOfFour
  <2> QED
    BY <1>1, <2>1, <2>3 DEF Text!Whole
<1>6. Text!Decimal(Number[line[3]]) \in 0 .. c
  BY <1>4, WordsAssumption
<1> QED
  BY <1>2, <1>4, <1>5, <1>6, BufferSizesAssumption

-------------------------------------------------------------------------------
(* 11 join_server: the requests so far *)

InsertsInto(line, t) == Text!Is(line, "INSERT", 4) /\ line[2] = t
Clears(line, t) == Text!Is(line, "TRUNCATE", 2) /\ line[2] = t
Sets(line, t, i) == InsertsInto(line, t) /\ Number[line[3]] = i

\* The m-th request is the last word on row i of table t.
Decides(list, m, t, i) ==
    /\ Sets(list[m], t, i)
    /\ \A k \in m + 1 .. Len(list) : ~Clears(list[k], t) /\ ~Sets(list[k], t, i)

NamesIn(list, t, i) == {list[m][4] : m \in {n \in DOMAIN list : Decides(list, n, t, i)}}

LEMMA NamesAfter ==
    ASSUME NEW list \in Seq(Requests), NEW line \in Requests, NEW t, NEW i
    PROVE  NamesIn(Append(list, line), t, i)
             = IF Sets(line, t, i) THEN {line[4]}
               ELSE IF Clears(line, t) THEN {} ELSE NamesIn(list, t, i)
<1>1. PICK n \in Nat : n = Len(list) /\ DOMAIN list = 1 .. n
  BY LenProperties
<1>2. PICK more : more = Append(list, line)
  OBVIOUS
<1>3. /\ Len(more) = n + 1 /\ DOMAIN more = 1 .. n + 1
      /\ more[n + 1] = line /\ \A k \in 1 .. n : more[k] = list[k]
  BY <1>1, <1>2, AppendProperties
<1>4. Decides(more, n + 1, t, i) <=> Sets(line, t, i)
  <2>1. (n + 1) + 1 .. n + 1 = {}
    OBVIOUS
  <2> QED
    BY <1>3, <2>1 DEF Decides
<1>5. ASSUME NEW m \in 1 .. n
      PROVE  Decides(more, m, t, i)
             <=> Decides(list, m, t, i) /\ ~Clears(line, t) /\ ~Sets(line, t, i)
  <2>1. \A k : k \in m + 1 .. n + 1 <=> k \in m + 1 .. n \/ k = n + 1
    OBVIOUS
  <2>2. \A k \in m + 1 .. n : more[k] = list[k]
    BY <1>3
  <2>3. more[m] = list[m]
    BY <1>3
  <2>4. (\A k \in m + 1 .. n + 1 : ~Clears(more[k], t) /\ ~Sets(more[k], t, i))
        <=> /\ \A k \in m + 1 .. n : ~Clears(list[k], t) /\ ~Sets(list[k], t, i)
            /\ ~Clears(line, t) /\ ~Sets(line, t, i)
    BY <1>3, <2>1, <2>2
  <2> QED
    BY <1>1, <1>3, <2>3, <2>4 DEF Decides
<1>6. \A x : x \in NamesIn(more, t, i) <=> \E m \in 1 .. n + 1 : Decides(more, m, t, i) /\ more[m][4] = x
  BY <1>3 DEF NamesIn
<1>7. \A x : x \in NamesIn(list, t, i) <=> \E m \in 1 .. n : Decides(list, m, t, i) /\ list[m][4] = x
  BY <1>1 DEF NamesIn
<1>8. \A m : m \in 1 .. n + 1 <=> m \in 1 .. n \/ m = n + 1
  BY <1>1
<1>9. \A x : x \in NamesIn(more, t, i)
             <=> \/ Sets(line, t, i) /\ x = line[4]
                 \/ x \in NamesIn(list, t, i) /\ ~Clears(line, t) /\ ~Sets(line, t, i)
  BY <1>3, <1>4, <1>5, <1>6, <1>7, <1>8
<1>10. CASE Sets(line, t, i)
  BY <1>2, <1>9, <1>10
<1>11. CASE ~Sets(line, t, i) /\ Clears(line, t)
  BY <1>2, <1>9, <1>11
<1>12. CASE ~Sets(line, t, i) /\ ~Clears(line, t)
  BY <1>2, <1>9, <1>12
<1> QED
  BY <1>10, <1>11, <1>12

-------------------------------------------------------------------------------
(* 11 join_server: the tables *)

RowNumbers == {Number[w] : w \in DOMAIN Number}

\* Row i has the one name that the requests give it, or there is none.
RowIs(table, i, names) ==
    IF Text!RowId(i) \in DOMAIN table
    THEN \E w \in DOMAIN Width :
            /\ names = {w}
            /\ table[Text!RowId(i)] = Pair(i, w)
            /\ Text!Decimal(i) + Width[w] + 3 <= RowSize
    ELSE names = {}

TableIs(table) ==
    /\ IsFiniteSet(DOMAIN table)
    /\ \A id \in DOMAIN table : \E i \in RowNumbers : id = Text!RowId(i)

Mentioned(list, t) == \E n \in DOMAIN list : InsertsInto(list[n], t)

Stored(all, list) ==
    /\ list \in Seq(Requests)
    /\ \A t : t \in DOMAIN all <=> Mentioned(list, t)
    /\ \A t \in DOMAIN all : TableIs(all[t])
    /\ \A t \in DOMAIN all : \A i \in RowNumbers : RowIs(all[t], i, NamesIn(list, t, i))

LEMMA IdsAre ==
    /\ \A i \in RowNumbers : i \in Int /\ Text!RowId(i) \in Nat /\ Text!IntOf(Text!RowId(i)) = i
    /\ \A i, j \in RowNumbers : Text!RowId(i) = Text!RowId(j) => i = j
    /\ \A i \in RowNumbers : Text!Decimal(i) \in Nat
<1>1. \A i \in RowNumbers : i \in Int /\ Text!RowId(i) \in Nat /\ Text!IntOf(Text!RowId(i)) = i
  BY IdComesBack DEF RowNumbers
<1>2. \A i \in RowNumbers : Text!Decimal(i) \in Nat
  <2>1. ASSUME NEW w \in DOMAIN Number PROVE Text!Decimal(Number[w]) \in Nat
    <3>1. w \in DOMAIN Width /\ Text!Decimal(Number[w]) \in 0 .. Width[w]
      BY WordsAssumption
    <3> QED
      BY <3>1
  <2> QED
    BY <2>1 DEF RowNumbers
<1> QED
  BY <1>1, <1>2

LEMMA MentionedAfter ==
    ASSUME NEW list \in Seq(Requests), NEW line \in Requests, NEW t
    PROVE  Mentioned(Append(list, line), t) <=> Mentioned(list, t) \/ InsertsInto(line, t)
<1>1. PICK n \in Nat : n = Len(list) /\ DOMAIN list = 1 .. n
  BY LenProperties
<1>2. PICK more : more = Append(list, line)
  OBVIOUS
<1>3. /\ DOMAIN more = 1 .. n + 1
      /\ more[n + 1] = line /\ \A k \in 1 .. n : more[k] = list[k]
  BY <1>1, <1>2, AppendProperties
<1>4. \A m : m \in 1 .. n + 1 <=> m \in 1 .. n \/ m = n + 1
  BY <1>1
<1> QED
  BY <1>1, <1>2, <1>3, <1>4 DEF Mentioned

\* An INSERT replaces the row with its id, and no other one.
LEMMA StoredAfterInsert ==
    ASSUME NEW all, NEW list, Stored(all, list), NEW line \in Requests,
           Text!Is(line, "INSERT", 4), line[3] \in DOMAIN Number
    PROVE  Stored(Text!Put(all, line[2],
                           Text!Put(IF line[2] \in DOMAIN all THEN all[line[2]] ELSE << >>,
                                    Text!RowId(Number[line[3]]),
                                    Pair(Number[line[3]], line[4]))),
                  Append(list, line))
<1>1. PICK t, i, w : t = line[2] /\ i = Number[line[3]] /\ w = line[4]
  OBVIOUS
<1>2. i \in RowNumbers /\ list \in Seq(Requests)
  BY <1>1 DEF RowNumbers, Stored
<1>3. w \in DOMAIN Width /\ Text!Decimal(i) + Width[w] + 3 <= RowSize
  BY <1>1, InsertedFits
<1>4. PICK old : old = IF t \in DOMAIN all THEN all[t] ELSE << >>
  OBVIOUS
<1>5. TableIs(old)
  <2>1. CASE t \in DOMAIN all
    BY <1>4, <2>1 DEF Stored
  <2>2. CASE t \notin DOMAIN all
    <3>1. DOMAIN old = {}
      BY <1>4, <2>2
    <3> QED
      BY <3>1, FS_EmptySet DEF TableIs
  <2> QED
    BY <2>1, <2>2
<1>6. PICK new : new = Text!Put(old, Text!RowId(i), Pair(i, w))
  OBVIOUS
<1>7. /\ DOMAIN new = DOMAIN old \union {Text!RowId(i)}
      /\ new[Text!RowId(i)] = Pair(i, w)
      /\ \A id \in DOMAIN old : id # Text!RowId(i) => new[id] = old[id]
  BY <1>6 DEF Text!Put
<1>8. TableIs(new)
  <2>1. IsFiniteSet(DOMAIN new)
    BY <1>5, <1>7, FS_AddElement DEF TableIs
  <2> QED
    BY <1>2, <1>5, <1>7, <2>1 DEF TableIs
<1>9. PICK more : more = Text!Put(all, t, new)
  OBVIOUS
<1>10. /\ DOMAIN more = DOMAIN all \union {t}
       /\ more[t] = new
       /\ \A u \in DOMAIN all : u # t => more[u] = all[u]
  BY <1>9 DEF Text!Put
<1>11. InsertsInto(line, t) /\ \A u : InsertsInto(line, u) => u = t
  BY <1>1 DEF InsertsInto
<1>12. \A u : ~Clears(line, u)
  BY DEF Clears, Text!Is
<1>13. \A u, j : Sets(line, u, j) <=> u = t /\ j = i
  BY <1>1 DEF Sets, InsertsInto
<1>14. ASSUME NEW j \in RowNumbers
       PROVE  RowIs(new, j, NamesIn(Append(list, line), t, j))
  <2>1. CASE j = i
    <3>1. NamesIn(Append(list, line), t, j) = {w}
      BY <1>1, <1>2, <1>13, <2>1, NamesAfter
    <3> QED
      BY <1>3, <1>7, <2>1, <3>1 DEF RowIs
  <2>2. CASE j # i
    <3>1. NamesIn(Append(list, line), t, j) = NamesIn(list, t, j)
      BY <1>2, <1>12, <1>13, <2>2, NamesAfter
    <3>2. Text!RowId(j) # Text!RowId(i)
      BY <1>2, <2>2, IdsAre
    <3>3. /\ Text!RowId(j) \in DOMAIN new <=> Text!RowId(j) \in DOMAIN old
          /\ Text!RowId(j) \in DOMAIN old => new[Text!RowId(j)] = old[Text!RowId(j)]
      BY <1>7, <3>2
    <3>4. RowIs(old, j, NamesIn(list, t, j))
      <4>1. CASE t \in DOMAIN all
        BY <1>4, <4>1 DEF Stored
      <4>2. CASE t \notin DOMAIN all
        <5>1. DOMAIN old = {}
          BY <1>4, <4>2
        <5>2. ~Mentioned(list, t)
          BY <4>2 DEF Stored
        <5>3. NamesIn(list, t, j) = {}
          BY <5>2 DEF NamesIn, Decides, Sets, Mentioned
        <5> QED
          BY <5>1, <5>3 DEF RowIs
      <4> QED
        BY <4>1, <4>2
    <3> QED
      BY <3>1, <3>3, <3>4 DEF RowIs
  <2> QED
    BY <2>1, <2>2
<1>15. ASSUME NEW u \in DOMAIN all, u # t, NEW j \in RowNumbers
       PROVE  RowIs(more[u], j, NamesIn(Append(list, line), u, j))
  <2>1. NamesIn(Append(list, line), u, j) = NamesIn(list, u, j)
    BY <1>2, <1>12, <1>13, <1>15, NamesAfter
  <2> QED
    BY <1>10, <1>15, <2>1 DEF Stored
<1>16. \A u : u \in DOMAIN more <=> Mentioned(Append(list, line), u)
  BY <1>2, <1>10, <1>11, MentionedAfter DEF Stored
<1>17. \A u \in DOMAIN more : TableIs(more[u])
  BY <1>8, <1>10 DEF Stored
<1>18. \A u \in DOMAIN more : \A j \in RowNumbers : RowIs(more[u], j, NamesIn(Append(list, line), u, j))
  BY <1>10, <1>14, <1>15
<1>19. Append(list, line) \in Seq(Requests)
  BY <1>2
<1>20. Stored(more, Append(list, line))
  BY <1>16, <1>17, <1>18, <1>19 DEF Stored
<1> QED
  BY <1>1, <1>4, <1>6, <1>9, <1>20

LEMMA StoredAfterTruncate ==
    ASSUME NEW all, NEW list, Stored(all, list), NEW line \in Requests,
           Text!Is(line, "TRUNCATE", 2), line[2] \in DOMAIN all
    PROVE  Stored([all EXCEPT ![line[2]] = << >>], Append(list, line))
<1>1. PICK t \in DOMAIN all : t = line[2]
  OBVIOUS
<1>2. PICK more : more = [all EXCEPT ![t] = << >>]
  OBVIOUS
<1>3. /\ DOMAIN more = DOMAIN all /\ DOMAIN more[t] = {}
      /\ \A u \in DOMAIN all : u # t => more[u] = all[u]
  BY <1>2
<1>4. Clears(line, t) /\ \A u : Clears(line, u) => u = t
  BY <1>1 DEF Clears
<1>5. \A u : ~InsertsInto(line, u)
  BY DEF InsertsInto, Text!Is
<1>6. \A u, j : ~Sets(line, u, j)
  BY <1>5 DEF Sets
<1>7. list \in Seq(Requests) /\ Append(list, line) \in Seq(Requests)
  BY DEF Stored
<1>8. \A u : u \in DOMAIN more <=> Mentioned(Append(list, line), u)
  BY <1>3, <1>5, <1>7, MentionedAfter DEF Stored
<1>9. \A u \in DOMAIN more : TableIs(more[u])
  BY <1>3, FS_EmptySet DEF Stored, TableIs
<1>10. ASSUME NEW u \in DOMAIN more, NEW j \in RowNumbers
       PROVE  RowIs(more[u], j, NamesIn(Append(list, line), u, j))
  <2>1. CASE u = t
    <3>1. NamesIn(Append(list, line), u, j) = {}
      BY <1>4, <1>6, <1>7, <2>1, NamesAfter
    <3> QED
      BY <1>3, <2>1, <3>1 DEF RowIs
  <2>2. CASE u # t
    <3>1. NamesIn(Append(list, line), u, j) = NamesIn(list, u, j)
      BY <1>4, <1>6, <1>7, <2>2, NamesAfter
    <3> QED
      BY <1>3, <2>2, <3>1 DEF Stored
  <2> QED
    BY <2>1, <2>2
<1>11. Stored(more, Append(list, line))
  BY <1>7, <1>8, <1>9, <1>10 DEF Stored
<1> QED
  BY <1>1, <1>2, <1>11

\* No other request changes a table.
LEMMA StoredAfterRead ==
    ASSUME NEW all, NEW list, Stored(all, list), NEW line \in Requests,
           ~Text!Is(line, "INSERT", 4), \A t \in DOMAIN all : ~Clears(line, t)
    PROVE  Stored(all, Append(list, line))
<1>1. \A u : ~InsertsInto(line, u)
  BY DEF InsertsInto
<1>2. \A u, j : ~Sets(line, u, j)
  BY <1>1 DEF Sets
<1>3. list \in Seq(Requests) /\ Append(list, line) \in Seq(Requests)
  BY DEF Stored
<1>4. \A u : u \in DOMAIN all <=> Mentioned(Append(list, line), u)
  BY <1>1, <1>3, MentionedAfter DEF Stored
<1>5. ASSUME NEW u \in DOMAIN all, NEW j \in RowNumbers
      PROVE  RowIs(all[u], j, NamesIn(Append(list, line), u, j))
  <2>1. NamesIn(Append(list, line), u, j) = NamesIn(list, u, j)
    BY <1>2, <1>3, NamesAfter
  <2> QED
    BY <2>1 DEF Stored
<1> QED
  BY <1>3, <1>4, <1>5 DEF Stored

\* A list of the elements of a set, each once.
Lists(r, S) ==
    /\ r \in Seq(S)
    /\ \A x \in S : \E k \in DOMAIN r : r[k] = x
    /\ IsFiniteSet(S) /\ Len(r) = Cardinality(S)

LEMMA NothingListed == Lists(<< >>, {})
BY FS_EmptySet DEF Lists

LEMMA ListsJoin ==
    ASSUME NEW S, NEW T, S \cap T = {}, NEW r, NEW q, Lists(r, S), Lists(q, T)
    PROVE  Lists(r \o q, S \union T)
<1>1. r \in Seq(S \union T) /\ q \in Seq(S \union T)
  <2>1. \A k \in 1 .. Len(r) : r[k] \in S
    BY LenProperties DEF Lists
  <2>2. \A k \in 1 .. Len(q) : q[k] \in T
    BY LenProperties DEF Lists
  <2> QED
    BY <2>1, <2>2 DEF Lists
<1>2. PICK m \in Nat, n \in Nat : m = Len(r) /\ n = Len(q) /\ DOMAIN r = 1 .. m /\ DOMAIN q = 1 .. n
  BY <1>1, LenProperties
<1>3. PICK all : all = r \o q
  OBVIOUS
<1>4. /\ all \in Seq(S \union T) /\ Len(all) = m + n /\ DOMAIN all = 1 .. m + n
      /\ \A k \in 1 .. m : all[k] = r[k]
      /\ \A k \in 1 .. n : all[m + k] = q[k]
  <2>1. all \in Seq(S \union T) /\ Len(all) = m + n
    BY <1>1, <1>2, <1>3, ConcatProperties
  <2>2. \A i \in 1 .. m + n : all[i] = IF i <= m THEN r[i] ELSE q[i - m]
    BY <1>1, <1>2, <1>3, ConcatProperties
  <2>3. \A k \in 1 .. n : m + k \in 1 .. m + n /\ ~ (m + k <= m) /\ (m + k) - m = k
    OBVIOUS
  <2>4. \A k \in 1 .. m : k \in 1 .. m + n /\ k <= m
    OBVIOUS
  <2> QED
    BY <2>1, <2>2, <2>3, <2>4, LenProperties
<1>5. \A x \in S \union T : \E k \in DOMAIN all : all[k] = x
  <2>1. ASSUME NEW x \in S PROVE \E k \in DOMAIN all : all[k] = x
    <3>1. PICK k \in 1 .. m : r[k] = x
      BY <1>2 DEF Lists
    <3> QED
      BY <1>4, <3>1
  <2>2. ASSUME NEW x \in T PROVE \E k \in DOMAIN all : all[k] = x
    <3>1. PICK k \in 1 .. n : q[k] = x
      BY <1>2 DEF Lists
    <3>2. m + k \in 1 .. m + n
      OBVIOUS
    <3> QED
      BY <1>4, <3>1, <3>2
  <2> QED
    BY <2>1, <2>2
<1>6. IsFiniteSet(S \union T) /\ Cardinality(S \union T) = m + n
  <2>1. IsFiniteSet(S) /\ IsFiniteSet(T) /\ Cardinality(S) = m /\ Cardinality(T) = n
    BY <1>2 DEF Lists
  <2>2. Cardinality(S \union T) = Cardinality(S) + Cardinality(T) - Cardinality(S \cap T)
    BY <2>1, FS_Union
  <2>3. IsFiniteSet(S \union T)
    BY <2>1, FS_Union
  <2> QED
    BY <2>1, <2>2, <2>3, FS_EmptySet
<1> QED
  BY <1>3, <1>4, <1>5, <1>6 DEF Lists

RowsOf(table) == {table[id] : id \in DOMAIN table}

\* The rows of a table are read in the order of their ids, each once.
LEMMA RowsAre ==
    ASSUME NEW table, IsFiniteSet(DOMAIN table), DOMAIN table \subseteq Int,
           \A a, b \in DOMAIN table : table[a] = table[b] => a = b
    PROVE  Lists(Text!Rows(table), RowsOf(table))
<1>1. PICK D : D = DOMAIN table
  OBVIOUS
<1>2. PICK ids : ids = InOrder(D)
  OBVIOUS
<1>3. PICK n \in Nat : n = Cardinality(D)
  BY <1>1, FS_CardinalityType
<1>4. /\ ids \in [1 .. n -> D]
      /\ \A i, j \in 1 .. n : i < j => ids[i] < ids[j]
      /\ \A x \in D : \E i \in 1 .. n : ids[i] = x
  BY <1>1, <1>2, <1>3, InOrderOf
<1>5. PICK r : r = Text!Rows(table)
  OBVIOUS
<1>6. r = [i \in 1 .. n |-> table[ids[i]]]
  <2>1. Text!InOrder(D) = InOrder(D)
    BY DEF Text!InOrder, InOrder, Text!Nth, Nth, Text!Cardinality, Cardinality
  <2> QED
    BY <1>1, <1>2, <1>4, <1>5, <2>1 DEF Text!Rows
<1>7. r \in Seq(RowsOf(table)) /\ Len(r) = n /\ DOMAIN r = 1 .. n
  BY <1>1, <1>4, <1>6 DEF RowsOf
<1>8. \A x \in RowsOf(table) : \E k \in DOMAIN r : r[k] = x
  <2> SUFFICES ASSUME NEW id \in D PROVE \E k \in 1 .. n : r[k] = table[id]
    BY <1>1, <1>7 DEF RowsOf
  <2> QED
    BY <1>4, <1>6
<1>9. IsFiniteSet(RowsOf(table)) /\ Cardinality(RowsOf(table)) = n
  <2>1. PICK S : S = RowsOf(table)
    OBVIOUS
  <2>2. PICK f : f = [id \in D |-> table[id]]
    OBVIOUS
  <2>3. f \in [D -> S] /\ (\A a, b \in D : f[a] = f[b] => a = b) /\ \A x \in S : \E a \in D : f[a] = x
    BY <1>1, <2>1, <2>2 DEF RowsOf
  <2>4. f \in Bijection(D, S)
    BY <2>3 DEF Bijection, Injection, Surjection, IsInjective
  <2> QED
    BY <1>1, <1>3, <2>1, <2>4, FS_Bijection DEF ExistsBijection
<1> QED
  BY <1>5, <1>7, <1>8, <1>9 DEF Lists

LEMMA MergeIs ==
    ASSUME NEW a, NEW b, NEW c, NEW d
    PROVE  Text!MergeWith(<<a, b>>, <<c, d>>) = <<a, b, d>>
<1>1. PICK All : a \in All /\ b \in All /\ c \in All /\ d \in All
  <2>1. a \in {a, b, c, d} /\ b \in {a, b, c, d} /\ c \in {a, b, c, d} /\ d \in {a, b, c, d}
    OBVIOUS
  <2> QED
    BY <2>1
<1>2. <<a, b>> \in Seq(All) /\ <<c, d>> \in Seq(All) /\ <<a, b, d>> \in Seq(All)
  BY <1>1
<1>3. PICK one, two, three : one = <<a, b>> /\ two = <<c, d>> /\ three = <<a, b, d>>
  OBVIOUS
<1>4. one \in Seq(All) /\ two \in Seq(All) /\ three \in Seq(All)
  BY <1>2, <1>3
<1>5. /\ Len(one) = 2 /\ one[1] = a /\ one[2] = b /\ Len(two) = 2 /\ two[2] = d
      /\ Len(three) = 3 /\ three[1] = a /\ three[2] = b /\ three[3] = d
  BY <1>3
<1>6. PICK rest : rest = Tail(two)
  OBVIOUS
<1>7. rest \in Seq(All) /\ Len(rest) = 1 /\ rest[1] = d
  <2>1. two # << >>
    BY <1>5
  <2>2. /\ Tail(two) \in Seq(All) /\ Len(Tail(two)) = Len(two) - 1
        /\ \A i \in 1 .. Len(Tail(two)) : Tail(two)[i] = two[i + 1]
    BY <1>4, <2>1, HeadTailProperties
  <2>3. rest \in Seq(All) /\ Len(rest) = Len(two) - 1
    BY <1>6, <2>2
  <2>4. \A i \in 1 .. Len(rest) : rest[i] = two[i + 1]
    BY <1>6, <2>2
  <2>5. Len(two) = 2 /\ two[2] = d
    BY <1>5
  <2>6. Len(rest) = 1
    BY <2>3, <2>5
  <2>7. 1 \in 1 .. 1 /\ 1 + 1 = 2
    OBVIOUS
  <2>8. rest[1] = d
    BY <2>4, <2>5, <2>6, <2>7
  <2> QED
    BY <2>3, <2>6, <2>8
<1>8. PICK all : all = one \o rest
  OBVIOUS
<1>9. all \in Seq(All) /\ Len(all) = 3
  <2>1. one \o rest \in Seq(All) /\ Len(one \o rest) = Len(one) + Len(rest)
    BY <1>4, <1>7, ConcatProperties
  <2> QED
    BY <1>5, <1>7, <1>8, <2>1
<1>10. \A i \in 1 .. 3 : all[i] = three[i]
  <2>1. \A i \in 1 .. 3 : all[i] = IF i <= 2 THEN one[i] ELSE rest[i - 2]
    <3>1. \A i \in 1 .. Len(one) + Len(rest) :
             (one \o rest)[i] = IF i <= Len(one) THEN one[i] ELSE rest[i - Len(one)]
      BY <1>4, <1>7, ConcatProperties
    <3>2. Len(one) = 2 /\ Len(rest) = 1
      BY <1>5, <1>7
    <3>3. \A i \in 1 .. 2 + 1 : all[i] = IF i <= 2 THEN one[i] ELSE rest[i - 2]
      BY <1>8, <3>1, <3>2
    <3> QED
      BY <3>3
  <2>2. 3 - 2 = 1 /\ ~ (3 <= 2)
    OBVIOUS
  <2> QED
    BY <1>5, <1>7, <2>1, <2>2
<1>11. all = three
  BY <1>4, <1>5, <1>9, <1>10, SeqEqual
<1> QED
  BY <1>3, <1>6, <1>8, <1>11 DEF Text!MergeWith

LEMMA Merged ==
    ASSUME NEW i \in RowNumbers, NEW v, NEW w
    PROVE  /\ Text!MergeWith(Pair(i, v), Pair(i, w)) = Joined(i, v, w)
           /\ Text!MergeWith(Pair(i, w), Text!Empty(Text!RowId(i))) = LeftOnly(i, w)
           /\ Text!MergeWith(Text!Empty(Text!RowId(i)), Pair(i, w)) = RightOnly(i, w)
<1>1. Text!Empty(Text!RowId(i)) = <<Text!IntCell(i), Text!TNull>>
  BY IdsAre DEF Text!Empty
<1>2. Text!MergeWith(Pair(i, v), Pair(i, w)) = Joined(i, v, w)
  BY MergeIs DEF Pair, Joined
<1>3. Text!MergeWith(Pair(i, w), <<Text!IntCell(i), Text!TNull>>) = LeftOnly(i, w)
  BY MergeIs DEF Pair, LeftOnly
<1>4. Text!MergeWith(<<Text!IntCell(i), Text!TNull>>, Pair(i, w)) = RightOnly(i, w)
  BY MergeIs DEF Pair, RightOnly
<1> QED
  BY <1>1, <1>2, <1>3, <1>4

SelectIn(list, t) == UNION {{Pair(i, w) : w \in NamesIn(list, t, i)} : i \in RowNumbers}
IntersectIn(list, t, u) ==
    UNION {{Joined(i, p[1], p[2]) : p \in NamesIn(list, t, i) \X NamesIn(list, u, i)} : i \in RowNumbers}
LeftIn(list, t, u) ==
    UNION {{LeftOnly(i, w) : w \in NamesIn(list, t, i)} : i \in {j \in RowNumbers : NamesIn(list, u, j) = {}}}
RightIn(list, t, u) ==
    UNION {{RightOnly(i, w) : w \in NamesIn(list, u, i)} : i \in {j \in RowNumbers : NamesIn(list, t, j) = {}}}

LEMMA RowsDiffer ==
    ASSUME NEW i, NEW j, NEW v, NEW w, NEW x, NEW y
    PROVE  /\ Pair(i, v) = Pair(j, w) => i = j /\ v = w
           /\ Joined(i, v, w) = Joined(j, x, y) => i = j
           /\ LeftOnly(i, v) = LeftOnly(j, w) => i = j
           /\ RightOnly(i, v) = RightOnly(j, w) => i = j
<1>1. /\ Text!IntCell(i) = Text!IntCell(j) => i = j
      /\ Text!StrCell(v) = Text!StrCell(w) => v = w
  BY DEF Text!IntCell, Text!StrCell
<1>2. Pair(i, v) = Pair(j, w) => Text!IntCell(i) = Text!IntCell(j) /\ Text!StrCell(v) = Text!StrCell(w)
  BY DEF Pair
<1>3. Joined(i, v, w) = Joined(j, x, y) => Text!IntCell(i) = Text!IntCell(j)
  BY DEF Joined
<1>4. LeftOnly(i, v) = LeftOnly(j, w) => Text!IntCell(i) = Text!IntCell(j)
  BY DEF LeftOnly
<1>5. RightOnly(i, v) = RightOnly(j, w) => Text!IntCell(i) = Text!IntCell(j)
  BY DEF RightOnly
<1> QED
  BY <1>1, <1>2, <1>3, <1>4, <1>5

\* What a table with the rows that the requests stand for looks like.
TableHolds(table, list, t) == TableIs(table) /\ \A i \in RowNumbers : RowIs(table, i, NamesIn(list, t, i))

LEMMA TableHeld ==
    ASSUME NEW table, NEW list, NEW t, TableHolds(table, list, t)
    PROVE  /\ IsFiniteSet(DOMAIN table) /\ DOMAIN table \subseteq Int
           /\ \A id \in DOMAIN table : \E i \in RowNumbers : id = Text!RowId(i)
           /\ \A i \in RowNumbers : Text!RowId(i) \notin DOMAIN table => NamesIn(list, t, i) = {}
           /\ \A i \in RowNumbers : Text!RowId(i) \in DOMAIN table =>
                 \E w : /\ NamesIn(list, t, i) = {w} /\ table[Text!RowId(i)] = Pair(i, w)
                        /\ Text!Fits(Pair(i, w)) /\ Text!Fits(LeftOnly(i, w)) /\ Text!Fits(RightOnly(i, w))
<1>1. DOMAIN table \subseteq Int
  <2> SUFFICES ASSUME NEW id \in DOMAIN table PROVE id \in Int
    OBVIOUS
  <2>1. PICK i \in RowNumbers : id = Text!RowId(i)
    BY DEF TableHolds, TableIs
  <2>2. Text!RowId(i) \in Nat
    BY IdsAre
  <2> QED
    BY <2>1, <2>2
<1>2. ASSUME NEW i \in RowNumbers, Text!RowId(i) \in DOMAIN table
      PROVE  \E w : /\ NamesIn(list, t, i) = {w} /\ table[Text!RowId(i)] = Pair(i, w)
                    /\ Text!Fits(Pair(i, w)) /\ Text!Fits(LeftOnly(i, w)) /\ Text!Fits(RightOnly(i, w))
  <2>1. PICK w \in DOMAIN Width :
           /\ NamesIn(list, t, i) = {w} /\ table[Text!RowId(i)] = Pair(i, w)
           /\ Text!Decimal(i) + Width[w] + 3 <= RowSize
    BY <1>2 DEF TableHolds, RowIs
  <2>2. PICK a \in Nat, b \in Nat : a = Text!Decimal(i) /\ b = Width[w]
    BY IdsAre, WordsAssumption
  <2>3. /\ Text!Fits(Pair(i, w)) <=> a + b + 2 <= RowSize
        /\ Text!Fits(LeftOnly(i, w)) <=> a + b + 3 <= RowSize
        /\ Text!Fits(RightOnly(i, w)) <=> a + b + 3 <= RowSize
    BY <2>2, RowsFit
  <2>4. a + b + 3 <= RowSize /\ a + b + 2 <= RowSize
    BY <2>1, <2>2, BufferSizesAssumption
  <2> QED
    BY <2>1, <2>3, <2>4
<1>3. ASSUME NEW i \in RowNumbers, Text!RowId(i) \notin DOMAIN table PROVE NamesIn(list, t, i) = {}
  BY <1>3 DEF TableHolds, RowIs
<1>4. IsFiniteSet(DOMAIN table) /\ \A id \in DOMAIN table : \E i \in RowNumbers : id = Text!RowId(i)
  BY DEF TableHolds, TableIs
<1> QED
  BY <1>1, <1>2, <1>3, <1>4

\* SELECT
LEMMA SelectIs ==
    ASSUME NEW table, NEW list, NEW t, TableHolds(table, list, t)
    PROVE  Lists(Text!Rows(table), SelectIn(list, t)) /\ \A x \in SelectIn(list, t) : Text!Fits(x)
<1>1. \A id \in DOMAIN table :
         \E i \in RowNumbers : \E w : id = Text!RowId(i) /\ w \in NamesIn(list, t, i) /\ table[id] = Pair(i, w)
  <2> TAKE id \in DOMAIN table
  <2>1. PICK i \in RowNumbers : id = Text!RowId(i)
    BY TableHeld
  <2>2. PICK w : NamesIn(list, t, i) = {w} /\ table[Text!RowId(i)] = Pair(i, w)
    BY <2>1, TableHeld
  <2> QED
    BY <2>1, <2>2
<1>2. \A i \in RowNumbers : \A w \in NamesIn(list, t, i) :
         Text!RowId(i) \in DOMAIN table /\ table[Text!RowId(i)] = Pair(i, w) /\ Text!Fits(Pair(i, w))
  <2> TAKE i \in RowNumbers
  <2> TAKE w \in NamesIn(list, t, i)
  <2>1. Text!RowId(i) \in DOMAIN table
    BY TableHeld
  <2>2. PICK v : /\ NamesIn(list, t, i) = {v} /\ table[Text!RowId(i)] = Pair(i, v)
                 /\ Text!Fits(Pair(i, v))
    BY <2>1, TableHeld
  <2> QED
    BY <2>1, <2>2
<1>3. \A x : x \in SelectIn(list, t) <=> \E i \in RowNumbers : \E w \in NamesIn(list, t, i) : x = Pair(i, w)
  BY DEF SelectIn
<1>4. RowsOf(table) = SelectIn(list, t)
  <2>1. ASSUME NEW x \in RowsOf(table) PROVE x \in SelectIn(list, t)
    <3>1. PICK id \in DOMAIN table : x = table[id]
      BY DEF RowsOf
    <3> QED
      BY <1>1, <1>3, <3>1
  <2>2. ASSUME NEW x \in SelectIn(list, t) PROVE x \in RowsOf(table)
    <3>1. PICK i, w : i \in RowNumbers /\ w \in NamesIn(list, t, i) /\ x = Pair(i, w)
      BY <1>3
    <3> QED
      BY <1>2, <3>1 DEF RowsOf
  <2> QED
    BY <2>1, <2>2
<1>5. \A a, b \in DOMAIN table : table[a] = table[b] => a = b
  BY <1>1, RowsDiffer
<1>6. IsFiniteSet(DOMAIN table) /\ DOMAIN table \subseteq Int
  BY TableHeld
<1>7. Lists(Text!Rows(table), RowsOf(table))
  BY <1>5, <1>6, RowsAre
<1> QED
  BY <1>2, <1>3, <1>4, <1>7

BothRows(one, two) == [id \in DOMAIN one \intersect DOMAIN two |-> Text!MergeWith(one[id], two[id])]
LeftRows(one, two) == [id \in DOMAIN one \ DOMAIN two |-> Text!MergeWith(one[id], Text!Empty(id))]
RightRows(one, two) == [id \in DOMAIN two \ DOMAIN one |-> Text!MergeWith(Text!Empty(id), two[id])]

\* INTERSECT
LEMMA IntersectIs ==
    ASSUME NEW one, NEW two, NEW list, NEW t, NEW u, TableHolds(one, list, t), TableHolds(two, list, u)
    PROVE  Lists(Text!Rows(BothRows(one, two)), IntersectIn(list, t, u))
<1>1. PICK table : table = BothRows(one, two)
  OBVIOUS
<1>2. /\ DOMAIN table = DOMAIN one \intersect DOMAIN two
      /\ \A id \in DOMAIN table : table[id] = Text!MergeWith(one[id], two[id])
  BY <1>1 DEF BothRows
<1>3. \A id \in DOMAIN table :
         \E i \in RowNumbers : \E v, w :
            /\ id = Text!RowId(i) /\ v \in NamesIn(list, t, i)
            /\ w \in NamesIn(list, u, i) /\ table[id] = Joined(i, v, w)
  <2> TAKE id \in DOMAIN table
  <2>1. PICK i \in RowNumbers : id = Text!RowId(i)
    BY <1>2, TableHeld
  <2>2. PICK v : NamesIn(list, t, i) = {v} /\ one[Text!RowId(i)] = Pair(i, v)
    BY <1>2, <2>1, TableHeld
  <2>3. PICK w : NamesIn(list, u, i) = {w} /\ two[Text!RowId(i)] = Pair(i, w)
    BY <1>2, <2>1, TableHeld
  <2>4. table[id] = Joined(i, v, w)
    BY <1>2, <2>1, <2>2, <2>3, Merged
  <2> QED
    BY <2>1, <2>2, <2>3, <2>4
<1>4. \A i \in RowNumbers : \A v \in NamesIn(list, t, i) : \A w \in NamesIn(list, u, i) :
         Text!RowId(i) \in DOMAIN table /\ table[Text!RowId(i)] = Joined(i, v, w)
  <2> TAKE i \in RowNumbers
  <2> TAKE v \in NamesIn(list, t, i)
  <2> TAKE w \in NamesIn(list, u, i)
  <2>1. Text!RowId(i) \in DOMAIN one /\ Text!RowId(i) \in DOMAIN two
    BY TableHeld
  <2>2. PICK a : NamesIn(list, t, i) = {a} /\ one[Text!RowId(i)] = Pair(i, a)
    BY <2>1, TableHeld
  <2>3. PICK b : NamesIn(list, u, i) = {b} /\ two[Text!RowId(i)] = Pair(i, b)
    BY <2>1, TableHeld
  <2>4. table[Text!RowId(i)] = Text!MergeWith(Pair(i, v), Pair(i, w))
    BY <1>2, <2>1, <2>2, <2>3
  <2> QED
    BY <1>2, <2>1, <2>4, Merged
<1>5. \A x : x \in IntersectIn(list, t, u)
             <=> \E i \in RowNumbers : \E v \in NamesIn(list, t, i) : \E w \in NamesIn(list, u, i) : x = Joined(i, v, w)
  <2> TAKE x
  <2>1. ASSUME x \in IntersectIn(list, t, u)
        PROVE  \E i \in RowNumbers : \E v \in NamesIn(list, t, i) : \E w \in NamesIn(list, u, i) : x = Joined(i, v, w)
    <3>1. PICK i, p : i \in RowNumbers /\ p \in NamesIn(list, t, i) \X NamesIn(list, u, i) /\ x = Joined(i, p[1], p[2])
      BY <2>1 DEF IntersectIn
    <3> QED
      BY <3>1
  <2>2. ASSUME NEW i \in RowNumbers, NEW v \in NamesIn(list, t, i), NEW w \in NamesIn(list, u, i), x = Joined(i, v, w)
        PROVE  x \in IntersectIn(list, t, u)
    <3>1. PICK p \in NamesIn(list, t, i) \X NamesIn(list, u, i) : p[1] = v /\ p[2] = w
      <4>1. <<v, w>> \in NamesIn(list, t, i) \X NamesIn(list, u, i)
        OBVIOUS
      <4>2. <<v, w>>[1] = v /\ <<v, w>>[2] = w
        OBVIOUS
      <4> QED
        BY <4>1, <4>2
    <3> QED
      BY <2>2, <3>1 DEF IntersectIn
  <2> QED
    BY <2>1, <2>2
<1>6. RowsOf(table) = IntersectIn(list, t, u)
  <2>1. ASSUME NEW x \in RowsOf(table) PROVE x \in IntersectIn(list, t, u)
    <3>1. PICK id \in DOMAIN table : x = table[id]
      BY DEF RowsOf
    <3> QED
      BY <1>3, <1>5, <3>1
  <2>2. ASSUME NEW x \in IntersectIn(list, t, u) PROVE x \in RowsOf(table)
    <3>1. PICK i, v, w : i \in RowNumbers /\ v \in NamesIn(list, t, i) /\ w \in NamesIn(list, u, i) /\ x = Joined(i, v, w)
      BY <1>5
    <3> QED
      BY <1>4, <3>1 DEF RowsOf
  <2> QED
    BY <2>1, <2>2
<1>7. \A a, b \in DOMAIN table : table[a] = table[b] => a = b
  BY <1>3, RowsDiffer
<1>8. IsFiniteSet(DOMAIN table) /\ DOMAIN table \subseteq Int
  BY <1>2, TableHeld, FS_Subset
<1> QED
  BY <1>1, <1>6, <1>7, <1>8, RowsAre

\* DIFFERENCE, the rows that only the first table has.
LEMMA LeftIs ==
    ASSUME NEW one, NEW two, NEW list, NEW t, NEW u, TableHolds(one, list, t), TableHolds(two, list, u)
    PROVE  /\ Lists(Text!Rows(LeftRows(one, two)), LeftIn(list, t, u))
           /\ \A x \in LeftIn(list, t, u) : Text!Fits(x)
<1>1. PICK table : table = LeftRows(one, two)
  OBVIOUS
<1>2. /\ DOMAIN table = DOMAIN one \ DOMAIN two
      /\ \A id \in DOMAIN table : table[id] = Text!MergeWith(one[id], Text!Empty(id))
  BY <1>1 DEF LeftRows
<1>3. \A id \in DOMAIN table :
         \E i \in RowNumbers : \E w :
            /\ id = Text!RowId(i) /\ w \in NamesIn(list, t, i)
            /\ NamesIn(list, u, i) = {} /\ table[id] = LeftOnly(i, w)
  <2> TAKE id \in DOMAIN table
  <2>1. PICK i \in RowNumbers : id = Text!RowId(i)
    BY <1>2, TableHeld
  <2>2. PICK w : NamesIn(list, t, i) = {w} /\ one[Text!RowId(i)] = Pair(i, w)
    BY <1>2, <2>1, TableHeld
  <2>3. NamesIn(list, u, i) = {}
    BY <1>2, <2>1, TableHeld
  <2>4. table[id] = LeftOnly(i, w)
    BY <1>2, <2>1, <2>2, Merged
  <2> QED
    BY <2>1, <2>2, <2>3, <2>4
<1>4. \A i \in RowNumbers : \A w \in NamesIn(list, t, i) : NamesIn(list, u, i) = {} =>
         /\ Text!RowId(i) \in DOMAIN table /\ table[Text!RowId(i)] = LeftOnly(i, w)
         /\ Text!Fits(LeftOnly(i, w))
  <2> SUFFICES ASSUME NEW i \in RowNumbers, NEW w \in NamesIn(list, t, i), NamesIn(list, u, i) = {}
               PROVE  /\ Text!RowId(i) \in DOMAIN table /\ table[Text!RowId(i)] = LeftOnly(i, w)
                      /\ Text!Fits(LeftOnly(i, w))
    OBVIOUS
  <2>1. Text!RowId(i) \in DOMAIN one
    BY TableHeld
  <2>2. Text!RowId(i) \notin DOMAIN two
    <3> SUFFICES ASSUME Text!RowId(i) \in DOMAIN two PROVE FALSE
      OBVIOUS
    <3>1. PICK b : NamesIn(list, u, i) = {b}
      BY TableHeld
    <3> QED
      BY <3>1
  <2>3. PICK a : /\ NamesIn(list, t, i) = {a} /\ one[Text!RowId(i)] = Pair(i, a)
                 /\ Text!Fits(LeftOnly(i, a))
    BY <2>1, TableHeld
  <2>4. table[Text!RowId(i)] = Text!MergeWith(Pair(i, w), Text!Empty(Text!RowId(i)))
    BY <1>2, <2>1, <2>2, <2>3
  <2> QED
    BY <1>2, <2>1, <2>2, <2>3, <2>4, Merged
<1>5. \A x : x \in LeftIn(list, t, u)
             <=> \E i \in RowNumbers : \E w \in NamesIn(list, t, i) : NamesIn(list, u, i) = {} /\ x = LeftOnly(i, w)
  BY DEF LeftIn
<1>6. RowsOf(table) = LeftIn(list, t, u)
  <2>1. ASSUME NEW x \in RowsOf(table) PROVE x \in LeftIn(list, t, u)
    <3>1. PICK id \in DOMAIN table : x = table[id]
      BY DEF RowsOf
    <3> QED
      BY <1>3, <1>5, <3>1
  <2>2. ASSUME NEW x \in LeftIn(list, t, u) PROVE x \in RowsOf(table)
    <3>1. PICK i, w : i \in RowNumbers /\ w \in NamesIn(list, t, i) /\ NamesIn(list, u, i) = {} /\ x = LeftOnly(i, w)
      BY <1>5
    <3> QED
      BY <1>4, <3>1 DEF RowsOf
  <2> QED
    BY <2>1, <2>2
<1>7. \A a, b \in DOMAIN table : table[a] = table[b] => a = b
  BY <1>3, RowsDiffer
<1>8. IsFiniteSet(DOMAIN table) /\ DOMAIN table \subseteq Int
  BY <1>2, TableHeld, FS_Subset
<1>9. Lists(Text!Rows(table), RowsOf(table))
  BY <1>7, <1>8, RowsAre
<1> QED
  BY <1>1, <1>4, <1>5, <1>6, <1>9

\* DIFFERENCE, the rows that only the second table has.
LEMMA RightIs ==
    ASSUME NEW one, NEW two, NEW list, NEW t, NEW u, TableHolds(one, list, t), TableHolds(two, list, u)
    PROVE  /\ Lists(Text!Rows(RightRows(one, two)), RightIn(list, t, u))
           /\ \A x \in RightIn(list, t, u) : Text!Fits(x)
<1>1. PICK table : table = RightRows(one, two)
  OBVIOUS
<1>2. /\ DOMAIN table = DOMAIN two \ DOMAIN one
      /\ \A id \in DOMAIN table : table[id] = Text!MergeWith(Text!Empty(id), two[id])
  BY <1>1 DEF RightRows
<1>3. \A id \in DOMAIN table :
         \E i \in RowNumbers : \E w :
            /\ id = Text!RowId(i) /\ w \in NamesIn(list, u, i)
            /\ NamesIn(list, t, i) = {} /\ table[id] = RightOnly(i, w)
  <2> TAKE id \in DOMAIN table
  <2>1. PICK i \in RowNumbers : id = Text!RowId(i)
    BY <1>2, TableHeld
  <2>2. PICK w : NamesIn(list, u, i) = {w} /\ two[Text!RowId(i)] = Pair(i, w)
    BY <1>2, <2>1, TableHeld
  <2>3. NamesIn(list, t, i) = {}
    BY <1>2, <2>1, TableHeld
  <2>4. table[id] = RightOnly(i, w)
    BY <1>2, <2>1, <2>2, Merged
  <2> QED
    BY <2>1, <2>2, <2>3, <2>4
<1>4. \A i \in RowNumbers : \A w \in NamesIn(list, u, i) : NamesIn(list, t, i) = {} =>
         /\ Text!RowId(i) \in DOMAIN table /\ table[Text!RowId(i)] = RightOnly(i, w)
         /\ Text!Fits(RightOnly(i, w))
  <2> SUFFICES ASSUME NEW i \in RowNumbers, NEW w \in NamesIn(list, u, i), NamesIn(list, t, i) = {}
               PROVE  /\ Text!RowId(i) \in DOMAIN table /\ table[Text!RowId(i)] = RightOnly(i, w)
                      /\ Text!Fits(RightOnly(i, w))
    OBVIOUS
  <2>1. Text!RowId(i) \in DOMAIN two
    BY TableHeld
  <2>2. Text!RowId(i) \notin DOMAIN one
    <3> SUFFICES ASSUME Text!RowId(i) \in DOMAIN one PROVE FALSE
      OBVIOUS
    <3>1. PICK b : NamesIn(list, t, i) = {b}
      BY TableHeld
    <3> QED
      BY <3>1
  <2>3. PICK a : /\ NamesIn(list, u, i) = {a} /\ two[Text!RowId(i)] = Pair(i, a)
                 /\ Text!Fits(RightOnly(i, a))
    BY <2>1, TableHeld
  <2>4. table[Text!RowId(i)] = Text!MergeWith(Text!Empty(Text!RowId(i)), Pair(i, w))
    BY <1>2, <2>1, <2>2, <2>3
  <2> QED
    BY <1>2, <2>1, <2>2, <2>3, <2>4, Merged
<1>5. \A x : x \in RightIn(list, t, u)
             <=> \E i \in RowNumbers : \E w \in NamesIn(list, u, i) : NamesIn(list, t, i) = {} /\ x = RightOnly(i, w)
  BY DEF RightIn
<1>6. RowsOf(table) = RightIn(list, t, u)
  <2>1. ASSUME NEW x \in RowsOf(table) PROVE x \in RightIn(list, t, u)
    <3>1. PICK id \in DOMAIN table : x = table[id]
      BY DEF RowsOf
    <3> QED
      BY <1>3, <1>5, <3>1
  <2>2. ASSUME NEW x \in RightIn(list, t, u) PROVE x \in RowsOf(table)
    <3>1. PICK i, w : i \in RowNumbers /\ w \in NamesIn(list, u, i) /\ NamesIn(list, t, i) = {} /\ x = RightOnly(i, w)
      BY <1>5
    <3> QED
      BY <1>4, <3>1 DEF RowsOf
  <2> QED
    BY <2>1, <2>2
<1>7. \A a, b \in DOMAIN table : table[a] = table[b] => a = b
  BY <1>3, RowsDiffer
<1>8. IsFiniteSet(DOMAIN table) /\ DOMAIN table \subseteq Int
  BY <1>2, TableHeld, FS_Subset
<1>9. Lists(Text!Rows(table), RowsOf(table))
  BY <1>7, <1>8, RowsAre
<1> QED
  BY <1>1, <1>4, <1>5, <1>6, <1>9

LEMMA DifferenceIs ==
    ASSUME NEW one, NEW two, NEW list, NEW t, NEW u, TableHolds(one, list, t), TableHolds(two, list, u)
    PROVE  /\ Lists(Text!Rows(LeftRows(one, two)) \o Text!Rows(RightRows(one, two)),
                    LeftIn(list, t, u) \union RightIn(list, t, u))
           /\ \A x \in LeftIn(list, t, u) \union RightIn(list, t, u) : Text!Fits(x)
<1>1. LeftIn(list, t, u) \cap RightIn(list, t, u) = {}
  <2> SUFFICES ASSUME NEW x, x \in LeftIn(list, t, u), x \in RightIn(list, t, u) PROVE FALSE
    OBVIOUS
  <2>1. PICK i, v : x = LeftOnly(i, v)
    BY DEF LeftIn
  <2>2. PICK j, w : x = RightOnly(j, w)
    BY DEF RightIn
  <2>3. LeftOnly(i, v)[2] # RightOnly(j, w)[2]
    BY DEF LeftOnly, RightOnly, Text!StrCell, Text!TNull
  <2> QED
    BY <2>1, <2>2, <2>3
<1>2. PICK r, q, S, T : /\ r = Text!Rows(LeftRows(one, two)) /\ q = Text!Rows(RightRows(one, two))
                        /\ S = LeftIn(list, t, u) /\ T = RightIn(list, t, u)
  OBVIOUS
<1>3. Lists(r, S) /\ Lists(q, T)
  BY <1>2, LeftIs, RightIs
<1>4. Lists(r \o q, S \union T)
  BY <1>1, <1>2, <1>3, ListsJoin
<1>5. \A x \in S \union T : Text!Fits(x)
  BY <1>2, LeftIs, RightIs
<1> QED
  BY <1>2, <1>4, <1>5

ExpectedIn(list, line) ==
    CASE line[1] = "SELECT" -> SelectIn(list, line[2])
      [] line[1] = "INTERSECT" -> IntersectIn(list, Text!Left(line), Text!Right(line))
      [] line[1] = "DIFFERENCE" ->
            LeftIn(list, Text!Left(line), Text!Right(line)) \union RightIn(list, Text!Left(line), Text!Right(line))
      [] OTHER -> {}

Refused(list, line) ==
    \/ ~Text!WellFormed(line)
    \/ line[1] # "INSERT" /\ ~(Mentioned(list, Text!Left(line)) /\ Mentioned(list, Text!Right(line)))

Answered(list, line, text) ==
    IF Refused(list, line) THEN text = <<Text!ERR>>
    ELSE \E r : text = Append(r, Text!OK) /\ Lists(r, ExpectedIn(list, line))

Broken(list, line) ==
    \/ Text!Is(line, "INSERT", 4) /\ line[3] \notin DOMAIN Number
    \/ Text!IsJoin(line, "INTERSECT") /\ \E row \in ExpectedIn(list, line) : ~Text!Fits(row)
    \/ ~Text!WellFormed(line) /\ \E length \in Text!ErrorLengths(line) : length > RowSize
    \/ /\ Text!WellFormed(line) /\ line[1] # "INSERT"
       /\ \E t \in {Text!Left(line), Text!Right(line)} :
             ~Mentioned(list, t) /\ Text!MissingLength(t) > RowSize

\* What a request leaves behind, the last one of the list.
Done(all, list, line, text, status) ==
    \/ status = "up" /\ Stored(all, list) /\ Answered(list, line, text)
    \/ status \in {"down", "damaged"} /\ Broken(list, line)

\* A refusal is answered, or it is too long.
LEMMA RefusalIs ==
    ASSUME NEW length, Text!Refuse(length), process = "up"
    PROVE  /\ tables' = tables
           /\ \/ process' = "up" /\ reply' = <<Text!ERR>>
              \/ process' \in {"down", "damaged"} /\ length > RowSize
BY DEF Text!Refuse

LEMMA AnswerIs ==
    ASSUME NEW r, Text!Answer(r), process = "up"
    PROVE  \/ process' = "up" /\ reply' = Append(r, Text!OK)
           \/ process' = "down" /\ \E k \in DOMAIN r : ~Text!Fits(r[k])
BY DEF Text!Answer

LEMMA AnswerFits ==
    ASSUME NEW r, NEW S, Lists(r, S), \A x \in S : Text!Fits(x), Text!Answer(r), process = "up"
    PROVE  process' = "up" /\ reply' = Append(r, Text!OK)
<1>1. \A k \in DOMAIN r : r[k] \in S
  BY LenProperties DEF Lists
<1> QED
  BY <1>1, AnswerIs

LEMMA AnswerNothing ==
    ASSUME Text!Answer(<< >>), process = "up"
    PROVE  process' = "up" /\ reply' = Append(<< >>, Text!OK)
<1>1. DOMAIN << >> = {}
  OBVIOUS
<1> QED
  BY <1>1 DEF Text!Answer

LEMMA TablesHold ==
    ASSUME NEW all, NEW list, Stored(all, list), NEW t \in DOMAIN all
    PROVE  TableHolds(all[t], list, t)
BY DEF Stored, TableHolds

LEMMA AfterMalformed ==
    ASSUME NEW line \in Requests, NEW more, more = Append(log, line),
           process = "up", Stored(tables, log), Text!Malformed(line)
    PROVE  Done(tables', more, line, reply', process')
<1>1. PICK length \in Text!ErrorLengths(line) : ~Text!WellFormed(line) /\ Text!Refuse(length)
  BY DEF Text!Malformed
<1>2. ~Text!Is(line, "INSERT", 4) /\ \A t : ~Clears(line, t)
  BY <1>1 DEF Text!WellFormed, Clears
<1>3. Stored(tables, more)
  BY <1>2, StoredAfterRead
<1>4. Answered(more, line, <<Text!ERR>>)
  BY <1>1 DEF Answered, Refused
<1>5. length > RowSize => Broken(more, line)
  BY <1>1 DEF Broken
<1> QED
  BY <1>1, <1>3, <1>4, <1>5, RefusalIs DEF Done

LEMMA AfterNotANumber ==
    ASSUME NEW line \in Requests, NEW more, Text!NotANumber(line)
    PROVE  Done(tables', more, line, reply', process')
<1>1. process' = "down" /\ Broken(more, line)
  BY DEF Text!NotANumber, Broken
<1> QED
  BY <1>1 DEF Done

LEMMA AfterMissing ==
    ASSUME NEW line \in Requests, NEW more, more = Append(log, line),
           process = "up", Stored(tables, log), Text!Missing(line)
    PROVE  Done(tables', more, line, reply', process')
<1>1. PICK name \in {Text!Left(line), Text!Right(line)} :
         /\ Text!WellFormed(line) /\ line[1] # "INSERT"
         /\ name \notin DOMAIN tables
         /\ Text!Refuse(Text!MissingLength(name))
  BY DEF Text!Missing
<1>2. ~Text!Is(line, "INSERT", 4)
  BY <1>1 DEF Text!Is
<1>3. \A t \in DOMAIN tables : ~Clears(line, t)
  <2> SUFFICES ASSUME NEW t \in DOMAIN tables, Clears(line, t) PROVE FALSE
    OBVIOUS
  <2>1. Len(line) = 2 /\ line[2] = t
    BY DEF Clears, Text!Is
  <2>2. Text!Left(line) = t /\ Text!Right(line) = t
    BY <2>1 DEF Text!Left, Text!Right
  <2> QED
    BY <1>1, <2>2
<1>4. Stored(tables, more)
  BY <1>2, <1>3, StoredAfterRead
<1>5. ~Mentioned(more, name)
  BY <1>1, <1>4 DEF Stored
<1>6. Answered(more, line, <<Text!ERR>>)
  <2>1. Refused(more, line)
    BY <1>1, <1>5 DEF Refused
  <2> QED
    BY <2>1 DEF Answered
<1>7. Text!MissingLength(name) > RowSize => Broken(more, line)
  BY <1>1, <1>5 DEF Broken
<1> QED
  BY <1>1, <1>4, <1>6, <1>7, RefusalIs DEF Done

LEMMA AfterInsert ==
    ASSUME NEW line \in Requests, NEW more, more = Append(log, line),
           process = "up", Stored(tables, log), Text!Insert(line)
    PROVE  Done(tables', more, line, reply', process')
<1>1. Text!Is(line, "INSERT", 4) /\ line[3] \in DOMAIN Number /\ Text!Answer(<< >>)
  BY DEF Text!Insert
<1>2. process' = "up" /\ reply' = Append(<< >>, Text!OK)
  BY <1>1, AnswerNothing
<1>3. PICK all : all = Text!Put(tables, line[2],
                           Text!Put(IF line[2] \in DOMAIN tables THEN tables[line[2]] ELSE << >>,
                                    Text!RowId(Number[line[3]]),
                                    Pair(Number[line[3]], line[4])))
  OBVIOUS
<1>4. tables' = all
  BY <1>3 DEF Text!Insert, Pair
<1>5. Stored(all, more)
  BY <1>1, <1>3, StoredAfterInsert
<1>6. line[1] = "INSERT" /\ Text!WellFormed(line)
  BY <1>1 DEF Text!Is, Text!WellFormed
<1>7. ExpectedIn(more, line) = {} /\ ~Refused(more, line)
  BY <1>6 DEF ExpectedIn, Refused
<1>8. Answered(more, line, Append(<< >>, Text!OK))
  BY <1>7, NothingListed DEF Answered
<1> QED
  BY <1>2, <1>4, <1>5, <1>8 DEF Done

LEMMA AfterTruncate ==
    ASSUME NEW line \in Requests, NEW more, more = Append(log, line),
           process = "up", Stored(tables, log), Text!Truncate(line)
    PROVE  Done(tables', more, line, reply', process')
<1>1. Text!Is(line, "TRUNCATE", 2) /\ line[2] \in DOMAIN tables /\ Text!Answer(<< >>)
  BY DEF Text!Truncate
<1>2. process' = "up" /\ reply' = Append(<< >>, Text!OK)
  BY <1>1, AnswerNothing
<1>3. PICK all : all = [tables EXCEPT ![line[2]] = << >>]
  OBVIOUS
<1>4. tables' = all
  BY <1>3 DEF Text!Truncate
<1>5. Stored(all, more)
  BY <1>1, <1>3, StoredAfterTruncate
<1>6. line[1] = "TRUNCATE" /\ Len(line) = 2 /\ Text!WellFormed(line)
  BY <1>1 DEF Text!Is, Text!WellFormed
<1>7. Text!Left(line) = line[2] /\ Text!Right(line) = line[2]
  BY <1>6 DEF Text!Left, Text!Right
<1>8. Mentioned(more, line[2])
  BY <1>1, <1>3, <1>5 DEF Stored
<1>9. ExpectedIn(more, line) = {} /\ ~Refused(more, line)
  BY <1>6, <1>7, <1>8 DEF ExpectedIn, Refused
<1>10. Answered(more, line, Append(<< >>, Text!OK))
  BY <1>9, NothingListed DEF Answered
<1> QED
  BY <1>2, <1>4, <1>5, <1>10 DEF Done

LEMMA AfterSelect ==
    ASSUME NEW line \in Requests, NEW more, more = Append(log, line),
           process = "up", Stored(tables, log), Text!Select(line)
    PROVE  Done(tables', more, line, reply', process')
<1>1. /\ Text!Is(line, "SELECT", 2) /\ line[2] \in DOMAIN tables /\ tables' = tables
      /\ Text!Answer(Text!Rows(tables[line[2]]))
  BY DEF Text!Select
<1>2. line[1] = "SELECT" /\ Len(line) = 2 /\ Text!WellFormed(line)
  BY <1>1 DEF Text!Is, Text!WellFormed
<1>3. Stored(tables, more)
  BY <1>2, StoredAfterRead DEF Text!Is, Clears
<1>4. PICK r : r = Text!Rows(tables[line[2]])
  OBVIOUS
<1>5. Lists(r, SelectIn(more, line[2])) /\ \A x \in SelectIn(more, line[2]) : Text!Fits(x)
  BY <1>1, <1>3, <1>4, TablesHold, SelectIs
<1>6. Text!Answer(r)
  BY <1>1, <1>4 DEF Text!Answer
<1>7. process' = "up" /\ reply' = Append(r, Text!OK)
  BY <1>5, <1>6, AnswerFits
<1>8. Text!Left(line) = line[2] /\ Text!Right(line) = line[2]
  BY <1>2 DEF Text!Left, Text!Right
<1>9. ExpectedIn(more, line) = SelectIn(more, line[2])
  BY <1>2 DEF ExpectedIn
<1>10. ~Refused(more, line)
  BY <1>1, <1>2, <1>3, <1>8 DEF Refused, Stored
<1>11. Answered(more, line, Append(r, Text!OK))
  BY <1>5, <1>9, <1>10 DEF Answered
<1> QED
  BY <1>1, <1>3, <1>7, <1>11 DEF Done

LEMMA AfterJoin ==
    ASSUME NEW line \in Requests, NEW more, more = Append(log, line),
           process = "up", Stored(tables, log), Text!Join(line)
    PROVE  Done(tables', more, line, reply', process')
<1>1. PICK t, u : t = Text!Left(line) /\ u = Text!Right(line)
  OBVIOUS
<1>2. /\ Text!IsJoin(line, "INTERSECT") \/ Text!IsJoin(line, "DIFFERENCE")
      /\ t \in DOMAIN tables /\ u \in DOMAIN tables /\ tables' = tables
  BY <1>1 DEF Text!Join
<1>3. PICK one, two : one = tables[t] /\ two = tables[u]
  OBVIOUS
<1>4. /\ (line[1] = "INTERSECT" /\ Text!IsJoin(line, "INTERSECT")) \/ line[1] = "DIFFERENCE"
      /\ Text!WellFormed(line)
  BY <1>2 DEF Text!IsJoin, Text!Is, Text!WellFormed
<1>5. Stored(tables, more)
  BY <1>4, StoredAfterRead DEF Text!Is, Clears
<1>6. TableHolds(one, more, t) /\ TableHolds(two, more, u)
  BY <1>2, <1>3, <1>5, TablesHold
<1>7. ~Refused(more, line)
  BY <1>1, <1>2, <1>4, <1>5 DEF Refused, Stored
<1>8. CASE line[1] = "INTERSECT"
  <2>1. PICK r, S : r = Text!Rows(BothRows(one, two)) /\ S = IntersectIn(more, t, u)
    OBVIOUS
  <2>2. Text!Answer(r)
    BY <1>1, <1>3, <1>8, <2>1 DEF Text!Join, BothRows, Text!Answer
  <2>3. Lists(r, S) /\ ExpectedIn(more, line) = S
    BY <1>1, <1>6, <1>8, <2>1, IntersectIs DEF ExpectedIn
  <2>4. \/ process' = "up" /\ reply' = Append(r, Text!OK)
        \/ process' = "down" /\ \E k \in DOMAIN r : ~Text!Fits(r[k])
    BY <2>2, AnswerIs
  <2>5. \A k \in DOMAIN r : r[k] \in S
    BY <2>3, LenProperties DEF Lists
  <2>6. CASE process' = "up" /\ reply' = Append(r, Text!OK)
    <3>1. Answered(more, line, Append(r, Text!OK))
      BY <1>7, <2>3 DEF Answered
    <3> QED
      BY <1>2, <1>5, <2>6, <3>1 DEF Done
  <2>7. CASE process' = "down" /\ \E k \in DOMAIN r : ~Text!Fits(r[k])
    <3>1. Broken(more, line)
      BY <1>4, <1>8, <2>3, <2>5, <2>7 DEF Broken
    <3> QED
      BY <2>7, <3>1 DEF Done
  <2> QED
    BY <2>4, <2>6, <2>7
<1>9. CASE line[1] = "DIFFERENCE"
  <2>1. PICK r, S : /\ r = Text!Rows(LeftRows(one, two)) \o Text!Rows(RightRows(one, two))
                    /\ S = LeftIn(more, t, u) \union RightIn(more, t, u)
    OBVIOUS
  <2>2. Text!Answer(r)
    <3>1. line[1] # "INTERSECT"
      BY <1>9
    <3>2. Text!Answer(   Text!Rows(LeftRows(tables[Text!Left(line)], tables[Text!Right(line)]))
                      \o Text!Rows(RightRows(tables[Text!Left(line)], tables[Text!Right(line)])))
      BY <3>1, Zenon DEF Text!Join, LeftRows, RightRows
    <3>3. Text!Rows(LeftRows(one, two)) \o Text!Rows(RightRows(one, two)) = r
      BY <2>1
    <3> QED
      BY <1>1, <1>3, <3>2, <3>3, Zenon
  <2>3. Lists(r, S) /\ \A x \in S : Text!Fits(x)
    <3>1. /\ Lists(Text!Rows(LeftRows(one, two)) \o Text!Rows(RightRows(one, two)),
                   LeftIn(more, t, u) \union RightIn(more, t, u))
          /\ \A x \in LeftIn(more, t, u) \union RightIn(more, t, u) : Text!Fits(x)
      BY <1>6, DifferenceIs
    <3> QED
      BY <2>1, <3>1
  <2>4. ExpectedIn(more, line) = S
    BY <1>1, <1>9, <2>1 DEF ExpectedIn
  <2>5. process' = "up" /\ reply' = Append(r, Text!OK)
    BY <2>2, <2>3, AnswerFits
  <2>6. Answered(more, line, Append(r, Text!OK))
    BY <1>7, <2>3, <2>4 DEF Answered
  <2> QED
    BY <1>2, <1>5, <2>5, <2>6 DEF Done
<1> QED
  BY <1>4, <1>8, <1>9

TextInv ==
    /\ process \in {"up", "down", "damaged"}
    /\ log \in Seq(Requests)
    /\ process = "up" => Stored(tables, log)
    /\ log # << >> /\ process = "up" => Answered(log, log[Len(log)], reply)
    /\ process # "up" => log # << >> /\ Broken(log, log[Len(log)])

LEMMA TextStart == Text!Init => TextInv
<1> SUFFICES ASSUME Text!Init PROVE TextInv
  OBVIOUS
<1>1. tables = << >> /\ process = "up" /\ log = << >>
  BY DEF Text!Init
<1>2. log \in Seq(Requests) /\ DOMAIN log = {} /\ DOMAIN tables = {}
  BY <1>1
<1>3. Stored(tables, log)
  BY <1>2 DEF Stored, Mentioned
<1> QED
  BY <1>1, <1>2, <1>3 DEF TextInv

LEMMA TextStep ==
    ASSUME TextInv, NEW line \in Requests, Text!Handle(line)
    PROVE  TextInv'
<1>1. process = "up" /\ log \in Seq(Requests) /\ Stored(tables, log)
  BY DEF TextInv, Text!Handle
<1>2. PICK more : more = Append(log, line)
  OBVIOUS
<1>3. more \in Seq(Requests) /\ more # << >> /\ more[Len(more)] = line /\ log' = more
  <2>1. /\ Append(log, line) \in Seq(Requests) /\ Len(Append(log, line)) = Len(log) + 1
        /\ Append(log, line)[Len(log) + 1] = line
    BY <1>1, AppendProperties
  <2>2. Len(log) + 1 # 0
    BY <1>1, LenProperties
  <2>3. log' = more
    BY <1>2 DEF Text!Handle
  <2>4. more # << >>
    BY <1>2, <2>1, <2>2
  <2> QED
    BY <1>2, <2>1, <2>3, <2>4
<1>4. Done(tables', more, line, reply', process')
  <2>1. \/ Text!Malformed(line) \/ Text!NotANumber(line) \/ Text!Missing(line)
        \/ Text!Insert(line) \/ Text!Select(line) \/ Text!Truncate(line) \/ Text!Join(line)
    BY DEF Text!Handle
  <2> QED
    BY <1>1, <1>2, <2>1, AfterMalformed, AfterNotANumber, AfterMissing, AfterInsert, AfterSelect,
       AfterTruncate, AfterJoin
<1>5. CASE process' = "up" /\ Stored(tables', more) /\ Answered(more, line, reply')
  <2>1. (process \in {"up", "down", "damaged"})' /\ (log \in Seq(Requests))'
    BY <1>3, <1>5
  <2>2. Stored(tables, log)'
    BY <1>3, <1>5
  <2>3. Answered(log, log[Len(log)], reply)'
    BY <1>3, <1>5
  <2> QED
    BY <1>5, <2>1, <2>2, <2>3 DEF TextInv
<1>6. CASE process' \in {"down", "damaged"} /\ Broken(more, line)
  <2>1. (log # << >> /\ Broken(log, log[Len(log)]))'
    BY <1>3, <1>6
  <2> QED
    BY <1>3, <1>6, <2>1 DEF TextInv
<1> QED
  BY <1>4, <1>5, <1>6 DEF Done

LEMMA TextInvariant == Text!Spec => []TextInv
<1>1. Text!Init => TextInv
  BY TextStart
<1>2. TextInv /\ [Text!Next]_(Text!vars) => TextInv'
  <2> SUFFICES ASSUME TextInv, [Text!Next]_(Text!vars) PROVE TextInv'
    OBVIOUS
  <2>1. ASSUME NEW line \in Requests, Text!Handle(line) PROVE TextInv'
    BY <2>1, TextStep
  <2>2. CASE UNCHANGED Text!vars
    <3>1. tables' = tables /\ reply' = reply /\ process' = process /\ log' = log
      BY <2>2 DEF Text!vars
    <3> QED
      BY <3>1 DEF TextInv
  <2> QED
    BY <2>1, <2>2 DEF Text!Next, Text!Stopped
<1> QED
  BY <1>1, <1>2, PTL DEF Text!Spec

\* What the invariant says, in the words of the model.
LEMMA SameWords ==
    ASSUME log \in Seq(Requests), log # << >>
    PROVE  /\ Text!Last(log) = log[Len(log)]
           /\ \A t : Text!Known(t) <=> Mentioned(log, t)
           /\ \A line : Text!Expected(line) = ExpectedIn(log, line)
<1>1. \A t, i : Text!Names(t, i) = NamesIn(log, t, i)
  BY DEF Text!Names, NamesIn, Decides, Sets, InsertsInto, Clears, Text!Inserted, Text!Truncated
<1>2. Text!Ids = RowNumbers
  BY DEF Text!Ids, RowNumbers
<1>3. \A t : Text!SelectRows(t) = SelectIn(log, t)
  BY <1>1, <1>2 DEF Text!SelectRows, SelectIn, Pair
<1>4. \A t, u : Text!IntersectRows(t, u) = IntersectIn(log, t, u)
  BY <1>1, <1>2 DEF Text!IntersectRows, IntersectIn, Joined
<1>5. \A t, u : Text!DifferenceRows(t, u) = LeftIn(log, t, u) \union RightIn(log, t, u)
  <2> TAKE t, u
  <2>1. Text!LeftRows(t, u) = LeftIn(log, t, u)
    BY <1>1, <1>2 DEF Text!LeftRows, LeftIn, LeftOnly
  <2>2. Text!RightRows(t, u) = RightIn(log, t, u)
    BY <1>1, <1>2 DEF Text!RightRows, RightIn, RightOnly
  <2> QED
    BY <2>1, <2>2 DEF Text!DifferenceRows
<1>6. \A line : Text!Expected(line) = ExpectedIn(log, line)
  BY <1>3, <1>4, <1>5 DEF Text!Expected, ExpectedIn
<1>7. \A t : Text!Known(t) <=> Mentioned(log, t)
  BY DEF Text!Known, Mentioned, Text!Inserted, InsertsInto
<1>8. Text!Last(log) = log[Len(log)]
  BY DEF Text!Last
<1> QED
  BY <1>6, <1>7, <1>8

LEMMA FrontIs ==
    ASSUME NEW S, NEW r, Lists(r, S)
    PROVE  /\ Text!Last(Append(r, Text!OK)) = Text!OK
           /\ Text!ToSet(Text!Front(Append(r, Text!OK))) = S
           /\ Len(Text!Front(Append(r, Text!OK))) = Cardinality(S)
<1>1. PICK n \in Nat : n = Len(r) /\ DOMAIN r = 1 .. n
  BY LenProperties DEF Lists
<1>2. PICK all : all = Append(r, Text!OK)
  OBVIOUS
<1>3. Len(all) = n + 1 /\ all[n + 1] = Text!OK
  BY <1>1, <1>2, AppendProperties DEF Lists
<1>4. Text!Front(all) = r
  <2>1. r \in Seq(S \union {Text!OK})
    <3>1. \A k \in 1 .. Len(r) : r[k] \in S
      BY LenProperties DEF Lists
    <3> QED
      BY <3>1 DEF Lists
  <2>2. SubSeq(all, 1, Len(all) - 1) = r
    BY <1>1, <1>2, <1>3, <2>1
  <2> QED
    BY <2>2 DEF Text!Front
<1>5. Text!ToSet(r) = S
  <2>1. \A k \in DOMAIN r : r[k] \in S
    BY LenProperties DEF Lists
  <2> QED
    BY <2>1 DEF Text!ToSet, Lists
<1> QED
  BY <1>2, <1>3, <1>4, <1>5 DEF Text!Last, Lists

THEOREM AnswerRightCorrect == Text!Spec => []AnswerRight
<1>1. TextInv => AnswerRight
  <2> SUFFICES ASSUME TextInv, log # << >>, process = "up" PROVE
        LET line == Text!Last(log)
            refused == \/ ~Text!WellFormed(line)
                       \/ line[1] # "INSERT" /\ ~(Text!Known(Text!Left(line)) /\ Text!Known(Text!Right(line)))
        IN  IF refused THEN reply = <<Text!ERR>>
            ELSE /\ Text!Last(reply) = Text!OK
                 /\ Text!ToSet(Text!Front(reply)) = Text!Expected(line)
                 /\ Len(Text!Front(reply)) = Text!Cardinality(Text!Expected(line))
    BY DEF AnswerRight, Text!AnswerRight
  <2>1. PICK line : line = Text!Last(log)
    OBVIOUS
  <2>2. Answered(log, line, reply)
    BY <2>1, SameWords DEF TextInv
  <2>3. Text!Expected(line) = ExpectedIn(log, line)
    BY SameWords DEF TextInv
  <2>4. Refused(log, line) <=>
          \/ ~Text!WellFormed(line)
          \/ line[1] # "INSERT" /\ ~(Text!Known(Text!Left(line)) /\ Text!Known(Text!Right(line)))
    BY SameWords DEF TextInv, Refused
  <2>5. CASE Refused(log, line)
    BY <2>1, <2>2, <2>4, <2>5 DEF Answered
  <2>6. CASE ~Refused(log, line)
    <3>1. PICK r : reply = Append(r, Text!OK) /\ Lists(r, ExpectedIn(log, line))
      BY <2>2, <2>6 DEF Answered
    <3>2. \A S : Text!Cardinality(S) = Cardinality(S)
      BY DEF Text!Cardinality, Cardinality
    <3>3. /\ Text!Last(reply) = Text!OK
          /\ Text!ToSet(Text!Front(reply)) = ExpectedIn(log, line)
          /\ Len(Text!Front(reply)) = Cardinality(ExpectedIn(log, line))
      BY <3>1, FrontIs
    <3> QED
      BY <2>1, <2>3, <2>4, <2>6, <3>2, <3>3
  <2> QED
    BY <2>5, <2>6
<1> QED
  BY <1>1, TextInvariant, PTL

THEOREM DownExplainedCorrect == Text!Spec => []DownExplained
<1>1. TextInv => DownExplained
  <2> SUFFICES ASSUME TextInv, process # "up" PROVE
        LET line == Text!Last(log)
        IN  \/ Text!Is(line, "INSERT", 4) /\ line[3] \notin DOMAIN Number
            \/ Text!IsJoin(line, "INTERSECT") /\ \E row \in Text!Expected(line) : ~Text!Fits(row)
            \/ ~Text!WellFormed(line) /\ \E length \in Text!ErrorLengths(line) : length > RowSize
            \/ /\ Text!WellFormed(line) /\ line[1] # "INSERT"
               /\ \E t \in {Text!Left(line), Text!Right(line)} :
                     ~Text!Known(t) /\ Text!MissingLength(t) > RowSize
    BY DEF DownExplained, Text!DownExplained
  <2>1. PICK line : line = Text!Last(log)
    OBVIOUS
  <2>2. log \in Seq(Requests) /\ log # << >> /\ Broken(log, log[Len(log)])
    BY DEF TextInv
  <2>3. /\ line = log[Len(log)] /\ Text!Expected(line) = ExpectedIn(log, line)
        /\ \A t : Text!Known(t) <=> Mentioned(log, t)
    BY <2>1, <2>2, SameWords
  <2> QED
    BY <2>1, <2>2, <2>3 DEF Broken
<1> QED
  BY <1>1, TextInvariant, PTL

-------------------------------------------------------------------------------
(* 10 bulk_server: the lines of a text *)

Byte == Server!Characters \union {Server!Zero}

\* f has the places of the delimiters, in order.
IsEnds(f, n, text) ==
    /\ f \in [1 .. n -> 1 .. Len(text)]
    /\ \A k \in 1 .. n : text[f[k]] = Server!Delimiter
    /\ \A j, k \in 1 .. n : j < k => f[j] < f[k]
    /\ \A i \in 1 .. Len(text) : text[i] = Server!Delimiter => \E k \in 1 .. n : f[k] = i

LEMMA ServerInOrder ==
    ASSUME NEW S
    PROVE  Server!InOrder(S) = InOrder(S)
BY DEF Server!InOrder, InOrder, Server!Nth, Nth, Server!Cardinality, Cardinality

LEMMA EndsAre ==
    ASSUME NEW text \in Seq(Byte)
    PROVE  \E n \in Nat : IsEnds(Server!Ends(text), n, text)
<1>1. PICK m \in Nat : m = Len(text) /\ DOMAIN text = 1 .. m
  BY LenProperties
<1>2. PICK S : S = {i \in DOMAIN text : text[i] = Server!Delimiter}
  OBVIOUS
<1>3. S \in SUBSET (1 .. m)
  BY <1>1, <1>2
<1>4. IsFiniteSet(S) /\ S \subseteq Int
  <2>1. IsFiniteSet(1 .. m)
    BY NumbersUpTo
  <2>2. IsFiniteSet(S)
    BY <1>3, <2>1, FS_Subset
  <2> QED
    BY <1>3, <2>2
<1>5. Server!Ends(text) = InOrder(S)
  BY <1>2, ServerInOrder DEF Server!Ends
<1> PICK f : f = InOrder(S)
  OBVIOUS
<1>6. PICK n \in Nat : n = Cardinality(S) /\ f = InOrder(S)
  BY <1>4, FS_CardinalityType
<1>7. /\ f \in [1 .. n -> S]
      /\ \A i, j \in 1 .. n : i < j => f[i] < f[j]
      /\ \A x \in S : \E i \in 1 .. n : f[i] = x
  BY <1>4, <1>6, InOrderOf
<1>8. IsEnds(f, n, text)
  BY <1>1, <1>2, <1>3, <1>7 DEF IsEnds
<1> QED
  BY <1>5, <1>6, <1>8

LEMMA EndsFound ==
    ASSUME NEW text \in Seq(Byte), NEW n \in Nat, NEW f, IsEnds(f, n, text)
    PROVE  Server!Ends(text) = f
<1>1. PICK m \in Nat : m = Len(text) /\ DOMAIN text = 1 .. m
  BY LenProperties
<1>2. PICK S : S = {i \in DOMAIN text : text[i] = Server!Delimiter}
  OBVIOUS
<1>3. S \subseteq Int /\ f \in [1 .. n -> S]
  BY <1>1, <1>2 DEF IsEnds
<1>4. /\ \A i, j \in 1 .. n : i < j => f[i] < f[j]
      /\ \A x \in S : \E i \in 1 .. n : f[i] = x
  BY <1>1, <1>2 DEF IsEnds
<1>5. InOrder(S) = f
  BY <1>3, <1>4, InOrderIs
<1> QED
  BY <1>2, <1>5, ServerInOrder DEF Server!Ends

Start(f, k) == IF k = 1 THEN 1 ELSE f[k - 1] + 1

LEMMA LinesAre ==
    ASSUME NEW text \in Seq(Byte), NEW n \in Nat, NEW f, IsEnds(f, n, text)
    PROVE  /\ Server!ExtractLines(text) \in Seq(Seq(Byte)) /\ Len(Server!ExtractLines(text)) = n
           /\ \A k \in 1 .. n : Server!ExtractLines(text)[k] = SubSeq(text, Start(f, k), f[k] - 1)
           /\ \A k \in 1 .. n : Start(f, k) \in 1 .. f[k]
<1>1. PICK m \in Nat : m = Len(text) /\ DOMAIN text = 1 .. m
  BY LenProperties
<1>2. Server!Ends(text) = f
  BY EndsFound
<1>3. \A k \in 1 .. n : f[k] \in 1 .. m
  BY <1>1 DEF IsEnds
<1>4. DOMAIN f = 1 .. n
  BY DEF IsEnds
<1>5. PICK lines : lines = Server!ExtractLines(text)
  OBVIOUS
<1>6. lines = [k \in 1 .. n |-> SubSeq(text, IF k = 1 THEN 1 ELSE f[k - 1] + 1, f[k] - 1)]
  BY <1>2, <1>4, <1>5 DEF Server!ExtractLines
<1>7. ASSUME NEW k \in 1 .. n PROVE Start(f, k) \in 1 .. f[k]
  <2>1. CASE k = 1
    BY <1>3, <2>1 DEF Start
  <2>2. CASE k # 1
    <3>1. k - 1 \in 1 .. n /\ k - 1 < k
      BY <2>2
    <3>2. f[k - 1] < f[k] /\ f[k - 1] \in 1 .. m /\ f[k] \in 1 .. m
      BY <1>3, <3>1 DEF IsEnds
    <3> QED
      BY <2>2, <3>2 DEF Start
  <2> QED
    BY <2>1, <2>2
<1>8. \A k \in 1 .. n : lines[k] = SubSeq(text, Start(f, k), f[k] - 1)
  BY <1>6 DEF Start
<1>9. ASSUME NEW k \in 1 .. n PROVE lines[k] \in Seq(Byte)
  <2>1. PICK x \in Int, y \in Int : x = Start(f, k) /\ y = f[k] - 1 /\ x >= 1 /\ y <= m
    BY <1>3, <1>7
  <2>2. \A i \in x .. y : text[i] \in Byte
    BY <1>1, <2>1
  <2>3. SubSeq(text, x, y) \in Seq(Byte)
    BY <2>2, SubSeqProperties
  <2> QED
    BY <1>8, <2>1, <2>3
<1>10. lines \in Seq(Seq(Byte)) /\ Len(lines) = n
  BY <1>6, <1>9
<1> QED
  BY <1>5, <1>7, <1>8, <1>10

LEMMA CutFirst ==
    ASSUME NEW S, NEW a \in Seq(S), NEW b \in Seq(S),
           NEW x \in Nat \ {0}, NEW y \in Nat, y <= Len(a)
    PROVE  SubSeq(a \o b, x, y) = SubSeq(a, x, y)
<1>1. PICK m \in Nat, n \in Nat : m = Len(a) /\ n = Len(b)
  BY LenProperties
<1>2. PICK all : all = a \o b
  OBVIOUS
<1>3. \A i \in 1 .. m + n : all[i] = IF i <= m THEN a[i] ELSE b[i - m]
  BY <1>1, <1>2, ConcatProperties
<1>4. \A i \in x .. y : i \in 1 .. m /\ i \in 1 .. m + n /\ i <= m
  BY <1>1
<1>5. \A i \in x .. y : all[i] = a[i] /\ a[i] \in S
  BY <1>1, <1>3, <1>4, LenProperties
<1>6. PICK p, q : p = SubSeq(all, x, y) /\ q = SubSeq(a, x, y)
  OBVIOUS
<1>7. /\ p \in Seq(S) /\ q \in Seq(S)
      /\ Len(p) = IF x <= y THEN y - x + 1 ELSE 0
      /\ Len(q) = IF x <= y THEN y - x + 1 ELSE 0
      /\ \A i \in 1 .. y - x + 1 : p[i] = all[x + i - 1]
      /\ \A i \in 1 .. y - x + 1 : q[i] = a[x + i - 1]
  <2>1. x \in Int /\ y \in Int /\ (\A i \in x .. y : all[i] \in S) /\ \A i \in x .. y : a[i] \in S
    BY <1>5
  <2> QED
    BY <1>6, <2>1, SubSeqProperties
<1>8. \A i \in 1 .. Len(p) : p[i] = q[i]
  <2>1. \A i \in 1 .. y - x + 1 : x + i - 1 \in x .. y
    OBVIOUS
  <2>2. \A i \in 1 .. Len(p) : i \in 1 .. y - x + 1
    BY <1>7
  <2> QED
    BY <1>5, <1>7, <2>1, <2>2
<1>9. p = q
  BY <1>7, <1>8, SeqEqual
<1> QED
  BY <1>2, <1>6, <1>9

LEMMA CutSecond ==
    ASSUME NEW a \in Seq(Byte), NEW b \in Seq(Byte), NEW x \in Nat \ {0}, NEW y \in Nat, y <= Len(b)
    PROVE  SubSeq(a \o b, Len(a) + x, Len(a) + y) = SubSeq(b, x, y)
<1>1. PICK m \in Nat, n \in Nat : m = Len(a) /\ n = Len(b)
  BY LenProperties
<1>2. PICK all : all = a \o b
  OBVIOUS
<1>3. \A i \in 1 .. m + n : all[i] = IF i <= m THEN a[i] ELSE b[i - m]
  BY <1>1, <1>2, ConcatProperties
<1>4. \A i \in x .. y : all[m + i] = b[i] /\ b[i] \in Byte
  <2>1. \A i \in x .. y : i \in 1 .. n /\ m + i \in 1 .. m + n /\ ~ (m + i <= m) /\ (m + i) - m = i
    BY <1>1
  <2>2. \A i \in 1 .. n : b[i] \in Byte
    BY <1>1, LenProperties
  <2>3. \A i \in x .. y : all[m + i] = b[i]
    BY <1>3, <2>1
  <2> QED
    BY <2>1, <2>2, <2>3
<1>5. \A i \in m + x .. m + y : all[i] \in Byte
  <2>1. \A i \in m + x .. m + y : i - m \in x .. y /\ m + (i - m) = i
    OBVIOUS
  <2> QED
    BY <1>4, <2>1
<1>6. PICK p, q : p = SubSeq(all, m + x, m + y) /\ q = SubSeq(b, x, y)
  OBVIOUS
<1>7. /\ p \in Seq(Byte) /\ Len(p) = IF x <= y THEN y - x + 1 ELSE 0
      /\ \A i \in 1 .. y - x + 1 : p[i] = all[m + (x + i - 1)]
  <2>1. PICK u \in Int, v \in Int : u = m + x /\ v = m + y
    OBVIOUS
  <2>2. /\ SubSeq(all, u, v) \in Seq(Byte) /\ Len(SubSeq(all, u, v)) = IF u <= v THEN v - u + 1 ELSE 0
        /\ \A i \in 1 .. v - u + 1 : SubSeq(all, u, v)[i] = all[u + i - 1]
    BY <1>5, <2>1, SubSeqProperties
  <2>3. (u <= v <=> x <= y) /\ v - u + 1 = y - x + 1 /\ \A i \in Int : u + i - 1 = m + (x + i - 1)
    BY <2>1
  <2> QED
    BY <1>6, <2>1, <2>2, <2>3
<1>8. /\ q \in Seq(Byte) /\ Len(q) = IF x <= y THEN y - x + 1 ELSE 0
      /\ \A i \in 1 .. y - x + 1 : q[i] = b[x + i - 1]
  <2>1. x \in Int /\ y \in Int /\ \A i \in x .. y : b[i] \in Byte
    BY <1>4
  <2> QED
    BY <1>6, <2>1, SubSeqProperties
<1>9. \A i \in 1 .. Len(p) : p[i] = q[i]
  <2>1. \A i \in 1 .. y - x + 1 : x + i - 1 \in x .. y
    OBVIOUS
  <2>2. \A i \in 1 .. Len(p) : i \in 1 .. y - x + 1
    BY <1>7
  <2> QED
    BY <1>4, <1>7, <1>8, <2>1, <2>2
<1>10. p = q
  BY <1>7, <1>8, <1>9, SeqEqual
<1> QED
  BY <1>1, <1>2, <1>6, <1>10

\* Behind a delimiter, or at the beginning, the lines of a text begin anew.
LEMMA LinesJoin ==
    ASSUME NEW a \in Seq(Byte), NEW b \in Seq(Byte), a = << >> \/ a[Len(a)] = Server!Delimiter
    PROVE  Server!ExtractLines(a \o b) = Server!ExtractLines(a) \o Server!ExtractLines(b)
<1>1. PICK m \in Nat, n \in Nat : m = Len(a) /\ n = Len(b) /\ DOMAIN a = 1 .. m /\ DOMAIN b = 1 .. n
  BY LenProperties
<1>2. PICK all : all = a \o b
  OBVIOUS
<1>3. /\ all \in Seq(Byte) /\ Len(all) = m + n
      /\ \A i \in 1 .. m + n : all[i] = IF i <= m THEN a[i] ELSE b[i - m]
  BY <1>1, <1>2, ConcatProperties
<1> PICK f, g : f = Server!Ends(a) /\ g = Server!Ends(b)
  OBVIOUS
<1>4. PICK p \in Nat : f = Server!Ends(a) /\ IsEnds(f, p, a)
  BY EndsAre
<1>5. PICK q \in Nat : g = Server!Ends(b) /\ IsEnds(g, q, b)
  BY EndsAre
<1>6. /\ \A k \in 1 .. p : f[k] \in 1 .. m /\ a[f[k]] = Server!Delimiter
      /\ \A j, k \in 1 .. p : j < k => f[j] < f[k]
      /\ \A i \in 1 .. m : a[i] = Server!Delimiter => \E k \in 1 .. p : f[k] = i
  BY <1>1, <1>4 DEF IsEnds
<1>7. /\ \A k \in 1 .. q : g[k] \in 1 .. n /\ b[g[k]] = Server!Delimiter
      /\ \A j, k \in 1 .. q : j < k => g[j] < g[k]
      /\ \A i \in 1 .. n : b[i] = Server!Delimiter => \E k \in 1 .. q : g[k] = i
  BY <1>1, <1>5 DEF IsEnds
<1>8. PICK h : h = [k \in 1 .. p + q |-> IF k <= p THEN f[k] ELSE m + g[k - p]]
  OBVIOUS
<1>9. /\ \A k \in 1 .. p : h[k] = f[k]
      /\ \A k \in 1 .. q : h[p + k] = m + g[k]
      /\ \A k \in 1 .. p + q : k \in 1 .. p \/ (k - p \in 1 .. q /\ p + (k - p) = k)
  <2>1. \A k \in 1 .. p : k \in 1 .. p + q /\ k <= p
    OBVIOUS
  <2>2. \A k \in 1 .. q : p + k \in 1 .. p + q /\ ~ (p + k <= p) /\ (p + k) - p = k
    OBVIOUS
  <2>3. \A k \in 1 .. p + q : k \in 1 .. p \/ (k - p \in 1 .. q /\ p + (k - p) = k)
    OBVIOUS
  <2> QED
    BY <1>8, <2>1, <2>2, <2>3
<1>10. /\ \A i \in 1 .. m : all[i] = a[i]
       /\ \A i \in 1 .. n : all[m + i] = b[i]
  <2>1. \A i \in 1 .. m : i \in 1 .. m + n /\ i <= m
    OBVIOUS
  <2>2. \A i \in 1 .. n : m + i \in 1 .. m + n /\ ~ (m + i <= m) /\ (m + i) - m = i
    OBVIOUS
  <2> QED
    BY <1>3, <2>1, <2>2
<1>11. IsEnds(h, p + q, all)
  <2>1. ASSUME NEW k \in 1 .. p + q PROVE h[k] \in 1 .. m + n /\ all[h[k]] = Server!Delimiter
    <3>1. CASE k \in 1 .. p
      <4>1. h[k] = f[k] /\ f[k] \in 1 .. m /\ a[f[k]] = Server!Delimiter
        BY <1>6, <1>9, <3>1
      <4> QED
        BY <1>10, <4>1
    <3>2. CASE k - p \in 1 .. q /\ p + (k - p) = k
      <4>1. PICK l \in 1 .. q : l = k - p /\ p + l = k
        BY <3>2
      <4>2. PICK x \in 1 .. n : x = g[l] /\ b[x] = Server!Delimiter
        BY <1>7
      <4>3. h[k] = m + x
        BY <1>9, <4>1, <4>2
      <4>4. m + x \in 1 .. m + n /\ all[m + x] = b[x]
        BY <1>10
      <4> QED
        BY <4>2, <4>3, <4>4
    <3> QED
      BY <1>9, <3>1, <3>2
  <2>2. ASSUME NEW j \in 1 .. p + q, NEW k \in 1 .. p + q, j < k PROVE h[j] < h[k]
    <3>1. CASE j \in 1 .. p /\ k \in 1 .. p
      BY <1>6, <1>9, <2>2, <3>1
    <3>2. CASE j \in 1 .. p /\ k - p \in 1 .. q /\ p + (k - p) = k
      <4>1. h[j] = f[j] /\ f[j] \in 1 .. m /\ h[k] = m + g[k - p] /\ g[k - p] \in 1 .. n
        BY <1>6, <1>7, <1>9, <3>2
      <4> QED
        BY <4>1
    <3>3. CASE j - p \in 1 .. q /\ p + (j - p) = j /\ k - p \in 1 .. q /\ p + (k - p) = k
      <4>1. h[j] = m + g[j - p] /\ h[k] = m + g[k - p]
        BY <1>9, <3>3
      <4>2. j - p < k - p
        BY <2>2
      <4>3. g[j - p] < g[k - p] /\ g[j - p] \in 1 .. n /\ g[k - p] \in 1 .. n
        BY <1>7, <3>3, <4>2
      <4> QED
        BY <4>1, <4>3
    <3>4. ~ (j - p \in 1 .. q /\ k \in 1 .. p)
      BY <2>2
    <3> QED
      BY <1>9, <3>1, <3>2, <3>3, <3>4
  <2>3. ASSUME NEW i \in 1 .. m + n, all[i] = Server!Delimiter PROVE \E k \in 1 .. p + q : h[k] = i
    <3>1. CASE i <= m
      <4>1. i \in 1 .. m /\ a[i] = Server!Delimiter
        BY <1>10, <2>3, <3>1
      <4>2. PICK k \in 1 .. p : f[k] = i
        BY <1>6, <4>1
      <4>3. k \in 1 .. p + q
        OBVIOUS
      <4> QED
        BY <1>9, <4>2, <4>3
    <3>2. CASE ~ (i <= m)
      <4>1. i - m \in 1 .. n /\ m + (i - m) = i
        BY <3>2
      <4>2. b[i - m] = Server!Delimiter
        BY <1>10, <2>3, <4>1
      <4>3. PICK k \in 1 .. q : g[k] = i - m
        BY <1>7, <4>1, <4>2
      <4>4. p + k \in 1 .. p + q
        OBVIOUS
      <4> QED
        BY <1>9, <4>1, <4>3, <4>4
    <3> QED
      BY <3>1, <3>2
  <2>4. h \in [1 .. p + q -> 1 .. m + n]
    BY <1>8, <2>1
  <2> QED
    BY <1>3, <2>1, <2>2, <2>3, <2>4 DEF IsEnds
<1>12. PICK r, s, t : /\ r = Server!ExtractLines(a) /\ s = Server!ExtractLines(b)
                      /\ t = Server!ExtractLines(all)
  OBVIOUS
<1>13. /\ r \in Seq(Seq(Byte)) /\ Len(r) = p
       /\ \A k \in 1 .. p : r[k] = SubSeq(a, Start(f, k), f[k] - 1) /\ Start(f, k) \in 1 .. f[k]
  <2>1. /\ Server!ExtractLines(a) \in Seq(Seq(Byte)) /\ Len(Server!ExtractLines(a)) = p
        /\ \A k \in 1 .. p : Server!ExtractLines(a)[k] = SubSeq(a, Start(f, k), f[k] - 1)
        /\ \A k \in 1 .. p : Start(f, k) \in 1 .. f[k]
    BY <1>4, LinesAre
  <2> QED
    BY <1>12, <2>1
<1>14. /\ s \in Seq(Seq(Byte)) /\ Len(s) = q
       /\ \A k \in 1 .. q : s[k] = SubSeq(b, Start(g, k), g[k] - 1) /\ Start(g, k) \in 1 .. g[k]
  <2>1. /\ Server!ExtractLines(b) \in Seq(Seq(Byte)) /\ Len(Server!ExtractLines(b)) = q
        /\ \A k \in 1 .. q : Server!ExtractLines(b)[k] = SubSeq(b, Start(g, k), g[k] - 1)
        /\ \A k \in 1 .. q : Start(g, k) \in 1 .. g[k]
    BY <1>5, LinesAre
  <2> QED
    BY <1>12, <2>1
<1>15. /\ t \in Seq(Seq(Byte)) /\ Len(t) = p + q
       /\ \A k \in 1 .. p + q : t[k] = SubSeq(all, Start(h, k), h[k] - 1)
  <2>1. PICK l \in Nat : l = p + q
    OBVIOUS
  <2>2. IsEnds(h, l, all)
    BY <1>11, <2>1
  <2>3. /\ t \in Seq(Seq(Byte)) /\ Len(t) = l
        /\ \A k \in 1 .. l : t[k] = SubSeq(all, Start(h, k), h[k] - 1)
    <3>1. all \in Seq(Byte)
      BY <1>3
    <3>2. /\ Server!ExtractLines(all) \in Seq(Seq(Byte)) /\ Len(Server!ExtractLines(all)) = l
          /\ \A k \in 1 .. l : Server!ExtractLines(all)[k] = SubSeq(all, Start(h, k), h[k] - 1)
      BY <2>2, <3>1, LinesAre
    <3> QED
      BY <1>12, <3>2
  <2> QED
    BY <2>1, <2>3
<1>16. ASSUME NEW k \in 1 .. p PROVE t[k] = r[k]
  <2>1. h[k] = f[k] /\ k \in 1 .. p + q
    BY <1>9
  <2>2. Start(h, k) = Start(f, k)
    <3>1. k # 1 => k - 1 \in 1 .. p
      OBVIOUS
    <3> QED
      BY <1>9, <3>1 DEF Start
  <2>3. PICK x \in Nat \ {0}, y \in Nat : x = Start(f, k) /\ y = f[k] - 1 /\ y <= m
    <3>1. Start(f, k) \in 1 .. f[k] /\ f[k] \in 1 .. m
      BY <1>6, <1>13
    <3> QED
      BY <3>1
  <2>4. SubSeq(a \o b, x, y) = SubSeq(a, x, y)
    <3>1. y <= Len(a)
      BY <1>1, <2>3
    <3> QED
      BY <3>1, CutFirst
  <2>5. t[k] = SubSeq(all, x, y)
    BY <1>15, <2>1, <2>2, <2>3
  <2>6. r[k] = SubSeq(a, x, y)
    BY <1>13, <2>3
  <2> QED
    BY <1>2, <2>4, <2>5, <2>6
<1>17. ASSUME NEW k \in 1 .. q PROVE t[p + k] = s[k]
  <2>1. h[p + k] = m + g[k] /\ p + k \in 1 .. p + q
    <3>1. p + k \in 1 .. p + q
      OBVIOUS
    <3> QED
      BY <1>9, <3>1
  <2>2. Start(h, p + k) = m + Start(g, k)
    <3>1. CASE k = 1
      <4>1. CASE p = 0
        <5>1. m = 0
          <6>1. SUFFICES ASSUME m # 0 PROVE FALSE
            OBVIOUS
          <6>2. m \in 1 .. m /\ a[m] = Server!Delimiter
            BY <1>1, <6>1
          <6>3. 1 .. p = {}
            BY <4>1
          <6> QED
            BY <1>6, <6>2, <6>3
        <5> QED
          BY <3>1, <4>1, <5>1 DEF Start
      <4>2. CASE p # 0
        <5>1. f[p] = m
          <6>1. p \in 1 .. p /\ f[p] \in 1 .. m
            BY <1>6, <4>2
          <6>2. m \in 1 .. m /\ a[m] = Server!Delimiter
            <7>1. m # 0
              BY <6>1
            <7> QED
              BY <1>1, <7>1
          <6>3. PICK l \in 1 .. p : f[l] = m
            BY <1>6, <6>2
          <6>4. l < p => f[l] < f[p]
            BY <1>6, <6>1
          <6> QED
            BY <6>1, <6>3, <6>4
        <5>2. p + k # 1 /\ (p + k) - 1 = p /\ p \in 1 .. p
          BY <3>1, <4>2
        <5>3. h[p] = m
          BY <1>9, <5>1, <5>2
        <5> QED
          BY <3>1, <5>2, <5>3 DEF Start
      <4> QED
        BY <4>1, <4>2
    <3>2. CASE k # 1
      <4>1. k - 1 \in 1 .. q /\ p + k # 1 /\ (p + k) - 1 = p + (k - 1)
        BY <3>2
      <4>2. h[p + (k - 1)] = m + g[k - 1] /\ g[k - 1] \in 1 .. n
        BY <1>7, <1>9, <4>1
      <4>3. Start(h, p + k) = (m + g[k - 1]) + 1
        BY <4>1, <4>2 DEF Start
      <4>4. Start(g, k) = g[k - 1] + 1
        BY <3>2 DEF Start
      <4> QED
        BY <4>2, <4>3, <4>4
    <3> QED
      BY <3>1, <3>2
  <2>3. PICK x \in Nat \ {0}, y \in Nat : x = Start(g, k) /\ y = g[k] - 1 /\ y <= n /\ m + y = m + g[k] - 1
    <3>1. Start(g, k) \in 1 .. g[k] /\ g[k] \in 1 .. n
      BY <1>7, <1>14
    <3> QED
      BY <3>1
  <2>4. SubSeq(a \o b, m + x, m + y) = SubSeq(b, x, y)
    <3>1. y <= Len(b)
      BY <1>1, <2>3
    <3>2. SubSeq(a \o b, Len(a) + x, Len(a) + y) = SubSeq(b, x, y)
      BY <3>1, CutSecond
    <3> QED
      BY <1>1, <3>2
  <2>5. t[p + k] = SubSeq(all, m + x, m + y)
    <3>1. t[p + k] = SubSeq(all, Start(h, p + k), h[p + k] - 1)
      BY <1>15, <2>1
    <3>2. Start(h, p + k) = m + x
      BY <2>2, <2>3
    <3>3. h[p + k] - 1 = m + y
      <4>1. g[k] \in 1 .. n
        BY <1>7
      <4> QED
        BY <2>1, <2>3, <4>1
    <3> QED
      BY <3>1, <3>2, <3>3
  <2>6. s[k] = SubSeq(b, x, y)
    BY <1>14, <2>3
  <2> QED
    BY <1>2, <2>4, <2>5, <2>6
<1>18. r \o s \in Seq(Seq(Byte)) /\ Len(r \o s) = p + q
  BY <1>13, <1>14, ConcatProperties
<1>19. \A k \in 1 .. p + q : t[k] = (r \o s)[k]
  <2> TAKE k \in 1 .. p + q
  <2>1. (r \o s)[k] = IF k <= p THEN r[k] ELSE s[k - p]
    <3>1. PICK S : S = Seq(Byte)
      OBVIOUS
    <3>2. r \in Seq(S) /\ s \in Seq(S) /\ Len(r) = p /\ Len(s) = q
      BY <1>13, <1>14, <3>1
    <3>3. \A i \in 1 .. p + q : (r \o s)[i] = IF i <= p THEN r[i] ELSE s[i - p]
      BY <3>2, ConcatProperties
    <3> QED
      BY <3>3
  <2>2. CASE k \in 1 .. p
    BY <1>16, <2>1, <2>2
  <2>3. CASE k - p \in 1 .. q /\ p + (k - p) = k
    <3>1. t[p + (k - p)] = s[k - p] /\ ~ (k <= p)
      BY <1>17, <2>3
    <3> QED
      BY <2>1, <2>3, <3>1
  <2> QED
    BY <1>9, <2>2, <2>3
<1>20. t = r \o s
  BY <1>15, <1>18, <1>19, SeqEqual
<1> QED
  BY <1>2, <1>12, <1>20

LEMMA NoLines ==
    ASSUME NEW text \in Seq(Byte), \A i \in 1 .. Len(text) : text[i] # Server!Delimiter
    PROVE  Server!ExtractLines(text) = << >>
<1>1. IsEnds(<< >>, 0, text)
  <2>1. 1 .. 0 = {} /\ << >> \in [1 .. 0 -> 1 .. Len(text)]
    OBVIOUS
  <2> QED
    BY <2>1 DEF IsEnds
<1>2. Server!ExtractLines(text) \in Seq(Seq(Byte)) /\ Len(Server!ExtractLines(text)) = 0
  BY <1>1, LinesAre, 0 \in Nat
<1> QED
  BY <1>2, EmptySeq

LEMMA LinesType ==
    ASSUME NEW text \in Seq(Byte)
    PROVE  Server!ExtractLines(text) \in Seq(Seq(Byte))
BY EndsAre, LinesAre

-------------------------------------------------------------------------------
(* 10 bulk_server: lines up to an empty one *)

Texts == Seq(Seq(Byte))

\* No line of a list is empty.
NoneEmpty(list) == \A i \in 1 .. Len(list) : list[i] # << >>

LEMMA UpToEmptyAll ==
    ASSUME NEW r \in Texts, NoneEmpty(r)
    PROVE  Server!UpToEmpty(r) = r
<1>1. DOMAIN r = 1 .. Len(r)
  BY LenProperties DEF Texts
<1>2. {i \in DOMAIN r : r[i] = << >>} = {}
  BY <1>1 DEF NoneEmpty
<1> QED
  BY <1>2 DEF Server!UpToEmpty

LEMMA UpToEmptyAt ==
    ASSUME NEW r \in Texts, NEW k \in 1 .. Len(r), r[k] = << >>,
           \A i \in 1 .. k - 1 : r[i] # << >>
    PROVE  Server!UpToEmpty(r) = SubSeq(r, 1, k - 1)
<1>1. Len(r) \in Nat /\ DOMAIN r = 1 .. Len(r)
  BY LenProperties DEF Texts
<1>2. PICK S : S = {i \in DOMAIN r : r[i] = << >>}
  OBVIOUS
<1>3. S \subseteq Int /\ k \in S
  BY <1>1, <1>2
<1>4. \A i \in S : k <= i
  <2>1. \A i \in S : i \in 1 .. Len(r) /\ ~ (i \in 1 .. k - 1)
    BY <1>1, <1>2
  <2> QED
    BY <1>1, <2>1
<1>5. (CHOOSE i \in S : \A j \in S : i <= j) = k
  <2>1. \A i \in S : (\A j \in S : i <= j) => i = k
    BY <1>3, <1>4
  <2> QED
    BY <1>3, <1>4, <2>1
<1>6. Server!UpToEmpty(r) = IF S = {} THEN r
                            ELSE SubSeq(r, 1, (CHOOSE i \in S : \A j \in S : i <= j) - 1)
  BY <1>2 DEF Server!UpToEmpty
<1> QED
  BY <1>3, <1>5, <1>6

LEMMA FirstEmpty ==
    ASSUME NEW r \in Texts, ~NoneEmpty(r)
    PROVE  \E k \in 1 .. Len(r) : r[k] = << >> /\ \A i \in 1 .. k - 1 : r[i] # << >>
<1>1. PICK S : S = {i \in 1 .. Len(r) : r[i] = << >>}
  OBVIOUS
<1>2. S \in SUBSET Nat /\ S # {}
  BY <1>1 DEF NoneEmpty
<1>3. PICK k \in S : \A i \in S : k <= i
  BY <1>2, LeastOf
<1>4. k \in 1 .. Len(r) /\ r[k] = << >>
  BY <1>1, <1>3
<1>5. \A i \in 1 .. k - 1 : r[i] # << >>
  <2>1. Len(r) \in Nat
    BY LenProperties DEF Texts
  <2>2. \A i \in 1 .. k - 1 : i \in 1 .. Len(r) /\ ~ (k <= i)
    BY <1>4, <2>1
  <2> QED
    BY <1>1, <1>3, <2>2
<1> QED
  BY <1>4, <1>5

LEMMA UpToEmptyType ==
    ASSUME NEW r \in Texts
    PROVE  Server!UpToEmpty(r) \in Texts
<1>1. CASE NoneEmpty(r)
  BY <1>1, UpToEmptyAll
<1>2. CASE ~NoneEmpty(r)
  <2>1. PICK k \in 1 .. Len(r) : r[k] = << >> /\ \A i \in 1 .. k - 1 : r[i] # << >>
    BY <1>2, FirstEmpty
  <2>2. Len(r) \in Nat /\ \A i \in 1 .. Len(r) : r[i] \in Seq(Byte)
    BY LenProperties DEF Texts
  <2>3. PICK y \in Int : y = k - 1
    OBVIOUS
  <2>4. \A i \in 1 .. y : r[i] \in Seq(Byte)
    BY <2>2, <2>3
  <2>5. SubSeq(r, 1, y) \in Seq(Seq(Byte))
    BY <2>4, SubSeqProperties
  <2> QED
    BY <2>1, <2>3, <2>5, UpToEmptyAt DEF Texts
<1> QED
  BY <1>1, <1>2

\* Behind lines none of which is empty, the search goes on.
LEMMA UpToEmptyGoesOn ==
    ASSUME NEW r \in Texts, NEW q \in Texts, NoneEmpty(r)
    PROVE  Server!UpToEmpty(r \o q) = r \o Server!UpToEmpty(q)
<1>1. PICK m \in Nat, n \in Nat : m = Len(r) /\ n = Len(q)
  BY LenProperties DEF Texts
<1>2. PICK all : all = r \o q
  OBVIOUS
<1>3. /\ all \in Texts /\ Len(all) = m + n
      /\ \A i \in 1 .. m + n : all[i] = IF i <= m THEN r[i] ELSE q[i - m]
  BY <1>1, <1>2, ConcatProperties DEF Texts
<1>4. \A i \in 1 .. m : all[i] = r[i] /\ all[i] # << >>
  <2>1. \A i \in 1 .. m : i \in 1 .. m + n /\ i <= m
    BY <1>1
  <2> QED
    BY <1>1, <1>3, <2>1 DEF NoneEmpty
<1>5. \A i \in 1 .. n : all[m + i] = q[i]
  <2>1. \A i \in 1 .. n : m + i \in 1 .. m + n /\ ~ (m + i <= m) /\ (m + i) - m = i
    BY <1>1
  <2> QED
    BY <1>3, <2>1
<1>6. \A i \in 1 .. m + n : i \in 1 .. m \/ (i - m \in 1 .. n /\ m + (i - m) = i)
  OBVIOUS
<1>7. CASE NoneEmpty(q)
  <2>1. NoneEmpty(all)
    BY <1>1, <1>3, <1>4, <1>5, <1>6, <1>7 DEF NoneEmpty
  <2>2. Server!UpToEmpty(all) = all /\ Server!UpToEmpty(q) = q
    BY <1>3, <1>7, <2>1, UpToEmptyAll
  <2> QED
    BY <1>2, <2>2
<1>8. CASE ~NoneEmpty(q)
  <2>1. PICK k \in 1 .. n : q[k] = << >> /\ \A i \in 1 .. k - 1 : q[i] # << >>
    BY <1>1, <1>8, FirstEmpty
  <2>2. PICK l \in 1 .. m + n : l = m + k
    OBVIOUS
  <2>3. all[l] = << >>
    BY <1>5, <2>1, <2>2
  <2>4. \A i \in 1 .. l - 1 : all[i] # << >>
    <3> TAKE i \in 1 .. l - 1
    <3>1. i \in 1 .. m \/ (i - m \in 1 .. k - 1 /\ i - m \in 1 .. n /\ m + (i - m) = i)
      BY <2>2
    <3> QED
      BY <1>4, <1>5, <2>1, <3>1
  <2>5. Server!UpToEmpty(all) = SubSeq(all, 1, l - 1)
    BY <1>3, <2>2, <2>3, <2>4, UpToEmptyAt
  <2>6. Server!UpToEmpty(q) = SubSeq(q, 1, k - 1)
    BY <1>1, <2>1, UpToEmptyAt
  <2>7. PICK x \in Nat, y \in Nat : x = l - 1 /\ y = k - 1 /\ x = m + y /\ y <= n
    BY <2>2
  <2> PICK a, b : a = SubSeq(all, 1, x) /\ b = SubSeq(q, 1, y)
    OBVIOUS
  <2>8. a \in Texts /\ Len(a) = x /\ \A i \in 1 .. x : a[i] = all[i]
    <3>1. \A i \in 1 .. x : all[i] \in Seq(Byte)
      <4>1. \A i \in 1 .. x : i \in 1 .. m + n
        BY <2>7
      <4> QED
        BY <1>3, <4>1, LenProperties DEF Texts
    <3>2. /\ SubSeq(all, 1, x) \in Seq(Seq(Byte)) /\ Len(SubSeq(all, 1, x)) = IF 1 <= x THEN x - 1 + 1 ELSE 0
          /\ \A i \in 1 .. x - 1 + 1 : SubSeq(all, 1, x)[i] = all[1 + i - 1]
      BY <3>1, SubSeqProperties
    <3>3. x - 1 + 1 = x /\ \A i \in 1 .. x : 1 + i - 1 = i
      OBVIOUS
    <3> QED
      BY <2>7, <3>2, <3>3 DEF Texts
  <2>9. b \in Texts /\ Len(b) = y /\ \A i \in 1 .. y : b[i] = q[i]
    <3>1. \A i \in 1 .. y : q[i] \in Seq(Byte)
      <4>1. \A i \in 1 .. y : i \in 1 .. n
        BY <2>7
      <4> QED
        BY <1>1, <4>1, LenProperties DEF Texts
    <3>2. /\ SubSeq(q, 1, y) \in Seq(Seq(Byte)) /\ Len(SubSeq(q, 1, y)) = IF 1 <= y THEN y - 1 + 1 ELSE 0
          /\ \A i \in 1 .. y - 1 + 1 : SubSeq(q, 1, y)[i] = q[1 + i - 1]
      BY <3>1, SubSeqProperties
    <3>3. y - 1 + 1 = y /\ \A i \in 1 .. y : 1 + i - 1 = i
      OBVIOUS
    <3> QED
      BY <2>7, <3>2, <3>3 DEF Texts
  <2>10. /\ r \o b \in Texts /\ Len(r \o b) = x
         /\ \A i \in 1 .. x : (r \o b)[i] = IF i <= m THEN r[i] ELSE b[i - m]
    <3>1. r \in Seq(Seq(Byte)) /\ b \in Seq(Seq(Byte))
      BY <2>9 DEF Texts
    <3>2. /\ r \o b \in Seq(Seq(Byte)) /\ Len(r \o b) = Len(r) + Len(b)
          /\ \A i \in 1 .. Len(r) + Len(b) : (r \o b)[i] = IF i <= Len(r) THEN r[i] ELSE b[i - Len(r)]
      BY <3>1, ConcatProperties
    <3>3. Len(r) = m /\ Len(b) = y /\ m + y = x
      BY <1>1, <2>7, <2>9
    <3> QED
      BY <3>2, <3>3 DEF Texts
  <2>11. \A i \in 1 .. x : a[i] = (r \o b)[i]
    <3> SUFFICES ASSUME NEW i \in 1 .. x PROVE a[i] = (r \o b)[i]
      OBVIOUS
    <3>1. CASE i \in 1 .. m
      <4>1. i <= m /\ all[i] = r[i]
        BY <1>4, <3>1
      <4>2. (r \o b)[i] = r[i]
        BY <2>10, <4>1
      <4> QED
        BY <2>8, <4>1, <4>2
    <3>2. CASE i - m \in 1 .. y /\ i - m \in 1 .. n /\ m + (i - m) = i /\ ~ (i <= m)
      <4>1. all[m + (i - m)] = q[i - m]
        BY <1>5, <3>2
      <4>2. a[i] = all[i] /\ b[i - m] = q[i - m]
        BY <2>8, <2>9, <3>2
      <4>3. (r \o b)[i] = b[i - m]
        BY <2>10, <3>2
      <4> QED
        BY <3>2, <4>1, <4>2, <4>3
    <3>3. i \in 1 .. m \/ (i - m \in 1 .. y /\ i - m \in 1 .. n /\ m + (i - m) = i /\ ~ (i <= m))
      BY <2>7
    <3> QED
      BY <3>1, <3>2, <3>3
  <2>12. a = r \o b
    BY <2>8, <2>10, <2>11, SeqEqual DEF Texts
  <2> QED
    BY <1>2, <2>5, <2>6, <2>7, <2>12
<1> QED
  BY <1>7, <1>8

\* Further lines do not change what is found before them.
LEMMA UpToEmptyBefore ==
    ASSUME NEW r \in Texts, NEW q \in Texts
    PROVE  \E z \in Texts : /\ Server!UpToEmpty(r \o q) = Server!UpToEmpty(r) \o z
                            /\ q = << >> => z = << >>
<1>1. CASE q = << >>
  <2>1. << >> \in Texts /\ r \o << >> = r /\ Server!UpToEmpty(r) \o << >> = Server!UpToEmpty(r)
    BY UpToEmptyType, EmptySeq, ConcatEmptySeq DEF Texts
  <2> QED
    BY <1>1, <2>1
<1>2. CASE q # << >> /\ NoneEmpty(r)
  <2>1. Server!UpToEmpty(r) = r /\ Server!UpToEmpty(r \o q) = r \o Server!UpToEmpty(q)
    BY <1>2, UpToEmptyAll, UpToEmptyGoesOn
  <2>2. Server!UpToEmpty(q) \in Texts
    BY UpToEmptyType
  <2> QED
    BY <1>2, <2>1, <2>2
<1>3. CASE q # << >> /\ ~NoneEmpty(r)
  <2>1. PICK k \in 1 .. Len(r) : r[k] = << >> /\ \A i \in 1 .. k - 1 : r[i] # << >>
    BY <1>3, FirstEmpty
  <2>2. PICK m \in Nat, n \in Nat : m = Len(r) /\ n = Len(q)
    BY LenProperties DEF Texts
  <2>3. PICK all : all = r \o q
    OBVIOUS
  <2>4. /\ all \in Texts /\ Len(all) = m + n
        /\ \A i \in 1 .. m + n : all[i] = IF i <= m THEN r[i] ELSE q[i - m]
    BY <2>2, <2>3, ConcatProperties DEF Texts
  <2>5. k \in 1 .. Len(all) /\ all[k] = << >> /\ \A i \in 1 .. k - 1 : all[i] # << >>
    <3>1. k \in 1 .. m + n /\ k <= m /\ \A i \in 1 .. k - 1 : i \in 1 .. m + n /\ i <= m
      BY <2>1, <2>2
    <3> QED
      BY <2>1, <2>4, <3>1
  <2>6. PICK y \in Nat : y = k - 1 /\ y <= m
    BY <2>1, <2>2
  <2>7. Server!UpToEmpty(all) = SubSeq(all, 1, y) /\ Server!UpToEmpty(r) = SubSeq(r, 1, y)
    BY <2>1, <2>4, <2>5, <2>6, UpToEmptyAt
  <2>8. SubSeq(r \o q, 1, y) = SubSeq(r, 1, y)
    BY <2>2, <2>6, CutFirst DEF Texts
  <2>9. << >> \in Texts /\ Server!UpToEmpty(r) \o << >> = Server!UpToEmpty(r)
    BY UpToEmptyType, EmptySeq, ConcatEmptySeq DEF Texts
  <2> QED
    BY <1>3, <2>3, <2>7, <2>8, <2>9
<1> QED
  BY <1>1, <1>2, <1>3

\* What follows both a list and a longer one keeps the list within the longer one.
LEMMA WithinGoesOn ==
    ASSUME NEW l \in Texts, NEW w \in Texts, NEW x \in Texts, NEW z \in Texts, Server!Within(l, w)
    PROVE  Server!Within(l \o x, w \o (x \o z))
<1>1. PICK m \in Nat, n \in Nat, k \in Nat, h \in Nat :
         m = Len(l) /\ n = Len(w) /\ k = Len(x) /\ h = Len(z)
  BY LenProperties DEF Texts
<1>2. DOMAIN l = 1 .. m /\ DOMAIN w = 1 .. n
  BY <1>1, LenProperties DEF Texts
<1>3. PICK at \in [1 .. m -> 1 .. n] : /\ \A i, j \in 1 .. m : i < j => at[i] < at[j]
                                      /\ \A i \in 1 .. m : l[i] = w[at[i]]
  BY <1>2 DEF Server!Within
<1>4. PICK p, y, q : p = l \o x /\ y = x \o z /\ q = w \o y
  OBVIOUS
<1>5. /\ DOMAIN p = 1 .. m + k
      /\ \A i \in 1 .. m + k : p[i] = IF i <= m THEN l[i] ELSE x[i - m]
  <2>1. /\ l \o x \in Texts /\ Len(l \o x) = Len(l) + Len(x)
        /\ \A i \in 1 .. Len(l) + Len(x) : (l \o x)[i] = IF i <= Len(l) THEN l[i] ELSE x[i - Len(l)]
    BY ConcatProperties DEF Texts
  <2>2. p \in Texts /\ Len(p) = m + k
    BY <1>1, <1>4, <2>1
  <2>3. DOMAIN p = 1 .. Len(p)
    BY <2>2, LenProperties DEF Texts
  <2> QED
    BY <1>1, <1>4, <2>1, <2>2, <2>3
<1>6. /\ y \in Texts /\ Len(y) = k + h
      /\ \A i \in 1 .. k : y[i] = x[i]
  <2>1. /\ x \o z \in Texts /\ Len(x \o z) = Len(x) + Len(z)
        /\ \A i \in 1 .. Len(x) + Len(z) : (x \o z)[i] = IF i <= Len(x) THEN x[i] ELSE z[i - Len(x)]
    BY ConcatProperties DEF Texts
  <2>2. \A i \in 1 .. k : i \in 1 .. k + h /\ i <= k
    OBVIOUS
  <2> QED
    BY <1>1, <1>4, <2>1, <2>2
<1>7. /\ DOMAIN q = 1 .. n + (k + h)
      /\ \A i \in 1 .. n + (k + h) : q[i] = IF i <= n THEN w[i] ELSE y[i - n]
  <2>1. /\ w \o y \in Texts /\ Len(w \o y) = Len(w) + Len(y)
        /\ \A i \in 1 .. Len(w) + Len(y) : (w \o y)[i] = IF i <= Len(w) THEN w[i] ELSE y[i - Len(w)]
    BY <1>6, ConcatProperties DEF Texts
  <2>2. q \in Texts /\ Len(q) = n + (k + h)
    BY <1>1, <1>4, <1>6, <2>1
  <2>3. DOMAIN q = 1 .. Len(q)
    BY <2>2, LenProperties DEF Texts
  <2> QED
    BY <1>1, <1>4, <1>6, <2>1, <2>2, <2>3
<1> DEFINE to == [i \in 1 .. m + k |-> IF i <= m THEN at[i] ELSE n + (i - m)]
<1>8. \A i \in 1 .. m + k : \/ i \in 1 .. m /\ to[i] = at[i] /\ to[i] \in 1 .. n
                            \/ ~ (i <= m) /\ i - m \in 1 .. k /\ to[i] = n + (i - m)
  <2> TAKE i \in 1 .. m + k
  <2>1. CASE i <= m
    <3>1. i \in 1 .. m
      BY <2>1
    <3> QED
      BY <1>3, <2>1, <3>1
  <2>2. CASE ~ (i <= m)
    BY <2>2
  <2> QED
    BY <2>1, <2>2
<1>9. to \in [1 .. m + k -> 1 .. n + (k + h)]
  <2>1. \A i \in 1 .. m + k : to[i] \in 1 .. n + (k + h)
    <3> HIDE DEF to
    <3> QED
      BY <1>8
  <2> QED
    BY <2>1
<1>10. \A i, j \in 1 .. m + k : i < j => to[i] < to[j]
  <2> HIDE DEF to
  <2> SUFFICES ASSUME NEW i \in 1 .. m + k, NEW j \in 1 .. m + k, i < j PROVE to[i] < to[j]
    OBVIOUS
  <2>1. CASE i \in 1 .. m /\ j \in 1 .. m
    <3>1. at[i] < at[j]
      BY <1>3, <2>1
    <3>2. i <= m /\ j <= m
      BY <2>1
    <3> QED
      BY <1>8, <3>1, <3>2
  <2>2. CASE i \in 1 .. m /\ ~ (j <= m)
    <3>1. to[i] \in 1 .. n /\ j - m \in 1 .. k /\ to[j] = n + (j - m)
      BY <1>8, <2>2
    <3> QED
      BY <3>1
  <2>3. CASE ~ (i <= m)
    <3>1. to[i] = n + (i - m) /\ to[j] = n + (j - m)
      BY <1>8, <2>3
    <3> QED
      BY <3>1
  <2> QED
    BY <2>1, <2>2, <2>3
<1>11. \A i \in 1 .. m + k : p[i] = q[to[i]]
  <2> HIDE DEF to
  <2> SUFFICES ASSUME NEW i \in 1 .. m + k PROVE p[i] = q[to[i]]
    OBVIOUS
  <2>1. CASE i \in 1 .. m
    <3>1. i <= m /\ p[i] = l[i] /\ to[i] = at[i] /\ at[i] \in 1 .. n
      BY <1>3, <1>5, <1>8, <2>1
    <3>2. at[i] \in 1 .. n + (k + h) /\ at[i] <= n
      BY <3>1
    <3>3. q[at[i]] = w[at[i]]
      BY <1>7, <3>2
    <3> QED
      BY <1>3, <2>1, <3>1, <3>3
  <2>2. CASE ~ (i <= m)
    <3>1. i - m \in 1 .. k /\ to[i] = n + (i - m) /\ p[i] = x[i - m]
      BY <1>5, <1>8, <2>2
    <3>2. PICK j \in 1 .. k : j = i - m
      BY <3>1
    <3>3. n + j \in 1 .. n + (k + h) /\ ~ (n + j <= n) /\ (n + j) - n = j
      OBVIOUS
    <3>4. q[n + j] = y[j]
      BY <1>7, <3>3
    <3>5. y[j] = x[j]
      BY <1>6
    <3> QED
      BY <3>1, <3>2, <3>4, <3>5
  <2> QED
    BY <2>1, <2>2
<1>12. Server!Within(p, q)
  <2> HIDE DEF to
  <2> QED
    BY <1>5, <1>7, <1>9, <1>10, <1>11 DEF Server!Within
<1> QED
  BY <1>4, <1>12

LEMMA WithinNothing == Server!Within(<< >>, << >>)
<1>1. << >> \in [DOMAIN << >> -> DOMAIN << >>] /\ DOMAIN << >> = {}
  OBVIOUS
<1> QED
  BY <1>1 DEF Server!Within

-------------------------------------------------------------------------------
(* 10 bulk_server: what several reads return *)

\* f has the texts of the first reads, joined.
IsFlat(f, list, n) == f = [i \in 1 .. n |-> IF i = 1 THEN list[i] ELSE f[i - 1] \o list[i]]

LEMMA FlatExists ==
    ASSUME NEW list, NEW n \in Nat
    PROVE  \E f : IsFlat(f, list, n)
<1> DEFINE Bad == {m \in Nat : ~ \E f : IsFlat(f, list, m)}
<1> SUFFICES ASSUME Bad # {} PROVE FALSE
  OBVIOUS
<1>1. PICK m \in Bad : \A k \in Bad : m <= k
  <2>1. Bad \in SUBSET Nat
    OBVIOUS
  <2> HIDE DEF Bad
  <2> QED
    BY <2>1, LeastOf
<1>2. m # 0
  <2> DEFINE g == [k \in 1 .. 0 |-> << >>]
  <2>1. IsFlat(g, list, 0)
    BY DEF IsFlat
  <2> QED
    BY <2>1
<1>3. PICK f : IsFlat(f, list, m - 1)
  <2>1. m - 1 \in Nat /\ ~ (m <= m - 1)
    BY <1>2
  <2> QED
    BY <1>1, <2>1
<1>4. \A k \in 1 .. m - 1 : f[k] = IF k = 1 THEN list[k] ELSE f[k - 1] \o list[k]
  BY <1>3 DEF IsFlat
<1> DEFINE g == [k \in 1 .. m |-> IF k = m THEN IF m = 1 THEN list[m] ELSE f[m - 1] \o list[m] ELSE f[k]]
<1>5. \A k \in 1 .. m : g[k] = IF k = 1 THEN list[k] ELSE g[k - 1] \o list[k]
  <2> TAKE k \in 1 .. m
  <2>1. CASE k = m
    <3>1. m # 1 => m - 1 \in 1 .. m /\ m - 1 # m /\ g[m - 1] = f[m - 1]
      BY <1>2
    <3> QED
      BY <1>2, <2>1, <3>1
  <2>2. CASE k # m
    <3>1. k \in 1 .. m - 1 /\ g[k] = f[k]
      BY <2>2
    <3>2. k # 1 => k - 1 \in 1 .. m /\ k - 1 # m /\ g[k - 1] = f[k - 1]
      BY <2>2
    <3> QED
      BY <1>4, <3>1, <3>2
  <2> QED
    BY <2>1, <2>2
<1>6. g = [k \in 1 .. m |-> IF k = 1 THEN list[k] ELSE g[k - 1] \o list[k]]
  <2>1. g = [k \in 1 .. m |-> g[k]]
    OBVIOUS
  <2> HIDE DEF g
  <2> QED
    BY <1>5, <2>1
<1>7. IsFlat(g, list, m)
  BY <1>6 DEF IsFlat
<1> QED
  BY <1>7

LEMMA FlatIs ==
    ASSUME NEW list, NEW n \in Nat \ {0}, Len(list) = n
    PROVE  \E f : IsFlat(f, list, n) /\ Server!FlattenSeq(list) = f[n]
<1> DEFINE f == CHOOSE f : IsFlat(f, list, n)
<1>1. IsFlat(f, list, n)
  BY FlatExists
<1>2. Server!FlattenSeq(list) = f[n]
  BY DEF Server!FlattenSeq, IsFlat
<1> QED
  BY <1>1, <1>2

LEMMA FlatOfOne ==
    ASSUME NEW c \in Seq(Byte)
    PROVE  Server!FlattenSeq(<<c>>) = c
<1>1. Len(<<c>>) = 1 /\ 1 \in Nat \ {0}
  OBVIOUS
<1>2. PICK f : IsFlat(f, <<c>>, 1) /\ Server!FlattenSeq(<<c>>) = f[1]
  BY <1>1, FlatIs
<1>3. f[1] = <<c>>[1]
  BY <1>2 DEF IsFlat
<1> QED
  BY <1>2, <1>3

LEMMA FlatOfMore ==
    ASSUME NEW list \in Texts, NEW c \in Seq(Byte)
    PROVE  Server!FlattenSeq(Append(list, c)) = Server!FlattenSeq(list) \o c
<1>1. PICK n \in Nat : n = Len(list)
  BY LenProperties DEF Texts
<1>2. PICK more : more = Append(list, c)
  OBVIOUS
<1>3. more \in Texts /\ Len(more) = n + 1 /\ more[n + 1] = c /\ \A i \in 1 .. n : more[i] = list[i]
  BY <1>1, <1>2, AppendProperties DEF Texts
<1>4. CASE n = 0
  <2>1. list = << >>
    BY <1>1, <1>4, EmptySeq DEF Texts
  <2>2. more = <<c>>
    BY <1>2, <2>1
  <2>3. Server!FlattenSeq(list) = << >>
    BY <1>1, <1>4, <2>1 DEF Server!FlattenSeq
  <2>4. Server!FlattenSeq(more) = c /\ << >> \o c = c
    BY <2>2, FlatOfOne, ConcatEmptySeq
  <2> QED
    BY <1>2, <2>3, <2>4
<1>5. CASE n # 0
  <2>1. PICK f : IsFlat(f, list, n) /\ Server!FlattenSeq(list) = f[n]
    BY <1>1, <1>5, FlatIs
  <2>2. PICK l \in Nat \ {0} : l = n + 1
    OBVIOUS
  <2>3. PICK g : IsFlat(g, more, l) /\ Server!FlattenSeq(more) = g[l]
    BY <1>3, <2>2, FlatIs
  <2>4. \A i \in 1 .. n : f[i] = IF i = 1 THEN list[i] ELSE f[i - 1] \o list[i]
    BY <2>1 DEF IsFlat
  <2>5. \A i \in 1 .. l : g[i] = IF i = 1 THEN more[i] ELSE g[i - 1] \o more[i]
    BY <2>3 DEF IsFlat
  <2>6. f[n] = g[n]
    <3> DEFINE Bad == {i \in 1 .. n : f[i] # g[i]}
    <3>1. Bad = {}
      <4> SUFFICES ASSUME Bad # {} PROVE FALSE
        OBVIOUS
      <4>1. PICK k \in Bad : \A j \in Bad : k <= j
        <5>1. Bad \in SUBSET Nat
          OBVIOUS
        <5> HIDE DEF Bad
        <5> QED
          BY <5>1, LeastOf
      <4>2. k \in 1 .. l /\ more[k] = list[k]
        BY <1>3, <2>2
      <4>3. k # 1
        BY <2>4, <2>5, <4>2
      <4>4. k - 1 \in 1 .. n /\ ~ (k <= k - 1)
        BY <4>3
      <4>5. f[k - 1] = g[k - 1]
        BY <4>1, <4>4
      <4> QED
        BY <2>4, <2>5, <4>2, <4>3, <4>5
    <3> QED
      BY <1>5, <3>1
  <2>7. g[l] = g[n] \o c
    <3>1. l \in 1 .. l /\ l # 1 /\ l - 1 = n /\ more[l] = c
      BY <1>3, <1>5, <2>2
    <3> QED
      BY <2>5, <3>1
  <2> QED
    BY <1>2, <2>1, <2>3, <2>6, <2>7
<1> QED
  BY <1>4, <1>5

-------------------------------------------------------------------------------
(* 10 bulk_server: one read *)

LinesIn(list) == Server!ExtractLines(Server!FlattenSeq(list))
WholeIn(list) == \A i \in DOMAIN list : Server!Last(list[i]) = Server!Delimiter
GrowingIn(list) == \A i, j \in DOMAIN list : i < j => Len(list[i]) <= Len(list[j])

\* A list of reads, whose text ends with a line if each of them does.
ReadsAre(list) ==
    /\ list \in Texts
    /\ Server!FlattenSeq(list) \in Seq(Byte)
    /\ WholeIn(list) =>
          \/ Server!FlattenSeq(list) = << >>
          \/ Server!FlattenSeq(list)[Len(Server!FlattenSeq(list))] = Server!Delimiter

\* LinesHandled, of one session.
Given(list, given) ==
    WholeIn(list) =>
        /\ Server!Within(Server!UpToEmpty(LinesIn(list)), given)
        /\ GrowingIn(list) => given = Server!UpToEmpty(LinesIn(list))

\* Nothing in these reads ends the process.
Clean(list) == WholeIn(list) => NoneEmpty(LinesIn(list))

\* What ends it.
Fatal(list) == << >> \in Server!ToSet(LinesIn(list)) \/ ~(WholeIn(list) /\ GrowingIn(list))

\* The buffer is still fresh behind the longest read.
FreshBehind(list, chars) ==
    /\ chars \in [1 .. BufferSize -> Byte]
    /\ \A i \in 1 .. BufferSize : (\A n \in DOMAIN list : Len(list[n]) < i) => chars[i] = Server!Zero

LEMMA ChunkIs ==
    ASSUME NEW chunk \in Server!Chunks
    PROVE  chunk \in Seq(Byte) /\ Len(chunk) \in 1 .. BufferSize
<1>1. PICK n \in 1 .. BufferSize : chunk \in [1 .. n -> Server!Characters]
  BY DEF Server!Chunks
<1>2. n \in Nat
  BY BufferSizesAssumption
<1>3. chunk \in [1 .. n -> Byte]
  BY <1>1 DEF Byte
<1> QED
  BY <1>2, <1>3

LEMMA OverwrittenIs ==
    ASSUME NEW chars \in [1 .. BufferSize -> Byte], NEW chunk \in Seq(Byte), Len(chunk) \in 1 .. BufferSize
    PROVE  \E rest \in Seq(Byte) :
              /\ Server!Overwritten(chars, chunk) = chunk \o rest
              /\ Len(rest) = BufferSize - Len(chunk)
              /\ \A i \in 1 .. Len(rest) : rest[i] = chars[Len(chunk) + i]
              /\ chunk \o rest \in [1 .. BufferSize -> Byte]
              /\ \A i \in 1 .. BufferSize : Len(chunk) < i => (chunk \o rest)[i] = chars[i]
<1>1. PICK m \in Nat, k \in Nat, n \in Nat : m = Len(chunk) /\ k = m + 1 /\ n = BufferSize /\ m <= n
  BY BufferSizesAssumption
<1>2. PICK rest : rest = SubSeq(chars, k, n)
  OBVIOUS
<1>3. /\ SubSeq(chars, k, n) \in Seq(Byte) /\ Len(SubSeq(chars, k, n)) = IF k <= n THEN n - k + 1 ELSE 0
      /\ \A i \in 1 .. n - k + 1 : SubSeq(chars, k, n)[i] = chars[k + i - 1]
  <2>1. \A i \in k .. n : chars[i] \in Byte
    BY <1>1
  <2> QED
    BY <2>1, SubSeqProperties
<1>4. /\ rest \in Seq(Byte) /\ Len(rest) = n - m
      /\ \A i \in 1 .. n - m : rest[i] = chars[m + i]
  <2>1. (IF k <= n THEN n - k + 1 ELSE 0) = n - m /\ n - k + 1 = n - m /\ \A i \in 1 .. n - m : k + i - 1 = m + i
    BY <1>1
  <2> QED
    BY <1>2, <1>3, <2>1
<1>5. PICK all : all = chunk \o rest
  OBVIOUS
<1>6. /\ all \in Seq(Byte) /\ Len(all) = n
      /\ \A i \in 1 .. n : all[i] = IF i <= m THEN chunk[i] ELSE rest[i - m]
  <2>1. /\ chunk \o rest \in Seq(Byte) /\ Len(chunk \o rest) = Len(chunk) + Len(rest)
        /\ \A i \in 1 .. Len(chunk) + Len(rest) :
              (chunk \o rest)[i] = IF i <= Len(chunk) THEN chunk[i] ELSE rest[i - Len(chunk)]
    BY <1>4, ConcatProperties
  <2>2. Len(chunk) + Len(rest) = n
    BY <1>1, <1>4
  <2> QED
    BY <1>1, <1>5, <2>1, <2>2
<1>7. all \in [1 .. n -> Byte]
  BY <1>6, LenProperties
<1>8. \A i \in 1 .. n : m < i => all[i] = chars[i]
  <2> SUFFICES ASSUME NEW i \in 1 .. n, m < i PROVE all[i] = chars[i]
    OBVIOUS
  <2>1. PICK j \in 1 .. n - m : j = i - m /\ m + j = i
    BY <1>1
  <2>2. all[i] = rest[j]
    BY <1>6, <2>1
  <2> QED
    BY <1>4, <2>1, <2>2
<1>9. Server!Overwritten(chars, chunk) = all
  BY <1>1, <1>2, <1>5 DEF Server!Overwritten
<1> QED
  BY <1>1, <1>4, <1>5, <1>7, <1>8, <1>9

\* What is behind the longest read holds no line.
LEMMA FreshIsNoLine ==
    ASSUME NEW list, NEW chars, FreshBehind(list, chars), NEW rest \in Seq(Byte), NEW m \in Nat,
           m + Len(rest) <= BufferSize, \A i \in 1 .. Len(rest) : rest[i] = chars[m + i],
           \A n \in DOMAIN list : Len(list[n]) <= m, list \in Texts
    PROVE  Server!ExtractLines(rest) = << >>
<1>1. \A i \in 1 .. Len(rest) : rest[i] = Server!Zero
  <2> SUFFICES ASSUME NEW i \in 1 .. Len(rest) PROVE rest[i] = Server!Zero
    OBVIOUS
  <2>1. PICK l \in Nat, k \in Nat : l = Len(rest) /\ k = m + i /\ i \in 1 .. l
    BY LenProperties
  <2>2. k \in 1 .. BufferSize /\ m < k
    BY <2>1, BufferSizesAssumption
  <2>3. \A n \in DOMAIN list : Len(list[n]) < k
    <3> SUFFICES ASSUME NEW n \in DOMAIN list PROVE Len(list[n]) < k
      OBVIOUS
    <3>1. list[n] \in Seq(Byte)
      BY DEF Texts
    <3>2. Len(list[n]) \in Nat /\ Len(list[n]) <= m
      BY <3>1, LenProperties
    <3> QED
      BY <2>2, <3>2
  <2>4. chars[k] = Server!Zero
    BY <2>2, <2>3 DEF FreshBehind
  <2> QED
    BY <2>1, <2>4
<1>2. Server!Zero # Server!Delimiter
  BY DEF Server!Zero, Server!Delimiter
<1> QED
  BY <1>1, <1>2, NoLines

LEMMA UpToEmptyCuts ==
    ASSUME NEW r \in Texts, ~NoneEmpty(r)
    PROVE  Server!UpToEmpty(r) # r
<1>1. PICK k \in 1 .. Len(r) : r[k] = << >> /\ \A i \in 1 .. k - 1 : r[i] # << >>
  BY FirstEmpty
<1>2. Server!UpToEmpty(r) = SubSeq(r, 1, k - 1)
  BY <1>1, UpToEmptyAt
<1>3. PICK m \in Nat, y \in Int : m = Len(r) /\ y = k - 1 /\ y < m
  BY <1>1, LenProperties DEF Texts
<1>4. \A i \in 1 .. y : r[i] \in Seq(Byte)
  <2>1. \A i \in 1 .. y : i \in 1 .. m
    BY <1>3
  <2> QED
    BY <1>3, <2>1, LenProperties DEF Texts
<1>5. Len(SubSeq(r, 1, y)) = IF 1 <= y THEN y - 1 + 1 ELSE 0
  BY <1>4, SubSeqProperties
<1>6. Len(SubSeq(r, 1, y)) # m
  BY <1>1, <1>3, <1>5
<1> QED
  BY <1>2, <1>3, <1>6

LEMMA OneMoreRead ==
    ASSUME NEW list \in Texts, NEW chunk \in Seq(Byte), NEW more, more = Append(list, chunk)
    PROVE  /\ more \in Texts
           /\ WholeIn(more) <=> WholeIn(list) /\ chunk[Len(chunk)] = Server!Delimiter
           /\ GrowingIn(more) => GrowingIn(list) /\ \A n \in DOMAIN list : Len(list[n]) <= Len(chunk)
           /\ \A n \in DOMAIN list : n \in DOMAIN more /\ more[n] = list[n]
           /\ Len(list) + 1 \in DOMAIN more /\ more[Len(list) + 1] = chunk
<1>1. PICK n \in Nat : n = Len(list) /\ DOMAIN list = 1 .. n
  BY LenProperties DEF Texts
<1>2. more \in Texts /\ Len(more) = n + 1 /\ more[n + 1] = chunk /\ \A i \in 1 .. n : more[i] = list[i]
  BY <1>1, AppendProperties DEF Texts
<1>3. DOMAIN more = 1 .. n + 1
  BY <1>2, LenProperties DEF Texts
<1>4. (\A i \in 1 .. n : i \in 1 .. n + 1 /\ i < n + 1) /\ n + 1 \in 1 .. n + 1
      /\ \A i \in 1 .. n + 1 : i \in 1 .. n \/ i = n + 1
  OBVIOUS
<1>5. WholeIn(more) <=> WholeIn(list) /\ chunk[Len(chunk)] = Server!Delimiter
  BY <1>1, <1>2, <1>3, <1>4 DEF WholeIn, Server!Last
<1>6. ASSUME GrowingIn(more) PROVE GrowingIn(list) /\ \A i \in DOMAIN list : Len(list[i]) <= Len(chunk)
  BY <1>1, <1>2, <1>3, <1>4, <1>6 DEF GrowingIn
<1> QED
  BY <1>1, <1>2, <1>3, <1>4, <1>5, <1>6

LEMMA NoneEmptyParts ==
    ASSUME NEW r \in Texts, NEW q \in Texts
    PROVE  NoneEmpty(r \o q) <=> NoneEmpty(r) /\ NoneEmpty(q)
<1>1. PICK m \in Nat, n \in Nat : m = Len(r) /\ n = Len(q)
  BY LenProperties DEF Texts
<1>2. PICK all : all = r \o q
  OBVIOUS
<1>3. /\ Len(all) = m + n
      /\ \A i \in 1 .. m + n : all[i] = IF i <= m THEN r[i] ELSE q[i - m]
  BY <1>1, <1>2, ConcatProperties DEF Texts
<1>4. \A i \in 1 .. m : i \in 1 .. m + n /\ all[i] = r[i]
  <2>1. \A i \in 1 .. m : i \in 1 .. m + n /\ i <= m
    OBVIOUS
  <2> QED
    BY <1>3, <2>1
<1>5. \A i \in 1 .. n : m + i \in 1 .. m + n /\ all[m + i] = q[i]
  <2>1. \A i \in 1 .. n : m + i \in 1 .. m + n /\ ~ (m + i <= m) /\ (m + i) - m = i
    OBVIOUS
  <2> QED
    BY <1>3, <2>1
<1>6. \A i \in 1 .. m + n : i \in 1 .. m \/ (i - m \in 1 .. n /\ m + (i - m) = i)
  OBVIOUS
<1>7. ASSUME NoneEmpty(all) PROVE NoneEmpty(r) /\ NoneEmpty(q)
  <2>1. \A i \in 1 .. m + n : all[i] # << >>
    BY <1>3, <1>7 DEF NoneEmpty
  <2> QED
    BY <1>1, <1>4, <1>5, <2>1 DEF NoneEmpty
<1>8. ASSUME NoneEmpty(r), NoneEmpty(q) PROVE NoneEmpty(all)
  <2> SUFFICES ASSUME NEW i \in 1 .. m + n PROVE all[i] # << >>
    BY <1>3 DEF NoneEmpty
  <2>1. CASE i \in 1 .. m
    BY <1>1, <1>4, <1>8, <2>1 DEF NoneEmpty
  <2>2. CASE i - m \in 1 .. n /\ m + (i - m) = i
    <3>1. all[m + (i - m)] = q[i - m]
      BY <1>5, <2>2
    <3> QED
      BY <1>1, <1>8, <2>2, <3>1 DEF NoneEmpty
  <2> QED
    BY <1>6, <2>1, <2>2
<1> QED
  BY <1>2, <1>7, <1>8

LEMMA AfterRead ==
    ASSUME NEW list, ReadsAre(list), NEW given \in Texts, Given(list, given), Clean(list),
           NEW chars, FreshBehind(list, chars), NEW chunk \in Server!Chunks,
           NEW next, next = Server!Overwritten(chars, chunk),
           NEW lines, lines = Server!ExtractLines(next),
           NEW more, more = Append(list, chunk)
    PROVE  /\ lines \in Texts
           /\ ReadsAre(more)
           /\ Given(more, given \o Server!UpToEmpty(lines))
           /\ FreshBehind(more, next)
           /\ Server!UpToEmpty(lines) = lines => Clean(more)
           /\ Server!UpToEmpty(lines) # lines => Fatal(more)
<1>1. chunk \in Seq(Byte) /\ Len(chunk) \in 1 .. BufferSize
  BY ChunkIs
<1>2. list \in Texts /\ chars \in [1 .. BufferSize -> Byte]
  BY DEF ReadsAre, FreshBehind
<1>3. PICK rest \in Seq(Byte) :
         /\ Server!Overwritten(chars, chunk) = chunk \o rest
         /\ Len(rest) = BufferSize - Len(chunk)
         /\ \A i \in 1 .. Len(rest) : rest[i] = chars[Len(chunk) + i]
         /\ chunk \o rest \in [1 .. BufferSize -> Byte]
         /\ \A i \in 1 .. BufferSize : Len(chunk) < i => (chunk \o rest)[i] = chars[i]
  BY <1>1, <1>2, OverwrittenIs
<1>4. /\ more \in Texts
      /\ WholeIn(more) <=> WholeIn(list) /\ chunk[Len(chunk)] = Server!Delimiter
      /\ GrowingIn(more) => GrowingIn(list) /\ \A n \in DOMAIN list : Len(list[n]) <= Len(chunk)
      /\ \A n \in DOMAIN list : n \in DOMAIN more /\ more[n] = list[n]
      /\ Len(list) + 1 \in DOMAIN more /\ more[Len(list) + 1] = chunk
  <2>1. more \in Texts
    BY <1>1, <1>2, OneMoreRead
  <2>2. WholeIn(more) <=> WholeIn(list) /\ chunk[Len(chunk)] = Server!Delimiter
    BY <1>1, <1>2, OneMoreRead
  <2>3. GrowingIn(more) => GrowingIn(list) /\ \A n \in DOMAIN list : Len(list[n]) <= Len(chunk)
    BY <1>1, <1>2, OneMoreRead
  <2>4. \A n \in DOMAIN list : n \in DOMAIN more /\ more[n] = list[n]
    BY <1>1, <1>2, OneMoreRead
  <2>5. Len(list) + 1 \in DOMAIN more /\ more[Len(list) + 1] = chunk
    BY <1>1, <1>2, OneMoreRead
  <2> QED
    BY <2>1, <2>2, <2>3, <2>4, <2>5
<1>5. chunk \o rest \in Seq(Byte)
  BY <1>1, ConcatProperties
<1>6. lines \in Texts /\ lines = Server!ExtractLines(chunk \o rest)
  BY <1>3, <1>5, LinesType DEF Texts
<1>7. PICK text, new : text = Server!FlattenSeq(list) /\ new = Server!FlattenSeq(more)
  OBVIOUS
<1>8. text \in Seq(Byte) /\ new = text \o chunk
  BY <1>1, <1>2, <1>7, FlatOfMore DEF ReadsAre
<1>9. PICK m \in Nat, k \in Nat \ {0} : m = Len(text) /\ k = Len(chunk)
  BY <1>1, <1>8, LenProperties
<1>10. ReadsAre(more)
  <2>1. /\ text \o chunk \in Seq(Byte) /\ Len(text \o chunk) = Len(text) + Len(chunk)
        /\ \A i \in 1 .. Len(text) + Len(chunk) :
              (text \o chunk)[i] = IF i <= Len(text) THEN text[i] ELSE chunk[i - Len(text)]
    BY <1>1, <1>8, ConcatProperties
  <2>2. m + k \in 1 .. m + k /\ ~ (m + k <= m) /\ (m + k) - m = k
    OBVIOUS
  <2>3. new \in Seq(Byte) /\ Len(new) = m + k /\ new[m + k] = chunk[k]
    BY <1>8, <1>9, <2>1, <2>2
  <2>4. WholeIn(more) => new[Len(new)] = Server!Delimiter
    BY <1>4, <1>9, <2>3
  <2> QED
    BY <1>4, <1>7, <2>3, <2>4 DEF ReadsAre
<1>11. FreshBehind(more, next)
  <2> SUFFICES ASSUME NEW i \in 1 .. BufferSize, \A n \in DOMAIN more : Len(more[n]) < i
               PROVE  next[i] = Server!Zero
    BY <1>3 DEF FreshBehind
  <2>1. Len(chunk) < i /\ \A n \in DOMAIN list : Len(list[n]) < i
    BY <1>4
  <2>2. chars[i] = Server!Zero
    BY <2>1 DEF FreshBehind
  <2> QED
    BY <1>3, <2>1, <2>2
<1>12. PICK q, x, r : /\ q = Server!ExtractLines(chunk) /\ x = Server!ExtractLines(rest)
                      /\ r = Server!ExtractLines(text)
  OBVIOUS
<1>13. q \in Texts /\ x \in Texts /\ r \in Texts
  BY <1>1, <1>8, <1>12, LinesType DEF Texts
<1>14. r = LinesIn(list)
  BY <1>7, <1>12 DEF LinesIn
<1>15. ASSUME WholeIn(more)
       PROVE  /\ lines = q \o x /\ LinesIn(more) = r \o q /\ NoneEmpty(r)
              /\ Server!UpToEmpty(r) = r
              /\ Server!UpToEmpty(r \o q) = r \o Server!UpToEmpty(q)
              /\ Server!Within(r, given)
              /\ GrowingIn(more) => given = r /\ x = << >> /\ lines = q
  <2>1. WholeIn(list) /\ chunk[Len(chunk)] = Server!Delimiter
    BY <1>4, <1>15
  <2>2. lines = q \o x
    BY <1>1, <1>6, <1>12, <2>1, LinesJoin
  <2>3. text = << >> \/ text[Len(text)] = Server!Delimiter
    BY <1>7, <2>1 DEF ReadsAre
  <2>4. Server!ExtractLines(text \o chunk) = r \o q
    BY <1>1, <1>8, <1>12, <2>3, LinesJoin
  <2>5. LinesIn(more) = r \o q
    BY <1>7, <1>8, <2>4 DEF LinesIn
  <2>6. NoneEmpty(r)
    BY <1>14, <2>1 DEF Clean
  <2>7. Server!UpToEmpty(r) = r /\ Server!UpToEmpty(r \o q) = r \o Server!UpToEmpty(q)
    BY <1>13, <2>6, UpToEmptyAll, UpToEmptyGoesOn
  <2>8. Server!Within(r, given) /\ (GrowingIn(list) => given = r)
    BY <1>14, <2>1, <2>7 DEF Given
  <2>9. ASSUME GrowingIn(more) PROVE given = r /\ x = << >> /\ lines = q
    <3>1. GrowingIn(list) /\ \A n \in DOMAIN list : Len(list[n]) <= Len(chunk)
      BY <1>4, <2>9
    <3>2. k + Len(rest) <= BufferSize
      BY <1>3, <1>9, BufferSizesAssumption
    <3>3. (\A i \in 1 .. Len(rest) : rest[i] = chars[k + i]) /\ \A n \in DOMAIN list : Len(list[n]) <= k
      BY <1>3, <1>9, <3>1
    <3>4. Server!ExtractLines(rest) = << >>
      BY <1>2, <3>2, <3>3, FreshIsNoLine
    <3>5. q \o << >> = q
      BY <1>13, ConcatEmptySeq DEF Texts
    <3> QED
      BY <1>12, <2>2, <2>8, <3>1, <3>4, <3>5
  <2> QED
    BY <2>2, <2>5, <2>6, <2>7, <2>8, <2>9
<1>16. Given(more, given \o Server!UpToEmpty(lines))
  <2> SUFFICES ASSUME WholeIn(more)
               PROVE  /\ Server!Within(Server!UpToEmpty(LinesIn(more)), given \o Server!UpToEmpty(lines))
                      /\ GrowingIn(more) =>
                            given \o Server!UpToEmpty(lines) = Server!UpToEmpty(LinesIn(more))
    BY DEF Given
  <2>1. PICK u \in Texts : u = Server!UpToEmpty(q)
    BY <1>13, UpToEmptyType
  <2>2. PICK z \in Texts : Server!UpToEmpty(q \o x) = u \o z
    BY <1>13, <2>1, UpToEmptyBefore
  <2>3. Server!Within(r \o u, given \o (u \o z))
    BY <1>13, <1>15, WithinGoesOn
  <2>4. Server!UpToEmpty(LinesIn(more)) = r \o u
    BY <1>15, <2>1
  <2>5. Server!UpToEmpty(lines) = u \o z
    BY <1>15, <2>2
  <2>6. GrowingIn(more) => given \o Server!UpToEmpty(lines) = r \o u
    BY <1>15, <2>1
  <2> QED
    BY <2>3, <2>4, <2>5, <2>6
<1>17. ASSUME Server!UpToEmpty(lines) = lines PROVE Clean(more)
  <2> SUFFICES ASSUME WholeIn(more) PROVE NoneEmpty(LinesIn(more))
    BY DEF Clean
  <2>1. NoneEmpty(lines)
    BY <1>6, <1>17, UpToEmptyCuts
  <2>2. NoneEmpty(q)
    BY <1>13, <1>15, <2>1, NoneEmptyParts
  <2>3. NoneEmpty(r \o q)
    BY <1>13, <1>15, <2>2, NoneEmptyParts
  <2> QED
    BY <1>15, <2>3
<1>18. ASSUME Server!UpToEmpty(lines) # lines PROVE Fatal(more)
  <2> SUFFICES ASSUME WholeIn(more), GrowingIn(more) PROVE << >> \in Server!ToSet(LinesIn(more))
    BY DEF Fatal
  <2>1. ~NoneEmpty(q)
    BY <1>13, <1>15, <1>18, UpToEmptyAll
  <2>2. ~NoneEmpty(r \o q)
    BY <1>13, <2>1, NoneEmptyParts
  <2>3. LinesIn(more) = r \o q /\ r \o q \in Texts
    BY <1>13, <1>15, ConcatProperties DEF Texts
  <2>4. PICK i \in 1 .. Len(r \o q) : (r \o q)[i] = << >>
    BY <2>2 DEF NoneEmpty
  <2>5. i \in DOMAIN (r \o q)
    BY <2>3, LenProperties DEF Texts
  <2> QED
    BY <2>3, <2>4, <2>5 DEF Server!ToSet
<1> QED
  BY <1>6, <1>10, <1>11, <1>16, <1>17, <1>18

-------------------------------------------------------------------------------
(* 10 bulk_server: the sessions *)

\* What is known of one session.
SessionOK(s) ==
    /\ handle[s] \in 1 .. counter
    /\ ReadsAre(reads[s])
    /\ Given(reads[s], handled[handle[s]])
    /\ FreshBehind(reads[s], buffer[s])
    /\ ~terminated => Clean(reads[s])

SessionInv ==
    /\ DOMAIN state = Sessions /\ DOMAIN handle = Sessions
    /\ DOMAIN buffer = Sessions /\ DOMAIN reads = Sessions
    /\ counter \in Nat /\ handled \in Seq(Texts) /\ Len(handled) = counter
    /\ \A s \in Sessions : IF state[s] = "none" THEN reads[s] = << >> ELSE SessionOK(s)
    /\ \A s, t \in Sessions : state[s] # "none" /\ state[t] # "none" /\ handle[s] = handle[t] => s = t
    /\ terminated => \E s \in Sessions : Fatal(reads[s])

LEMMA NoReads ==
    /\ ReadsAre(<< >>)
    /\ Given(<< >>, << >>)
    /\ Clean(<< >>)
    /\ FreshBehind(<< >>, Server!FreshBuffer)
<1>1. << >> \in Texts /\ << >> \in Seq(Byte) /\ Len(<< >>) = 0
  BY EmptySeq DEF Texts
<1>2. Server!FlattenSeq(<< >>) = << >>
  BY <1>1 DEF Server!FlattenSeq
<1>3. LinesIn(<< >>) = << >>
  <2>1. \A i \in 1 .. Len(<< >>) : << >>[i] # Server!Delimiter
    BY <1>1
  <2>2. Server!ExtractLines(<< >>) = << >>
    BY <1>1, <2>1, NoLines
  <2> QED
    BY <1>2, <2>2 DEF LinesIn
<1>4. NoneEmpty(<< >>) /\ Server!UpToEmpty(<< >>) = << >>
  <2>1. NoneEmpty(<< >>)
    BY <1>1 DEF NoneEmpty
  <2> QED
    BY <1>1, <2>1, UpToEmptyAll
<1>5. FreshBehind(<< >>, Server!FreshBuffer)
  <2>1. \A i \in 1 .. BufferSize : Server!FreshBuffer[i] = Server!Zero
    BY DEF Server!FreshBuffer
  <2>2. Server!FreshBuffer \in [1 .. BufferSize -> Byte]
    BY DEF Server!FreshBuffer, Byte
  <2> QED
    BY <2>1, <2>2 DEF FreshBehind
<1>6. ReadsAre(<< >>)
  BY <1>1, <1>2 DEF ReadsAre
<1>7. Given(<< >>, << >>) /\ Clean(<< >>)
  BY <1>3, <1>4, WithinNothing DEF Given, Clean
<1> QED
  BY <1>5, <1>6, <1>7

LEMMA SessionStart == Server!Init => SessionInv
<1> SUFFICES ASSUME Server!Init PROVE SessionInv
  OBVIOUS
<1>1. << >> \in Seq(Texts) /\ Len(<< >>) = 0
  BY EmptySeq
<1> QED
  BY <1>1 DEF Server!Init, SessionInv

LEMMA SessionAccept ==
    ASSUME SessionInv, ~terminated, NEW s \in Sessions, Server!Accept(s)
    PROVE  SessionInv'
<1>1. /\ state[s] = "none"
      /\ state' = [state EXCEPT ![s] = "reading"]
      /\ buffer' = [buffer EXCEPT ![s] = Server!FreshBuffer]
      /\ handle' = [handle EXCEPT ![s] = counter + 1]
      /\ counter' = counter + 1
      /\ handled' = Append(handled, << >>)
      /\ reads' = reads /\ terminated' = terminated
  BY DEF Server!Accept
<1>2. /\ DOMAIN state = Sessions /\ DOMAIN handle = Sessions
      /\ DOMAIN buffer = Sessions /\ DOMAIN reads = Sessions
      /\ counter \in Nat /\ handled \in Seq(Texts) /\ Len(handled) = counter
  BY DEF SessionInv
<1>3. /\ handled' \in Seq(Texts) /\ Len(handled') = counter'
      /\ handled'[counter + 1] = << >> /\ \A i \in 1 .. counter : handled'[i] = handled[i]
  <2>1. << >> \in Texts
    BY EmptySeq DEF Texts
  <2>2. PICK c, more : c = << >> /\ c \in Texts /\ more = Append(handled, c)
    BY <2>1
  <2>3. /\ more \in Seq(Texts) /\ Len(more) = counter + 1 /\ more[counter + 1] = c
        /\ \A i \in 1 .. counter : more[i] = handled[i]
    BY <1>2, <2>2, AppendProperties
  <2> QED
    BY <1>1, <2>2, <2>3
<1>4. /\ state'[s] = "reading" /\ buffer'[s] = Server!FreshBuffer /\ handle'[s] = counter + 1
      /\ \A t \in Sessions : t # s => state'[t] = state[t] /\ buffer'[t] = buffer[t] /\ handle'[t] = handle[t]
  BY <1>1, <1>2
<1>5. reads[s] = << >>
  BY <1>1 DEF SessionInv
<1>6. SessionOK(s)'
  <2>1. handle'[s] \in 1 .. counter'
    BY <1>1, <1>2, <1>4
  <2>2. reads'[s] = << >> /\ handled'[handle'[s]] = << >> /\ buffer'[s] = Server!FreshBuffer
    BY <1>1, <1>3, <1>4, <1>5
  <2> QED
    BY <2>1, <2>2, NoReads DEF SessionOK
<1>7. ASSUME NEW t \in Sessions, t # s, state[t] # "none" PROVE SessionOK(t)'
  <2>1. SessionOK(t)
    BY <1>7 DEF SessionInv
  <2>2. handle[t] \in 1 .. counter /\ handle'[t] = handle[t] /\ buffer'[t] = buffer[t]
    BY <1>4, <1>7, <2>1 DEF SessionOK
  <2>3. handle'[t] \in 1 .. counter' /\ handled'[handle'[t]] = handled[handle[t]]
    BY <1>1, <1>2, <1>3, <2>2
  <2> QED
    BY <1>1, <2>1, <2>2, <2>3 DEF SessionOK
<1>8. \A t \in Sessions : IF state'[t] = "none" THEN reads'[t] = << >> ELSE SessionOK(t)'
  <2> TAKE t \in Sessions
  <2>1. CASE t = s
    BY <1>4, <1>6, <2>1
  <2>2. CASE t # s
    <3>1. IF state[t] = "none" THEN reads[t] = << >> ELSE SessionOK(t)
      BY DEF SessionInv
    <3> QED
      BY <1>1, <1>4, <1>7, <2>2, <3>1
  <2> QED
    BY <2>1, <2>2
<1>9. \A t \in Sessions : t # s /\ state'[t] # "none" => handle'[t] # counter + 1
  <2> SUFFICES ASSUME NEW t \in Sessions, t # s, state'[t] # "none" PROVE handle'[t] # counter + 1
    OBVIOUS
  <2>1. handle[t] \in 1 .. counter
    BY <1>4 DEF SessionInv, SessionOK
  <2> QED
    BY <1>2, <1>4, <2>1
<1>10. \A t, u \in Sessions : state'[t] # "none" /\ state'[u] # "none" /\ handle'[t] = handle'[u] => t = u
  <2> SUFFICES ASSUME NEW t \in Sessions, NEW u \in Sessions,
                      state'[t] # "none", state'[u] # "none", handle'[t] = handle'[u]
               PROVE  t = u
    OBVIOUS
  <2>1. CASE t = s
    BY <1>4, <1>9, <2>1
  <2>2. CASE u = s
    BY <1>4, <1>9, <2>2
  <2>3. CASE t # s /\ u # s
    <3>1. state[t] # "none" /\ state[u] # "none" /\ handle[t] = handle[u]
      BY <1>4, <2>3
    <3> QED
      BY <3>1 DEF SessionInv
  <2> QED
    BY <2>1, <2>2, <2>3
<1>11. DOMAIN state' = Sessions /\ DOMAIN handle' = Sessions /\ DOMAIN buffer' = Sessions
       /\ DOMAIN reads' = Sessions /\ counter' \in Nat
  BY <1>1, <1>2
<1> QED
  BY <1>1, <1>3, <1>8, <1>10, <1>11 DEF SessionInv

LEMMA SessionClose ==
    ASSUME SessionInv, NEW s \in Sessions, Server!Close(s)
    PROVE  SessionInv'
<1>1. /\ state[s] = "reading"
      /\ state' = [state EXCEPT ![s] = "closed"]
      /\ handle' = handle /\ buffer' = buffer /\ counter' = counter
      /\ handled' = handled /\ reads' = reads /\ terminated' = terminated
  BY DEF Server!Close
<1>2. DOMAIN state = Sessions
  BY DEF SessionInv
<1>3. DOMAIN state' = Sessions /\ \A t \in Sessions : state'[t] = "none" <=> state[t] = "none"
  BY <1>1, <1>2
<1>4. \A t \in Sessions : SessionOK(t) => SessionOK(t)'
  BY <1>1 DEF SessionOK
<1> QED
  BY <1>1, <1>3, <1>4 DEF SessionInv

LEMMA SessionRead ==
    ASSUME SessionInv, ~terminated, NEW s \in Sessions, NEW chunk \in Server!Chunks, Server!Read(s, chunk)
    PROVE  SessionInv'
<1>1. PICK next, lines, more, h :
         /\ next = Server!Overwritten(buffer[s], chunk) /\ lines = Server!ExtractLines(next)
         /\ more = Append(reads[s], chunk) /\ h = handle[s]
  OBVIOUS
<1>2. /\ DOMAIN state = Sessions /\ DOMAIN handle = Sessions
      /\ DOMAIN buffer = Sessions /\ DOMAIN reads = Sessions
      /\ counter \in Nat /\ handled \in Seq(Texts) /\ Len(handled) = counter
  BY DEF SessionInv
<1>3. DOMAIN handled = 1 .. counter /\ \A i \in 1 .. counter : handled[i] \in Texts
  BY <1>2, LenProperties
<1>4. /\ state[s] = "reading"
      /\ reads' = [reads EXCEPT ![s] = more]
      /\ buffer' = [buffer EXCEPT ![s] = next]
      /\ state' = state /\ handle' = handle /\ counter' = counter
  BY <1>1 DEF Server!Read
<1>5. reads'[s] = more /\ buffer'[s] = next
      /\ \A t \in Sessions : t # s => reads'[t] = reads[t] /\ buffer'[t] = buffer[t]
  BY <1>2, <1>4
<1>6. /\ handled' = [handled EXCEPT ![h] = handled[h] \o Server!UpToEmpty(lines)]
      /\ terminated' = (Server!UpToEmpty(lines) # lines)
  BY <1>1, <1>5 DEF Server!Read
<1>7. SessionOK(s)
  BY <1>4 DEF SessionInv
<1>8. PICK given : given = handled[h]
  OBVIOUS
<1>9. h \in 1 .. counter /\ given \in Texts
  BY <1>1, <1>3, <1>7, <1>8 DEF SessionOK
<1>10. /\ lines \in Texts
       /\ ReadsAre(more)
       /\ Given(more, given \o Server!UpToEmpty(lines))
       /\ FreshBehind(more, next)
       /\ Server!UpToEmpty(lines) = lines => Clean(more)
       /\ Server!UpToEmpty(lines) # lines => Fatal(more)
  <2>1. PICK list, chars : list = reads[s] /\ chars = buffer[s]
    OBVIOUS
  <2>2. ReadsAre(list) /\ Given(list, given) /\ Clean(list) /\ FreshBehind(list, chars)
    BY <1>1, <1>7, <1>8, <2>1 DEF SessionOK
  <2>3. next = Server!Overwritten(chars, chunk) /\ more = Append(list, chunk)
    BY <1>1, <2>1
  <2> QED
    BY <1>1, <1>9, <2>2, <2>3, AfterRead
<1>11. PICK whole \in Texts : whole = given \o Server!UpToEmpty(lines)
  BY <1>9, <1>10, UpToEmptyType, ConcatProperties DEF Texts
<1>12. /\ handled' \in Seq(Texts) /\ Len(handled') = counter /\ handled'[h] = whole
       /\ \A i \in 1 .. counter : i # h => handled'[i] = handled[i]
  <2>1. handled' = [i \in 1 .. counter |-> IF i = h THEN whole ELSE handled[i]]
    BY <1>3, <1>6, <1>8, <1>11
  <2>2. handled' \in [1 .. counter -> Texts]
    BY <1>3, <2>1
  <2> QED
    BY <1>2, <1>9, <2>1, <2>2
<1>13. SessionOK(s)'
  <2>1. handle'[s] = h /\ handled'[handle'[s]] = whole /\ reads'[s] = more /\ buffer'[s] = next
    BY <1>1, <1>4, <1>5, <1>12
  <2>2. handle'[s] \in 1 .. counter'
    BY <1>4, <1>9, <2>1
  <2>3. ReadsAre(more) /\ Given(more, whole) /\ FreshBehind(more, next)
    BY <1>10, <1>11
  <2>4. ~terminated' => Clean(more)
    BY <1>6, <1>10
  <2> QED
    BY <2>1, <2>2, <2>3, <2>4 DEF SessionOK
<1>14. ASSUME NEW t \in Sessions, t # s, state[t] # "none" PROVE SessionOK(t)'
  <2>1. SessionOK(t)
    BY <1>14 DEF SessionInv
  <2>2. handle[t] # h
    BY <1>1, <1>4, <1>14 DEF SessionInv
  <2>3. handle[t] \in 1 .. counter /\ Clean(reads[t])
    BY <2>1 DEF SessionOK
  <2>4. handled'[handle'[t]] = handled[handle[t]] /\ handle'[t] \in 1 .. counter'
    BY <1>4, <1>12, <2>2, <2>3
  <2>5. reads'[t] = reads[t] /\ buffer'[t] = buffer[t]
    BY <1>5, <1>14
  <2> QED
    BY <2>1, <2>3, <2>4, <2>5 DEF SessionOK
<1>15. \A t \in Sessions : IF state'[t] = "none" THEN reads'[t] = << >> ELSE SessionOK(t)'
  <2> TAKE t \in Sessions
  <2>1. CASE t = s
    BY <1>4, <1>13, <2>1
  <2>2. CASE t # s
    <3>1. IF state[t] = "none" THEN reads[t] = << >> ELSE SessionOK(t)
      BY DEF SessionInv
    <3> QED
      BY <1>4, <1>5, <1>14, <2>2, <3>1
  <2> QED
    BY <2>1, <2>2
<1>16. terminated' => \E t \in Sessions : Fatal(reads'[t])
  BY <1>5, <1>6, <1>10
<1>17. DOMAIN buffer' = Sessions /\ DOMAIN reads' = Sessions
  BY <1>2, <1>4
<1>18. \A t, u \in Sessions : state'[t] # "none" /\ state'[u] # "none" /\ handle'[t] = handle'[u] => t = u
  BY <1>4 DEF SessionInv
<1> QED
  BY <1>2, <1>4, <1>12, <1>15, <1>16, <1>17, <1>18 DEF SessionInv

LEMMA SessionStep == SessionInv /\ [Server!Next]_Server!vars => SessionInv'
<1> SUFFICES ASSUME SessionInv, [Server!Next]_Server!vars PROVE SessionInv'
  OBVIOUS
<1>1. CASE UNCHANGED Server!vars
  <2>1. /\ state' = state /\ handle' = handle /\ buffer' = buffer /\ counter' = counter
        /\ handled' = handled /\ reads' = reads /\ terminated' = terminated
    BY <1>1 DEF Server!vars
  <2>2. \A t \in Sessions : SessionOK(t) => SessionOK(t)'
    BY <2>1 DEF SessionOK
  <2> QED
    BY <2>1, <2>2 DEF SessionInv
<1>2. CASE Server!Stopped
  BY <1>1, <1>2 DEF Server!Stopped
<1>3. CASE ~terminated /\ \E s \in Sessions : Server!Accept(s) \/ Server!Close(s)
                                             \/ \E chunk \in Server!Chunks : Server!Read(s, chunk)
  BY <1>3, SessionAccept, SessionClose, SessionRead
<1> QED
  BY <1>1, <1>2, <1>3 DEF Server!Next

\* 10 bulk_server: a parser gets the lines that its client has sent, in order and
\* without a loss, as long as every read ended with a line, and nothing else if no
\* read was shorter than an earlier one; an exception that ends the process comes of
\* an empty line or of reads that did not keep to that (TSession::DoRead,
\* ExtractLinesFromBuffer).
THEOREM LinesHandledCorrect == Server!Spec => []LinesHandled
<1>1. SessionInv => LinesHandled
  <2> SUFFICES ASSUME SessionInv PROVE LinesHandled
    OBVIOUS
  <2>1. \A s \in Sessions : /\ Server!WholeLines(s) <=> WholeIn(reads[s])
                            /\ Server!Growing(s) <=> GrowingIn(reads[s])
                            /\ Server!ExtractLines(Server!Text(s)) = LinesIn(reads[s])
    BY DEF Server!WholeLines, Server!Growing, Server!Text, WholeIn, GrowingIn, LinesIn
  <2>2. \A s \in Sessions : state[s] # "none" => Given(reads[s], handled[handle[s]])
    BY DEF SessionInv, SessionOK
  <2>3. terminated => \E s \in Sessions : Fatal(reads[s])
    BY DEF SessionInv
  <2>4. ASSUME NEW s \in Sessions, state[s] # "none", Server!WholeLines(s)
        PROVE  LET sent == Server!UpToEmpty(Server!ExtractLines(Server!Text(s)))
               IN  /\ Server!Within(sent, handled[handle[s]])
                   /\ Server!Growing(s) => handled[handle[s]] = sent
    BY <2>1, <2>2, <2>4 DEF Given
  <2>5. terminated =>
        \E s \in Sessions : \/ << >> \in Server!ToSet(Server!ExtractLines(Server!Text(s)))
                            \/ ~(Server!WholeLines(s) /\ Server!Growing(s))
    BY <2>1, <2>3 DEF Fatal
  <2> QED
    BY <2>4, <2>5 DEF LinesHandled, Server!LinesHandled
<1> QED
  BY <1>1, SessionStart, SessionStep, PTL DEF Server!Spec
===============================================================================
