----------------------------- MODULE BracesProofs -----------------------------
(***************************************************************************)
(* What a line more does to the reference of Braces: to the counts and     *)
(* the depth, to the outermost pairs of braces, and to the bulks.          *)
(* BulkServerProofs, AsyncProofs and SmallProgramsProofs rest on these.    *)
(***************************************************************************)
EXTENDS Braces, FiniteSetTheorems, SequenceTheorems, TLAPS

-------------------------------------------------------------------------------
(* Counts and depths *)

LEMMA CountType ==
    ASSUME NEW list, NEW n \in Nat, NEW line
    PROVE  Count(list, n, line) \in Nat /\ IsFiniteSet({i \in 1 .. n : list[i] = line})
  <1>1. IsFiniteSet(1 .. n)
    BY FS_Interval
  <1>2. IsFiniteSet({i \in 1 .. n : list[i] = line})
    BY <1>1, FS_Subset
  <1> QED
    BY <1>2, FS_CardinalityType DEF Count

LEMMA CountStep ==
    ASSUME NEW list, NEW n \in Nat, NEW line
    PROVE  /\ Count(list, 0, line) = 0
           /\ list[n + 1] = line => Count(list, n + 1, line) = Count(list, n, line) + 1
           /\ list[n + 1] # line => Count(list, n + 1, line) = Count(list, n, line)
  <1> DEFINE S(m) == {i \in 1 .. m : list[i] = line}
  <1>1. S(0) = {}
    OBVIOUS
  <1>2. Count(list, 0, line) = 0
    BY <1>1, FS_EmptySet DEF Count
  <1>3. IsFiniteSet(S(n)) /\ n + 1 \notin S(n)
    BY CountType
  <1>4. ASSUME list[n + 1] = line PROVE Count(list, n + 1, line) = Count(list, n, line) + 1
    <2>1. S(n + 1) = S(n) \union {n + 1}
      BY <1>4
    <2>2. Cardinality(S(n) \union {n + 1}) = Cardinality(S(n)) + 1
      BY <1>3, FS_AddElement
    <2> QED
      BY <2>1, <2>2 DEF Count
  <1>5. ASSUME list[n + 1] # line PROVE Count(list, n + 1, line) = Count(list, n, line)
    <2>1. S(n + 1) = S(n)
      BY <1>5
    <2> QED
      BY <2>1 DEF Count
  <1> QED
    BY <1>2, <1>4, <1>5

LEMMA CountGrows ==
    ASSUME NEW list, NEW m \in Nat, NEW n \in Nat, m <= n, NEW line
    PROVE  Count(list, m, line) <= Count(list, n, line)
  <1>1. {i \in 1 .. m : list[i] = line} \subseteq {i \in 1 .. n : list[i] = line}
    OBVIOUS
  <1> QED
    BY <1>1, CountType, FS_Subset DEF Count

LEMMA CountPrefix ==
    ASSUME NEW list, NEW longer, NEW n \in Nat, \A i \in 1 .. n : longer[i] = list[i]
    PROVE  \A line : Count(longer, n, line) = Count(list, n, line)
  <1>1. \A line : {i \in 1 .. n : longer[i] = line} = {i \in 1 .. n : list[i] = line}
    OBVIOUS
  <1> QED
    BY <1>1 DEF Count

LEMMA DepthType ==
    ASSUME NEW list, NEW n \in Nat
    PROVE  Depth(list, n) \in Int
  <1>1. PICK a \in Nat : a = Count(list, n, "open")
    BY CountType
  <1>2. PICK b \in Nat : b = Count(list, n, "close")
    BY CountType
  <1>3. Depth(list, n) = a - b
    BY <1>1, <1>2 DEF Depth
  <1> QED
    BY <1>3

\* Up to the old end nothing changes, ...
LEMMA LinesKept ==
    ASSUME NEW list \in Seq(LineKinds), NEW line \in LineKinds, NEW n \in 0 .. Len(list)
    PROVE  /\ \A x : Count(Append(list, line), n, x) = Count(list, n, x)
           /\ Depth(Append(list, line), n) = Depth(list, n)
           /\ Opening(Append(list, line), n) = Opening(list, n)
  <1> DEFINE longer == Append(list, line)
  <1>1. Len(list) \in Nat /\ n \in Nat
    BY LenProperties
  <1>2. \A i \in 1 .. Len(list) : longer[i] = list[i]
    BY AppendProperties
  <1> HIDE DEF longer
  <1>3. ASSUME NEW k \in 0 .. n PROVE \A x : Count(longer, k, x) = Count(list, k, x)
    <2>1. k \in Nat /\ \A i \in 1 .. k : longer[i] = list[i]
      BY <1>1, <1>2
    <2> QED
      BY <2>1, CountPrefix
  <1>4. \A k \in 0 .. n : Depth(longer, k) = Depth(list, k)
    BY <1>3 DEF Depth
  <1>5. n \in 0 .. n /\ \A i \in 1 .. n : i - 1 \in 0 .. n /\ i \in 1 .. Len(list)
    BY <1>1
  <1>6. Opening(longer, n) = Opening(list, n)
    BY <1>2, <1>4, <1>5 DEF Opening
  <1> QED
    BY <1>3, <1>4, <1>5, <1>6 DEF longer

\* ... and with it one line more is counted.
LEMMA LineAdded ==
    ASSUME NEW list \in Seq(LineKinds), NEW line \in LineKinds
    PROVE  /\ Append(list, line) \in Seq(LineKinds)
           /\ Len(Append(list, line)) = Len(list) + 1
           /\ Len(list) \in Nat
           /\ DOMAIN list = 1 .. Len(list)
           /\ DOMAIN Append(list, line) = 1 .. Len(list) + 1
           /\ Append(list, line)[Len(list) + 1] = line
           /\ \A i \in 1 .. Len(list) : Append(list, line)[i] = list[i]
           /\ Count(Append(list, line), Len(list) + 1, "command")
              = Count(list, Len(list), "command") + IF line = "command" THEN 1 ELSE 0
           /\ Depth(Append(list, line), Len(list) + 1)
              = Depth(list, Len(list)) + IF line = "open" THEN 1 ELSE IF line = "close" THEN -1 ELSE 0
           /\ Opening(Append(list, line), Len(list) + 1)
              = Opening(list, Len(list))
                \union IF line = "open" /\ Depth(list, Len(list)) = 0 THEN {Len(list) + 1} ELSE {}
  <1> DEFINE longer == Append(list, line)
             N == Len(list)
  <1>1. N \in Nat /\ DOMAIN list = 1 .. N /\ N \in 0 .. N
    BY LenProperties
  <1>2. /\ longer \in Seq(LineKinds) /\ Len(longer) = N + 1 /\ longer[N + 1] = line
        /\ \A i \in 1 .. N : longer[i] = list[i]
    BY AppendProperties
  <1>3. DOMAIN longer = 1 .. N + 1
    BY <1>2, LenProperties
  <1>4. /\ \A x : Count(longer, N, x) = Count(list, N, x)
        /\ Depth(longer, N) = Depth(list, N)
        /\ Opening(longer, N) = Opening(list, N)
    BY <1>1, LinesKept
  <1> HIDE DEF longer, N
  <1>5. \A x : /\ longer[N + 1] = x => Count(longer, N + 1, x) = Count(list, N, x) + 1
               /\ longer[N + 1] # x => Count(longer, N + 1, x) = Count(list, N, x)
    BY <1>1, <1>4, CountStep
  <1>6. \A x : Count(list, N, x) \in Nat
    BY <1>1, CountType
  <1>7. Count(longer, N + 1, "command")
          = Count(list, N, "command") + IF line = "command" THEN 1 ELSE 0
    BY <1>2, <1>5, <1>6
  <1>8. Depth(longer, N + 1)
          = Depth(list, N) + IF line = "open" THEN 1 ELSE IF line = "close" THEN -1 ELSE 0
    <2>1. PICK a \in Nat : a = Count(list, N, "open")
      BY <1>6
    <2>2. PICK b \in Nat : b = Count(list, N, "close")
      BY <1>6
    <2>3. Count(longer, N + 1, "open") = IF line = "open" THEN a + 1 ELSE a
      BY <1>2, <1>5, <2>1
    <2>4. Count(longer, N + 1, "close") = IF line = "close" THEN b + 1 ELSE b
      BY <1>2, <1>5, <2>2
    <2>5. Depth(list, N) = a - b
      BY <2>1, <2>2 DEF Depth
    <2>6. Depth(longer, N + 1) = Count(longer, N + 1, "open") - Count(longer, N + 1, "close")
      BY DEF Depth
    <2> QED
      BY <2>3, <2>4, <2>5, <2>6
  <1>9. Opening(longer, N + 1)
          = Opening(list, N) \union IF line = "open" /\ Depth(list, N) = 0 THEN {N + 1} ELSE {}
    <2>1. Opening(longer, N + 1)
            = {i \in 1 .. N + 1 : longer[i] = "open" /\ Depth(longer, i - 1) = 0}
      BY DEF Opening
    <2>2. Opening(longer, N) = {i \in 1 .. N : longer[i] = "open" /\ Depth(longer, i - 1) = 0}
      BY DEF Opening
    <2>3. (N + 1) - 1 = N /\ 1 .. N + 1 = 1 .. N \union {N + 1}
      BY <1>1
    <2> QED
      BY <1>2, <1>4, <2>1, <2>2, <2>3
  <1> QED
    BY <1>1, <1>2, <1>3, <1>7, <1>8, <1>9 DEF longer, N

LEMMA LineCounts ==
    ASSUME NEW list \in Seq(LineKinds)
    PROVE  /\ Count(Append(list, "command"), Len(list) + 1, "command")
              = Count(list, Len(list), "command") + 1
           /\ Depth(Append(list, "command"), Len(list) + 1) = Depth(list, Len(list))
           /\ Count(Append(list, "open"), Len(list) + 1, "command")
              = Count(list, Len(list), "command")
           /\ Depth(Append(list, "open"), Len(list) + 1) = Depth(list, Len(list)) + 1
           /\ Count(Append(list, "close"), Len(list) + 1, "command")
              = Count(list, Len(list), "command")
           /\ Depth(Append(list, "close"), Len(list) + 1) = Depth(list, Len(list)) - 1
  <1>1. Len(list) \in Nat
    BY LenProperties
  <1>2. PICK n \in Nat : n = Count(list, Len(list), "command")
    BY <1>1, CountType
  <1>3. PICK d \in Int : d = Depth(list, Len(list))
    BY <1>1, DepthType
  <1>4. "command" \in LineKinds /\ "open" \in LineKinds /\ "close" \in LineKinds
    BY DEF LineKinds
  <1>5. /\ Count(Append(list, "command"), Len(list) + 1, "command") = n + 1
        /\ Depth(Append(list, "command"), Len(list) + 1) = d + 0
    BY <1>2, <1>3, <1>4, LineAdded
  <1>6. /\ Count(Append(list, "open"), Len(list) + 1, "command") = n + 0
        /\ Depth(Append(list, "open"), Len(list) + 1) = d + 1
    BY <1>2, <1>3, <1>4, LineAdded
  <1>7. /\ Count(Append(list, "close"), Len(list) + 1, "command") = n + 0
        /\ Depth(Append(list, "close"), Len(list) + 1) = d - 1
    BY <1>2, <1>3, <1>4, LineAdded
  <1> QED
    BY <1>2, <1>3, <1>5, <1>6, <1>7

-------------------------------------------------------------------------------
(* Outermost pairs of braces *)

LEMMA PairsKept ==
    ASSUME NEW list \in Seq(LineKinds), NEW line \in LineKinds,
           NEW i \in DOMAIN list, NEW j \in DOMAIN list
    PROVE  /\ IsOuterPair(Append(list, line), i, j) <=> IsOuterPair(list, i, j)
           /\ Between(Append(list, line), <<i, j>>) = Between(list, <<i, j>>)
  <1> DEFINE longer == Append(list, line)
  <1>1. /\ Len(list) \in Nat /\ DOMAIN list = 1 .. Len(list)
        /\ \A k \in 1 .. Len(list) : longer[k] = list[k]
    BY LineAdded
  <1>2. \A k \in 0 .. Len(list) : /\ \A x : Count(longer, k, x) = Count(list, k, x)
                                  /\ Depth(longer, k) = Depth(list, k)
                                  /\ Opening(longer, k) = Opening(list, k)
    BY LinesKept
  <1>3. i \in 0 .. Len(list) /\ j \in 0 .. Len(list) /\ \A k \in i .. j - 1 : k \in 0 .. Len(list)
    BY <1>1
  <1> HIDE DEF longer
  <1>4. IsOuterPair(longer, i, j) <=> IsOuterPair(list, i, j)
    BY <1>1, <1>2, <1>3 DEF IsOuterPair
  <1>5. Between(longer, <<i, j>>) = Between(list, <<i, j>>)
    BY <1>2, <1>3 DEF Between
  <1> QED
    BY <1>4, <1>5 DEF longer

\* Which pairs a line closes: none, unless it is the "}" of an open block.
LEMMA PairsAdded ==
    ASSUME NEW list \in Seq(LineKinds), NEW line \in LineKinds
    PROVE  /\ \A p \in OuterPairs(list) : Between(Append(list, line), p) = Between(list, p)
           /\ OuterPairs(list) \subseteq OuterPairs(Append(list, line))
           /\ \A p \in OuterPairs(Append(list, line)) \ OuterPairs(list) :
                 /\ p[1] \in DOMAIN list /\ p = <<p[1], Len(list) + 1>>
                 /\ line = "close" /\ Depth(list, Len(list)) = 1
                 /\ p[1] \in Opening(list, Len(list))
                 /\ \A k \in p[1] .. Len(list) : Depth(list, k) > 0
           /\ \A i \in Opening(list, Len(list)) :
                 /\ line = "close" /\ Depth(list, Len(list)) = 1
                 /\ \A k \in i .. Len(list) : Depth(list, k) > 0
                 => <<i, Len(list) + 1>> \in OuterPairs(Append(list, line))
  <1> DEFINE longer == Append(list, line)
             N == Len(list)
  <1>1. /\ N \in Nat /\ DOMAIN list = 1 .. N /\ DOMAIN longer = 1 .. N + 1
        /\ longer[N + 1] = line
        /\ Depth(longer, N + 1)
           = Depth(list, N) + IF line = "open" THEN 1 ELSE IF line = "close" THEN -1 ELSE 0
        /\ Opening(longer, N + 1)
           = Opening(list, N) \union IF line = "open" /\ Depth(list, N) = 0 THEN {N + 1} ELSE {}
    BY LineAdded
  <1>2. \A k \in 0 .. N : Depth(longer, k) = Depth(list, k)
    BY LinesKept
  <1>3. Depth(list, N) \in Int
    BY <1>1, DepthType
  <1>4. \A i, j \in DOMAIN list : /\ IsOuterPair(longer, i, j) <=> IsOuterPair(list, i, j)
                                  /\ Between(longer, <<i, j>>) = Between(list, <<i, j>>)
    BY PairsKept
  <1>5. Opening(list, N) \subseteq 1 .. N
    BY DEF Opening
  <1> HIDE DEF longer, N
  <1>6. (N + 1) - 1 = N
    BY <1>1
  <1>7. ASSUME NEW i \in DOMAIN list
        PROVE  IsOuterPair(longer, i, N + 1)
                 <=> /\ line = "close" /\ Depth(list, N) = 1 /\ i \in Opening(list, N)
                     /\ \A k \in i .. N : Depth(list, k) > 0
    <2>1. i < N + 1 /\ \A k \in i .. N : Depth(longer, k) = Depth(list, k)
      BY <1>1, <1>2
    <2>2. line = "close" /\ Depth(longer, N + 1) = 0 <=> line = "close" /\ Depth(list, N) = 1
      BY <1>1, <1>3
    <2>3. line = "close" => Opening(longer, N + 1) = Opening(list, N)
      BY <1>1
    <2> QED
      BY <1>1, <1>6, <2>1, <2>2, <2>3 DEF IsOuterPair
  <1>8. \A p \in OuterPairs(list) : /\ p \in (DOMAIN list) \X (DOMAIN list)
                                    /\ IsOuterPair(list, p[1], p[2])
    BY DEF OuterPairs
  <1>9. \A p \in OuterPairs(list) : Between(longer, p) = Between(list, p)
    <2> TAKE p \in OuterPairs(list)
    <2>1. p = <<p[1], p[2]>> /\ p[1] \in DOMAIN list /\ p[2] \in DOMAIN list
      BY <1>8
    <2> QED
      BY <1>4, <2>1
  <1>10. OuterPairs(list) \subseteq OuterPairs(longer)
    <2> SUFFICES ASSUME NEW p \in OuterPairs(list) PROVE p \in OuterPairs(longer)
      OBVIOUS
    <2>1. p[1] \in DOMAIN list /\ p[2] \in DOMAIN list
      BY <1>8
    <2>2. IsOuterPair(longer, p[1], p[2]) /\ p \in (DOMAIN longer) \X (DOMAIN longer)
      BY <1>1, <1>4, <1>8, <2>1
    <2> QED
      BY <2>2 DEF OuterPairs
  <1>11. ASSUME NEW p \in OuterPairs(longer) \ OuterPairs(list)
         PROVE  /\ p[1] \in DOMAIN list /\ p = <<p[1], N + 1>>
                /\ line = "close" /\ Depth(list, N) = 1 /\ p[1] \in Opening(list, N)
                /\ \A k \in p[1] .. N : Depth(list, k) > 0
    <2>1. p \in (DOMAIN longer) \X (DOMAIN longer) /\ IsOuterPair(longer, p[1], p[2])
      BY DEF OuterPairs
    <2>2. p = <<p[1], p[2]>> /\ p[1] \in 1 .. N + 1 /\ p[2] \in 1 .. N + 1 /\ p[1] < p[2]
      BY <1>1, <2>1 DEF IsOuterPair
    <2>3. p[1] \in DOMAIN list
      BY <1>1, <2>2
    <2>4. p[2] = N + 1
      <3> SUFFICES ASSUME p[2] \in DOMAIN list PROVE FALSE
        BY <1>1, <2>2
      <3>1. IsOuterPair(list, p[1], p[2]) /\ p \in (DOMAIN list) \X (DOMAIN list)
        BY <1>4, <2>1, <2>2, <2>3
      <3> QED
        BY <3>1 DEF OuterPairs
    <2> QED
      BY <1>7, <2>1, <2>2, <2>3, <2>4
  <1>12. ASSUME NEW i \in Opening(list, N), line = "close", Depth(list, N) = 1,
                \A k \in i .. N : Depth(list, k) > 0
         PROVE  <<i, N + 1>> \in OuterPairs(longer)
    <2>1. i \in DOMAIN list /\ i \in DOMAIN longer /\ N + 1 \in DOMAIN longer
      BY <1>1, <1>5
    <2>2. IsOuterPair(longer, i, N + 1)
      BY <1>7, <1>12, <2>1
    <2> QED
      BY <2>1, <2>2 DEF OuterPairs
  <1> QED
    BY <1>9, <1>10, <1>11, <1>12 DEF longer, N

\* Brace i opened the block that is open at the end of the list.
IsOpen(list, i) ==
    /\ i \in Opening(list, Len(list))
    /\ \A k \in i .. Len(list) : Depth(list, k) > 0

Enclosed(list) == {Between(list, p) : p \in OuterPairs(list)} \ {{}}

LEMMA OneOpen ==
    ASSUME NEW list \in Seq(LineKinds), NEW i, NEW j, IsOpen(list, i), IsOpen(list, j)
    PROVE  i = j /\ i \in DOMAIN list
  <1>1. Len(list) \in Nat /\ DOMAIN list = 1 .. Len(list)
    BY LenProperties
  <1>2. /\ i \in 1 .. Len(list) /\ Depth(list, i - 1) = 0
        /\ j \in 1 .. Len(list) /\ Depth(list, j - 1) = 0
    BY DEF IsOpen, Opening
  <1>3. ~ (i < j)
    <2> SUFFICES ASSUME i < j PROVE FALSE
      OBVIOUS
    <2>1. j - 1 \in i .. Len(list)
      BY <1>1, <1>2
    <2> QED
      BY <1>2, <2>1 DEF IsOpen
  <1>4. ~ (j < i)
    <2> SUFFICES ASSUME j < i PROVE FALSE
      OBVIOUS
    <2>1. i - 1 \in j .. Len(list)
      BY <1>1, <1>2
    <2> QED
      BY <1>2, <2>1 DEF IsOpen
  <1> QED
    BY <1>1, <1>2, <1>3, <1>4

LEMMA StillOpen ==
    ASSUME NEW list \in Seq(LineKinds), NEW line \in LineKinds, NEW i, IsOpen(list, i),
           Depth(Append(list, line), Len(list) + 1) > 0
    PROVE  /\ IsOpen(Append(list, line), i)
           /\ \A x : Count(Append(list, line), i, x) = Count(list, i, x)
  <1> DEFINE longer == Append(list, line)
             N == Len(list)
  <1>1. /\ N \in Nat /\ DOMAIN list = 1 .. N /\ Len(longer) = N + 1
        /\ Opening(list, N) \subseteq Opening(longer, N + 1)
    BY LineAdded
  <1>2. \A k \in 0 .. N : /\ Depth(longer, k) = Depth(list, k)
                          /\ \A x : Count(longer, k, x) = Count(list, k, x)
    BY LinesKept
  <1>3. i \in 1 .. N
    BY <1>1, OneOpen
  <1>4. \A k \in i .. N + 1 : k = N + 1 \/ (k \in i .. N /\ k \in 0 .. N)
    BY <1>1, <1>3
  <1> HIDE DEF longer, N
  <1>5. IsOpen(longer, i)
    BY <1>1, <1>2, <1>4 DEF IsOpen, longer, N
  <1>6. \A x : Count(longer, i, x) = Count(list, i, x)
    BY <1>2, <1>3
  <1> QED
    BY <1>5, <1>6 DEF longer

LEMMA OpensNow ==
    ASSUME NEW list \in Seq(LineKinds), Depth(list, Len(list)) = 0
    PROVE  IsOpen(Append(list, "open"), Len(list) + 1)
  <1> DEFINE longer == Append(list, "open")
             N == Len(list)
  <1>0. "open" \in LineKinds
    BY DEF LineKinds
  <1>1. /\ N \in Nat /\ Len(longer) = N + 1
        /\ Depth(longer, N + 1) = 0 + 1
        /\ Opening(longer, N + 1) = Opening(list, N) \union {N + 1}
    BY <1>0, LineAdded
  <1>2. \A k \in N + 1 .. N + 1 : k = N + 1
    BY <1>1
  <1> HIDE DEF longer, N
  <1> QED
    BY <1>1, <1>2 DEF IsOpen, longer, N

LEMMA EnclosedKept ==
    ASSUME NEW list \in Seq(LineKinds), NEW line \in LineKinds,
           line # "close" \/ Depth(list, Len(list)) # 1
    PROVE  Enclosed(Append(list, line)) = Enclosed(list)
  <1>1. OuterPairs(Append(list, line)) = OuterPairs(list)
    BY PairsAdded
  <1>2. \A p \in OuterPairs(list) : Between(Append(list, line), p) = Between(list, p)
    BY PairsAdded
  <1> QED
    BY <1>1, <1>2 DEF Enclosed

LEMMA EnclosedAdded ==
    ASSUME NEW list \in Seq(LineKinds), Depth(list, Len(list)) = 1, NEW i, IsOpen(list, i)
    PROVE  Enclosed(Append(list, "close"))
           = Enclosed(list)
             \union ({Count(list, i, "command") + 1 .. Count(list, Len(list), "command")} \ {{}})
  <1> DEFINE longer == Append(list, "close")
             N == Len(list)
             new == Count(list, i, "command") + 1 .. Count(list, N, "command")
  <1>0. "close" \in LineKinds
    BY DEF LineKinds
  <1>1. i \in DOMAIN list
    BY OneOpen
  <1>2. <<i, N + 1>> \in OuterPairs(longer)
    BY <1>0, PairsAdded DEF IsOpen
  <1>3. \A p \in OuterPairs(longer) \ OuterPairs(list) : p = <<i, N + 1>>
    <2> TAKE p \in OuterPairs(longer) \ OuterPairs(list)
    <2>1. p = <<p[1], N + 1>> /\ IsOpen(list, p[1])
      BY <1>0, PairsAdded DEF IsOpen
    <2>2. p[1] = i
      BY <2>1, OneOpen
    <2> QED
      BY <2>1, <2>2
  <1>4. /\ OuterPairs(list) \subseteq OuterPairs(longer)
        /\ \A p \in OuterPairs(list) : Between(longer, p) = Between(list, p)
    BY <1>0, PairsAdded
  <1>5. Between(longer, <<i, N + 1>>) = new
    <2>1. i \in 0 .. N /\ DOMAIN list = 1 .. N
      BY <1>0, <1>1, LineAdded
    <2>2. Count(longer, i, "command") = Count(list, i, "command")
      BY <1>0, <2>1, LinesKept
    <2>3. Count(longer, N + 1, "command") = Count(list, N, "command") + 0
      BY <1>0, LineAdded
    <2>4. Count(list, N, "command") \in Nat
      BY <1>0, LineAdded, CountType
    <2> QED
      BY <2>2, <2>3, <2>4 DEF Between
  <1>6. OuterPairs(longer) = OuterPairs(list) \union {<<i, N + 1>>}
    BY <1>2, <1>3, <1>4
  <1> HIDE DEF longer, N, new
  <1>7. {Between(longer, p) : p \in OuterPairs(longer)}
          = {Between(list, p) : p \in OuterPairs(list)} \union {new}
    BY <1>4, <1>5, <1>6
  <1> QED
    BY <1>7 DEF Enclosed, longer, N, new

-------------------------------------------------------------------------------
(* Bulks: the commands of a list and their lines *)

Total(list) == Count(list, Len(list), "command")

\* Every command has its line.
LinesFound(list) ==
    \A m \in Commands(list) :
        \E i \in DOMAIN list : list[i] = "command" /\ Count(list, i, "command") = m

\* The commands a further one would be counted with.
Current(list) ==
    {m \in Commands(list) :
        /\ InBraces(list, m) <=> Depth(list, Len(list)) > 0
        /\ Opening(list, LineOf(list, m)) = Opening(list, Len(list))}

LEMMA LineOfIs ==
    ASSUME NEW list \in Seq(LineKinds), NEW i \in DOMAIN list, list[i] = "command"
    PROVE  LineOf(list, Count(list, i, "command")) = i
  <1>1. DOMAIN list = 1 .. Len(list) /\ Len(list) \in Nat
    BY LenProperties
  <1>2. ASSUME NEW j \in DOMAIN list, NEW k \in DOMAIN list, list[k] = "command", j < k
        PROVE  Count(list, j, "command") < Count(list, k, "command")
    <2>1. j \in Nat /\ k - 1 \in Nat /\ j <= k - 1 /\ (k - 1) + 1 = k
      BY <1>1, <1>2
    <2>2. Count(list, j, "command") <= Count(list, k - 1, "command")
      BY <2>1, CountGrows
    <2>3. Count(list, (k - 1) + 1, "command") = Count(list, k - 1, "command") + 1
      BY <1>2, <2>1, CountStep
    <2>4. Count(list, j, "command") \in Nat /\ Count(list, k - 1, "command") \in Nat
      BY <2>1, CountType
    <2> QED
      BY <2>1, <2>2, <2>3, <2>4
  <1>3. ASSUME NEW j \in DOMAIN list, list[j] = "command",
               Count(list, j, "command") = Count(list, i, "command")
        PROVE  j = i
    <2>1. Count(list, i, "command") \in Nat
      <3>1. i \in Nat
        BY <1>1
      <3> QED
        BY <3>1, CountType
    <2>2. ~ (i < j) /\ ~ (j < i)
      BY <1>2, <1>3, <2>1
    <2> QED
      BY <1>1, <2>2
  <1> QED
    BY <1>3 DEF LineOf

LEMMA LineOfCommand ==
    ASSUME NEW list \in Seq(LineKinds), LinesFound(list), NEW m \in Commands(list)
    PROVE  /\ LineOf(list, m) \in 1 .. Len(list)
           /\ list[LineOf(list, m)] = "command"
           /\ Count(list, LineOf(list, m), "command") = m
           /\ m \in Nat
  <1>1. PICK i \in DOMAIN list : list[i] = "command" /\ Count(list, i, "command") = m
    BY DEF LinesFound
  <1>2. LineOf(list, m) = i
    BY <1>1, LineOfIs
  <1>3. i \in 1 .. Len(list) /\ i \in Nat
    BY LenProperties
  <1>4. m \in Nat
    BY <1>1, <1>3, CountType
  <1> QED
    BY <1>1, <1>2, <1>3, <1>4

LEMMA TotalType ==
    ASSUME NEW list \in Seq(LineKinds)
    PROVE  Total(list) \in Nat /\ Commands(list) = 1 .. Total(list) /\ Len(list) \in Nat
  <1>1. Len(list) \in Nat
    BY LenProperties
  <1> QED
    BY <1>1, CountType DEF Total, Commands

\* A line more leaves the commands there are where they are.
LEMMA CommandsKept ==
    ASSUME NEW list \in Seq(LineKinds), NEW line \in LineKinds, LinesFound(list),
           NEW m \in Commands(list)
    PROVE  /\ m \in Commands(Append(list, line))
           /\ LineOf(Append(list, line), m) = LineOf(list, m)
           /\ InBraces(Append(list, line), m) <=> InBraces(list, m)
           /\ Opening(Append(list, line), LineOf(list, m)) = Opening(list, LineOf(list, m))
  <1> DEFINE longer == Append(list, line)
             i == LineOf(list, m)
  <1>1. i \in 1 .. Len(list) /\ list[i] = "command" /\ Count(list, i, "command") = m
    BY LineOfCommand
  <1>2. /\ longer \in Seq(LineKinds) /\ DOMAIN longer = 1 .. Len(list) + 1 /\ longer[i] = list[i]
        /\ Len(list) \in Nat
    BY <1>1, LineAdded
  <1>3. i \in 0 .. Len(list) /\ i \in DOMAIN longer
    BY <1>1, <1>2
  <1>4. /\ Count(longer, i, "command") = m /\ Depth(longer, i) = Depth(list, i)
        /\ Opening(longer, i) = Opening(list, i)
    BY <1>1, <1>3, LinesKept
  <1> HIDE DEF longer, i
  <1>5. LineOf(longer, m) = i
    BY <1>1, <1>2, <1>3, <1>4, LineOfIs
  <1>6. Total(longer) = Total(list) + (IF line = "command" THEN 1 ELSE 0)
    BY LineAdded DEF Total, longer
  <1>7. m \in Commands(longer)
    <2>1. Total(list) \in Nat /\ m \in 1 .. Total(list) /\ Commands(longer) = 1 .. Total(longer)
      BY <1>2, TotalType
    <2> QED
      BY <1>6, <2>1
  <1> QED
    BY <1>4, <1>5, <1>7 DEF InBraces, longer, i

\* The line of a command that comes last.
LEMMA CommandAdded ==
    ASSUME NEW list \in Seq(LineKinds), LinesFound(list)
    PROVE  /\ Append(list, "command") \in Seq(LineKinds)
           /\ Total(Append(list, "command")) = Total(list) + 1
           /\ Commands(Append(list, "command")) = Commands(list) \union {Total(list) + 1}
           /\ LineOf(Append(list, "command"), Total(list) + 1) = Len(list) + 1
           /\ InBraces(Append(list, "command"), Total(list) + 1) <=> Depth(list, Len(list)) > 0
           /\ Opening(Append(list, "command"), Len(list) + 1) = Opening(list, Len(list))
           /\ Depth(Append(list, "command"), Len(list) + 1) = Depth(list, Len(list))
           /\ LinesFound(Append(list, "command"))
  <1> DEFINE longer == Append(list, "command")
             N == Len(list)
             t == Total(list) + 1
  <1>0. "command" \in LineKinds /\ "command" # "open"
    BY DEF LineKinds
  <1>1. /\ longer \in Seq(LineKinds) /\ Len(longer) = N + 1 /\ N \in Nat
        /\ DOMAIN longer = 1 .. N + 1 /\ longer[N + 1] = "command"
        /\ \A i \in 1 .. N : longer[i] = list[i]
        /\ Opening(longer, N + 1) = Opening(list, N) \union {}
    BY <1>0, LineAdded
  <1>2. Count(longer, N + 1, "command") = t /\ Depth(longer, N + 1) = Depth(list, N)
    BY LineCounts DEF Total
  <1>3. Total(list) \in Nat /\ Commands(list) = 1 .. Total(list)
    BY TotalType
  <1>4. Total(longer) = t /\ Commands(longer) = 1 .. t
    BY <1>1, <1>2 DEF Total, Commands
  <1>5. N + 1 \in DOMAIN longer
    BY <1>1
  <1> HIDE DEF longer, N
  <1>6. LineOf(longer, t) = N + 1
    BY <1>1, <1>2, <1>5, LineOfIs
  <1>7. LinesFound(longer)
    <2>1. ASSUME NEW m \in Commands(list)
          PROVE  \E i \in DOMAIN longer : longer[i] = "command" /\ Count(longer, i, "command") = m
      <3>1. LineOf(list, m) \in 1 .. N /\ list[LineOf(list, m)] = "command"
            /\ Count(list, LineOf(list, m), "command") = m
        BY <2>1, LineOfCommand DEF N
      <3>2. Count(longer, LineOf(list, m), "command") = m
        <4>1. LineOf(list, m) \in 0 .. N
          BY <1>1, <3>1
        <4> QED
          BY <1>0, <3>1, <4>1, LinesKept DEF longer, N
      <3>3. LineOf(list, m) \in DOMAIN longer
        BY <1>1, <3>1
      <3> QED
        BY <1>1, <3>1, <3>2, <3>3
    <2>2. \A m \in Commands(longer) : m \in Commands(list) \/ m = t
      BY <1>3, <1>4
    <2> QED
      BY <1>1, <1>2, <1>5, <2>1, <2>2 DEF LinesFound
  <1>8. Commands(longer) = Commands(list) \union {t}
    BY <1>3, <1>4
  <1>9. InBraces(longer, t) <=> Depth(list, N) > 0
    BY <1>2, <1>6 DEF InBraces
  <1> QED
    BY <1>1, <1>2, <1>4, <1>6, <1>7, <1>8, <1>9 DEF longer, N

-------------------------------------------------------------------------------
(* Stretches and bulks *)

\* A line that is no command changes no stretch; ...
LEMMA StretchKept ==
    ASSUME NEW list \in Seq(LineKinds), NEW line \in LineKinds, LinesFound(list),
           line # "command"
    PROVE  /\ Commands(Append(list, line)) = Commands(list)
           /\ LinesFound(Append(list, line))
           /\ \A m \in Commands(list) : Stretch(Append(list, line), m) = Stretch(list, m)
  <1> DEFINE longer == Append(list, line)
  <1>1. /\ longer \in Seq(LineKinds) /\ Len(longer) = Len(list) + 1 /\ Len(list) \in Nat
        /\ DOMAIN longer = 1 .. Len(list) + 1 /\ DOMAIN list = 1 .. Len(list)
        /\ \A i \in 1 .. Len(list) : longer[i] = list[i]
        /\ Count(longer, Len(list) + 1, "command") = Count(list, Len(list), "command") + 0
    BY LineAdded
  <1>2. Commands(longer) = Commands(list)
    <2>1. Total(list) \in Nat /\ Commands(list) = 1 .. Total(list)
      BY TotalType
    <2> QED
      BY <1>1, <2>1 DEF Commands, Total
  <1>3. \A m \in Commands(list) :
           /\ LineOf(longer, m) = LineOf(list, m)
           /\ InBraces(longer, m) <=> InBraces(list, m)
           /\ Opening(longer, LineOf(list, m)) = Opening(list, LineOf(list, m))
    BY CommandsKept
  <1>4. LinesFound(longer)
    <2> SUFFICES ASSUME NEW m \in Commands(list)
                 PROVE  \E i \in DOMAIN longer :
                           longer[i] = "command" /\ Count(longer, i, "command") = m
      BY <1>2 DEF LinesFound
    <2>1. LineOf(list, m) \in 1 .. Len(list) /\ list[LineOf(list, m)] = "command"
          /\ Count(list, LineOf(list, m), "command") = m
      BY LineOfCommand
    <2>2. LineOf(list, m) \in 0 .. Len(list) /\ LineOf(list, m) \in DOMAIN longer
      BY <1>1, <2>1
    <2>3. Count(longer, LineOf(list, m), "command") = m
      BY <2>1, <2>2, LinesKept
    <2> QED
      BY <1>1, <2>1, <2>2, <2>3
  <1> HIDE DEF longer
  <1>5. \A m \in Commands(list) : Stretch(longer, m) = Stretch(list, m)
    <2> TAKE m \in Commands(list)
    <2>1. Stretch(longer, m) =
            {k \in Commands(list) : /\ InBraces(longer, k) = InBraces(longer, m)
                                    /\ Opening(longer, LineOf(longer, k)) = Opening(longer, LineOf(longer, m))}
      BY <1>2 DEF Stretch
    <2>2. Stretch(list, m) =
            {k \in Commands(list) : /\ InBraces(list, k) = InBraces(list, m)
                                    /\ Opening(list, LineOf(list, k)) = Opening(list, LineOf(list, m))}
      BY DEF Stretch
    <2>3. \A k : InBraces(list, k) \in BOOLEAN /\ InBraces(longer, k) \in BOOLEAN
      BY DEF InBraces
    <2> QED
      BY <1>3, <2>1, <2>2, <2>3
  <1> QED
    BY <1>2, <1>4, <1>5 DEF longer

\* ... a command extends the one that is current.
LEMMA StretchGrown ==
    ASSUME NEW list \in Seq(LineKinds), LinesFound(list)
    PROVE  LET longer == Append(list, "command")
               t == Total(list) + 1
           IN  /\ Current(longer) = Current(list) \union {t}
               /\ Stretch(longer, t) = Current(list) \union {t}
               /\ \A m \in Current(list) : /\ Stretch(list, m) = Current(list)
                                           /\ Stretch(longer, m) = Current(list) \union {t}
               /\ \A m \in Commands(list) \ Current(list) : Stretch(longer, m) = Stretch(list, m)
  <1> DEFINE longer == Append(list, "command")
             t == Total(list) + 1
             N == Len(list)
  <1>0. "command" \in LineKinds
    BY DEF LineKinds
  <1>1. /\ Commands(longer) = Commands(list) \union {t}
        /\ LineOf(longer, t) = N + 1
        /\ InBraces(longer, t) <=> Depth(list, N) > 0
        /\ Opening(longer, N + 1) = Opening(list, N)
        /\ Depth(longer, N + 1) = Depth(list, N)
    BY CommandAdded
  <1>2. \A m \in Commands(list) :
           /\ LineOf(longer, m) = LineOf(list, m)
           /\ InBraces(longer, m) <=> InBraces(list, m)
           /\ Opening(longer, LineOf(list, m)) = Opening(list, LineOf(list, m))
    BY <1>0, CommandsKept
  <1>3. Len(longer) = N + 1
    BY <1>0, LineAdded
  <1> HIDE DEF longer, N, t
  <1>4. Current(list) = {m \in Commands(list) : /\ InBraces(list, m) <=> Depth(list, N) > 0
                                                /\ Opening(list, LineOf(list, m)) = Opening(list, N)}
    BY DEF Current, N
  <1>5. Current(longer) = Current(list) \union {t}
    <2>1. Current(longer) =
            {m \in Commands(longer) : /\ InBraces(longer, m) <=> Depth(longer, N + 1) > 0
                                      /\ Opening(longer, LineOf(longer, m)) = Opening(longer, N + 1)}
      BY <1>3 DEF Current
    <2> QED
      BY <1>1, <1>2, <1>4, <2>1
  <1>6. Stretch(longer, t) = Current(list) \union {t}
    <2>1. Stretch(longer, t) =
            {m \in Commands(longer) : /\ InBraces(longer, m) = InBraces(longer, t)
                                      /\ Opening(longer, LineOf(longer, m)) = Opening(longer, LineOf(longer, t))}
      BY DEF Stretch
    <2>2. \A m : InBraces(longer, m) \in BOOLEAN /\ InBraces(list, m) \in BOOLEAN
      BY DEF InBraces
    <2> QED
      BY <1>1, <1>2, <1>4, <2>1, <2>2
  <1>7. \A m \in Current(list) : Stretch(list, m) = Current(list)
    <2> TAKE m \in Current(list)
    <2>1. Stretch(list, m) =
            {k \in Commands(list) : /\ InBraces(list, k) = InBraces(list, m)
                                    /\ Opening(list, LineOf(list, k)) = Opening(list, LineOf(list, m))}
      BY DEF Stretch
    <2>2. \A k : InBraces(list, k) \in BOOLEAN
      BY DEF InBraces
    <2> QED
      BY <1>4, <2>1, <2>2
  <1>8. ASSUME NEW m \in Commands(list)
        PROVE  Stretch(longer, m) = Stretch(list, m) \union (IF m \in Current(list) THEN {t} ELSE {})
    <2>1. Stretch(longer, m) =
            {k \in Commands(longer) : /\ InBraces(longer, k) = InBraces(longer, m)
                                      /\ Opening(longer, LineOf(longer, k)) = Opening(longer, LineOf(longer, m))}
      BY DEF Stretch
    <2>2. Stretch(list, m) =
            {k \in Commands(list) : /\ InBraces(list, k) = InBraces(list, m)
                                    /\ Opening(list, LineOf(list, k)) = Opening(list, LineOf(list, m))}
      BY DEF Stretch
    <2>3. \A k : InBraces(list, k) \in BOOLEAN /\ InBraces(longer, k) \in BOOLEAN
      BY DEF InBraces
    <2>4. m \in Current(list) <=> t \in Stretch(longer, m)
      BY <1>1, <1>2, <1>4, <2>1, <2>3
    <2>5. \A k \in Commands(list) : k \in Stretch(longer, m) <=> k \in Stretch(list, m)
      BY <1>1, <1>2, <2>1, <2>2, <2>3
    <2>6. Stretch(list, m) \subseteq Commands(list) /\ Stretch(longer, m) \subseteq Commands(list) \union {t}
      BY <1>1, <2>1, <2>2
    <2>7. t \notin Commands(list)
      BY TotalType DEF t
    <2> QED
      BY <2>4, <2>5, <2>6, <2>7
  <1>9. Current(list) \subseteq Commands(list)
    BY <1>4
  <1> QED
    BY <1>5, <1>6, <1>7, <1>8, <1>9 DEF longer, t

\* Which bulk of the stretch from start on m belongs to.
Group(m, start, size) == (m - start) \div size

LEMMA DivLemma ==
    ASSUME NEW size \in Nat \ {0}, NEW q \in Nat, NEW x \in Nat
    PROVE  /\ q * size <= x /\ x < q * size + size => x \div size = q
           /\ x < q * size => x \div size # q /\ x \div size < q
           /\ q * size <= x => x \div size >= q
  <1>1. q * size + size = (q + 1) * size
    OBVIOUS
  <1>2. q * size <= x /\ x < (q + 1) * size => x \div size = q
    OBVIOUS
  <1>3. x < q * size => x \div size < q
    OBVIOUS
  <1>4. q * size <= x => x \div size >= q
    OBVIOUS
  <1>5. x < q * size => x \div size # q
    OBVIOUS
  <1> QED
    BY <1>1, <1>2, <1>3, <1>4, <1>5

LEMMA GroupIs ==
    ASSUME NEW size \in Nat \ {0}, NEW q \in Nat, NEW start \in Nat, NEW m \in Nat, start <= m
    PROVE  /\ start + q * size <= m /\ m < start + q * size + size => Group(m, start, size) = q
           /\ m < start + q * size => Group(m, start, size) < q
           /\ start + q * size <= m => Group(m, start, size) >= q
           /\ Group(m, start, size) \in Int
  <1>1. PICK x \in Nat : x = m - start
    OBVIOUS
  <1>2. PICK w \in Nat : w = q * size
    <2>1. q * size \in Nat
      OBVIOUS
    <2> QED
      BY <2>1
  <1>3. Group(m, start, size) = x \div size
    BY <1>1 DEF Group
  <1>4. /\ w <= x /\ x < w + size => x \div size = q
        /\ x < w => x \div size < q
        /\ w <= x => x \div size >= q
    BY <1>2, DivLemma
  <1>5. x \div size \in Int
    OBVIOUS
  <1> QED
    BY <1>1, <1>2, <1>3, <1>4, <1>5

\* A stretch that is an interval is printed as a whole ...
LEMMA BulkOfStretch ==
    ASSUME NEW list, NEW size, NEW n
    PROVE  /\ InBraces(list, n) \/ size = 0 => Bulk(list, size, n) = Stretch(list, n)
           /\ Bulk(list, size, n) \subseteq Stretch(list, n)
  BY DEF Bulk

\* ... or counted off from its first command.
LEMMA BulkCounted ==
    ASSUME NEW list, NEW size \in Nat \ {0}, NEW n \in Nat, NEW start \in Nat, NEW last \in Nat,
           Stretch(list, n) = start .. last, n \in start .. last, ~ InBraces(list, n),
           NEW m \in start .. last
    PROVE  m \in Bulk(list, size, n) <=> Group(m, start, size) = Group(n, start, size)
  <1> DEFINE place(k) == Cardinality({j \in Stretch(list, n) : j < k})
  <1>1. ASSUME NEW k \in start .. last PROVE place(k) = k - start
    <2>1. {j \in start .. last : j < k} = start .. k - 1
      OBVIOUS
    <2>2. Cardinality(start .. k - 1) = IF start > k - 1 THEN 0 ELSE (k - 1) - start + 1
      BY FS_Interval
    <2>3. Cardinality(start .. k - 1) = k - start
      BY <2>2
    <2> QED
      BY <2>1, <2>3
  <1>2. Bulk(list, size, n)
          = {k \in Stretch(list, n) : place(k) \div size = place(n) \div size}
    BY DEF Bulk
  <1> HIDE DEF place
  <1>3. place(m) \div size = Group(m, start, size) /\ place(n) \div size = Group(n, start, size)
    BY <1>1 DEF Group
  <1> QED
    BY <1>2, <1>3

\* Where the bulk with number q begins.
BulkStart(start, q, size) == start + q * size

\* The last bulk of an interval, and those before it.
LEMMA LastBulk ==
    ASSUME NEW list, NEW size \in Nat \ {0}, NEW start \in Nat, NEW last \in Nat, NEW q \in Nat,
           NEW first \in Nat, first = BulkStart(start, q, size), last - first < size,
           NEW n \in first .. last, Stretch(list, n) = start .. last, ~ InBraces(list, n)
    PROVE  Bulk(list, size, n) = first .. last
  <1>1. PICK w \in Nat : w = q * size
    <2>1. q * size \in Nat
      OBVIOUS
    <2> QED
      BY <2>1
  <1>2. first = start + w /\ n \in start .. last /\ n \in Nat
    BY <1>1 DEF BulkStart
  <1>3. \A m \in first .. last : Group(m, start, size) = q
    <2> TAKE m \in first .. last
    <2>1. m \in Nat /\ start <= m /\ start + w <= m /\ m < start + w + size
      BY <1>2
    <2> QED
      BY <1>1, <2>1, GroupIs
  <1>4. \A m \in start .. last : m < first => Group(m, start, size) # q
    <2> SUFFICES ASSUME NEW m \in start .. last, m < first PROVE Group(m, start, size) # q
      OBVIOUS
    <2>1. m \in Nat /\ start <= m /\ m < start + w
      BY <1>2
    <2>2. Group(m, start, size) < q /\ Group(m, start, size) \in Int
      BY <1>1, <2>1, GroupIs
    <2> QED
      BY <2>2
  <1>5. /\ Bulk(list, size, n) \subseteq start .. last
        /\ \A m \in start .. last :
              m \in Bulk(list, size, n) <=> Group(m, start, size) = Group(n, start, size)
    <2>1. Bulk(list, size, n) \subseteq start .. last
      BY BulkOfStretch
    <2>2. ASSUME NEW m \in start .. last
          PROVE  m \in Bulk(list, size, n) <=> Group(m, start, size) = Group(n, start, size)
      BY <1>2, BulkCounted
    <2> QED
      BY <2>1, <2>2
  <1>6. \A m : m \in first .. last <=> m \in start .. last /\ ~ (m < first)
    BY <1>2
  <1>7. \A m : m \in Bulk(list, size, n) <=> m \in first .. last
    BY <1>3, <1>4, <1>5, <1>6
  <1> QED
    BY <1>7

LEMMA EarlierBulk ==
    ASSUME NEW list, NEW longer, NEW size \in Nat \ {0}, NEW start \in Nat, NEW last \in Nat,
           NEW q \in Nat, NEW first \in Nat, first = BulkStart(start, q, size), first <= last + 1,
           NEW n \in start .. first - 1,
           Stretch(list, n) = start .. last, Stretch(longer, n) = start .. last + 1,
           ~ InBraces(list, n), ~ InBraces(longer, n)
    PROVE  Bulk(longer, size, n) = Bulk(list, size, n)
  <1>1. PICK w \in Nat : w = q * size
    <2>1. q * size \in Nat
      OBVIOUS
    <2> QED
      BY <2>1
  <1>2. PICK t \in Nat : t = last + 1
    OBVIOUS
  <1>3. /\ n \in start .. last /\ n \in start .. t /\ n \in Nat
        /\ start <= n /\ n < start + w /\ start <= t /\ start + w <= t
    BY <1>1, <1>2 DEF BulkStart
  <1>4. /\ Bulk(list, size, n) \subseteq start .. last
        /\ \A m \in start .. last :
              m \in Bulk(list, size, n) <=> Group(m, start, size) = Group(n, start, size)
    <2>1. Bulk(list, size, n) \subseteq start .. last
      BY <1>3, BulkOfStretch
    <2>2. ASSUME NEW m \in start .. last
          PROVE  m \in Bulk(list, size, n) <=> Group(m, start, size) = Group(n, start, size)
      BY <1>3, BulkCounted
    <2> QED
      BY <2>1, <2>2
  <1>5. /\ Bulk(longer, size, n) \subseteq start .. t
        /\ \A m \in start .. t :
              m \in Bulk(longer, size, n) <=> Group(m, start, size) = Group(n, start, size)
    <2>1. Bulk(longer, size, n) \subseteq start .. t
      BY <1>2, <1>3, BulkOfStretch
    <2>2. ASSUME NEW m \in start .. t
          PROVE  m \in Bulk(longer, size, n) <=> Group(m, start, size) = Group(n, start, size)
      BY <1>2, <1>3, BulkCounted
    <2> QED
      BY <2>1, <2>2
  <1>6. Group(n, start, size) < q /\ Group(n, start, size) \in Int
    BY <1>1, <1>3, GroupIs
  <1>7. Group(t, start, size) >= q /\ Group(t, start, size) \in Int
    BY <1>1, <1>3, GroupIs
  <1>8. Group(t, start, size) # Group(n, start, size)
    BY <1>6, <1>7
  <1>9. \A m : m \in start .. t <=> m \in start .. last \/ m = t
    BY <1>2, <1>3
  <1>10. \A m : m \in Bulk(longer, size, n) <=> m \in Bulk(list, size, n)
    BY <1>4, <1>5, <1>8, <1>9
  <1> QED
    BY <1>10

-------------------------------------------------------------------------------
(* Which commands are due *)

\* A line behind command n closes all braces; opens one.
ClosedLater(list, n) == \E j \in DOMAIN list : j > LineOf(list, n) /\ Depth(list, j) = 0
OpenedLater(list, n) == \E j \in DOMAIN list : j > LineOf(list, n) /\ list[j] = "open"

\* Before the input is over.
IsDue(list, size, n) == Due(list, size, FALSE, n)
DueNow(list, size) == {n \in Commands(list) : IsDue(list, size, n)}
BulksSoFar(list, size) == Bulks(list, size, FALSE)

LEMMA DueIs ==
    ASSUME NEW list, NEW size, NEW n
    PROVE  /\ InBraces(list, n) => (IsDue(list, size, n) <=> ClosedLater(list, n))
           /\ ~ InBraces(list, n) =>
                (IsDue(list, size, n) <=> \/ Cardinality(Bulk(list, size, n)) = size
                                          \/ OpenedLater(list, n))
  BY DEF IsDue, Due, ClosedLater, OpenedLater

LEMMA BulksSoFarAre ==
    ASSUME NEW list, NEW size
    PROVE  BulksSoFar(list, size) = {Bulk(list, size, n) : n \in DueNow(list, size)}
  BY DEF BulksSoFar, Bulks, DueNow, IsDue

LEMMA LaterAdded ==
    ASSUME NEW list \in Seq(LineKinds), NEW line \in LineKinds, LinesFound(list),
           NEW m \in Commands(list)
    PROVE  /\ ClosedLater(Append(list, line), m)
                <=> ClosedLater(list, m) \/ Depth(Append(list, line), Len(list) + 1) = 0
           /\ OpenedLater(Append(list, line), m) <=> OpenedLater(list, m) \/ line = "open"
  <1> DEFINE longer == Append(list, line)
             N == Len(list)
             i == LineOf(list, m)
  <1>1. /\ DOMAIN longer = 1 .. N + 1 /\ DOMAIN list = 1 .. N /\ N \in Nat
        /\ longer[N + 1] = line /\ \A j \in 1 .. N : longer[j] = list[j]
    BY LineAdded
  <1>2. i \in 1 .. N
    BY LineOfCommand
  <1>3. LineOf(longer, m) = i
    BY CommandsKept
  <1>4. \A j \in 1 .. N : Depth(longer, j) = Depth(list, j)
    BY <1>1, LinesKept
  <1> HIDE DEF longer, N, i
  <1>5. ClosedLater(longer, m)
          <=> \E j \in 1 .. N + 1 : j > i /\ Depth(longer, j) = 0
    BY <1>1, <1>3 DEF ClosedLater
  <1>6. ClosedLater(list, m) <=> \E j \in 1 .. N : j > i /\ Depth(list, j) = 0
    BY <1>1 DEF ClosedLater, i
  <1>7. OpenedLater(longer, m) <=> \E j \in 1 .. N + 1 : j > i /\ longer[j] = "open"
    BY <1>1, <1>3 DEF OpenedLater
  <1>8. OpenedLater(list, m) <=> \E j \in 1 .. N : j > i /\ list[j] = "open"
    BY <1>1 DEF OpenedLater, i
  <1>9. \A j : j \in 1 .. N + 1 <=> j \in 1 .. N \/ j = N + 1
    BY <1>1
  <1>10. N + 1 > i
    BY <1>1, <1>2
  <1>11. ClosedLater(longer, m) <=> ClosedLater(list, m) \/ Depth(longer, N + 1) = 0
    BY <1>4, <1>5, <1>6, <1>9, <1>10
  <1>12. OpenedLater(longer, m) <=> OpenedLater(list, m) \/ line = "open"
    BY <1>1, <1>7, <1>8, <1>9, <1>10
  <1> QED
    BY <1>11, <1>12 DEF longer, N

\* A line that is no command changes no bulk.
LEMMA BulkKept ==
    ASSUME NEW list \in Seq(LineKinds), NEW line \in LineKinds, LinesFound(list),
           line # "command", NEW size
    PROVE  \A m \in Commands(list) : Bulk(Append(list, line), size, m) = Bulk(list, size, m)
  <1> DEFINE longer == Append(list, line)
  <1>1. \A m \in Commands(list) : Stretch(longer, m) = Stretch(list, m)
    BY StretchKept
  <1>2. \A m \in Commands(list) : InBraces(longer, m) <=> InBraces(list, m)
    BY CommandsKept
  <1> HIDE DEF longer
  <1>3. \A m \in Commands(list) : Bulk(longer, size, m) = Bulk(list, size, m)
    BY <1>1, <1>2 DEF Bulk
  <1> QED
    BY <1>3 DEF longer

LEMMA DueBefore ==
    ASSUME NEW list, NEW size, NEW total \in Nat, Commands(list) = 1 .. total,
           NEW first \in Nat, first <= total + 1,
           \A n \in 1 .. total : IsDue(list, size, n) <=> n < first
    PROVE  DueNow(list, size) = 1 .. first - 1
  <1>1. DueNow(list, size) = {n \in 1 .. total : n < first}
    BY DEF DueNow
  <1>2. {n \in 1 .. total : n < first} = 1 .. first - 1
    OBVIOUS
  <1> QED
    BY <1>1, <1>2

\* If the commands in Old are in the same bulks as ever, and those in New are one
\* bulk, then this is what has been added.
LEMMA BulksSame ==
    ASSUME NEW list, NEW longer, NEW size, DueNow(longer, size) = DueNow(list, size),
           \A n \in DueNow(list, size) : Bulk(longer, size, n) = Bulk(list, size, n)
    PROVE  BulksSoFar(longer, size) = BulksSoFar(list, size)
  <1>1. BulksSoFar(list, size) = {Bulk(list, size, n) : n \in DueNow(list, size)}
    BY BulksSoFarAre
  <1>2. BulksSoFar(longer, size) = {Bulk(longer, size, n) : n \in DueNow(longer, size)}
    BY BulksSoFarAre
  <1> QED
    BY <1>1, <1>2

LEMMA BulksGrow ==
    ASSUME NEW list, NEW longer, NEW size, NEW New, New # {},
           DueNow(longer, size) = DueNow(list, size) \union New,
           \A n \in DueNow(list, size) : Bulk(longer, size, n) = Bulk(list, size, n),
           \A n \in New : Bulk(longer, size, n) = New
    PROVE  BulksSoFar(longer, size) = BulksSoFar(list, size) \union {New}
  <1> DEFINE Old == DueNow(list, size)
  <1>1. BulksSoFar(list, size) = {Bulk(list, size, n) : n \in Old}
    BY BulksSoFarAre
  <1>2. BulksSoFar(longer, size) = {Bulk(longer, size, n) : n \in Old \union New}
    BY BulksSoFarAre
  <1>3. {Bulk(longer, size, n) : n \in Old} = {Bulk(list, size, n) : n \in Old}
    OBVIOUS
  <1> HIDE DEF Old
  <1>4. {Bulk(longer, size, n) : n \in Old \union New}
          = {Bulk(longer, size, n) : n \in Old} \union {Bulk(longer, size, n) : n \in New}
    OBVIOUS
  <1>5. {Bulk(longer, size, n) : n \in New} = {New}
    OBVIOUS
  <1> QED
    BY <1>1, <1>2, <1>3, <1>4, <1>5

\* What is due stays due as long as its bulk does.
LEMMA DueKept ==
    ASSUME NEW list \in Seq(LineKinds), NEW line \in LineKinds, LinesFound(list),
           NEW size, NEW n \in Commands(list), IsDue(list, size, n),
           Bulk(Append(list, line), size, n) = Bulk(list, size, n)
    PROVE  IsDue(Append(list, line), size, n)
  <1>1. /\ ClosedLater(list, n) => ClosedLater(Append(list, line), n)
        /\ OpenedLater(list, n) => OpenedLater(Append(list, line), n)
    BY LaterAdded
  <1>2. InBraces(Append(list, line), n) <=> InBraces(list, n)
    BY CommandsKept
  <1>3. CASE InBraces(list, n)
    <2>1. ClosedLater(list, n)
      BY <1>3, DueIs
    <2> QED
      BY <1>1, <1>2, <1>3, <2>1, DueIs
  <1>4. CASE ~ InBraces(list, n)
    <2>1. Cardinality(Bulk(list, size, n)) = size \/ OpenedLater(list, n)
      BY <1>4, DueIs
    <2>2. Cardinality(Bulk(Append(list, line), size, n)) = size \/ OpenedLater(Append(list, line), n)
      BY <1>1, <2>1
    <2> QED
      BY <1>2, <1>4, <2>2, DueIs
  <1> QED
    BY <1>3, <1>4

-------------------------------------------------------------------------------
(* The invariant of a parser that prints every bulk when it is due *)

\* Inside braces the commands from first on are those since the outermost brace.
InsideFrom(list, first) ==
    /\ Current(list) = first .. Total(list)
    /\ \A m \in Commands(list) :
          Opening(list, LineOf(list, m)) = Opening(list, Len(list)) => InBraces(list, m)

\* Outside they are what is left when the bulks since start are counted off.
CountedFrom(list, size, first, start) ==
    /\ Current(list) = start .. Total(list)
    /\ size = 0 => first = start
    /\ size > 0 => \E q \in Nat : first = BulkStart(start, q, size) /\ Total(list) - first < size

Shaped(list, size, first) ==
    /\ list \in Seq(LineKinds)
    /\ LinesFound(list)
    /\ first \in 1 .. Total(list) + 1
    /\ Depth(list, Len(list)) >= 0
    /\ Depth(list, Len(list)) > 0 => InsideFrom(list, first)
    /\ Depth(list, Len(list)) = 0 => \E start \in 1 .. first : CountedFrom(list, size, first, start)

\* Exactly the commands before first are due.
Grouped(list, size, first) ==
    /\ Shaped(list, size, first)
    /\ \A n \in 1 .. Total(list) : IsDue(list, size, n) <=> n < first

LEMMA ShapedType ==
    ASSUME NEW list, NEW size \in Nat, NEW first, Shaped(list, size, first)
    PROVE  /\ list \in Seq(LineKinds) /\ Len(list) \in Nat
           /\ Total(list) \in Nat /\ Commands(list) = 1 .. Total(list)
           /\ first \in Nat \ {0} /\ first <= Total(list) + 1
           /\ Depth(list, Len(list)) \in Nat
  <1>1. /\ list \in Seq(LineKinds) /\ first \in 1 .. Total(list) + 1
        /\ Depth(list, Len(list)) >= 0
    BY DEF Shaped
  <1>2. Total(list) \in Nat /\ Commands(list) = 1 .. Total(list) /\ Len(list) \in Nat
    BY <1>1, TotalType
  <1>3. Depth(list, Len(list)) \in Int
    BY <1>2, DepthType
  <1> QED
    BY <1>1, <1>2, <1>3

\* The commands from first on are a bulk of their own.
LEMMA LastGroup ==
    ASSUME NEW list, NEW size \in Nat, NEW first, Shaped(list, size, first),
           NEW n \in first .. Total(list)
    PROVE  /\ Bulk(list, size, n) = first .. Total(list)
           /\ InBraces(list, n) <=> Depth(list, Len(list)) > 0
           /\ n \in Commands(list)
  <1>1. /\ list \in Seq(LineKinds) /\ Total(list) \in Nat /\ Commands(list) = 1 .. Total(list)
        /\ first \in Nat \ {0} /\ first <= Total(list) + 1 /\ Depth(list, Len(list)) \in Nat
    BY ShapedType
  <1>2. LinesFound(list)
    BY DEF Shaped
  <1>3. \A m \in Current(list) : Stretch(list, m) = Current(list)
    BY <1>1, <1>2, StretchGrown
  <1>4. \A m \in Current(list) : InBraces(list, m) <=> Depth(list, Len(list)) > 0
    BY DEF Current
  <1>5. n \in Commands(list) /\ n \in Nat
    BY <1>1
  <1>6. CASE Depth(list, Len(list)) > 0
    <2>1. Current(list) = first .. Total(list)
      BY <1>6 DEF Shaped, InsideFrom
    <2> QED
      BY <1>3, <1>4, <1>5, <1>6, <2>1, BulkOfStretch
  <1>7. CASE Depth(list, Len(list)) = 0
    <2>1. PICK start \in 1 .. first : CountedFrom(list, size, first, start)
      BY <1>7 DEF Shaped
    <2>2. Current(list) = start .. Total(list) /\ start \in Nat
      BY <1>1, <2>1 DEF CountedFrom
    <2>3. n \in start .. Total(list)
      BY <1>1, <2>1, <2>2
    <2>4. Stretch(list, n) = start .. Total(list) /\ ~ InBraces(list, n)
      BY <1>3, <1>4, <1>7, <2>2, <2>3
    <2>5. CASE size = 0
      BY <1>5, <1>7, <2>1, <2>4, <2>5, BulkOfStretch DEF CountedFrom
    <2>6. CASE size > 0
      <3>1. PICK q \in Nat : first = BulkStart(start, q, size) /\ Total(list) - first < size
        BY <2>1, <2>6 DEF CountedFrom
      <3>2. size \in Nat \ {0} /\ first \in Nat
        BY <1>1, <2>6
      <3>3. Bulk(list, size, n) = first .. Total(list)
        BY <1>1, <2>2, <2>4, <3>1, <3>2, LastBulk
      <3> QED
        BY <1>5, <1>7, <2>4, <3>3
    <2> QED
      BY <2>5, <2>6
  <1> QED
    BY <1>1, <1>6, <1>7

\* A command changes no bulk before first, ...
LEMMA EarlierKept ==
    ASSUME NEW list, NEW size \in Nat, NEW first, Shaped(list, size, first),
           NEW n \in 1 .. first - 1
    PROVE  Bulk(Append(list, "command"), size, n) = Bulk(list, size, n)
  <1> DEFINE longer == Append(list, "command")
  <1>1. /\ list \in Seq(LineKinds) /\ Total(list) \in Nat /\ Commands(list) = 1 .. Total(list)
        /\ first \in Nat \ {0} /\ first <= Total(list) + 1 /\ Depth(list, Len(list)) \in Nat
    BY ShapedType
  <1>2. LinesFound(list) /\ "command" \in LineKinds
    BY DEF Shaped, LineKinds
  <1>3. n \in Commands(list) /\ n \in Nat
    BY <1>1
  <1>4. InBraces(longer, n) <=> InBraces(list, n)
    BY <1>1, <1>2, <1>3, CommandsKept
  <1>5. /\ \A m \in Current(list) : /\ Stretch(list, m) = Current(list)
                                    /\ Stretch(longer, m) = Current(list) \union {Total(list) + 1}
        /\ \A m \in Commands(list) \ Current(list) : Stretch(longer, m) = Stretch(list, m)
    BY <1>1, <1>2, StretchGrown
  <1> HIDE DEF longer
  <1>6. CASE n \notin Current(list)
    <2>1. Stretch(longer, n) = Stretch(list, n)
      BY <1>3, <1>5, <1>6
    <2>2. Bulk(longer, size, n) = Bulk(list, size, n)
      BY <1>4, <2>1 DEF Bulk
    <2> QED
      BY <2>2 DEF longer
  <1>7. CASE n \in Current(list)
    <2>1. Depth(list, Len(list)) = 0
      <3>1. CASE Depth(list, Len(list)) > 0
        <4>1. Current(list) = first .. Total(list)
          BY <3>1 DEF Shaped, InsideFrom
        <4> QED
          BY <1>1, <1>7, <4>1
      <3> QED
        BY <1>1, <3>1
    <2>2. PICK start \in 1 .. first : CountedFrom(list, size, first, start)
      BY <2>1 DEF Shaped
    <2>3. Current(list) = start .. Total(list) /\ start \in Nat
      BY <1>1, <2>2 DEF CountedFrom
    <2>4. n \in start .. first - 1
      BY <1>1, <1>7, <2>3
    <2>5. size > 0
      <3>1. size # 0
        BY <1>1, <2>2, <2>4 DEF CountedFrom
      <3> QED
        BY <3>1
    <2>6. PICK q \in Nat : first = BulkStart(start, q, size)
      BY <2>2, <2>5 DEF CountedFrom
    <2>7. ~ InBraces(list, n) /\ ~ InBraces(longer, n)
      BY <1>4, <1>7, <2>1 DEF Current
    <2>8. start .. Total(list) \union {Total(list) + 1} = start .. Total(list) + 1
      BY <1>1, <2>3, <2>4
    <2>9. Stretch(list, n) = start .. Total(list) /\ Stretch(longer, n) = start .. Total(list) + 1
      BY <1>5, <1>7, <2>3, <2>8
    <2>10. size \in Nat \ {0} /\ first \in Nat
      BY <1>1, <2>5
    <2>11. Bulk(longer, size, n) = Bulk(list, size, n)
      BY <1>1, <2>3, <2>4, <2>6, <2>7, <2>9, <2>10, EarlierBulk
    <2> QED
      BY <2>11 DEF longer
  <1> QED
    BY <1>6, <1>7

\* ... and goes to the last.
LEMMA ShapedCommand ==
    ASSUME NEW list, NEW size \in Nat, NEW first, Shaped(list, size, first),
           Depth(list, Len(list)) = 0 /\ size > 0 => Total(list) + 1 - first < size
    PROVE  /\ Shaped(Append(list, "command"), size, first)
           /\ Total(Append(list, "command")) = Total(list) + 1
  <1> DEFINE longer == Append(list, "command")
             t == Total(list) + 1
             N == Len(list)
  <1>1. /\ list \in Seq(LineKinds) /\ Total(list) \in Nat /\ Commands(list) = 1 .. Total(list)
        /\ first \in Nat \ {0} /\ first <= Total(list) + 1 /\ Depth(list, Len(list)) \in Nat
    BY ShapedType
  <1>2. LinesFound(list) /\ "command" \in LineKinds
    BY DEF Shaped, LineKinds
  <1>3. /\ longer \in Seq(LineKinds) /\ Total(longer) = t /\ Commands(longer) = Commands(list) \union {t}
        /\ LineOf(longer, t) = N + 1
        /\ InBraces(longer, t) <=> Depth(list, N) > 0
        /\ Opening(longer, N + 1) = Opening(list, N)
        /\ Depth(longer, N + 1) = Depth(list, N)
        /\ LinesFound(longer)
    BY <1>1, <1>2, CommandAdded
  <1>4. Len(longer) = N + 1
    BY <1>1, <1>2, LineAdded
  <1>5. Current(longer) = Current(list) \union {t}
    BY <1>1, <1>2, StretchGrown
  <1>6. \A m \in Commands(list) : /\ LineOf(longer, m) = LineOf(list, m)
                                  /\ InBraces(longer, m) <=> InBraces(list, m)
                                  /\ Opening(longer, LineOf(list, m)) = Opening(list, LineOf(list, m))
    BY <1>1, <1>2, CommandsKept
  <1> HIDE DEF longer, N
  <1>7. ASSUME Depth(list, N) > 0 PROVE InsideFrom(longer, first)
    <2>1. InsideFrom(list, first)
      BY <1>7 DEF Shaped, N
    <2>2. first .. t = first .. Total(list) \union {t}
      BY <1>1
    <2>3. Current(longer) = first .. t
      BY <1>5, <2>1, <2>2 DEF InsideFrom
    <2>4. ASSUME NEW m \in Commands(longer),
                 Opening(longer, LineOf(longer, m)) = Opening(longer, N + 1)
          PROVE  InBraces(longer, m)
      <3>1. CASE m = t
        BY <1>3, <1>7, <3>1
      <3>2. CASE m \in Commands(list)
        <4>1. Opening(list, LineOf(list, m)) = Opening(list, N)
          BY <1>3, <1>6, <2>4, <3>2
        <4>2. InBraces(list, m)
          BY <2>1, <3>2, <4>1 DEF InsideFrom, N
        <4> QED
          BY <1>6, <3>2, <4>2
      <3> QED
        BY <1>3, <2>4, <3>1, <3>2
    <2> QED
      BY <1>3, <1>4, <2>3, <2>4 DEF InsideFrom
  <1>8. ASSUME Depth(list, N) = 0
        PROVE  \E start \in 1 .. first : CountedFrom(longer, size, first, start)
    <2>1. PICK start \in 1 .. first : CountedFrom(list, size, first, start)
      BY <1>8 DEF Shaped, N
    <2>2. start .. t = start .. Total(list) \union {t}
      BY <1>1, <2>1
    <2>3. Current(longer) = start .. t
      BY <1>5, <2>1, <2>2 DEF CountedFrom
    <2>4. ASSUME size > 0
          PROVE  \E q \in Nat : first = BulkStart(start, q, size) /\ t - first < size
      <3>1. PICK q \in Nat : first = BulkStart(start, q, size)
        BY <2>1, <2>4 DEF CountedFrom
      <3>2. t - first < size
        BY <1>1, <1>8, <2>4 DEF N
      <3> QED
        BY <3>1, <3>2
    <2>5. CountedFrom(longer, size, first, start)
      BY <1>3, <2>1, <2>3, <2>4 DEF CountedFrom
    <2> QED
      BY <2>5
  <1>9. first \in 1 .. t + 1
    BY <1>1
  <1>10. Shaped(longer, size, first)
    BY <1>1, <1>3, <1>4, <1>7, <1>8, <1>9 DEF Shaped, N
  <1> QED
    BY <1>3, <1>10 DEF longer

\* What a command that is now the last of its bulk makes due: of a shaped list
\* with one command more, those from first on are due if their number is size.
LEMMA DueWithCommand ==
    ASSUME NEW list, NEW size \in Nat, NEW first, Grouped(list, size, first),
           Depth(list, Len(list)) = 0 /\ size > 0 => Total(list) + 1 - first < size,
           NEW n \in 1 .. Total(list) + 1
    PROVE  IsDue(Append(list, "command"), size, n)
             <=> n < first \/ (Depth(list, Len(list)) = 0 /\ Total(list) + 2 - first = size)
  <1> DEFINE longer == Append(list, "command")
             t == Total(list) + 1
             N == Len(list)
  <1>0. Shaped(list, size, first) /\ \A m \in 1 .. Total(list) : IsDue(list, size, m) <=> m < first
    BY DEF Grouped
  <1>1. /\ list \in Seq(LineKinds) /\ Total(list) \in Nat /\ Commands(list) = 1 .. Total(list)
        /\ first \in Nat \ {0} /\ first <= Total(list) + 1 /\ Depth(list, N) \in Nat
        /\ N \in Nat
    BY <1>0, ShapedType
  <1>2. LinesFound(list) /\ "command" \in LineKinds /\ "command" # "open"
    BY <1>0 DEF Shaped, LineKinds
  <1>3. /\ Total(longer) = t /\ LineOf(longer, t) = N + 1 /\ Depth(longer, N + 1) = Depth(list, N)
        /\ DOMAIN longer = 1 .. N + 1
    BY <1>1, <1>2, CommandAdded, LineAdded
  <1>4. Shaped(longer, size, first)
    BY <1>0, ShapedCommand
  <1>5. ASSUME NEW m \in first .. t
        PROVE  Bulk(longer, size, m) = first .. t /\ (InBraces(longer, m) <=> Depth(longer, Len(longer)) > 0)
    BY <1>3, <1>4, <1>5, LastGroup
  <1>6. Len(longer) = N + 1
    BY <1>1, <1>2, LineAdded
  <1> HIDE DEF longer, N
  <1>7. CASE n < first
    <2>1. n \in 1 .. Total(list) /\ n \in 1 .. first - 1
      BY <1>1, <1>7
    <2>2. IsDue(list, size, n)
      BY <1>0, <1>7, <2>1
    <2>3. Bulk(longer, size, n) = Bulk(list, size, n)
      BY <1>0, <2>1, EarlierKept DEF longer
    <2>4. IsDue(longer, size, n)
      BY <1>1, <1>2, <2>1, <2>2, <2>3, DueKept DEF longer
    <2> QED
      BY <1>7, <2>4 DEF longer, N
  <1>8. CASE n >= first
    <2>1. n \in first .. t
      BY <1>1, <1>8
    <2>2. Bulk(longer, size, n) = first .. t /\ (InBraces(longer, n) <=> Depth(list, N) > 0)
      BY <1>3, <1>5, <1>6, <2>1
    <2>3. Cardinality(first .. t) = Total(list) + 2 - first
      <3>1. first \in Int /\ t \in Int /\ first <= t
        BY <1>1
      <3>2. Cardinality(first .. t) = t - first + 1
        BY <3>1, FS_Interval
      <3> QED
        BY <1>1, <3>2
    <2>4. /\ InBraces(longer, n) => ~ ClosedLater(longer, n)
          /\ ~ InBraces(longer, n) => ~ OpenedLater(longer, n)
      <3>1. CASE n = t
        BY <1>1, <1>3, <3>1 DEF OpenedLater, ClosedLater
      <3>2. CASE n # t
        <4>1. n \in 1 .. Total(list) /\ n \in Commands(list)
          BY <1>1, <2>1, <3>2
        <4>2. ~ IsDue(list, size, n)
          <5>1. ~ (n < first)
            BY <1>1, <1>8, <4>1
          <5> QED
            BY <1>0, <4>1, <5>1
        <4>3. /\ ClosedLater(longer, n) <=> ClosedLater(list, n) \/ Depth(longer, N + 1) = 0
              /\ OpenedLater(longer, n) <=> OpenedLater(list, n)
          BY <1>1, <1>2, <4>1, LaterAdded DEF longer, N
        <4>4. InBraces(longer, n) <=> InBraces(list, n)
          BY <1>1, <1>2, <4>1, CommandsKept DEF longer
        <4>5. CASE InBraces(list, n)
          <5>1. ~ ClosedLater(list, n)
            BY <4>2, <4>5, DueIs
          <5>2. Depth(longer, N + 1) # 0
            BY <1>1, <1>3, <2>2, <4>4, <4>5
          <5> QED
            BY <4>3, <4>4, <4>5, <5>1, <5>2
        <4>6. CASE ~ InBraces(list, n)
          BY <4>2, <4>3, <4>4, <4>6, DueIs
        <4> QED
          BY <4>5, <4>6
      <3> QED
        BY <3>1, <3>2
    <2>5. ~ (n < first)
      BY <1>1, <1>8
    <2>6. CASE Depth(list, N) > 0
      <3>1. InBraces(longer, n) /\ Depth(list, N) # 0
        BY <1>1, <2>2, <2>6
      <3>2. ~ IsDue(longer, size, n)
        BY <2>4, <3>1, DueIs
      <3> QED
        BY <2>5, <3>1, <3>2 DEF longer, N
    <2>7. CASE Depth(list, N) = 0
      <3>1. ~ InBraces(longer, n)
        BY <2>2, <2>7
      <3>2. IsDue(longer, size, n) <=> Total(list) + 2 - first = size
        BY <2>2, <2>3, <2>4, <3>1, DueIs
      <3>3. CASE Total(list) + 2 - first = size
        BY <2>7, <3>2, <3>3 DEF longer, N
      <3>4. CASE ~ (Total(list) + 2 - first = size)
        BY <2>5, <3>2, <3>4 DEF longer, N
      <3> QED
        BY <3>3, <3>4
    <2>8. Depth(list, N) > 0 \/ Depth(list, N) = 0
      BY <1>1
    <2> QED
      BY <2>6, <2>7, <2>8
  <1>9. n < first \/ n >= first
    BY <1>1
  <1> QED
    BY <1>7, <1>8, <1>9

LEMMA GroupedType ==
    ASSUME NEW list, NEW size \in Nat, NEW first, Grouped(list, size, first)
    PROVE  /\ Shaped(list, size, first)
           /\ \A n \in 1 .. Total(list) : IsDue(list, size, n) <=> n < first
           /\ DueNow(list, size) = 1 .. first - 1
           /\ Depth(list, Len(list)) = 0 /\ size > 0 => Total(list) + 1 - first < size
  <1>1. Shaped(list, size, first) /\ \A n \in 1 .. Total(list) : IsDue(list, size, n) <=> n < first
    BY DEF Grouped
  <1>2. /\ Total(list) \in Nat /\ Commands(list) = 1 .. Total(list)
        /\ first \in Nat \ {0} /\ first <= Total(list) + 1
    BY <1>1, ShapedType
  <1>3. DueNow(list, size) = 1 .. first - 1
    BY <1>1, <1>2, DueBefore
  <1>4. ASSUME Depth(list, Len(list)) = 0, size > 0 PROVE Total(list) + 1 - first < size
    <2>1. PICK start \in 1 .. first : CountedFrom(list, size, first, start)
      BY <1>1, <1>4 DEF Shaped
    <2>2. Total(list) - first < size
      BY <1>4, <2>1 DEF CountedFrom
    <2>3. CASE first = Total(list) + 1
      BY <1>2, <1>4, <2>3
    <2>4. CASE first <= Total(list)
      <3>1. Total(list) \in first .. Total(list) /\ Total(list) \in 1 .. Total(list)
            /\ ~ (Total(list) < first)
        BY <1>2, <2>4
      <3>2. /\ Bulk(list, size, Total(list)) = first .. Total(list)
            /\ ~ InBraces(list, Total(list))
        BY <1>1, <1>4, <3>1, LastGroup
      <3>3. ~ IsDue(list, size, Total(list))
        BY <1>1, <3>1
      <3>4. Cardinality(first .. Total(list)) # size
        BY <3>2, <3>3, DueIs
      <3>5. Cardinality(first .. Total(list)) = Total(list) - first + 1
        BY <1>2, <2>4, FS_Interval
      <3> QED
        BY <1>2, <2>2, <3>4, <3>5
    <2> QED
      BY <1>2, <2>3, <2>4
  <1> QED
    BY <1>1, <1>3, <1>4

\* A command that does not fill its bulk is counted, and that is all.
LEMMA GroupedCommand ==
    ASSUME NEW list, NEW size \in Nat, NEW first, Grouped(list, size, first),
           Depth(list, Len(list)) = 0 => Total(list) + 2 - first # size
    PROVE  /\ Grouped(Append(list, "command"), size, first)
           /\ BulksSoFar(Append(list, "command"), size) = BulksSoFar(list, size)
           /\ Total(Append(list, "command")) = Total(list) + 1
  <1> DEFINE longer == Append(list, "command")
             t == Total(list) + 1
  <1>0. /\ Shaped(list, size, first) /\ DueNow(list, size) = 1 .. first - 1
        /\ Depth(list, Len(list)) = 0 /\ size > 0 => Total(list) + 1 - first < size
    BY GroupedType
  <1>1. Total(list) \in Nat /\ first \in Nat /\ first <= Total(list) + 1
    BY <1>0, ShapedType
  <1>2. Shaped(longer, size, first) /\ Total(longer) = t
    BY <1>0, ShapedCommand
  <1>3. \A n \in 1 .. t : IsDue(longer, size, n) <=> n < first
    <2> SUFFICES ASSUME NEW n \in 1 .. t PROVE IsDue(longer, size, n) <=> n < first
      OBVIOUS
    <2>1. IsDue(longer, size, n)
            <=> n < first \/ (Depth(list, Len(list)) = 0 /\ Total(list) + 2 - first = size)
      BY <1>0, DueWithCommand
    <2> QED
      BY <2>1
  <1>4. Grouped(longer, size, first)
    BY <1>2, <1>3 DEF Grouped
  <1>5. DueNow(longer, size) = 1 .. first - 1
    BY <1>4, GroupedType
  <1>6. \A n \in 1 .. first - 1 : Bulk(longer, size, n) = Bulk(list, size, n)
    BY <1>0, EarlierKept
  <1> HIDE DEF longer
  <1>7. BulksSoFar(longer, size) = BulksSoFar(list, size)
    BY <1>0, <1>5, <1>6, BulksSame
  <1> QED
    BY <1>2, <1>4, <1>7 DEF longer

\* One that fills it makes it due.
LEMMA GroupedFull ==
    ASSUME NEW list, NEW size \in Nat, NEW first, Grouped(list, size, first),
           Depth(list, Len(list)) = 0, Total(list) + 2 - first = size
    PROVE  /\ Grouped(Append(list, "command"), size, Total(list) + 2)
           /\ BulksSoFar(Append(list, "command"), size)
                = BulksSoFar(list, size) \union {first .. Total(list) + 1}
           /\ Total(Append(list, "command")) = Total(list) + 1
  <1> DEFINE longer == Append(list, "command")
             t == Total(list) + 1
  <1>0. /\ Shaped(list, size, first) /\ DueNow(list, size) = 1 .. first - 1
    BY GroupedType
  <1>1. /\ list \in Seq(LineKinds) /\ Total(list) \in Nat /\ first \in Nat \ {0}
        /\ first <= Total(list) + 1 /\ size > 0 /\ Total(list) + 1 - first < size
    BY <1>0, ShapedType
  <1>2. Shaped(longer, size, first) /\ Total(longer) = t
    BY <1>0, <1>1, ShapedCommand
  <1>4. \A n \in 1 .. t : IsDue(longer, size, n) <=> n < t + 1
    <2> SUFFICES ASSUME NEW n \in 1 .. t PROVE IsDue(longer, size, n) <=> n < t + 1
      OBVIOUS
    <2>1. IsDue(longer, size, n)
            <=> n < first \/ (Depth(list, Len(list)) = 0 /\ Total(list) + 2 - first = size)
      BY <1>1, DueWithCommand
    <2>2. n < t + 1
      BY <1>1
    <2> QED
      BY <2>1, <2>2
  <1>5. \A n \in first .. t : Bulk(longer, size, n) = first .. t
    BY <1>2, LastGroup
  <1>6. Depth(longer, Len(longer)) = 0
    <2>1. "command" \in LineKinds /\ LinesFound(list)
      BY <1>0 DEF LineKinds, Shaped
    <2> QED
      BY <1>1, <2>1, CommandAdded, LineAdded
  <1>7. Shaped(longer, size, t + 1)
    <2>1. /\ longer \in Seq(LineKinds) /\ LinesFound(longer)
          /\ \E start \in 1 .. first : CountedFrom(longer, size, first, start)
      BY <1>2, <1>6 DEF Shaped
    <2>2. PICK start \in 1 .. first : CountedFrom(longer, size, first, start)
      BY <2>1
    <2>3. PICK q \in Nat : first = BulkStart(start, q, size)
      BY <1>1, <2>2 DEF CountedFrom
    <2>4. t + 1 = first + size
      BY <1>1
    <2>5. q + 1 \in Nat /\ (q + 1) * size = q * size + size
      OBVIOUS
    <2>6. t + 1 = BulkStart(start, q + 1, size)
      <3>1. PICK w \in Nat : w = q * size
        <4>1. q * size \in Nat
          OBVIOUS
        <4> QED
          BY <4>1
      <3>2. first = start + w
        BY <2>3, <3>1 DEF BulkStart
      <3>3. t + 1 = start + (w + size)
        BY <1>1, <2>4, <3>2
      <3> QED
        BY <2>5, <3>1, <3>3 DEF BulkStart
    <2>7. t - (t + 1) < size /\ size # 0 /\ start \in 1 .. t + 1 /\ t + 1 \in 1 .. t + 1
      BY <1>1
    <2> HIDE DEF longer, t
    <2>8. CountedFrom(longer, size, t + 1, start)
      BY <1>1, <1>2, <2>2, <2>5, <2>6, <2>7 DEF CountedFrom
    <2> QED
      BY <1>2, <1>6, <2>1, <2>7, <2>8 DEF Shaped
  <1>8. Grouped(longer, size, t + 1)
    BY <1>2, <1>4, <1>7 DEF Grouped
  <1>9. DueNow(longer, size) = DueNow(list, size) \union (first .. t)
    <2>1. PICK next \in Nat : next = t + 1
      BY <1>1
    <2>2. DueNow(longer, size) = 1 .. next - 1
      <3>1. Grouped(longer, size, next)
        BY <1>8, <2>1
      <3> QED
        BY <3>1, GroupedType
    <2>3. 1 .. next - 1 = (1 .. first - 1) \union (first .. t)
      BY <1>1, <2>1
    <2> QED
      BY <1>0, <2>2, <2>3
  <1>10. \A n \in DueNow(list, size) : Bulk(longer, size, n) = Bulk(list, size, n)
    <2>1. \A n \in 1 .. first - 1 : Bulk(longer, size, n) = Bulk(list, size, n)
      BY <1>0, EarlierKept
    <2> QED
      BY <1>0, <2>1
  <1>11. first .. t # {}
    <2>1. first \in first .. t
      BY <1>1
    <2> QED
      BY <2>1
  <1> HIDE DEF longer
  <1>12. BulksSoFar(longer, size) = BulksSoFar(list, size) \union {first .. t}
    <2>1. PICK New : New = first .. t
      OBVIOUS
    <2>2. /\ New # {} /\ DueNow(longer, size) = DueNow(list, size) \union New
          /\ \A n \in New : Bulk(longer, size, n) = New
      BY <1>5, <1>9, <1>11, <2>1
    <2>3. BulksSoFar(longer, size) = BulksSoFar(list, size) \union {New}
      BY <1>10, <2>2, BulksGrow
    <2> QED
      BY <2>1, <2>3
  <1>13. t + 1 = Total(list) + 2
    BY <1>1
  <1> QED
    BY <1>2, <1>8, <1>12, <1>13 DEF longer

\* A brace leaves the commands there are where they are.
LEMMA BraceAdded ==
    ASSUME NEW list, NEW size \in Nat, NEW first, Shaped(list, size, first),
           NEW line \in {"open", "close"}
    PROVE  /\ line \in LineKinds /\ line # "command"
           /\ Append(list, line) \in Seq(LineKinds) /\ LinesFound(Append(list, line))
           /\ Len(Append(list, line)) = Len(list) + 1
           /\ Total(Append(list, line)) = Total(list)
           /\ Commands(Append(list, line)) = 1 .. Total(list)
           /\ \A m \in 1 .. Total(list) :
                 /\ LineOf(Append(list, line), m) = LineOf(list, m)
                 /\ LineOf(list, m) \in 1 .. Len(list)
                 /\ InBraces(Append(list, line), m) <=> InBraces(list, m)
                 /\ Opening(Append(list, line), LineOf(list, m)) = Opening(list, LineOf(list, m))
                 /\ Bulk(Append(list, line), size, m) = Bulk(list, size, m)
  <1> DEFINE longer == Append(list, line)
  <1>1. line \in LineKinds /\ line # "command"
    BY DEF LineKinds
  <1>2. list \in Seq(LineKinds) /\ LinesFound(list) /\ Total(list) \in Nat
        /\ Commands(list) = 1 .. Total(list)
    BY ShapedType DEF Shaped
  <1>3. longer \in Seq(LineKinds) /\ Len(longer) = Len(list) + 1
    BY <1>1, <1>2, LineAdded
  <1>4. Commands(longer) = 1 .. Total(list) /\ LinesFound(longer)
    BY <1>1, <1>2, StretchKept
  <1>5. Total(longer) = Total(list)
    <2>1. Total(longer) = Total(list) + 0
      BY <1>1, <1>2, LineAdded DEF Total
    <2> QED
      BY <1>2, <2>1
  <1>6. ASSUME NEW m \in 1 .. Total(list)
        PROVE  /\ LineOf(longer, m) = LineOf(list, m)
               /\ LineOf(list, m) \in 1 .. Len(list)
               /\ InBraces(longer, m) <=> InBraces(list, m)
               /\ Opening(longer, LineOf(list, m)) = Opening(list, LineOf(list, m))
    BY <1>1, <1>2, CommandsKept, LineOfCommand
  <1>7. \A m \in 1 .. Total(list) : Bulk(longer, size, m) = Bulk(list, size, m)
    BY <1>1, <1>2, BulkKept
  <1> HIDE DEF longer
  <1>8. \A m \in 1 .. Total(list) :
           /\ LineOf(longer, m) = LineOf(list, m)
           /\ LineOf(list, m) \in 1 .. Len(list)
           /\ InBraces(longer, m) <=> InBraces(list, m)
           /\ Opening(longer, LineOf(list, m)) = Opening(list, LineOf(list, m))
           /\ Bulk(longer, size, m) = Bulk(list, size, m)
    BY <1>6, <1>7
  <1> QED
    BY <1>1, <1>3, <1>4, <1>5, <1>8 DEF longer

\* A brace inside braces that leaves some open.
LEMMA GroupedNested ==
    ASSUME NEW list, NEW size \in Nat, NEW first, Grouped(list, size, first),
           NEW line \in {"open", "close"}, Depth(list, Len(list)) > 0,
           Depth(Append(list, line), Len(list) + 1) > 0
    PROVE  /\ Grouped(Append(list, line), size, first)
           /\ BulksSoFar(Append(list, line), size) = BulksSoFar(list, size)
           /\ Total(Append(list, line)) = Total(list)
  <1> DEFINE longer == Append(list, line)
             N == Len(list)
  <1>0. /\ Shaped(list, size, first) /\ DueNow(list, size) = 1 .. first - 1
        /\ \A n \in 1 .. Total(list) : IsDue(list, size, n) <=> n < first
    BY GroupedType
  <1>1. /\ list \in Seq(LineKinds) /\ Total(list) \in Nat /\ first \in Nat \ {0} /\ N \in Nat
        /\ first <= Total(list) + 1 /\ Commands(list) = 1 .. Total(list)
        /\ LinesFound(list)
    BY <1>0, ShapedType DEF Shaped
  <1>2. /\ line \in LineKinds /\ line # "command"
        /\ longer \in Seq(LineKinds) /\ LinesFound(longer) /\ Len(longer) = N + 1
        /\ Total(longer) = Total(list) /\ Commands(longer) = 1 .. Total(list)
        /\ \A m \in 1 .. Total(list) :
              /\ LineOf(longer, m) = LineOf(list, m)
              /\ LineOf(list, m) \in 1 .. N
              /\ InBraces(longer, m) <=> InBraces(list, m)
              /\ Opening(longer, LineOf(list, m)) = Opening(list, LineOf(list, m))
              /\ Bulk(longer, size, m) = Bulk(list, size, m)
    BY <1>0, BraceAdded
  <1>3. Opening(longer, N + 1) = Opening(list, N)
    <2>1. Depth(list, N) # 0
      BY <1>1, DepthType
    <2>2. Opening(longer, N + 1)
            = Opening(list, N) \union IF line = "open" /\ Depth(list, N) = 0 THEN {N + 1} ELSE {}
      BY <1>1, <1>2, LineAdded
    <2> QED
      BY <2>1, <2>2
  <1>4. Depth(longer, N + 1) > 0 /\ Depth(list, N) > 0 /\ InsideFrom(list, first)
    BY <1>0 DEF Shaped
  <1> HIDE DEF longer, N
  <1>5. InsideFrom(longer, first)
    <2>1. Current(longer) = {m \in 1 .. Total(list) :
                               /\ InBraces(longer, m) <=> Depth(longer, N + 1) > 0
                               /\ Opening(longer, LineOf(longer, m)) = Opening(longer, N + 1)}
      BY <1>2 DEF Current
    <2>2. Current(list) = {m \in 1 .. Total(list) :
                             /\ InBraces(list, m) <=> Depth(list, N) > 0
                             /\ Opening(list, LineOf(list, m)) = Opening(list, N)}
      BY <1>1 DEF Current, N
    <2>3. Current(longer) = Current(list)
      BY <1>2, <1>3, <1>4, <2>1, <2>2
    <2>4. ASSUME NEW m \in 1 .. Total(list),
                 Opening(longer, LineOf(longer, m)) = Opening(longer, N + 1)
          PROVE  InBraces(longer, m)
      <3>1. Opening(list, LineOf(list, m)) = Opening(list, N)
        BY <1>2, <1>3, <2>4
      <3>2. InBraces(list, m)
        BY <1>1, <1>4, <3>1 DEF InsideFrom, N
      <3> QED
        BY <1>2, <3>2
    <2>5. Current(longer) = first .. Total(longer)
      BY <1>2, <1>4, <2>3 DEF InsideFrom
    <2> QED
      BY <1>2, <2>4, <2>5 DEF InsideFrom
  <1>6. Depth(longer, N + 1) \in Int
    BY <1>1, DepthType
  <1>7. Shaped(longer, size, first)
    <2>1. Depth(longer, N + 1) >= 0 /\ Depth(longer, N + 1) # 0 /\ first \in 1 .. Total(longer) + 1
      BY <1>1, <1>2, <1>4, <1>6
    <2> QED
      BY <1>2, <1>5, <2>1 DEF Shaped
  <1>8. ASSUME NEW n \in 1 .. Total(list)
        PROVE  IsDue(longer, size, n) <=> n < first
    <2>1. CASE n < first
      <3>1. IsDue(list, size, n) /\ n \in Commands(list)
        BY <1>0, <1>1, <2>1
      <3>2. Bulk(longer, size, n) = Bulk(list, size, n)
        BY <1>2
      <3>3. IsDue(longer, size, n)
        BY <1>1, <1>2, <3>1, <3>2, DueKept DEF longer
      <3> QED
        BY <2>1, <3>3
    <2>2. CASE ~ (n < first)
      <3>1. n \in first .. Total(list) /\ n \in Commands(list)
        BY <1>1, <2>2
      <3>2. InBraces(list, n) /\ InBraces(longer, n)
        BY <1>0, <1>2, <1>4, <3>1, LastGroup DEF N
      <3>3. ~ ClosedLater(list, n)
        BY <1>0, <2>2, <3>2, DueIs
      <3>4. Depth(longer, N + 1) # 0
        BY <1>4, <1>6
      <3>5. ~ ClosedLater(longer, n)
        BY <1>1, <1>2, <3>1, <3>3, <3>4, LaterAdded DEF longer, N
      <3>6. ~ IsDue(longer, size, n)
        BY <3>2, <3>5, DueIs
      <3> QED
        BY <2>2, <3>6
    <2> QED
      BY <2>1, <2>2
  <1>9. Grouped(longer, size, first)
    BY <1>2, <1>7, <1>8 DEF Grouped
  <1>10. BulksSoFar(longer, size) = BulksSoFar(list, size)
    <2>1. DueNow(longer, size) = DueNow(list, size)
      BY <1>0, <1>9, GroupedType
    <2>2. \A n \in DueNow(list, size) : Bulk(longer, size, n) = Bulk(list, size, n)
      BY <1>1, <1>2 DEF DueNow
    <2> QED
      BY <2>1, <2>2, BulksSame
  <1> QED
    BY <1>2, <1>9, <1>10 DEF longer

\* A brace that opens the outermost block or closes it: what there was is due.
LEMMA GroupedBrace ==
    ASSUME NEW list, NEW size \in Nat, NEW first, Grouped(list, size, first),
           NEW line \in {"open", "close"},
           line = "open" => Depth(list, Len(list)) = 0,
           line = "close" => Depth(list, Len(list)) = 1
    PROVE  /\ Grouped(Append(list, line), size, Total(list) + 1)
           /\ first <= Total(list) =>
                BulksSoFar(Append(list, line), size)
                  = BulksSoFar(list, size) \union {first .. Total(list)}
           /\ first = Total(list) + 1 =>
                BulksSoFar(Append(list, line), size) = BulksSoFar(list, size)
           /\ Total(Append(list, line)) = Total(list)
  <1> DEFINE longer == Append(list, line)
             N == Len(list)
             t == Total(list)
  <1>0. /\ Shaped(list, size, first) /\ DueNow(list, size) = 1 .. first - 1
        /\ \A n \in 1 .. t : IsDue(list, size, n) <=> n < first
    BY GroupedType
  <1>1. /\ list \in Seq(LineKinds) /\ t \in Nat /\ first \in Nat \ {0} /\ N \in Nat
        /\ first <= t + 1 /\ Commands(list) = 1 .. t
        /\ LinesFound(list) /\ Depth(list, N) \in Nat
    BY <1>0, ShapedType DEF Shaped
  <1>2. /\ line \in LineKinds /\ line # "command"
        /\ longer \in Seq(LineKinds) /\ LinesFound(longer) /\ Len(longer) = N + 1
        /\ Total(longer) = t /\ Commands(longer) = 1 .. t
        /\ \A m \in 1 .. t :
              /\ LineOf(longer, m) = LineOf(list, m)
              /\ LineOf(list, m) \in 1 .. N
              /\ InBraces(longer, m) <=> InBraces(list, m)
              /\ Opening(longer, LineOf(list, m)) = Opening(list, LineOf(list, m))
              /\ Bulk(longer, size, m) = Bulk(list, size, m)
    BY <1>0, BraceAdded
  <1>3. Opening(longer, N + 1)
          = Opening(list, N) \union IF line = "open" /\ Depth(list, N) = 0 THEN {N + 1} ELSE {}
    BY <1>1, <1>2, LineAdded
  <1>4. Depth(longer, N + 1)
          = Depth(list, N) + IF line = "open" THEN 1 ELSE IF line = "close" THEN -1 ELSE 0
    BY <1>1, <1>2, LineAdded
  <1>5. Current(longer) = {m \in 1 .. t :
                             /\ InBraces(longer, m) <=> Depth(longer, N + 1) > 0
                             /\ Opening(longer, LineOf(longer, m)) = Opening(longer, N + 1)}
    BY <1>2 DEF Current
  <1> HIDE DEF longer, N
  <1>6. ASSUME line = "open"
        PROVE  /\ Shaped(longer, size, t + 1)
               /\ \A n \in 1 .. t : n >= first => IsDue(longer, size, n)
    <2>1. Depth(longer, N + 1) = 1 /\ Opening(longer, N + 1) = Opening(list, N) \union {N + 1}
      BY <1>1, <1>3, <1>4, <1>6 DEF N
    <2>2. ASSUME NEW m \in 1 .. t
          PROVE  Opening(longer, LineOf(longer, m)) # Opening(longer, N + 1)
      <3>1. N + 1 \in Opening(longer, N + 1)
        BY <2>1
      <3>2. N + 1 \notin Opening(list, LineOf(list, m))
        <4>1. \A i \in Opening(list, LineOf(list, m)) : i \in 1 .. LineOf(list, m)
          BY DEF Opening
        <4>2. LineOf(list, m) \in 1 .. N
          BY <1>2
        <4> QED
          BY <1>1, <4>1, <4>2
      <3> QED
        BY <1>2, <3>1, <3>2
    <2>3. Current(longer) = t + 1 .. t
      <3>1. t + 1 .. t = {}
        BY <1>1
      <3>2. Current(longer) = {}
        BY <1>5, <2>2
      <3> QED
        BY <3>1, <3>2
    <2>4. InsideFrom(longer, t + 1)
      BY <1>2, <2>2, <2>3 DEF InsideFrom
    <2>5. Shaped(longer, size, t + 1)
      <3>1. t + 1 \in 1 .. t + 1 /\ Depth(longer, N + 1) >= 0 /\ Depth(longer, N + 1) # 0
        BY <1>1, <2>1
      <3> QED
        BY <1>2, <2>4, <3>1 DEF Shaped
    <2>6. ASSUME NEW n \in 1 .. t, n >= first PROVE IsDue(longer, size, n)
      <3>1. n \in first .. t /\ n \in Commands(list)
        BY <1>1, <2>6
      <3>2. ~ (Depth(list, N) > 0)
        BY <1>6 DEF N
      <3>3. ~ InBraces(list, n)
        BY <1>0, <3>1, <3>2, LastGroup DEF N
      <3>4. OpenedLater(longer, n)
        BY <1>1, <1>2, <1>6, <3>1, LaterAdded DEF longer
      <3>5. ~ InBraces(longer, n)
        BY <1>2, <3>3
      <3> QED
        BY <3>4, <3>5, DueIs
    <2> QED
      BY <2>5, <2>6
  <1>7. ASSUME line = "close"
        PROVE  /\ Shaped(longer, size, t + 1)
               /\ \A n \in 1 .. t : n >= first => IsDue(longer, size, n)
    <2>1. Depth(longer, N + 1) = 0 /\ Opening(longer, N + 1) = Opening(list, N)
          /\ Depth(list, N) > 0
      BY <1>1, <1>3, <1>4, <1>7 DEF N
    <2>2. InsideFrom(list, first)
      BY <1>0, <2>1 DEF Shaped, N
    <2>3. ASSUME NEW m \in 1 .. t, Opening(longer, LineOf(longer, m)) = Opening(longer, N + 1)
          PROVE  InBraces(longer, m)
      <3>1. Opening(list, LineOf(list, m)) = Opening(list, N)
        BY <1>2, <2>1, <2>3
      <3>2. InBraces(list, m)
        BY <1>1, <2>2, <3>1 DEF InsideFrom, N
      <3> QED
        BY <1>2, <3>2
    <2>4. Current(longer) = t + 1 .. t
      <3>1. t + 1 .. t = {}
        BY <1>1
      <3>2. ~ (Depth(longer, N + 1) > 0)
        BY <2>1
      <3>3. \A m \in 1 .. t : InBraces(longer, m) \in BOOLEAN
        BY DEF InBraces
      <3>4. Current(longer) = {}
        BY <1>5, <2>3, <3>2, <3>3
      <3> QED
        BY <3>1, <3>4
    <2>5. CountedFrom(longer, size, t + 1, t + 1)
      <3>1. t + 1 = BulkStart(t + 1, 0, size) /\ 0 \in Nat
        BY <1>1 DEF BulkStart
      <3>2. size > 0 => t - (t + 1) < size
        BY <1>1
      <3> QED
        BY <1>2, <2>4, <3>1, <3>2 DEF CountedFrom
    <2>6. Shaped(longer, size, t + 1)
      <3>1. t + 1 \in 1 .. t + 1 /\ Depth(longer, N + 1) >= 0 /\ ~ (Depth(longer, N + 1) > 0)
        BY <1>1, <2>1
      <3> QED
        BY <1>2, <2>5, <3>1 DEF Shaped
    <2>7. ASSUME NEW n \in 1 .. t, n >= first PROVE IsDue(longer, size, n)
      <3>1. n \in first .. t /\ n \in Commands(list)
        BY <1>1, <2>7
      <3>2. InBraces(list, n)
        BY <1>0, <2>1, <3>1, LastGroup DEF N
      <3>3. ClosedLater(longer, n)
        BY <1>1, <1>2, <2>1, <3>1, LaterAdded DEF longer, N
      <3>4. InBraces(longer, n)
        BY <1>2, <3>2
      <3> QED
        BY <3>3, <3>4, DueIs
    <2> QED
      BY <2>6, <2>7
  <1>8. /\ Shaped(longer, size, t + 1)
        /\ \A n \in 1 .. t : n >= first => IsDue(longer, size, n)
    BY <1>6, <1>7
  <1>9. \A n \in 1 .. t : IsDue(longer, size, n) <=> n < t + 1
    <2> SUFFICES ASSUME NEW n \in 1 .. t PROVE IsDue(longer, size, n) /\ n < t + 1
      OBVIOUS
    <2>1. CASE n < first
      <3>1. IsDue(list, size, n) /\ n \in Commands(list)
        BY <1>0, <1>1, <2>1
      <3>2. Bulk(longer, size, n) = Bulk(list, size, n)
        BY <1>2
      <3>3. IsDue(longer, size, n)
        BY <1>1, <1>2, <3>1, <3>2, DueKept DEF longer
      <3> QED
        BY <1>1, <3>3
    <2>2. CASE n >= first
      BY <1>1, <1>8, <2>2
    <2> QED
      BY <1>1, <2>1, <2>2
  <1>10. Grouped(longer, size, t + 1)
    BY <1>2, <1>8, <1>9 DEF Grouped
  <1>11. DueNow(longer, size) = 1 .. t
    <2>1. PICK next \in Nat : next = t + 1
      BY <1>1
    <2>2. Grouped(longer, size, next)
      BY <1>10, <2>1
    <2>3. DueNow(longer, size) = 1 .. next - 1
      BY <2>2, GroupedType
    <2> QED
      BY <1>1, <2>1, <2>3
  <1>12. \A n \in DueNow(list, size) : Bulk(longer, size, n) = Bulk(list, size, n)
    BY <1>1, <1>2 DEF DueNow
  <1>13. ASSUME first = t + 1 PROVE BulksSoFar(longer, size) = BulksSoFar(list, size)
    <2>1. DueNow(longer, size) = DueNow(list, size)
      BY <1>0, <1>1, <1>11, <1>13
    <2> QED
      BY <1>12, <2>1, BulksSame
  <1>14. ASSUME first <= t
         PROVE  BulksSoFar(longer, size) = BulksSoFar(list, size) \union {first .. t}
    <2>1. PICK New : New = first .. t
      OBVIOUS
    <2>2. first \in New
      BY <1>1, <1>14, <2>1
    <2>3. DueNow(longer, size) = DueNow(list, size) \union New
      <3>1. 1 .. t = (1 .. first - 1) \union (first .. t)
        BY <1>1, <1>14
      <3> QED
        BY <1>0, <1>11, <2>1, <3>1
    <2>4. ASSUME NEW n \in first .. t PROVE Bulk(longer, size, n) = first .. t
      <3>1. Bulk(list, size, n) = first .. t /\ n \in Commands(list)
        BY <1>0, LastGroup
      <3> QED
        BY <1>1, <1>2, <3>1
    <2>5. New # {} /\ \A n \in New : Bulk(longer, size, n) = New
      BY <2>1, <2>2, <2>4
    <2>6. BulksSoFar(longer, size) = BulksSoFar(list, size) \union {New}
      BY <1>12, <2>3, <2>5, BulksGrow
    <2> QED
      BY <2>1, <2>6
  <1> QED
    BY <1>2, <1>10, <1>13, <1>14 DEF longer

\* At the end what is not in braces is due.
LEMMA GroupedEnd ==
    ASSUME NEW list, NEW size \in Nat, NEW first, Grouped(list, size, first)
    PROVE  Bulks(list, size, TRUE)
             = BulksSoFar(list, size)
               \union IF Depth(list, Len(list)) = 0 /\ first <= Total(list)
                      THEN {first .. Total(list)} ELSE {}
  <1> DEFINE N == Len(list)
             t == Total(list)
             Set == {n \in Commands(list) : Due(list, size, TRUE, n)}
  <1>0. /\ Shaped(list, size, first) /\ DueNow(list, size) = 1 .. first - 1
        /\ \A n \in 1 .. t : IsDue(list, size, n) <=> n < first
    BY GroupedType
  <1>1. /\ t \in Nat /\ first \in Nat \ {0} /\ first <= t + 1 /\ Commands(list) = 1 .. t
        /\ Depth(list, N) \in Nat
    BY <1>0, ShapedType
  <1>2. Bulks(list, size, TRUE) = {Bulk(list, size, n) : n \in Set}
    BY DEF Bulks
  <1>3. \A n : Due(list, size, TRUE, n) <=> IsDue(list, size, n) \/ ~ InBraces(list, n)
    BY DEF Due, IsDue
  <1>4. ASSUME NEW n \in first .. t
        PROVE  /\ Bulk(list, size, n) = first .. t
               /\ InBraces(list, n) <=> Depth(list, N) > 0
               /\ ~ IsDue(list, size, n)
    <2>1. n \in 1 .. t /\ ~ (n < first)
      BY <1>1
    <2>2. ~ IsDue(list, size, n)
      BY <1>0, <2>1
    <2> QED
      BY <1>0, <2>2, LastGroup
  <1>5. DueNow(list, size) \subseteq Set
    BY <1>3 DEF DueNow
  <1>6. CASE Depth(list, N) > 0
    <2>1. \A n \in 1 .. t : n \in first .. t \/ n < first
      BY <1>1
    <2>2. \A n \in Set : n \in DueNow(list, size)
      <3> SUFFICES ASSUME NEW n \in Set PROVE n \in DueNow(list, size)
        OBVIOUS
      <3>1. n \in 1 .. t /\ (IsDue(list, size, n) \/ ~ InBraces(list, n))
        BY <1>1, <1>3
      <3>2. CASE n \in first .. t
        BY <1>4, <1>6, <3>1, <3>2
      <3>3. CASE n < first
        BY <1>0, <1>1, <3>1, <3>3
      <3> QED
        BY <2>1, <3>1, <3>2, <3>3
    <2>3. Set = DueNow(list, size)
      BY <1>5, <2>2
    <2>4. Depth(list, N) # 0
      BY <1>1, <1>6
    <2> HIDE DEF Set
    <2>5. Bulks(list, size, TRUE) = BulksSoFar(list, size)
      BY <1>2, <2>3, BulksSoFarAre
    <2> QED
      BY <2>4, <2>5
  <1>7. CASE Depth(list, N) = 0
    <2>1. ~ (Depth(list, N) > 0)
      BY <1>7
    <2>2. Set = 1 .. t
      <3>1. ASSUME NEW n \in 1 .. t PROVE IsDue(list, size, n) \/ ~ InBraces(list, n)
        <4>1. CASE n < first
          BY <1>0, <4>1
        <4>2. CASE n \in first .. t
          BY <1>4, <2>1, <4>2
        <4> QED
          BY <1>1, <4>1, <4>2
      <3> QED
        BY <1>1, <1>3, <3>1
    <2> HIDE DEF Set
    <2>3. CASE first <= t
      <3>1. 1 .. t = (1 .. first - 1) \union (first .. t)
        BY <1>1, <2>3
      <3>2. PICK New : New = first .. t
        OBVIOUS
      <3>3. first \in New
        BY <1>1, <2>3, <3>2
      <3>4. \A n \in New : Bulk(list, size, n) = New
        BY <1>4, <3>2
      <3>5. Set = DueNow(list, size) \union New
        BY <1>0, <2>2, <3>1, <3>2
      <3>6. {Bulk(list, size, n) : n \in New} = {New}
        BY <3>3, <3>4
      <3>7. {Bulk(list, size, n) : n \in Set}
              = {Bulk(list, size, n) : n \in DueNow(list, size)} \union {Bulk(list, size, n) : n \in New}
        BY <3>5
      <3>8. Bulks(list, size, TRUE) = BulksSoFar(list, size) \union {New}
        BY <1>2, <3>6, <3>7, BulksSoFarAre
      <3> QED
        BY <1>7, <2>3, <3>2, <3>8
    <2>4. CASE ~ (first <= t)
      <3>1. Set = DueNow(list, size)
        BY <1>0, <1>1, <2>2, <2>4
      <3>2. Bulks(list, size, TRUE) = BulksSoFar(list, size)
        BY <1>2, <3>1, BulksSoFarAre
      <3> QED
        BY <2>4, <3>2
    <2> QED
      BY <2>3, <2>4
  <1>8. Depth(list, N) > 0 \/ Depth(list, N) = 0
    BY <1>1
  <1> QED
    BY <1>6, <1>7, <1>8

\* At first there is nothing.
LEMMA GroupedNothing ==
    ASSUME NEW size \in Nat
    PROVE  Grouped(<< >>, size, 1) /\ BulksSoFar(<< >>, size) = {} /\ Total(<< >>) = 0
  <1> DEFINE list == << >>
  <1>1. list \in Seq(LineKinds) /\ Len(list) = 0 /\ DOMAIN list = {}
    OBVIOUS
  <1> HIDE DEF list
  <1>2. Count(list, 0, "command") = 0 /\ Count(list, 0, "open") = 0 /\ Count(list, 0, "close") = 0
    BY CountStep
  <1>3. Total(list) = 0 /\ Depth(list, 0) = 0
    BY <1>1, <1>2 DEF Total, Depth
  <1>4. 1 .. 0 = {} /\ 1 .. Total(list) = {}
    BY <1>3
  <1>5. Commands(list) = {}
    BY <1>1, <1>2, <1>4 DEF Commands
  <1>6. Current(list) = {} /\ DueNow(list, size) = {} /\ LinesFound(list)
    BY <1>5 DEF Current, DueNow, LinesFound
  <1>7. CountedFrom(list, size, 1, 1)
    <2>1. 1 = BulkStart(1, 0, size) /\ 0 \in Nat
      BY DEF BulkStart
    <2>2. size > 0 => Total(list) - 1 < size
      BY <1>3
    <2> QED
      BY <1>4, <1>6, <2>1, <2>2 DEF CountedFrom
  <1>8. Shaped(list, size, 1)
    <2>1. 1 \in 1 .. Total(list) + 1 /\ 1 \in 1 .. 1 /\ 0 >= 0 /\ ~ (0 > 0)
      BY <1>3
    <2> QED
      BY <1>1, <1>3, <1>6, <1>7, <2>1 DEF Shaped
  <1>9. Grouped(list, size, 1)
    BY <1>4, <1>8 DEF Grouped
  <1>10. BulksSoFar(list, size) = {}
    BY <1>6, BulksSoFarAre
  <1> QED
    BY <1>3, <1>9, <1>10 DEF list

===============================================================================
