-------------------------------- MODULE Braces --------------------------------
(***************************************************************************)
(* What braces mean in the input of the bulk programs (07 to 10): the      *)
(* reference against which the parsers are checked.  An input is a         *)
(* sequence of lines: a command, "open" for {, "close" for }, or nothing.  *)
(***************************************************************************)
EXTENDS Integers, Sequences, FiniteSets

LineKinds == {"command", "open", "close", ""}

\* How often a line occurs among the first n, and how many braces they leave open.
Count(list, n, line) == Cardinality({i \in 1 .. n : list[i] = line})
Depth(list, n) == Count(list, n, "open") - Count(list, n, "close")

\* The braces that open a dynamic block, up to line n.
Opening(list, n) == {i \in 1 .. n : list[i] = "open" /\ Depth(list, i - 1) = 0}

\* The outermost pairs of braces, closed ones only ...
IsOuterPair(list, i, j) ==
    /\ i < j /\ i \in Opening(list, j) /\ list[j] = "close"
    /\ Depth(list, j) = 0
    /\ \A k \in i .. j - 1 : Depth(list, k) > 0

OuterPairs(list) ==
    {pair \in (DOMAIN list) \X (DOMAIN list) : IsOuterPair(list, pair[1], pair[2])}

\* ... and the numbers of the commands such a pair encloses.
Between(list, pair) ==
    (Count(list, pair[1], "command") + 1) .. Count(list, pair[2], "command")

\* Which commands are printed together, at most `size` of them outside braces (0:
\* any number): they are counted off from the beginning and from each brace.
Commands(list) == 1 .. Count(list, Len(list), "command")
LineOf(list, n) ==
    CHOOSE i \in DOMAIN list : list[i] = "command" /\ Count(list, i, "command") = n
InBraces(list, n) == Depth(list, LineOf(list, n)) > 0
Stretch(list, n) ==
    {m \in Commands(list) :
        /\ InBraces(list, m) = InBraces(list, n)
        /\ Opening(list, LineOf(list, m)) = Opening(list, LineOf(list, n))}
Bulk(list, size, n) ==
    LET place(m) == Cardinality({k \in Stretch(list, n) : k < m})
    IN  IF InBraces(list, n) \/ size = 0 THEN Stretch(list, n)
        ELSE {m \in Stretch(list, n) : place(m) \div size = place(n) \div size}

\* When they are due: inside braces once those are closed, otherwise when there
\* are as many as `size`, or a brace is opened, or the input is over.
Due(list, size, over, n) ==
    LET later == {j \in DOMAIN list : j > LineOf(list, n)}
    IN  IF InBraces(list, n) THEN \E j \in later : Depth(list, j) = 0
        ELSE \/ Cardinality(Bulk(list, size, n)) = size
             \/ \E j \in later : list[j] = "open"
             \/ over

Bulks(list, size, over) ==
    {Bulk(list, size, n) : n \in {m \in Commands(list) : Due(list, size, over, m)}}
===============================================================================
