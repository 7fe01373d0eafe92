-------------------------------- MODULE IpFilter --------------------------------
(***************************************************************************)
(* 02_ip_filter: addresses are read line by line from the standard input    *)
(* (addresses.cpp, address.cpp), sorted in reverse lexicographic order and *)
(* printed whole and through three filters (main.cpp).                     *)
(*                                                                         *)
(* What matters of a line is what stands between the dots before its first *)
(* tab: the numbers std::stoi makes of it, or Junk, which makes it throw.  *)
(***************************************************************************)
EXTENDS Integers, FiniteSets, SequencesExt, InOrder

CONSTANTS
    Lines,        \* lines of the input, as non-empty sequences of fields
    Junk,         \* a field that is no number, as is the one of an empty line
    MaxAddresses  \* bound: lines of the input

VARIABLES
    source,  \* history: the lines read
    items,   \* TAddresses::items
    output,  \* the lists printed
    phase    \* "reading", "sorted", "done" or "thrown"

vars == <<source, items, output, phase>>

Init ==
    /\ source = << >>
    /\ items = << >>
    /\ output = << >>
    /\ phase = "reading"

\* GetNextByte: behind the last field the next one starts at npos + 1, which is
\* the beginning of the line; behind the fourth nothing is looked at.
Field(line, i) == line[1 + ((i - 1) % Len(line))]

\* An octet is a byte of the number that std::stoi returns.
Parse(line) == [i \in 1 .. 4 |-> Field(line, i) % 256]

ReadLine(line) ==
    /\ phase = "reading"
    /\ Len(source) < MaxAddresses
    /\ source' = Append(source, line)
    /\ IF \E i \in 1 .. 4 : Field(line, i) = Junk
       THEN phase' = "thrown" /\ UNCHANGED items
       ELSE items' = Append(items, Parse(line)) /\ UNCHANGED phase
    /\ UNCHANGED output

\* operator< of std::array
Less(a, b) == \E i \in 1 .. 4 : a[i] < b[i] /\ \A j \in 1 .. i - 1 : a[j] = b[j]

\* The lists that have the elements of `list`, each as often.
Permuted(list) ==
    {[i \in DOMAIN list |-> list[p[i]]] : p \in Bijection(DOMAIN list, DOMAIN list)}

\* Mutant: the iterators are not reversed.
SortAscending ==
    /\ phase = "reading"
    /\ \E sorted \in Permuted(items) :
          /\ \A i, j \in DOMAIN items : i < j => ~Less(sorted[j], sorted[i])
          /\ items' = sorted
          /\ output' = <<sorted>>
    /\ phase' = "sorted"
    /\ UNCHANGED source

\* The end of the input; std::sort on reverse iterators: no element is less than
\* one behind it.
Sort ==
    /\ phase = "reading"
    /\ \E sorted \in Permuted(items) :
          /\ \A i, j \in DOMAIN items : i < j => ~Less(sorted[i], sorted[j])
          /\ items' = sorted
          /\ output' = <<sorted>>
    /\ phase' = "sorted"
    /\ UNCHANGED source

Filter ==
    /\ phase = "sorted"
    /\ output' = output \o <<Kept(items, {a \in ToSet(items) : a[1] = 1}),
                             Kept(items, {a \in ToSet(items) : a[1] = 46 /\ a[2] = 70}),
                             Kept(items, {a \in ToSet(items) : 46 \in ToSet(a)})>>
    /\ phase' = "done"
    /\ UNCHANGED <<source, items>>

Stopped == phase \in {"done", "thrown"} /\ UNCHANGED vars

Next == (\E line \in Lines : ReadLine(line)) \/ Sort \/ Filter \/ Stopped

Spec == Init /\ [][Next]_vars

-------------------------------------------------------------------------------
(* Properties *)

\* Lines with four bytes between their dots come out as they are.
Proper(line) == Len(line) = 4 /\ \A i \in 1 .. 4 : line[i] \in 0 .. 255

\* If every line is an address, the first list has each of them as often as it
\* was read, from the largest to the smallest, and the others have what their
\* filter lets through, in the same order.
OutputRight ==
    phase = "done" /\ (\A i \in DOMAIN source : Proper(source[i])) =>
        /\ \A a \in ToSet(source) \union ToSet(output[1]) :
              Cardinality({i \in DOMAIN source : source[i] = a})
              = Cardinality({i \in DOMAIN output[1] : output[1][i] = a})
        /\ \A i, j \in DOMAIN output[1] : i < j => ~Less(output[1][i], output[1][j])
        /\ \A k \in 2 .. 4 : \A i, j \in DOMAIN output[k] :
              i < j => ~Less(output[k][i], output[k][j])
        /\ ToSet(output[2]) = {a \in ToSet(source) : a[1] = 1}
        /\ ToSet(output[3]) = {a \in ToSet(source) : a[1] = 46 /\ a[2] = 70}
        /\ ToSet(output[4]) = {a \in ToSet(source) : \E i \in 1 .. 4 : a[i] = 46}
===============================================================================
