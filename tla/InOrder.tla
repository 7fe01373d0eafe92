-------------------------------- MODULE InOrder --------------------------------
(***************************************************************************)
(* Sets of numbers, and the elements of a list that are in a set, one      *)
(* after the other.                                                        *)
(***************************************************************************)
EXTENDS Integers, FiniteSets

\* The element of S that has k - 1 smaller ones.
Nth(S, k) == CHOOSE i \in S : Cardinality({j \in S : j <= i}) = k

InOrder(S) == [k \in 1 .. Cardinality(S) |-> Nth(S, k)]

Kept(list, S) ==
    LET places == {i \in DOMAIN list : list[i] \in S}
    IN  [k \in 1 .. Cardinality(places) |-> list[Nth(places, k)]]
===============================================================================
