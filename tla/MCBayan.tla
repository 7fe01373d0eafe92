-------------------------------- MODULE MCBayan --------------------------------
(* Files for the instances of Bayan that TLC checks: blocks of two bytes. *)
EXTENDS Bayan

\* Nothing; one block, short or in full; two blocks with the
\* same first one, short or in full, or with another second one; three blocks.
Samples == << << >>, <<1>>, <<1, 0>>, <<1, 0, 1>>, <<1, 0, 1, 0>>,
              <<1, 0, 1, 1>>, <<1, 0, 1, 0, 1>>, <<1, 0, 1, 0, 1, 1>> >>

\* Files are found in any order, so that their samples may come in order.
SomeDisks ==
    {[f \in Files |-> Samples[rank[f]]] :
        rank \in {r \in [Files -> DOMAIN Samples] : \A f, g \in Files : f < g => r[f] <= r[g]}}
===============================================================================
