---------------------------- MODULE TopologicalSort ----------------------------
(***************************************************************************)
(* timus/1022: one line of the input for each node names its children, and *)
(* TGraph::TopologicalSort takes from a heap, again and again, a node with *)
(* the fewest incoming edges.                                              *)
(*                                                                         *)
(* Which of several such nodes is on top depends on the order of an        *)
(* unordered_map and on make_heap: it is left open.  The id of the node is *)
(* read after pop_back has destroyed it; the destructor does not touch it. *)
(***************************************************************************)
EXTENDS Integers, FiniteSets, SequencesExt

CONSTANTS
    NodeCount,  \* N, the number of nodes
    MaxEdges    \* bound: children in the input

VARIABLES
    parentID,  \* the line that is read
    children,  \* TNode::outgoing by id: how often each child is in it
    incoming,  \* TNode::incoming by id
    heap,      \* ids in nodes_heap
    results

vars == <<parentID, children, incoming, heap, results>>

Ids == 1 .. NodeCount

Init ==
    /\ parentID = 1
    /\ children = [p \in Ids |-> [c \in Ids |-> 0]]
    /\ incoming = [c \in Ids |-> 0]
    /\ heap = {}
    /\ results = << >>

Edges == {e \in Ids \X Ids : children[e[1]][e[2]] > 0}
CountEdges == FoldFunction(LAMBDA list, n : n + FoldFunction(+, 0, list), 0, children)

AddChild(c) ==
    /\ parentID <= NodeCount
    /\ CountEdges < MaxEdges
    /\ children' = [children EXCEPT ![parentID][c] = @ + 1]
    /\ incoming' = [incoming EXCEPT ![c] = @ + 1]
    /\ UNCHANGED <<parentID, heap, results>>

\* The end of a line; behind the last one the heap is made.
EndOfLine ==
    /\ parentID <= NodeCount
    /\ parentID' = parentID + 1
    /\ heap' = IF parentID = NodeCount THEN Ids ELSE {}
    /\ UNCHANGED <<children, incoming, results>>

\* Mutant: a child named twice is dropped once.
DropOnce(p) == [c \in Ids |-> incoming[c] - (IF children[p][c] > 0 THEN 1 ELSE 0)]

\* Once for each time a child is in the list.
DropParent(p) == [c \in Ids |-> IF c \in heap THEN incoming[c] - children[p][c] ELSE incoming[c]]

Pop(p) ==
    /\ p \in heap
    /\ \A q \in heap : incoming[p] <= incoming[q]
    /\ incoming' = DropParent(p)
    /\ heap' = heap \ {p}
    /\ results' = Append(results, p)
    /\ UNCHANGED <<parentID, children>>

Stopped == parentID > NodeCount /\ heap = {} /\ UNCHANGED vars

Next ==
    \/ \E c \in Ids : AddChild(c)
    \/ EndOfLine
    \/ \E p \in Ids : Pop(p)
    \/ Stopped

Spec == Init /\ [][Next]_vars

-------------------------------------------------------------------------------
(* Properties *)

\* The nodes on a cycle and those below one: going up from them never ends.
Tangled ==
    UNION {S \in SUBSET Ids : \A n \in S : \E p \in S : <<p, n>> \in Edges}

\* Each node is printed once.  Its parents stand before it, unless it is on a
\* cycle or below one: also then all that can be ordered is ordered, and
\* printed before the rest.
ParentsFirst ==
    LET before(i) == ToSet(SubSeq(results, 1, i - 1))
    IN  parentID > NodeCount =>
        /\ ToSet(results) = Ids \ heap
        /\ Len(results) = Cardinality(Ids \ heap)
        /\ \A i \in DOMAIN results :
              IF results[i] \in Tangled
              THEN Ids \ Tangled \subseteq before(i)
              ELSE \A e \in Edges : e[2] = results[i] => e[1] \in before(i)
===============================================================================
