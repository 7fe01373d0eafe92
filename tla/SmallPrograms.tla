------------------------------ MODULE SmallPrograms ----------------------------
(***************************************************************************)
(* The programs about which SmallProgramsProofs has theorems: 03 allocator *)
(* (Allocator, Container), 06 matrix (Matrix), 07 bulk (BulkLocal) and     *)
(* timus 1022 (TopologicalSort).                                           *)
(***************************************************************************)
EXTENDS Container, BulkLocal

CONSTANTS
    RowIds, ColIds, V, NoLoop,  \* Matrix
    NodeCount, MaxEdges         \* TopologicalSort

VARIABLES
    rows, it, undefined, written, opened, path, blank, steady, grown,
    parentID, children, incoming, heap, results

\* Indices are numbers (size_t), without gaps between those that are used.
ASSUME IndicesAssumption ==
    /\ RowIds \subseteq Nat /\ \A i, j \in RowIds : i .. j \subseteq RowIds
    /\ ColIds \subseteq Nat /\ \A i, j \in ColIds : i .. j \subseteq ColIds

\* No iterator is mistaken for the absence of one.
ASSUME NoLoopAssumption == NoLoop \notin [row : RowIds, cell : ColIds, last : RowIds]

\* The number of nodes is a uint32_t.
ASSUME NodeCountAssumption == NodeCount \in Nat

SparseMatrix == INSTANCE Matrix
Sort == INSTANCE TopologicalSort

matrixVars == <<rows, it, undefined, written, opened, path, blank, steady, grown>>
sortVars == <<parentID, children, incoming, heap, results>>

-------------------------------------------------------------------------------
(* Properties; those of the others are in Allocator, Container and BulkLocal *)

\* A cell has what was last assigned to it (operator[], Dump).
ReadsLastWritten == SparseMatrix!ReadsLastWritten

\* A loop visits every cell that stays occupied, once and in order (TIterator),
\* also if its body writes cells.
IterationComplete == SparseMatrix!IterationComplete

\* Rows accessed in rising order leave nothing undefined (operator[], begin).
DefinedInOrder == SparseMatrix!DefinedInOrder

\* timus 1022: parents come before their children (TopologicalSort).
ParentsFirst == Sort!ParentsFirst
===============================================================================
