--------------------------------- MODULE Matrix --------------------------------
(***************************************************************************)
(* 06_matrix: TMatrix (matrix.hpp) is a list of rows sorted by index, TRow *)
(* (row.hpp) a list of cells sorted by index; what is absent has the value *)
(* V.  Both are searched by std::lower_bound, and operator[] inserts what  *)
(* it does not find.                                                       *)
(*                                                                         *)
(* The program uses a matrix as main.cpp and tests.cpp do: m[r][c] to      *)
(* write and to read, and loops from begin() to end(), in whose body cells *)
(* may be written: the lists invalidate no iterator.  Elements are never   *)
(* removed, so an iterator is the index of the element it points to.       *)
(***************************************************************************)
EXTENDS Integers, Sequences, FiniteSets, SequencesExt

CONSTANTS
    RowIds, ColIds,  \* indices the program uses
    Values,          \* values of type T
    V,               \* the default
    NoLoop           \* what is in the place of an iterator outside loops

VARIABLES
    rows,       \* TMatrix::Items
    it,         \* the iterator of a loop in progress, and the row whose end() it waits for
    undefined,  \* the program has undefined behaviour
    written,    \* history: what was last assigned to a cell
    opened,     \* history: the rows in the order of their first access
    path,       \* history: the cells the loop has visited
    blank,      \* history: the cell it is at had the value V when it came to it
    steady,     \* history: the cells other than V from the loop's begin() on
    grown       \* history: a row was added during the loop

history == <<written, opened, path, blank, steady, grown>>
vars == <<rows, it, undefined, history>>

Positions(list, ix) == {i \in DOMAIN list : list[i].index = ix}
Item(list, ix) == list[CHOOSE i \in DOMAIN list : list[i].index = ix]
Cells(r) == Item(rows, r).cells

Init ==
    /\ rows = << >>
    /\ it = NoLoop
    /\ undefined = FALSE
    /\ written = [k \in RowIds \X ColIds |-> V]
    /\ opened = << >>
    /\ path = << >>
    /\ blank = FALSE
    /\ steady = {}
    /\ grown = FALSE

-------------------------------------------------------------------------------
(* operator[] *)

\* Mutant: upper_bound instead of lower_bound.
UpperBound(list, ix) ==
    Cardinality({i \in DOMAIN list : list[i].index <= ix}) + 1

\* The first element that is not less, on a sorted list.
LowerBound(list, ix) ==
    Cardinality({i \in DOMAIN list : list[i].index < ix}) + 1

\* cells[c] = v
Assign(cells, c, v) ==
    LET lower == LowerBound(cells, c)
    IN  IF lower <= Len(cells) /\ cells[lower].index = c
        THEN [cells EXCEPT ![lower].value = v]
        ELSE InsertAt(cells, lower, [index |-> c, value |-> v])

\* m[r][c] of a constant matrix
Get(r, c) ==
    IF Positions(rows, r) = {} \/ Positions(Cells(r), c) = {}
    THEN V ELSE Item(Cells(r), c).value

Occupied == {k \in RowIds \X ColIds : Get(k[1], k[2]) # V}

\* What the history keeps of m[r][c] = v.
Record(r, c, v) ==
    /\ written' = [written EXCEPT ![<<r, c>>] = v]
    /\ steady' = IF v = V THEN steady \ {<<r, c>>} ELSE steady
    /\ opened' = IF Positions(rows, r) = {} THEN Append(opened, r) ELSE opened
    /\ grown' = (grown \/ (it # NoLoop /\ Positions(rows, r) = {}))
    /\ UNCHANGED <<path, blank>>

\* A row that exists.
WriteRow(r, c, v) ==
    LET lower == LowerBound(rows, r)
    IN  /\ lower <= Len(rows)
        /\ rows[lower].index = r
        /\ rows' = [rows EXCEPT ![lower].cells = Assign(@, c, v)]
        /\ Record(r, c, v)
        /\ UNCHANGED <<it, undefined>>

\* A row after all others is appended.
AppendRow(r, c, v) ==
    /\ LowerBound(rows, r) = Len(rows) + 1
    /\ rows' = Append(rows, [index |-> r, cells |-> Assign(<< >>, c, v)])
    /\ Record(r, c, v)
    /\ UNCHANGED <<it, undefined>>

\* Mutant: a row that is appended has no TRow, either.
InsertAnyRow(r, c, v) ==
    /\ Positions(rows, r) = {}
    /\ undefined' = TRUE
    /\ Record(r, c, v)
    /\ UNCHANGED <<rows, it>>

\* A row before others is inserted with the default member initializer of
\* TRowItem::row, nullptr, which operator[] dereferences.
InsertRow(r, c, v) ==
    LET lower == LowerBound(rows, r)
    IN  /\ lower <= Len(rows)
        /\ rows[lower].index # r
        /\ undefined' = TRUE
        /\ Record(r, c, v)
        /\ UNCHANGED <<rows, it>>

\* m[r][c] = v.  Reading m[r][c] of a matrix that is not constant is the same as
\* to write what it has.
Write(r, c, v) ==
    \/ WriteRow(r, c, v)
    \/ AppendRow(r, c, v)
    \/ InsertRow(r, c, v)

-------------------------------------------------------------------------------
(* TIterator *)

At(r, last) == [row |-> r, cell |-> Head(Cells(r)).index, last |-> last]

\* begin() and end(): the first cell, whatever its value; front() of an empty
\* list is undefined.
Begin ==
    /\ it = NoLoop
    /\ IF rows = << >>
       THEN undefined' = TRUE /\ UNCHANGED <<it, path, blank, steady>>
       ELSE /\ it' = At(Head(rows).index, Last(rows).index)
            /\ path' = <<<<it'.row, it'.cell>>>>
            /\ blank' = (Get(it'.row, it'.cell) = V)
            /\ steady' = Occupied
            /\ UNCHANGED undefined
    /\ grown' = FALSE
    /\ UNCHANGED <<rows, written, opened>>

\* Mutant: the iterator of a row stops at every cell.
AllNextCells == {i \in DOMAIN Cells(it.row) : Cells(it.row)[i].index > it.cell}

\* Where TRow::TIterator may stop next, as positions in the row.
NextCells ==
    {i \in DOMAIN Cells(it.row) :
        /\ Cells(it.row)[i].index > it.cell
        /\ Cells(it.row)[i].value # V}

NextRows == {i \in DOMAIN rows : rows[i].index > it.row}

Least(S) == CHOOSE i \in S : \A j \in S : i <= j

Visit ==
    /\ path' = Append(path, <<it'.row, it'.cell>>)
    /\ blank' = (Get(it'.row, it'.cell) = V)

\* operator++ within a row
NextInRow ==
    /\ NextCells # {}
    /\ it' = [it EXCEPT !.cell = Cells(it.row)[Least(NextCells)].index]
    /\ Visit
    /\ UNCHANGED undefined

\* ... to the first cell of the next row, whatever its value ...
NextRow ==
    /\ NextCells = {}
    /\ NextRows # {}
    /\ it' = At(rows[Least(NextRows)].index, it.last)
    /\ Visit
    /\ UNCHANGED undefined

\* ... and to the end, which the loop recognises if the row is the one that was
\* last when it began; otherwise it goes on behind the list of rows.
NextEnd ==
    /\ NextCells = {}
    /\ NextRows = {}
    /\ IF it.row = it.last
       THEN it' = NoLoop /\ UNCHANGED undefined
       ELSE undefined' = TRUE /\ UNCHANGED it
    /\ blank' = FALSE
    /\ UNCHANGED path

Increment ==
    /\ it # NoLoop
    /\ NextInRow \/ NextRow \/ NextEnd
    /\ UNCHANGED <<rows, written, opened, steady, grown>>

-------------------------------------------------------------------------------
(* Dump *)

\* A row of values from column lo to column hi, as TRow::Dump prints it: all
\* cells from lo on, then V from behind the last cell of the row to hi.
RowDump(cells, lo, hi) ==
    LET value(c) == IF Positions(cells, c) = {} THEN V ELSE Item(cells, c).value
        last == IF cells = << >> THEN lo - 1 ELSE Last(cells).index
    IN  [i \in 1 .. last - lo + 1 |-> value(lo + i - 1)] \o [i \in 1 .. hi - last |-> V]

\* TMatrix::Dump: rows from top to the last one in the list that is not below bottom.
Dump(top, bottom, lo, hi) ==
    LET shown == {i \in DOMAIN rows : rows[i].index \in top .. bottom}
        height == IF shown = {} THEN 0
                  ELSE rows[CHOOSE i \in shown : \A j \in shown : i >= j].index - top + 1
    IN  [i \in 1 .. height |->
            IF Positions(rows, top + i - 1) = {} THEN RowDump(<< >>, lo, hi)
            ELSE RowDump(Cells(top + i - 1), lo, hi)]

-------------------------------------------------------------------------------

Stopped == undefined /\ UNCHANGED vars

Next ==
    \/ /\ ~undefined
       /\ \/ \E r \in RowIds, c \in ColIds, v \in Values : Write(r, c, v)
          \/ Begin
          \/ Increment
    \/ Stopped

Spec == Init /\ [][Next]_vars

-------------------------------------------------------------------------------
(* Properties *)

Keys == RowIds \X ColIds

\* The part of a window that Dump prints as it should: as long as every row of
\* it ends in the window, or just before it.
WindowRight(top, bottom, lo, hi) ==
    LET window == Dump(top, bottom, lo, hi)
        fits == \A i \in DOMAIN rows :
                    rows[i].index \in top .. bottom => Last(rows[i].cells).index \in lo - 1 .. hi
    IN  fits => \A i \in DOMAIN window :
                    window[i] = [j \in 1 .. hi - lo + 1 |-> written[<<top + i - 1, lo + j - 1>>]]

\* The lists implement a total function: a cell has what was last assigned to
\* it, through both lists and whatever was inserted around it, if it is read by
\* operator[] and if it is printed by Dump.
ReadsLastWritten ==
    ~undefined =>
        /\ \A k \in Keys : Get(k[1], k[2]) = written[k]
        /\ \A top, bottom \in RowIds, lo, hi \in ColIds :
              top <= bottom /\ lo <= hi => WindowRight(top, bottom, lo, hi)

Before(j, k) == j[1] < k[1] \/ (j[1] = k[1] /\ j[2] < k[2])

\* A loop visits no cell twice and none before another one it comes after; a cell
\* that has the value V when it comes to it is the first one it visits in its row
\* (operator++ of TRow passes over such cells, begin() does not, although main.cpp
\* takes such a loop for one over the occupied cells); and when it is over it has
\* visited every cell that was other than V all the time, also if its body writes
\* cells around the iterator.
IterationComplete ==
    /\ \A i, j \in DOMAIN path : i < j => Before(path[i], path[j])
    /\ blank => \A i \in DOMAIN path : i < Len(path) => path[i][1] # path[Len(path)][1]
    /\ it = NoLoop /\ path # << >> /\ ~undefined => steady \subseteq {path[i] : i \in DOMAIN path}

\* What a program has to respect: as long as rows are first accessed in
\* rising order, no loop is begun on an empty matrix and no row is added
\* during a loop, nothing is undefined.
DefinedInOrder ==
    undefined =>
        \/ opened = << >>
        \/ grown
        \/ \E i, j \in DOMAIN opened : i < j /\ opened[i] > opened[j]

===============================================================================
