----------------------------- MODULE MCDatabase -----------------------------
(* Workloads and symmetry for the instances of Database that TLC checks. *)
EXTENDS Database, TLC

Insert(t, k) == [op |-> "INSERT", table |-> t, row |-> k]
Select(t) == [op |-> "SELECT", table |-> t]
Truncate(t) == [op |-> "TRUNCATE", table |-> t]
Intersect(t, u) == [op |-> "INTERSECT", table |-> t, other |-> u]
Difference(t, u) == [op |-> "DIFFERENCE", table |-> t, other |-> u]

\* One table with one row: versions piling up in one list.
OneRow == {{Insert("A", 1), Select("A"), Truncate("A")}}

\* One table with two rows: rows created while the table is scanned.
OneTable == {Insert("A", 1), Insert("A", 2), Select("A"), Truncate("A")}

\* Two tables and the joins of them, also of one with itself.
Joins == {Insert("A", 1), Insert("B", 1), Truncate("B"),
          Intersect("A", "B"), Difference("A", "B"), Difference("B", "B")}

\* A run per workload, but in one go.
OnlyOneTable == {OneTable}
OneTableOrJoins == {OneTable, Joins}

\* Commands of each kind, on tables that are there or not.
AllKinds == {{Insert("A", 1), Select("A"), Truncate("A")},
             {Insert("A", 1), Insert("B", 1), Intersect("A", "B")},
             {Insert("A", 1), Difference("A", "B"), Truncate("B")}}

Symmetry == Permutations(Requests)
=============================================================================
