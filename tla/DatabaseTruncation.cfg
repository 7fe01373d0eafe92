SPECIFICATION Spec
CONSTANTS
    Requests = {r1, r2, r3, r4}
    TableNames = {"A"}
    RowIds = {1, 2}
    Workloads <- OnlyOneTable
    PoolCapacity = 4
    Builds = {TRUE}
    NULL = NULL
SYMMETRY Symmetry
INVARIANTS
    TruncationHidesRows
