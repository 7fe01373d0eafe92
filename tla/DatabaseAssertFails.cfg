SPECIFICATION Spec
CONSTANTS
    Requests = {r1, r2, r3}
    TableNames = {"A"}
    RowIds = {1}
    Workloads <- OneRow
    PoolCapacity = 4
    Builds = {TRUE}
    NULL = NULL
SYMMETRY Symmetry
INVARIANTS
    AssertHolds
