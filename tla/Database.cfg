SPECIFICATION Spec
CONSTANTS
    Requests = {r1, r2, r3, r4}
    TableNames = {"A", "B"}
    RowIds = {1, 2}
    Workloads <- OneTableOrJoins
    PoolCapacity = 4
    Builds = {FALSE, TRUE}
    NULL = NULL
SYMMETRY Symmetry
INVARIANTS
    TypeOK
    TxOrder
    NoFutureRead
    ReadsAreRegular
    MostRecentVersion
PROPERTIES
    RowsFrozenDuringScan
