SPECIFICATION LifetimeSpec
CONSTANTS
    Requests = {r1, r2, r3}
    TableNames = {"A", "B"}
    RowIds = {1}
    Workloads <- AllKinds
    PoolCapacity = 2
    Builds = {FALSE}
    NULL = NULL
INVARIANTS
    PatientOwnerEnds
