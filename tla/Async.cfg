SPECIFICATION Spec
CONSTANTS
    Clients = {c1, c2}
    BulkSizes = {0, 2}
    MaxLines = 4
    MaxSeconds = 1
INVARIANTS
    BlocksMatchInput
    FileKept
    HandlesKnown
PROPERTIES
    EveryCallReturns
