SPECIFICATION Spec
CONSTANTS
    Clients = {c1, c2}
    BulkSizes = {2}
    IoThreads = 2
    MaxLines = 7
INVARIANTS
    CommandInOnePlace
    PrintedInOrder
    DynamicBlocksWhole
PROPERTIES
    EnoughDataIsDumped
    EveryLineHandled
