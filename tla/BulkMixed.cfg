SPECIFICATION Spec
CONSTANTS
    Clients = {c1, c2}
    BulkSizes = {2, 3}
    IoThreads = 2
    MaxLines = 4
PROPERTIES
    EnoughDataIsDumped
