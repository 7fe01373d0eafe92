SPECIFICATION Spec
CONSTANTS
    Files = {1, 2, 3}
    Disks <- SomeDisks
    BlockSize = 2
    MinFileSizes = {0, 1}
    MaxEntries = 2
    End = End
INVARIANTS
    ReadsInOrderIfNecessary
PROPERTIES
    DuplicatesFound
