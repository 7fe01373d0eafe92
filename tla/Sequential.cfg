SPECIFICATION Spec
CONSTANTS
    RowIds = {0, 1, 2}
    ColIds = {0, 1}
    Values = {0, 1}
    V = 0
    NoLoop = NoLoop
    N = 3
    ElementSize = 2
    MaxElements = 9
    BulkSizes = {0, 1, 2}
    MaxLines = 6
    MaxSeconds = 1
    Lines <- SomeLines
    NoNumber = NoNumber
    Junk = NoNumber
    MaxAddresses = 4
    Sessions = {s1, s2}
    Letters = {"a", "b"}
    BufferSize = 3
    MaxText = 5
    NodeCount = 4
    MaxEdges = 4
    MaxDigits = 3
    Requests <- SomeRequests
    Number <- SomeNumbers
    Width <- SomeWidths
    Phrase <- SomePhrases
    RowSize = 28
    IntRange = 8
    IdRange = 32
    MaxRequests = 4
INVARIANTS
    ReadsLastWritten
    IterationComplete
    DefinedInOrder
    BlocksApart
    ContainerHolds
    BlocksPrinted
    OutputRight
    LinesHandled
    ParentsFirst
    TermsFound
    AnswerRight
    DownExplained
