SPECIFICATION Spec
CONSTANTS
    Sessions = {s1, s2}
    IoThreads = {w1, w2}
    Inputs = {"command", "malformed", "throwing"}
    MaxRows = 2
    NoSession = NoSession
INVARIANTS
    AnswersInOrder
    AnswerComplete
PROPERTIES
    EveryClientAnswered
\* Clients need not do anything, and served sessions end.
CHECK_DEADLOCK FALSE
