SPECIFICATION Spec
CONSTANTS
    Capacity = 3
    Tasks = {t1, t2, t3}
    Termination = Termination
INVARIANTS
    NoLostWakeup
    TaskInOnePlace
    TerminationsLast
PROPERTIES
    ImplementsTaskPool
\* A destroyed pool takes no further step.
CHECK_DEADLOCK FALSE
