SPECIFICATION Spec
CONSTANTS
    t1 = t1
    t2 = t2
    t3 = t3
    Thread = {t1, t2, t3}
    MaxQuery = 3
    Workload <- Disciplined
INVARIANTS
    TypeOK
    OwnChunks
    HandedOutOnce
    EmptyMeansAll
    NeverCrashes
PROPERTIES
    EveryCallAnswered
CHECK_DEADLOCK FALSE
