SPECIFICATION MCSpec
CONSTANTS
    p1 = p1
    p2 = p2
    t1 = t1
    t2 = t2
    t3 = t3
    NoProc = NoProc
    Proc = {p1, p2}
    Thread = {t1, t2, t3}
    Owner <- TwoAndOne
    Pieces = 2
    MaxCalls = 2
    Kills = TRUE
    Closes = TRUE
    Fails = TRUE
    Other <- MCOther
    MaxEnv = 3
    Tempfile = TRUE
INVARIANTS
    LossBounded
    LockReleased
    MemoryReturned
    KeepsVariables
PROPERTY WrappersReturn
CHECK_DEADLOCK FALSE
