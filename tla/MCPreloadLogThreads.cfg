SPECIFICATION Spec
CONSTANTS
    p1 = p1
    p2 = p2
    t1 = t1
    t2 = t2
    t3 = t3
    NoProc = NoProc
    Proc = {p1}
    Thread = {t1, t2}
    Owner <- TwoThreads
    Pieces = 2
    MaxCalls = 2
    Kills = FALSE
    Closes = FALSE
    Fails = FALSE
INVARIANT LogComplete
CHECK_DEADLOCK FALSE
