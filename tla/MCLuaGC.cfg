SPECIFICATION Spec
CONSTANTS
    main = main
    glob = glob
    t1 = t1
    t2 = t2
    mw = mw
    mgc = mgc
    u1 = u1
    u2 = u2
    c1 = c1
    c2 = c2
    v1 = v1
    co = co
    s1 = s1
    pr = pr
    Nil = Nil
    Dead = Dead
    Obj <- MCObj
    Kind <- MCKind
    Main = main
    Slots = {1, 2}
    Mode <- MCMode
    HasGC = {mgc}
    Worlds <- MCWorlds
    DebugApi = FALSE
INVARIANTS
    NothingDangles
    MarkingSound
PROPERTIES
    FinalizedBeforeFreed
    FullGCFreesGarbage
CHECK_DEADLOCK FALSE
