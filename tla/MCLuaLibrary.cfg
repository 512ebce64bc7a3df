SPECIFICATION Spec
CONSTANTS
    Keys <- MCKeys
    Vals = {val}
    Nil = Nil
    Idle = Idle
    val = val
    k1 = k1
    k2 = k2
    k3 = k3
    HashStr <- MCHashStr
    HashNum <- MCHashNum
    MaxArray = 1
    MaxCaptures = 3
    Absent = Absent
    SizeInt = 2
    SizeSize = 3
    SizeNumber = 4
    MaxCCalls = 2
    BufferSize = 2
    Limit = 3
    MaxText = 11
    MaxRef = 4
    Values = {x, y}
    NilValue = NilValue
    Modules = {"m1", "m2", "m3", "s1", "s2"}
    HasPreload = {"m2"}
    HasFile = {"m1"}
    HasLib = {}
    HasRoot = {"s1", "s2"}
    Library <- MCLibrary
    MaxRequires = 3
    main = main
    co1 = co1
    Main = main
    Coroutines = {co1}
    MAXCCALLS = 4
    Margin = 1
    MAXCALLS = 4
    BasicCI = 1
    MaxDepth = 6
    StrFind <- str_find_aux
    Gmatch <- Matches
    Replace <- str_gsub
    Dump <- luaU_dump
    Undump <- luaU_undump
INVARIANTS CallsUnwind TableKept PatternsMatch ArraysKept ChunksReadBack StorageKept RequireSound
PROPERTY TraversalComplete
CHECK_DEADLOCK FALSE
