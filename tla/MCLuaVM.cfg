SPECIFICATION MCSpec
CONSTANTS
    MAXSTACK = 20
    MAXINDEXRK = 2
    BITRK = 100
    LFIELDS_PER_FLUSH = 2
    StackSize = 30
    HostResults <- Results1
    Chunks <- MCChunks
    Meanings <- MCMeanings
    LF = "LF"
    CR = "CR"
    EOZ = "EOZ"
    Reserved <- MCReserved
    MaxLocales = 1
INVARIANTS TextRead QuotedReadsBack CompiledRight FramesInPlace
CHECK_DEADLOCK FALSE
