SPECIFICATION Spec
CONSTANTS
    File <- MCFile
    Value <- MCValue
    Absent = Absent
    Dir = Dir
    Parent <- MCParent
    Rank <- MCRank
    Cmd = {"mk", "cc"}
    Clean = "clean"
    Succeeds <- MCSucceeds
    Reads <- MCReads
    Writes <- MCWrites
    Out <- MCOut
    Jobs <- MCJobs
    InitTrees <- MCInitTrees
    UserEdits <- MCUserEdits
    EditStages <- AllStages
    Stubborn = {"d/o"}
INVARIANTS
    TypeOK
    SkipSound
    RecordsValid
