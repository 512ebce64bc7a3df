SPECIFICATION Spec
CONSTANTS
    File <- MCFile
    Value <- MCValue
    Absent = Absent
    Dir = Dir
    Parent <- MCParent
    Rank <- MCRank
    Cmd = {"mk", "cc", "ld"}
    Clean = "clean"
    Succeeds <- MCSucceeds
    Reads <- MCReads
    Writes <- MCWrites
    Out <- MCOut
    Jobs <- MCJobs
    InitTrees <- MCInitTrees
    UserEdits <- MCUserEdits
    EditStages <- QuietStages
    Stubborn = {"d/o"}
PROPERTIES
    TableOutlivesOutputs
    Terminates
    BuildsLikeFull
    
