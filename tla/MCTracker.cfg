SPECIFICATION MCSpec
CONSTANTS
    Pid = {p1, p2, p3}
    Top = p1
    Fd = {"3", "4"}
    Dirs <- MCDirs
    Program <- MCProgram
    StartDir <- AtTop
    Calls <- AllCalls
    MaxCalls = 5
    Procs = {"1", "2"}
    Names = {"open", "chdir"}
    ExeFiles = {"f", "g"}
    MaxLogged = 4
    MaxCommand = 5
    Parts = {"tracker", "strace", "ktrace", "tracker.exe", "command"}
    Seeded = TRUE
SYMMETRY Symmetry
INVARIANTS
    InTouch
    FilesExact
    HandedOn
    ExeOutputs
    KeyTellsApart
CHECK_DEADLOCK FALSE
