SPECIFICATION MCSpec
CONSTANTS
    Pid = {p1, p2, p3}
    Top = p1
    Fd = {"3", "4"}
    Dirs <- MCDirs
    Program <- MCProgram
    StartDir <- AtTop
    Calls <- ShellCalls
    MaxCalls = 5
    Procs = {"1", "2"}
    Names = {"open", "chdir"}
    ExeFiles = {"f", "g"}
    MaxLogged = 4
    MaxCommand = 5
    Parts = {"tracker"}
    Seeded = FALSE
INVARIANT FilesIdentified
CHECK_DEADLOCK FALSE
