------------------------------ MODULE MCTracker ------------------------------
(***************************************************************************)
(* Up to three processes in a tree T with a directory s, next to a         *)
(* directory X outside of the tree; the logs in which calls appear; and    *)
(* the command lines under which they are recorded.  A behaviour is about  *)
(* one of these.                                                           *)
(***************************************************************************)
EXTENDS SyscallTracker, TraceLogs, Commands

CONSTANT Parts                 \* what the run looks at
VARIABLE part

Rel(s) == [abs |-> FALSE, path |-> s]
Abs(s) == [abs |-> TRUE, path |-> s]

MCCalls == {
    [call |-> "open", name |-> Rel(<<"f">>), dir |-> "in", fd |-> "3"],
    [call |-> "open", name |-> Rel(<<"s">>), dir |-> "in", fd |-> "3"],
    [call |-> "openat", at |-> "3", name |-> Rel(<<"f">>), dir |-> "out", fd |-> "4"],
    [call |-> "creat", name |-> Rel(<<"g">>), dir |-> "out", fd |-> "4"],
    [call |-> "exec", name |-> Abs(<<"T", "f">>)],
    [call |-> "chdir", name |-> Rel(<<"s">>)],
    [call |-> "chdir", name |-> Abs(<<"X">>)],
    [call |-> "fchdir", at |-> "3"],
    [call |-> "mkdirat", at |-> "3", name |-> Rel(<<"d">>), dir |-> "out"],
    [call |-> "rename", from |-> Rel(<<"g">>), to |-> Rel(<<"f">>)],
    [call |-> "renameat", at |-> "3", from |-> Rel(<<"f">>), at2 |-> "AT_FDCWD", to |-> Rel(<<"g">>)] }

OutsideCalls == {
    [call |-> "rename", from |-> Abs(<<"X", "g">>), to |-> Rel(<<"f">>)],
    [call |-> "renameat", at |-> "AT_FDCWD", from |-> Abs(<<"X", "g">>),
     at2 |-> "AT_FDCWD", to |-> Rel(<<"f">>)],
    [call |-> "open", name |-> Abs(<<"X", "f">>), dir |-> "in", fd |-> "3"],
    [call |-> "chdir", name |-> Abs(<<"T", "s">>)] }

\* A shell that starts a compiler.
ShellCalls == {
    [call |-> "exec", name |-> Abs(<<"X", "cc">>)],
    [call |-> "creat", name |-> Rel(<<"g">>), dir |-> "out", fd |-> "3"] }

MCInit == /\ Init /\ LogsInit /\ CommandInit /\ part \in Parts
          /\ part # "tracker.exe" => exe.there = {}
          /\ part # "command" => rundir = <<>> /\ dirsep = "/"
MCNext ==
    /\ \/ part = "tracker" /\ Next /\ UNCHANGED <<lvars, cmdvars>>
       \/ part = "strace" /\ StraceNext /\ UNCHANGED <<vars, cmdvars>>
       \/ part = "ktrace" /\ KdumpNext /\ UNCHANGED <<vars, cmdvars>>
       \/ part = "tracker.exe" /\ ExeNext /\ UNCHANGED <<vars, cmdvars>>
       \/ part = "command" /\ CommandNext /\ UNCHANGED <<vars, lvars>>
    /\ UNCHANGED part
MCSpec == MCInit /\ [][MCNext]_<<vars, lvars, cmdvars, part>>

Symmetry == Permutations(Pid \ {Top})

AllCalls == MCCalls \cup OutsideCalls
MCDirs == {Tree, <<"T", "s">>, <<"X">>}
MCProgram == Rel(<<"s", "x">>)
AtTop == Tree
=============================================================================
