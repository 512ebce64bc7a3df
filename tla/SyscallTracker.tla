--------------------------- MODULE SyscallTracker ---------------------------
(***************************************************************************)
(* From system calls to dependencies (base.lua and the parsers of the      *)
(* strace and preload logs).  The processes of a traced program make       *)
(* system calls; each call takes effect in the kernel and shows up in the  *)
(* log when it has returned, so other processes run in between and the     *)
(* calls of a child can precede the fork that made it.  The tracker works  *)
(* through the log: it follows the directory and the descriptors of every  *)
(* process to find out which files of the build tree were read or written. *)
(*                                                                         *)
(* A file is named by the sequence of the names on the way to it; paths    *)
(* that start with "T" are in the build tree.  Joining a directory and a   *)
(* relative name (apr_filepath_merge) appends the one to the other.        *)
(***************************************************************************)
EXTENDS Naturals, Sequences

CONSTANTS
    Pid, Top,   \* processes; the one started by buildsh
    Fd,         \* file descriptors
    Dirs,       \* paths of the directories, in the tree or not
    Program,    \* name of the program buildsh starts
    StartDir,   \* directory the program is started in (option dir of run)
    Calls,      \* the calls processes make, besides fork
    MaxCalls,   \* bound on the number of calls, forks included
    Seeded      \* TRUE: the log starts with the execve of Top (strace);
                \* FALSE: it starts with whatever is logged first (preload)

Tree == <<"T">>
InTree(p) == p # <<>> /\ p[1] = "T"
NoPath == <<>>

Path == Seq(STRING)

ASSUME TrackerAssumption ==
    /\ Top \in Pid /\ MaxCalls \in Nat /\ Seeded \in BOOLEAN
    /\ StartDir \in Dirs /\ Dirs \subseteq Path \ {NoPath}

VARIABLES
    proc,     \* kernel: directory and descriptors of the processes there are,
              \* and which descriptors were made by calls that are not traced
    files,    \* kernel: files read before being written, written, ever
              \* written, and moved away
    inflight, \* the call of a process that is not in the log yet
    ncalls,   \* number of calls made so far
    blind,    \* history: a call went by a descriptor no traced call made
    pdata,    \* tracker: directory and descriptors of the processes it knows
    delayed,  \* tracker: calls of processes it does not know yet
    work,     \* tracker: the processes whose delayed calls are replayed, the
              \* innermost call of replay first
    td,       \* tracker: the input and output files found
    first,    \* tracker: no line has been processed
    failed    \* tracker: a handler has raised an error

kernel == <<proc, files, inflight, ncalls, blind>>
tracker == <<pdata, delayed, work, td, first, failed>>
vars == <<kernel, tracker>>

StartIn(dir) == [cwd |-> dir, fd |-> [n \in Fd |-> NoPath]]
Started(dir) == [cwd |-> dir, fd |-> [n \in Fd |-> NoPath], dups |-> {}]
NoCall == [call |-> "none"]
Exists(p) == proc[p].cwd # NoPath
Known(t, p) == t.pdata[p].cwd # NoPath

(***************************************************************************)
(* Names.  A name is [abs |-> BOOLEAN, path |-> ...], path being relative  *)
(* to a directory if abs is FALSE.                                         *)
(***************************************************************************)
Where(dir, name) == IF name.abs THEN name.path ELSE dir \o name.path

\* get_path: nothing for an absolute name outside the tree.  A relative name
\* is joined with the directory wherever that is.
GetPath(ccwd, name) ==
    IF name.abs /\ ~InTree(name.path) THEN NoPath ELSE Where(ccwd, name)

\* `path or name' in open and chdir
PathOrName(ccwd, name) == Where(ccwd, name)

\* The directory of an ...at call: AT_FDCWD, a descriptor that has been seen,
\* or else the current directory (get_pathat).
DirAt(pd, at) ==
    IF at = "AT_FDCWD" THEN pd.cwd
    ELSE IF pd.fd[at] # NoPath THEN pd.fd[at] ELSE pd.cwd

\* The plain calls are the ...at calls with AT_FDCWD.
At(c) == IF "at" \in DOMAIN c THEN c.at ELSE "AT_FDCWD"
At2(c) == IF "at2" \in DOMAIN c THEN c.at2 ELSE "AT_FDCWD"

OpenCalls == {"open", "openat", "creat"}
MkdirCalls == {"mkdir", "mkdirat"}
RenameCalls == {"rename", "renameat"}

Name == [abs : BOOLEAN, path : Path \ {NoPath}]
\* execve gets a path: the search for a program is done by its caller.
HasSlash(name) == name.abs \/ Len(name.path) > 1

ASSUME CallAssumption ==
    /\ "AT_FDCWD" \notin Fd
    /\ Program \in Name /\ HasSlash(Program)
    /\ \A c \in Calls :
         /\ c.call \in OpenCalls \cup MkdirCalls \cup RenameCalls \cup {"exec", "chdir", "fchdir"}
         /\ {At(c), At2(c)} \subseteq Fd \cup {"AT_FDCWD"}
         /\ c.call \in OpenCalls => c.name \in Name /\ c.fd \in Fd /\ c.dir \in {"in", "out"}
         /\ c.call \in MkdirCalls => c.name \in Name /\ c.dir = "out"
         /\ c.call \in RenameCalls => c.from \in Name /\ c.to \in Name
         /\ c.call = "exec" => c.name \in Name /\ HasSlash(c.name)
         /\ c.call = "chdir" => c.name \in Name
         /\ c.call = "fchdir" => At(c) \in Fd

(***************************************************************************)
(* The tracker: t is a record of its variables.                            *)
(***************************************************************************)
AddInput(t, p) ==
    IF p = NoPath \/ p \in t.td.output THEN t ELSE [t EXCEPT !.td.input = @ \cup {p}]
AddOutput(t, p) ==
    IF p = NoPath THEN t ELSE [t EXCEPT !.td.output = @ \cup {p}]

\* open, openat, creat
HandleOpen(t, pid, c) ==
    LET dir  == DirAt(t.pdata[pid], At(c))
        path == GetPath(dir, c.name)
        u    == IF c.dir = "out" THEN AddOutput(t, path) ELSE AddInput(t, path)
    IN  [u EXCEPT !.pdata[pid].fd[c.fd] = PathOrName(dir, c.name)]

\* exec: a program that is given by its name only is none of the tree.
HandleExec(t, pid, c) ==
    IF ~c.name.abs /\ Len(c.name.path) = 1 THEN t
    ELSE AddInput(t, GetPath(t.pdata[pid].cwd, c.name))

HandleChdir(t, pid, c) ==
    [t EXCEPT !.pdata[pid].cwd = PathOrName(@, c.name)]

\* fchdir hands the path of the descriptor to chdir, which takes a path that
\* is relative to the tree as relative to the current directory.
HandleFchdir(t, pid, c) ==
    LET p == t.pdata[pid].fd[At(c)]
    IN  IF p = NoPath THEN t
        ELSE [t EXCEPT !.pdata[pid].cwd = IF InTree(p) THEN @ \o Tail(p) ELSE p]

\* mkdir, mkdirat
HandleMkdir(t, pid, c) == AddOutput(t, GetPath(DirAt(t.pdata[pid], At(c)), c.name))

\* rename and renameat differ if the old name is outside the tree and the new
\* one is inside: rename uses nil as a table index, which raises an error.
HandleRename(t, pid, c) ==
    LET fpath == GetPath(DirAt(t.pdata[pid], At(c)), c.from)
        tpath == GetPath(DirAt(t.pdata[pid], At2(c)), c.to)
        u     == AddInput(t, fpath)
    IN  IF tpath = NoPath THEN u
        ELSE IF fpath = NoPath /\ c.call = "rename" THEN [u EXCEPT !.failed = TRUE, !.work = <<>>]
        ELSE AddOutput([u EXCEPT !.td.output = @ \ {fpath}], tpath)

\* Variants: nothing is replayed; the child starts where the program was started.
HandleForkNoReplay(t, pid, c) == [t EXCEPT !.pdata[c.child] = t.pdata[pid]]

HandleForkFresh(t, pid, c) ==
    [t EXCEPT !.pdata[c.child] = StartIn(StartDir),
              !.work = IF t.delayed[c.child] = <<>> THEN @ ELSE <<c.child>> \o @]

\* fork: the child starts with a copy of its parent's data, and if calls were
\* delayed for it replay will process them now, before anything else.
HandleFork(t, pid, c) ==
    [t EXCEPT !.pdata[c.child] = t.pdata[pid],
              !.work = IF t.delayed[c.child] = <<>> THEN @ ELSE <<c.child>> \o @]

\* checked: calls of an unknown process are put off.  An error ends it all.
Handle(t, pid, c) ==
    CASE t.failed -> t
      [] ~t.failed /\ ~Known(t, pid) -> [t EXCEPT !.delayed[pid] = Append(@, c)]
      [] OTHER ->
           CASE c.call \in OpenCalls   -> HandleOpen(t, pid, c)
             [] c.call = "exec"        -> HandleExec(t, pid, c)
             [] c.call = "chdir"       -> HandleChdir(t, pid, c)
             [] c.call = "fchdir"      -> HandleFchdir(t, pid, c)
             [] c.call \in MkdirCalls  -> HandleMkdir(t, pid, c)
             [] c.call \in RenameCalls -> HandleRename(t, pid, c)
             [] c.call = "fork"        -> HandleFork(t, pid, c)

\* post_process, for one line: the process of the first line is taken to be
\* the one buildsh has started.  The strace log shows its execve; preload.lua
\* makes up for it.
FirstExec == [call |-> "exec", name |-> Program]

HandleFirst(t, pid) ==
    LET u == [t EXCEPT !.first = FALSE, !.pdata[pid] = StartIn(StartDir)]
    IN  IF Seeded THEN u ELSE Handle(u, pid, FirstExec)

HandleLine(t, pid, c) == Handle(IF t.first THEN HandleFirst(t, pid) ELSE t, pid, c)

-----------------------------------------------------------------------------
(***************************************************************************)
(* The kernel.                                                             *)
(***************************************************************************)
UsedFds(c) == {At(c), At2(c)} \cap Fd
DirOf(pr, at) == IF at = "AT_FDCWD" THEN pr.cwd ELSE pr.fd[at]

\* The tracker cannot follow descriptors made by calls that are not traced
\* (dup), and fchdir goes wrong unless the process is at the top of the tree.
Misread(pr, c) ==
    \/ UsedFds(c) \cap pr.dups # {}
    \/ c.call = "fchdir" /\ pr.cwd # Tree /\ InTree(pr.fd[At(c)])

\* The call can succeed: descriptors that stand for directories do, and
\* directories are not opened for writing or left for plain files.
Possible(pr, c) ==
    /\ \A n \in UsedFds(c) : pr.fd[n] \in Dirs
    /\ c.call = "chdir" => Where(pr.cwd, c.name) \in Dirs
    /\ c.call \in OpenCalls \cup MkdirCalls =>
         LET x == Where(DirOf(pr, At(c)), c.name)
         IN  x \in Dirs => c.dir = "in"

Read(f, x) == IF x \in f.written THEN f ELSE [f EXCEPT !.read = @ \cup {x}]
Write(f, x) == [f EXCEPT !.written = @ \cup {x}, !.ever = @ \cup {x}]
Move(f, x, y) ==
    Write([Read(f, x) EXCEPT !.written = @ \ {x}, !.moved = @ \cup {x}], y)

\* What a call other than fork does to the process pr that makes it.
NewProc(pr, c) ==
    CASE c.call \in OpenCalls ->
           [pr EXCEPT !.fd[c.fd] = Where(DirOf(pr, At(c)), c.name),
                      !.dups = @ \ {c.fd}]
      [] c.call = "chdir"  -> [pr EXCEPT !.cwd = Where(@, c.name)]
      [] c.call = "fchdir" -> [pr EXCEPT !.cwd = pr.fd[At(c)]]
      [] OTHER -> pr

\* What it does to the files f.
NewFiles(f, pr, c) ==
    CASE c.call \in OpenCalls \cup MkdirCalls ->
           LET x == Where(DirOf(pr, At(c)), c.name)
           IN  IF c.dir = "out" THEN Write(f, x) ELSE Read(f, x)
      [] c.call = "exec" -> Read(f, Where(pr.cwd, c.name))
      [] c.call \in RenameCalls ->
           Move(f, Where(DirOf(pr, At(c)), c.from), Where(DirOf(pr, At2(c)), c.to))
      [] OTHER -> f

Init ==
    /\ proc = [p \in Pid |-> Started(IF p = Top THEN StartDir ELSE NoPath)]
    /\ files = [read |-> {Where(StartDir, Program)}, written |-> {}, ever |-> {}, moved |-> {}]
    /\ inflight = [p \in Pid |-> IF p = Top /\ Seeded THEN FirstExec ELSE NoCall]
    /\ ncalls = 0 /\ blind = FALSE
    /\ pdata = [p \in Pid |-> StartIn(NoPath)]
    /\ delayed = [p \in Pid |-> <<>>]
    /\ work = <<>>
    /\ td = [input |-> {}, output |-> {}]
    /\ first = TRUE /\ failed = FALSE

\* A line of the log is processed as soon as it is written and before the next
\* call: the tracker sees nothing but the log, so only the order of the lines
\* matters.
Ready(p) == work = <<>> /\ Exists(p) /\ inflight[p] = NoCall /\ ncalls < MaxCalls

\* A process makes a call that succeeds.
Call(p) ==
    /\ Ready(p)
    /\ \E c \in Calls :
         /\ Possible(proc[p], c)
         /\ proc' = [proc EXCEPT ![p] = NewProc(proc[p], c)]
         /\ files' = NewFiles(files, proc[p], c)
         /\ inflight' = [inflight EXCEPT ![p] = c]
         /\ blind' = (blind \/ Misread(proc[p], c))
    /\ ncalls' = ncalls + 1
    /\ UNCHANGED tracker

ForkOf(q) == [call |-> "fork", child |-> q]

Fork(p) ==
    /\ Ready(p)
    /\ \E q \in Pid :
         /\ ~Exists(q)
         /\ proc' = [proc EXCEPT ![q] = proc[p]]
         /\ inflight' = [inflight EXCEPT ![p] = ForkOf(q)]
    /\ ncalls' = ncalls + 1
    /\ UNCHANGED <<files, blind, tracker>>

\* dup2 is not traced.
Dup(p) ==
    /\ Ready(p)
    /\ \E m, n \in Fd :
         /\ m # n /\ proc[p].fd[m] # NoPath
         /\ proc' = [proc EXCEPT ![p].fd[n] = proc[p].fd[m],
                                 ![p].dups = @ \cup {n}]
    /\ ncalls' = ncalls + 1
    /\ UNCHANGED <<files, inflight, blind, tracker>>

TrackerState == [pdata |-> pdata, delayed |-> delayed, work |-> work, td |-> td,
                 first |-> first, failed |-> failed]

Becomes(t) ==
    /\ pdata' = t.pdata /\ delayed' = t.delayed /\ work' = t.work
    /\ td' = t.td /\ first' = t.first /\ failed' = t.failed

\* The call returns, gets into the log and is processed.
Log(p) ==
    /\ work = <<>> /\ inflight[p] # NoCall
    /\ inflight' = [inflight EXCEPT ![p] = NoCall]
    /\ Becomes(HandleLine(TrackerState, p, inflight[p]))
    /\ UNCHANGED <<proc, files, ncalls, blind>>

\* replay, one turn of its loop: the handler of the next delayed call is called,
\* which may call replay for another process.  The loop and the table of delayed
\* calls are left with the last call.
Replay ==
    /\ work # <<>>
    /\ LET q == Head(work)
           t == [TrackerState EXCEPT
                   !.delayed[q] = Tail(@),
                   !.work = IF Len(delayed[q]) = 1 THEN Tail(@) ELSE @]
       IN  Becomes(Handle(t, q, Head(delayed[q])))
    /\ UNCHANGED kernel

Next == (\E p \in Pid : Call(p) \/ Fork(p) \/ Dup(p) \/ Log(p)) \/ Replay

Spec == Init /\ [][Next]_vars

-----------------------------------------------------------------------------
(***************************************************************************)
(* Properties.                                                             *)
(***************************************************************************)
IsKnown(p) == pdata[p].cwd # NoPath

Following == ~blind /\ ~failed
Quiet == work = <<>> /\ \A p \in Pid : inflight[p] = NoCall

\* Once every call has returned, none is left waiting for its process to
\* become known, and none is put off for a process that is: checked and
\* replay lose nothing.
NothingLost ==
    ~failed /\ work = <<>> =>
      \A p \in Pid : Quiet \/ IsKnown(p) => delayed[p] = <<>>

\* The tracker knows the directory of every process and of every descriptor
\* made by a traced call, across forks and whatever the order of the lines.
InTouch ==
    \A p \in Pid :
      Following /\ IsKnown(p) /\ work = <<>> /\ inflight[p] = NoCall
        => /\ pdata[p].cwd = proc[p].cwd
           /\ \A n \in Fd \ proc[p].dups : pdata[p].fd[n] = proc[p].fd[n]

\* Every file of the tree that was read or written is found, except that a
\* file one process moves away while others use it may be missed.
FilesFound ==
    Following /\ Quiet /\ ~first =>
      /\ \A x \in files.written : InTree(x) => x \in td.output \cup files.moved
      /\ \A x \in files.read : InTree(x) => x \in td.input \cup td.output \cup files.moved

\* Only files that were written are taken for outputs, which autoclean will
\* delete, and only files that were used at all for inputs.
NothingInvented ==
    Following => /\ td.output \subseteq files.ever
                 /\ td.input \subseteq files.read \cup files.ever

\* The files of a record are the files that were used: no call is lost on the way
\* through checked, replay and the handlers, no file is missed and none is made up.
FilesExact == NothingLost /\ FilesFound /\ NothingInvented

\* README.md: system call tracing is used "to automatically identify input
\* files and output files during the first build".
FilesIdentified ==
    Quiet /\ ~first => \A x \in files.written : InTree(x) => x \in td.output
=============================================================================
