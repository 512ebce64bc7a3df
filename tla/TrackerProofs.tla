---------------------------- MODULE TrackerProofs ----------------------------
(***************************************************************************)
(* Proofs about what becomes of a traced program: the calls in the log,    *)
(* the files they use, and the key under which these are recorded.         *)
(*                                                                         *)
(* The tracker follows the directories and descriptors of all processes    *)
(* and finds exactly the files they use, for any number of processes, any  *)
(* calls and any order in which the lines get into the log of strace.      *)
(*                                                                         *)
(* strace.lua and ktrace.lua hand on the calls that succeeded, for any     *)
(* number of processes, names and calls.  The argument: a process has one  *)
(* thread, so the call it is in is the last one its queue has, whatever    *)
(* calls of killed processes with the same id are left in the queue.  And  *)
(* what tracker.lua makes of the three logs of tracker.exe.                *)
(***************************************************************************)
EXTENDS SyscallTracker, TraceLogs, Commands, SequenceFacts, TLAPS

KProc == [cwd : Path, fd : [Fd -> Path], dups : SUBSET Fd]
TProc == [cwd : Path, fd : [Fd -> Path]]
AnyCall == Calls \cup {FirstExec} \cup {ForkOf(q) : q \in Pid}
Found == [input : SUBSET (Path \ {NoPath}), output : SUBSET (Path \ {NoPath})]
TState == [pdata : [Pid -> TProc], delayed : [Pid -> Seq(AnyCall)], work : Seq(Pid),
           td : Found, first : BOOLEAN, failed : BOOLEAN]
UsedFiles == [read : SUBSET Path, written : SUBSET Path, ever : SUBSET Path,
              moved : SUBSET Path]

Types ==
    /\ proc \in [Pid -> KProc] /\ files \in UsedFiles
    /\ inflight \in [Pid -> AnyCall \cup {NoCall}]
    /\ blind \in BOOLEAN
    /\ pdata \in [Pid -> TProc] /\ delayed \in [Pid -> Seq(AnyCall)]
    /\ work \in Seq(Pid) /\ td \in Found
    /\ first \in BOOLEAN /\ failed \in BOOLEAN

-----------------------------------------------------------------------------
(***************************************************************************)
(* Names and calls.                                                        *)
(***************************************************************************)

\* Joining a directory and a name gives a path that is not empty.
LEMMA WhereType ==
    ASSUME NEW dir \in Path, NEW name \in Name
    PROVE  Where(dir, name) \in Path /\ Where(dir, name) # NoPath
<1>1. name.path \in Seq(STRING) /\ name.path # <<>>
  BY DEF Name, Path, NoPath
<1>2. CASE name.abs
  BY <1>1, <1>2 DEF Where, Path, NoPath
<1>3. CASE ~name.abs
  <2>1. dir \o name.path \in Seq(STRING)
    BY <1>1, ConcatProperties DEF Path
  <2>2. dir \o name.path # <<>>
    BY <1>1, ConcatEqualIffEmpty DEF Path
  <2>. QED
    BY <1>3, <2>1, <2>2 DEF Where, Path, NoPath
<1>. QED
  BY <1>2, <1>3

\* The empty path.
LEMMA NoPathType == NoPath \in Path
BY EmptySeq DEF Path, NoPath

\* get_path yields the file that is meant, or nothing if it is outside the tree.
LEMMA GetPathRight ==
    ASSUME NEW dir \in Path, NEW name \in Name
    PROVE  /\ GetPath(dir, name) \in {NoPath, Where(dir, name)}
           /\ InTree(Where(dir, name)) => GetPath(dir, name) = Where(dir, name)
BY DEF GetPath, Where

\* A sequence with an element put before it.
LEMMA ConsIs ==
    ASSUME NEW S, NEW e \in S, NEW s \in Seq(S)
    PROVE  /\ <<e>> \o s \in Seq(S)
           /\ Len(<<e>> \o s) = Len(s) + 1
           /\ (<<e>> \o s)[1] = e
           /\ \A i \in 1..Len(s) : (<<e>> \o s)[i + 1] = s[i]
<1>1. <<e>> \in Seq(S) /\ Len(<<e>>) = 1 /\ <<e>>[1] = e
  OBVIOUS
<1>. DEFINE f == <<e>>
<1>2. f \in Seq(S) /\ Len(f) = 1 /\ f[1] = e
  BY <1>1
<1>. HIDE DEF f
<1>3. /\ f \o s \in Seq(S)
      /\ Len(f \o s) = Len(f) + Len(s)
      /\ \A i \in 1..(Len(f) + Len(s)) : (f \o s)[i] =
           IF i <= Len(f) THEN f[i] ELSE s[i - Len(f)]
  BY <1>2, ConcatProperties
<1>4. Len(s) \in Nat
  OBVIOUS
<1>5. Len(f \o s) = Len(s) + 1 /\ (f \o s)[1] = e
  BY <1>2, <1>3, <1>4
<1>6. ASSUME NEW i \in 1..Len(s)
      PROVE  (f \o s)[i + 1] = s[i]
  <2>1. i + 1 \in 1..(1 + Len(s)) /\ ~(i + 1 <= 1) /\ (i + 1) - 1 = i
    BY <1>4
  <2>. QED
    BY <1>2, <1>3, <2>1
<1>. QED
  BY <1>3, <1>5, <1>6 DEF f

\* chdir with the path of a descriptor in the tree, from the top of the tree.
LEMMA TreeTail ==
    ASSUME NEW p \in Path, InTree(p)
    PROVE  Tree \o Tail(p) = p
<1>1. p \in Seq(STRING) /\ p # <<>> /\ p[1] = "T"
  BY DEF InTree, Path
<1>2. /\ Tail(p) \in Seq(STRING) /\ Len(Tail(p)) = Len(p) - 1
      /\ \A i \in 1..Len(Tail(p)) : Tail(p)[i] = p[i + 1]
  BY <1>1, HeadTailProperties
<1>. DEFINE r == Tree \o Tail(p)
<1>. DEFINE e == p[1]
<1>3. e \in STRING
  <2>1. 1 \in 1..Len(p)
    BY <1>1
  <2>. QED
    BY <1>1, <2>1, ElementOfSeq
<1>. HIDE DEF e
<1>. HIDE DEF r
<1>. DEFINE w == Tail(p)
<1>. DEFINE S == STRING
<1>w. e \in S /\ w \in Seq(S)
  BY <1>2, <1>3
<1>. HIDE DEF w, e, S
<1>4. /\ <<e>> \o w \in Seq(S)
      /\ Len(<<e>> \o w) = Len(w) + 1
      /\ (<<e>> \o w)[1] = e
      /\ \A i \in 1..Len(w) : (<<e>> \o w)[i + 1] = w[i]
  BY <1>w, ConsIs
<1>5. r = <<e>> \o w
  BY <1>1, Zenon DEF r, Tree, e, w
<1>6. /\ r \in Seq(STRING) /\ Len(r) = Len(Tail(p)) + 1 /\ r[1] = "T"
      /\ \A i \in 1..Len(Tail(p)) : r[i + 1] = Tail(p)[i]
  BY <1>1, <1>4, <1>5, Zenon DEF e, w, S
<1>7. Len(p) \in Nat
  BY <1>1
<1>8. Len(r) = Len(p)
  BY <1>2, <1>6, <1>7
<1>9. ASSUME NEW i \in 1..Len(r)
      PROVE  r[i] = p[i]
  <2>1. CASE i = 1
    BY <1>1, <1>6, <2>1
  <2>2. CASE i # 1
    <3>1. i - 1 \in 1..Len(Tail(p)) /\ (i - 1) + 1 = i
      BY <1>2, <1>7, <1>8, <2>2
    <3>2. r[(i - 1) + 1] = p[(i - 1) + 1]
      BY <1>2, <1>6, <3>1
    <3>. QED
      BY <3>1, <3>2
  <2>. QED
    BY <2>1, <2>2
<1>10. r = p
  BY <1>1, <1>6, <1>8, <1>9, SeqEqual
<1>. QED
  BY <1>10 DEF r

\* The calls a process can make, with the fields the handlers use.
LEMMA CallFields ==
    ASSUME NEW c \in AnyCall
    PROVE  /\ c.call \in OpenCalls \cup MkdirCalls \cup RenameCalls
                           \cup {"exec", "chdir", "fchdir", "fork"}
           /\ At(c) \in Fd \cup {"AT_FDCWD"} /\ At2(c) \in Fd \cup {"AT_FDCWD"}
           /\ c.call \in OpenCalls => c.name \in Name /\ c.fd \in Fd /\ c.dir \in {"in", "out"}
           /\ c.call \in MkdirCalls => c.name \in Name /\ c.dir = "out"
           /\ c.call \in RenameCalls => c.from \in Name /\ c.to \in Name
           /\ c.call = "exec" => c.name \in Name /\ HasSlash(c.name)
           /\ c.call = "chdir" => c.name \in Name
           /\ c.call = "fchdir" => At(c) \in Fd
           /\ c.call = "fork" => c.child \in Pid /\ c = ForkOf(c.child)
           /\ c # NoCall
<1>. USE DEF OpenCalls, MkdirCalls, RenameCalls
<1>1. CASE c \in Calls
  BY <1>1, CallAssumption DEF NoCall
<1>2. CASE c = FirstExec
  BY <1>2, CallAssumption DEF FirstExec, At, At2, NoCall
<1>3. CASE c \in {ForkOf(q) : q \in Pid}
  BY <1>3 DEF ForkOf, At, At2, NoCall
<1>. QED
  BY <1>1, <1>2, <1>3 DEF AnyCall

\* The names of the calls are different.
LEMMA CallNames ==
    /\ OpenCalls \cap (MkdirCalls \cup RenameCalls) = {} /\ MkdirCalls \cap RenameCalls = {}
    /\ {"exec", "chdir", "fchdir", "fork"}
          \cap (OpenCalls \cup MkdirCalls \cup RenameCalls) = {}
BY DEF OpenCalls, MkdirCalls, RenameCalls

-----------------------------------------------------------------------------
(***************************************************************************)
(* The handlers.                                                           *)
(***************************************************************************)

\* Nothing but the lists of files differs.
SameRest(t, u) ==
    /\ u.pdata = t.pdata /\ u.delayed = t.delayed /\ u.work = t.work
    /\ u.first = t.first /\ u.failed = t.failed

\* add_input adds at most the file it is given, unless it is an output.
LEMMA AddInputIs ==
    ASSUME NEW t \in TState, NEW p \in Path
    PROVE  /\ AddInput(t, p) \in TState /\ SameRest(t, AddInput(t, p))
           /\ AddInput(t, p).td.output = t.td.output
           /\ t.td.input \subseteq AddInput(t, p).td.input
           /\ AddInput(t, p).td.input \subseteq t.td.input \cup ({p} \ {NoPath})
           /\ p # NoPath => p \in AddInput(t, p).td.input \cup t.td.output
BY DEF AddInput, TState, Found, SameRest

\* add_output adds the file it is given.
LEMMA AddOutputIs ==
    ASSUME NEW t \in TState, NEW p \in Path
    PROVE  /\ AddOutput(t, p) \in TState /\ SameRest(t, AddOutput(t, p))
           /\ AddOutput(t, p).td.input = t.td.input
           /\ AddOutput(t, p).td.output = t.td.output \cup ({p} \ {NoPath})
BY DEF AddOutput, TState, Found, SameRest

\* Which handler a call of a known process gets.
LEMMA HandleIs ==
    ASSUME NEW t \in TState, NEW pid \in Pid, NEW c \in AnyCall,
           ~t.failed, Known(t, pid)
    PROVE  /\ c.call \in OpenCalls => Handle(t, pid, c) = HandleOpen(t, pid, c)
           /\ c.call = "exec" => Handle(t, pid, c) = HandleExec(t, pid, c)
           /\ c.call = "chdir" => Handle(t, pid, c) = HandleChdir(t, pid, c)
           /\ c.call = "fchdir" => Handle(t, pid, c) = HandleFchdir(t, pid, c)
           /\ c.call \in MkdirCalls => Handle(t, pid, c) = HandleMkdir(t, pid, c)
           /\ c.call \in RenameCalls => Handle(t, pid, c) = HandleRename(t, pid, c)
           /\ c.call = "fork" => Handle(t, pid, c) = HandleFork(t, pid, c)
BY DEF Handle, OpenCalls, MkdirCalls, RenameCalls

\* The directory of an ...at call is a path, seen or not.
LEMMA DirAtType ==
    ASSUME NEW pd \in TProc, NEW at \in Fd \cup {"AT_FDCWD"}
    PROVE  DirAt(pd, at) \in Path
BY CallAssumption DEF DirAt, TProc

\* What the tracker knows of a process is right if the process is in state s, but
\* for the descriptors that no traced call has made.
Agrees(pd, s) == pd.cwd = s.cwd /\ \A n \in Fd \ s.dups : pd.fd[n] = s.fd[n]

\* The files a call of a process in state s writes, reads and moves away.
Outs(s, c) ==
    IF c.call \in OpenCalls \cup MkdirCalls
      THEN IF c.dir = "out" THEN {Where(DirOf(s, At(c)), c.name)} ELSE {}
      ELSE IF c.call \in RenameCalls THEN {Where(DirOf(s, At2(c)), c.to)} ELSE {}
Gone(s, c) ==
    IF c.call \in RenameCalls THEN {Where(DirOf(s, At(c)), c.from)} ELSE {}
Ins(s, c) ==
    IF c.call \in OpenCalls \cup MkdirCalls
      THEN IF c.dir = "out" THEN {} ELSE {Where(DirOf(s, At(c)), c.name)}
      ELSE IF c.call = "exec" THEN {Where(s.cwd, c.name)} ELSE Gone(s, c)

\* The call can be followed.
Good(s, c) == Possible(s, c) /\ ~Misread(s, c)

\* The lists of files d become e by a call, as they should.
Accounts(d, e, s, c) ==
    /\ d.input \subseteq e.input /\ e.input \subseteq d.input \cup Ins(s, c)
    /\ d.output \subseteq e.output \cup Gone(s, c)
    /\ e.output \subseteq d.output \cup Outs(s, c)
    /\ \A x \in Outs(s, c) : InTree(x) => x \in e.output
    /\ \A x \in Ins(s, c) : InTree(x) => x \in e.input \cup e.output \cup Gone(s, c)

\* The tracker uses the directory that the call has used.
LEMMA DirAtRight ==
    ASSUME NEW pd \in TProc, NEW s \in KProc, NEW c \in AnyCall, Agrees(pd, s), Good(s, c)
    PROVE  DirAt(pd, At(c)) = DirOf(s, At(c)) /\ DirAt(pd, At2(c)) = DirOf(s, At2(c))
<1>1. ASSUME NEW at \in {At(c), At2(c)}
      PROVE  DirAt(pd, at) = DirOf(s, at)
  <2>1. CASE at = "AT_FDCWD"
    BY <2>1 DEF DirAt, DirOf, Agrees
  <2>2. CASE at # "AT_FDCWD"
    <3>1. at \in Fd /\ at \in UsedFds(c)
      BY <2>2, CallFields DEF UsedFds
    <3>2. s.fd[at] \in Dirs /\ at \notin s.dups
      BY <3>1 DEF Good, Possible, Misread
    <3>3. pd.fd[at] = s.fd[at] /\ s.fd[at] # NoPath
      BY <3>1, <3>2, TrackerAssumption DEF Agrees
    <3>. QED
      BY <2>2, <3>3 DEF DirAt, DirOf
  <2>. QED
    BY <2>1, <2>2
<1>. QED
  BY <1>1

\* What a handler does with the data of processes and the work to be done.
Shape(t, u, pid, c) ==
    /\ u \in TState /\ u.delayed = t.delayed /\ u.first = t.first
    /\ Known(u, pid)
    /\ \A q \in Pid \ {pid} :
         u.pdata[q] = IF c = ForkOf(q) THEN t.pdata[pid] ELSE t.pdata[q]
    /\ ~u.failed =>
         u.work = IF c.call = "fork" /\ t.delayed[c.child] # <<>>
                    THEN <<c.child>> \o t.work ELSE t.work
    /\ u.failed => u.work = <<>>

\* If the data of the process was right, it still is, and the files are found.
Follows(t, u, pid, s, c) ==
    ~u.failed => Agrees(u.pdata[pid], NewProc(s, c)) /\ Accounts(t.td, u.td, s, c)

\* A call that is no fork and changes only the lists of files and the data of its
\* own process has the right shape.
LEMMA PlainShape ==
    ASSUME NEW t \in TState, NEW u \in TState, NEW pid \in Pid, NEW c \in AnyCall,
           c.call # "fork", u.delayed = t.delayed, u.first = t.first,
           ~u.failed => u.work = t.work, u.failed => u.work = <<>>, Known(u, pid),
           \A q \in Pid \ {pid} : u.pdata[q] = t.pdata[q]
    PROVE  Shape(t, u, pid, c)
<1>1. ASSUME NEW q
      PROVE  c # ForkOf(q)
  <2>1. ForkOf(q).call = "fork"
    BY DEF ForkOf
  <2>. QED
    BY <2>1
<1>. QED
  BY <1>1 DEF Shape

\* open, openat and creat are handled rightly.
LEMMA OpenHandled ==
    ASSUME NEW t \in TState, NEW pid \in Pid, NEW c \in AnyCall, ~t.failed, Known(t, pid),
           c.call \in OpenCalls
    PROVE  LET u == HandleOpen(t, pid, c)
           IN  /\ Shape(t, u, pid, c)
               /\ \A s \in KProc : Agrees(t.pdata[pid], s) /\ Good(s, c) => Follows(t, u, pid, s, c)
<1>. DEFINE dir == DirAt(t.pdata[pid], At(c))
            x == Where(dir, c.name)
            path == GetPath(dir, c.name)
            v == IF c.dir = "out" THEN AddOutput(t, path) ELSE AddInput(t, path)
            u == HandleOpen(t, pid, c)
<1>1. c.name \in Name /\ c.fd \in Fd /\ c.dir \in {"in", "out"} /\ At(c) \in Fd \cup {"AT_FDCWD"}
  BY CallFields
<1>2. t.pdata[pid] \in TProc
  BY DEF TState
<1>3. dir \in Path
  BY <1>1, <1>2, DirAtType
<1>4. x \in Path /\ x # NoPath /\ path \in {NoPath, x} /\ (InTree(x) => path = x)
  BY <1>1, <1>3, WhereType, GetPathRight
<1>5. path \in Path
  BY <1>4, NoPathType
<1>6. v \in TState /\ SameRest(t, v)
  BY <1>5, AddInputIs, AddOutputIs
<1>7. u = [v EXCEPT !.pdata[pid].fd[c.fd] = x]
  BY DEF HandleOpen, PathOrName
<1>8. /\ c.dir = "out" => v.td.input = t.td.input /\ v.td.output = t.td.output \cup ({path} \ {NoPath})
      /\ c.dir # "out" => /\ v.td.output = t.td.output /\ t.td.input \subseteq v.td.input
                          /\ v.td.input \subseteq t.td.input \cup ({path} \ {NoPath})
                          /\ path # NoPath => path \in v.td.input \cup t.td.output
  BY <1>5, AddInputIs, AddOutputIs
<1>. HIDE DEF dir, x, path, v, u
<1>9. /\ u \in TState /\ u.td = v.td /\ u.work = t.work /\ u.delayed = t.delayed
      /\ u.first = t.first /\ u.failed = t.failed
      /\ \A q \in Pid \ {pid} : u.pdata[q] = t.pdata[q]
      /\ u.pdata[pid] = [t.pdata[pid] EXCEPT !.fd[c.fd] = x]
  <2>1. v.pdata = t.pdata /\ v.pdata \in [Pid -> TProc]
    BY <1>6 DEF TState, SameRest
  <2>2. u = [v EXCEPT !.pdata = [v.pdata EXCEPT ![pid] = [v.pdata[pid] EXCEPT
                                   !.fd = [v.pdata[pid].fd EXCEPT ![c.fd] = x]]]]
    BY <1>7
  <2>. DEFINE d == [t.pdata[pid] EXCEPT !.fd = [t.pdata[pid].fd EXCEPT ![c.fd] = x]]
              e == [t.pdata EXCEPT ![pid] = d]
  <2>3. d \in TProc
    BY <1>1, <1>2, <1>4 DEF TProc
  <2>4. e \in [Pid -> TProc] /\ e[pid] = d /\ \A q \in Pid \ {pid} : e[q] = t.pdata[q]
    BY <2>1, <2>3
  <2>5. d = [t.pdata[pid] EXCEPT !.fd[c.fd] = x]
    OBVIOUS
  <2>6. u = [v EXCEPT !.pdata = e]
    BY <2>1, <2>2
  <2>. HIDE DEF e, d
  <2>7. u \in TState /\ u.pdata = e /\ u.td = v.td
    BY <1>6, <2>4, <2>6 DEF TState
  <2>8. /\ u.work = v.work /\ u.delayed = v.delayed
        /\ u.first = v.first /\ u.failed = v.failed
    BY <1>6, <2>6 DEF TState
  <2>. QED
    BY <1>6, <2>4, <2>5, <2>7, <2>8 DEF SameRest
<1>10. u.pdata[pid].cwd = t.pdata[pid].cwd
  BY <1>2, <1>9 DEF TProc
<1>11. Shape(t, u, pid, c)
  <2>1. Known(u, pid)
    BY <1>10 DEF Known
  <2>2. c.call # "fork"
    BY CallNames
  <2>. QED
    BY <1>9, <2>1, <2>2, PlainShape
<1>12. ASSUME NEW s \in KProc, Agrees(t.pdata[pid], s), Good(s, c)
       PROVE  Follows(t, u, pid, s, c)
  <2>1. dir = DirOf(s, At(c))
    BY <1>2, <1>12, DirAtRight DEF dir
  <2>2. /\ NewProc(s, c).cwd = s.cwd
        /\ NewProc(s, c).fd = [s.fd EXCEPT ![c.fd] = x]
        /\ NewProc(s, c).dups = s.dups \ {c.fd}
    <3>1. NewProc(s, c) = [s EXCEPT !.fd[c.fd] = Where(DirOf(s, At(c)), c.name),
                                    !.dups = @ \ {c.fd}]
      BY CallNames DEF NewProc
    <3>. QED
      BY <2>1, <3>1 DEF KProc, x
  <2>3. Agrees(u.pdata[pid], NewProc(s, c))
    BY <1>1, <1>2, <1>9, <1>12, <2>2 DEF Agrees, TProc, KProc
  <2>4. /\ Outs(s, c) = IF c.dir = "out" THEN {x} ELSE {}
        /\ Ins(s, c) = IF c.dir = "out" THEN {} ELSE {x}
        /\ Gone(s, c) = {}
    BY <2>1, CallNames DEF Outs, Ins, Gone, x
  <2>5. Accounts(t.td, v.td, s, c)
    BY <1>4, <1>8, <2>4 DEF Accounts
  <2>. QED
    BY <1>9, <2>3, <2>5 DEF Follows
<1>. QED
  BY <1>11, <1>12 DEF u

\* execve is handled rightly.
LEMMA ExecHandled ==
    ASSUME NEW t \in TState, NEW pid \in Pid, NEW c \in AnyCall, ~t.failed, Known(t, pid),
           c.call = "exec"
    PROVE  LET u == HandleExec(t, pid, c)
           IN  /\ Shape(t, u, pid, c)
               /\ \A s \in KProc : Agrees(t.pdata[pid], s) /\ Good(s, c) => Follows(t, u, pid, s, c)
<1>. DEFINE dir == t.pdata[pid].cwd
            x == Where(dir, c.name)
            path == GetPath(dir, c.name)
            u == HandleExec(t, pid, c)
<1>1. c.name \in Name /\ HasSlash(c.name)
  BY CallFields
<1>2. dir \in Path
  BY DEF TState, TProc
<1>3. x \in Path /\ x # NoPath /\ path \in {NoPath, x} /\ (InTree(x) => path = x)
  BY <1>1, <1>2, WhereType, GetPathRight
<1>4. path \in Path
  BY <1>3, NoPathType
<1>5. u = AddInput(t, path)
  <2>1. c.name.abs \/ Len(c.name.path) # 1
    <3>1. c.name.path \in Path
      BY <1>1 DEF Name
    <3>2. Len(c.name.path) \in Nat
      BY <3>1, LenProperties DEF Path
    <3>3. \A l \in Nat : l > 1 => l # 1
      OBVIOUS
    <3>. QED
      BY <1>1, <3>2, <3>3, Zenon DEF HasSlash
  <2>. QED
    BY <2>1 DEF HandleExec
<1>6. /\ u \in TState /\ SameRest(t, u) /\ u.td.output = t.td.output
      /\ t.td.input \subseteq u.td.input
      /\ u.td.input \subseteq t.td.input \cup ({path} \ {NoPath})
      /\ path # NoPath => path \in u.td.input \cup t.td.output
  BY <1>4, <1>5, AddInputIs
<1>. HIDE DEF dir, x, path, u
<1>7. Shape(t, u, pid, c)
  BY <1>6, PlainShape DEF SameRest, Known
<1>8. ASSUME NEW s \in KProc, Agrees(t.pdata[pid], s), Good(s, c)
      PROVE  Follows(t, u, pid, s, c)
  <2>1. dir = s.cwd
    BY <1>8 DEF Agrees, dir
  <2>2. NewProc(s, c) = s
    BY CallNames DEF NewProc
  <2>3. Outs(s, c) = {} /\ Ins(s, c) = {x} /\ Gone(s, c) = {}
    BY <2>1, CallNames DEF Outs, Ins, Gone, x
  <2>4. Accounts(t.td, u.td, s, c)
    BY <1>3, <1>6, <2>3 DEF Accounts
  <2>. QED
    BY <1>6, <1>8, <2>2, <2>4 DEF Follows, SameRest
<1>. QED
  BY <1>7, <1>8 DEF u

\* mkdir and mkdirat are handled rightly.
LEMMA MkdirHandled ==
    ASSUME NEW t \in TState, NEW pid \in Pid, NEW c \in AnyCall, ~t.failed, Known(t, pid),
           c.call \in MkdirCalls
    PROVE  LET u == HandleMkdir(t, pid, c)
           IN  /\ Shape(t, u, pid, c)
               /\ \A s \in KProc : Agrees(t.pdata[pid], s) /\ Good(s, c) => Follows(t, u, pid, s, c)
<1>. DEFINE dir == DirAt(t.pdata[pid], At(c))
            x == Where(dir, c.name)
            path == GetPath(dir, c.name)
            u == HandleMkdir(t, pid, c)
<1>1. c.name \in Name /\ c.dir = "out" /\ At(c) \in Fd \cup {"AT_FDCWD"}
  BY CallFields
<1>2. t.pdata[pid] \in TProc
  BY DEF TState
<1>3. dir \in Path
  BY <1>1, <1>2, DirAtType
<1>4. x \in Path /\ x # NoPath /\ path \in {NoPath, x} /\ (InTree(x) => path = x)
  BY <1>1, <1>3, WhereType, GetPathRight
<1>5. path \in Path
  BY <1>4, NoPathType
<1>6. u = AddOutput(t, path)
  BY DEF HandleMkdir
<1>7. /\ u \in TState /\ SameRest(t, u)
      /\ u.td.input = t.td.input /\ u.td.output = t.td.output \cup ({path} \ {NoPath})
  BY <1>5, <1>6, AddOutputIs
<1>. HIDE DEF dir, x, path, u
<1>8. Shape(t, u, pid, c)
  BY <1>7, CallNames, PlainShape DEF SameRest, Known
<1>9. ASSUME NEW s \in KProc, Agrees(t.pdata[pid], s), Good(s, c)
      PROVE  Follows(t, u, pid, s, c)
  <2>1. dir = DirOf(s, At(c))
    BY <1>2, <1>9, DirAtRight DEF dir
  <2>2. NewProc(s, c) = s
    BY CallNames DEF NewProc
  <2>3. Outs(s, c) = {x} /\ Ins(s, c) = {} /\ Gone(s, c) = {}
    BY <1>1, <2>1, CallNames DEF Outs, Ins, Gone, x
  <2>4. Accounts(t.td, u.td, s, c)
    BY <1>4, <1>7, <2>3 DEF Accounts
  <2>. QED
    BY <1>7, <1>9, <2>2, <2>4 DEF Follows, SameRest
<1>. QED
  BY <1>8, <1>9 DEF u

\* Only the directory of one process is changed.
LEMMA SetCwd ==
    ASSUME NEW t \in TState, NEW pid \in Pid, NEW x \in Path
    PROVE  LET u == [t EXCEPT !.pdata[pid].cwd = x]
           IN  /\ u \in TState /\ u.td = t.td /\ u.work = t.work /\ u.delayed = t.delayed
               /\ u.first = t.first /\ u.failed = t.failed
               /\ \A q \in Pid \ {pid} : u.pdata[q] = t.pdata[q]
               /\ u.pdata[pid].cwd = x /\ u.pdata[pid].fd = t.pdata[pid].fd
<1>. DEFINE d == [t.pdata[pid] EXCEPT !.cwd = x]
            e == [t.pdata EXCEPT ![pid] = d]
            u == [t EXCEPT !.pdata[pid].cwd = x]
<1>1. t.pdata \in [Pid -> TProc] /\ t.pdata[pid] \in TProc
  BY DEF TState
<1>2. d \in TProc /\ d.cwd = x /\ d.fd = t.pdata[pid].fd
  BY <1>1 DEF TProc
<1>3. e \in [Pid -> TProc] /\ e[pid] = d /\ \A q \in Pid \ {pid} : e[q] = t.pdata[q]
  BY <1>1, <1>2
<1>4. u = [t EXCEPT !.pdata = e]
  OBVIOUS
<1>. HIDE DEF d, e, u
<1>5. /\ u \in TState /\ u.td = t.td /\ u.work = t.work /\ u.delayed = t.delayed
      /\ u.first = t.first /\ u.failed = t.failed /\ u.pdata = e
  BY <1>3, <1>4 DEF TState
<1>. QED
  BY <1>2, <1>3, <1>5 DEF u

\* chdir is handled rightly.
LEMMA ChdirHandled ==
    ASSUME NEW t \in TState, NEW pid \in Pid, NEW c \in AnyCall, ~t.failed, Known(t, pid),
           c.call = "chdir"
    PROVE  LET u == HandleChdir(t, pid, c)
           IN  /\ Shape(t, u, pid, c)
               /\ \A s \in KProc : Agrees(t.pdata[pid], s) /\ Good(s, c) => Follows(t, u, pid, s, c)
<1>. DEFINE x == Where(t.pdata[pid].cwd, c.name)
            u == HandleChdir(t, pid, c)
<1>1. t.pdata[pid] \in TProc /\ t.pdata[pid].cwd \in Path /\ c.name \in Name
  BY CallFields DEF TState, TProc
<1>2. x \in Path /\ x # NoPath
  BY <1>1, WhereType
<1>3. u = [t EXCEPT !.pdata[pid].cwd = x]
  BY DEF HandleChdir, PathOrName
<1>. HIDE DEF x, u
<1>4. /\ u \in TState /\ u.td = t.td /\ u.work = t.work /\ u.delayed = t.delayed
      /\ u.first = t.first /\ u.failed = t.failed
      /\ \A q \in Pid \ {pid} : u.pdata[q] = t.pdata[q]
      /\ u.pdata[pid].cwd = x /\ u.pdata[pid].fd = t.pdata[pid].fd
  BY <1>2, <1>3, SetCwd
<1>5. Shape(t, u, pid, c)
  BY <1>2, <1>4, PlainShape DEF Known
<1>6. ASSUME NEW s \in KProc, Agrees(t.pdata[pid], s), Good(s, c)
      PROVE  Follows(t, u, pid, s, c)
  <2>1. NewProc(s, c) = [s EXCEPT !.cwd = Where(s.cwd, c.name)]
    BY CallNames DEF NewProc
  <2>2. x = Where(s.cwd, c.name)
    BY <1>6 DEF Agrees, x
  <2>3. NewProc(s, c).cwd = x /\ NewProc(s, c).fd = s.fd /\ NewProc(s, c).dups = s.dups
    BY <2>1, <2>2 DEF KProc
  <2>4. Agrees(u.pdata[pid], NewProc(s, c))
    BY <1>4, <1>6, <2>3 DEF Agrees
  <2>5. Outs(s, c) = {} /\ Ins(s, c) = {} /\ Gone(s, c) = {}
    BY CallNames DEF Outs, Ins, Gone
  <2>. QED
    BY <1>4, <2>4, <2>5 DEF Follows, Accounts
<1>. QED
  BY <1>5, <1>6 DEF u

\* fchdir is handled rightly if it can be: from the top of the tree, or outside.
LEMMA FchdirHandled ==
    ASSUME NEW t \in TState, NEW pid \in Pid, NEW c \in AnyCall, ~t.failed, Known(t, pid),
           c.call = "fchdir"
    PROVE  LET u == HandleFchdir(t, pid, c)
           IN  /\ Shape(t, u, pid, c)
               /\ \A s \in KProc : Agrees(t.pdata[pid], s) /\ Good(s, c) => Follows(t, u, pid, s, c)
<1>. DEFINE p == t.pdata[pid].fd[At(c)]
            cwd == t.pdata[pid].cwd
            x == IF InTree(p) THEN cwd \o Tail(p) ELSE p
            u == HandleFchdir(t, pid, c)
<1>1. At(c) \in Fd /\ p \in Path /\ cwd \in Path /\ cwd # NoPath
  BY CallFields DEF TState, TProc, Known
<1>2. p = NoPath => u = t
  BY DEF HandleFchdir
<1>3. p # NoPath => u = [t EXCEPT !.pdata[pid].cwd = x]
  BY DEF HandleFchdir
<1>4. p # NoPath => x \in Path /\ x # NoPath
  <2>1. CASE InTree(p)
    <3>. DEFINE w == Tail(p)
    <3>1. p # <<>>
      BY <2>1 DEF InTree
    <3>2. w \in Path
      BY <1>1, <3>1, HeadTailProperties DEF Path
    <3>. HIDE DEF w, cwd
    <3>3. cwd \o w \in Path
      BY <1>1, <3>2, ConcatProperties DEF Path
    <3>4. cwd \o w # NoPath
      BY <1>1, <3>2, ConcatEqualIffEmpty DEF Path, NoPath
    <3>5. x = cwd \o w
      BY <2>1 DEF w
    <3>. QED
      BY <3>3, <3>4, <3>5
  <2>2. CASE ~InTree(p)
    BY <1>1, <2>2
  <2>. QED
    BY <2>1, <2>2
<1>. HIDE DEF p, x, u, cwd
<1>5. p # NoPath =>
        /\ u \in TState /\ u.td = t.td /\ u.work = t.work /\ u.delayed = t.delayed
        /\ u.first = t.first /\ u.failed = t.failed
        /\ \A q \in Pid \ {pid} : u.pdata[q] = t.pdata[q]
        /\ u.pdata[pid].cwd = x /\ u.pdata[pid].fd = t.pdata[pid].fd
  <2>. SUFFICES ASSUME p # NoPath
                PROVE  /\ u \in TState /\ u.td = t.td /\ u.work = t.work
                       /\ u.delayed = t.delayed /\ u.first = t.first /\ u.failed = t.failed
                       /\ \A q \in Pid \ {pid} : u.pdata[q] = t.pdata[q]
                       /\ u.pdata[pid].cwd = x /\ u.pdata[pid].fd = t.pdata[pid].fd
    BY Zenon
  <2>1. x \in Path /\ u = [t EXCEPT !.pdata[pid].cwd = x]
    BY <1>3, <1>4
  <2>. QED
    BY <2>1, SetCwd
<1>6. Shape(t, u, pid, c)
  <2>1. CASE p = NoPath
    BY <1>2, <2>1, PlainShape
  <2>2. CASE p # NoPath
    BY <1>4, <1>5, <2>2, PlainShape DEF Known
  <2>. QED
    BY <2>1, <2>2
<1>7. ASSUME NEW s \in KProc, Agrees(t.pdata[pid], s), Good(s, c)
      PROVE  Follows(t, u, pid, s, c)
  <2>1. At(c) \in UsedFds(c)
    BY <1>1 DEF UsedFds
  <2>2. s.fd[At(c)] \in Dirs /\ At(c) \notin s.dups /\ (s.cwd # Tree => ~InTree(s.fd[At(c)]))
    BY <1>7, <2>1 DEF Good, Possible, Misread
  <2>3. p = s.fd[At(c)] /\ p # NoPath /\ cwd = s.cwd
    BY <1>1, <1>7, <2>2, TrackerAssumption DEF Agrees, p, cwd
  <2>4. x = p
    <3>1. CASE InTree(p)
      BY <1>1, <2>2, <2>3, <3>1, TreeTail DEF x
    <3>2. CASE ~InTree(p)
      BY <3>2 DEF x
    <3>. QED
      BY <3>1, <3>2
  <2>5. NewProc(s, c) = [s EXCEPT !.cwd = s.fd[At(c)]]
    BY CallNames DEF NewProc
  <2>6. NewProc(s, c).cwd = p /\ NewProc(s, c).fd = s.fd /\ NewProc(s, c).dups = s.dups
    BY <2>3, <2>5 DEF KProc
  <2>7. Agrees(u.pdata[pid], NewProc(s, c))
    BY <1>5, <1>7, <2>3, <2>4, <2>6 DEF Agrees
  <2>8. Outs(s, c) = {} /\ Ins(s, c) = {} /\ Gone(s, c) = {}
    BY CallNames DEF Outs, Ins, Gone
  <2>. QED
    BY <1>5, <2>3, <2>7, <2>8 DEF Follows, Accounts
<1>. QED
  BY <1>6, <1>7 DEF u

\* rename and renameat are handled rightly, or fail.
LEMMA RenameHandled ==
    ASSUME NEW t \in TState, NEW pid \in Pid, NEW c \in AnyCall, ~t.failed, Known(t, pid),
           c.call \in RenameCalls
    PROVE  LET u == HandleRename(t, pid, c)
           IN  /\ Shape(t, u, pid, c)
               /\ \A s \in KProc : Agrees(t.pdata[pid], s) /\ Good(s, c) => Follows(t, u, pid, s, c)
<1>. DEFINE d1 == DirAt(t.pdata[pid], At(c))
            d2 == DirAt(t.pdata[pid], At2(c))
            x == Where(d1, c.from)
            y == Where(d2, c.to)
            fpath == GetPath(d1, c.from)
            tpath == GetPath(d2, c.to)
            v == AddInput(t, fpath)
            w == [v EXCEPT !.td.output = @ \ {fpath}]
            u == HandleRename(t, pid, c)
<1>1. /\ c.from \in Name /\ c.to \in Name
      /\ At(c) \in Fd \cup {"AT_FDCWD"} /\ At2(c) \in Fd \cup {"AT_FDCWD"}
  BY CallFields
<1>2. t.pdata[pid] \in TProc
  BY DEF TState
<1>3. d1 \in Path /\ d2 \in Path
  BY <1>1, <1>2, DirAtType
<1>4. /\ x \in Path /\ x # NoPath /\ fpath \in {NoPath, x} /\ (InTree(x) => fpath = x)
      /\ y \in Path /\ y # NoPath /\ tpath \in {NoPath, y} /\ (InTree(y) => tpath = y)
  BY <1>1, <1>3, WhereType, GetPathRight
<1>5. fpath \in Path /\ tpath \in Path
  BY <1>4, NoPathType
<1>6. \/ tpath = NoPath /\ u = v
      \/ u = [v EXCEPT !.failed = TRUE, !.work = <<>>]
      \/ tpath # NoPath /\ u = AddOutput(w, tpath)
  BY DEF HandleRename
<1>. HIDE DEF d1, d2, x, y, fpath, tpath, u
<1>7. /\ v \in TState /\ SameRest(t, v)
      /\ v.td.output = t.td.output /\ t.td.input \subseteq v.td.input
      /\ v.td.input \subseteq t.td.input \cup ({fpath} \ {NoPath})
      /\ fpath # NoPath => fpath \in v.td.input \cup t.td.output
  BY <1>5, AddInputIs
<1>. HIDE DEF v
<1>8. /\ w \in TState /\ SameRest(v, w)
      /\ w.td.input = v.td.input /\ w.td.output = v.td.output \ {fpath}
  BY <1>7 DEF TState, Found, SameRest
<1>. HIDE DEF w
<1>9. CASE tpath = NoPath /\ u = v
  <2>1. Shape(t, u, pid, c)
    BY <1>7, <1>9, CallNames, PlainShape DEF SameRest, Known
  <2>2. ASSUME NEW s \in KProc, Agrees(t.pdata[pid], s), Good(s, c)
        PROVE  Follows(t, u, pid, s, c)
    <3>1. d1 = DirOf(s, At(c)) /\ d2 = DirOf(s, At2(c))
      BY <1>2, <2>2, DirAtRight DEF d1, d2
    <3>2. NewProc(s, c) = s
      BY CallNames DEF NewProc
    <3>3. Outs(s, c) = {y} /\ Ins(s, c) = {x} /\ Gone(s, c) = {x}
      BY <3>1, CallNames DEF Outs, Ins, Gone, x, y
    <3>4. Accounts(t.td, u.td, s, c)
      BY <1>4, <1>7, <1>9, <3>3 DEF Accounts
    <3>. QED
      BY <1>7, <1>9, <2>2, <3>2, <3>4 DEF Follows, SameRest
  <2>. QED
    BY <2>1, <2>2 DEF u
<1>10. CASE u = [v EXCEPT !.failed = TRUE, !.work = <<>>]
  <2>1. /\ u \in TState /\ u.failed /\ u.work = <<>> /\ u.delayed = v.delayed /\ u.first = v.first
        /\ u.pdata = v.pdata
    BY <1>7, <1>10, EmptySeq DEF TState
  <2>2. Shape(t, u, pid, c)
    BY <1>7, <2>1, CallNames, PlainShape DEF SameRest, Known
  <2>. QED
    BY <2>1, <2>2 DEF Follows, u
<1>11. CASE tpath # NoPath /\ u = AddOutput(w, tpath)
  <2>1. /\ u \in TState /\ SameRest(w, u)
        /\ u.td.input = w.td.input /\ u.td.output = w.td.output \cup {tpath}
    BY <1>5, <1>8, <1>11, AddOutputIs
  <2>2. SameRest(t, u)
    BY <1>7, <1>8, <2>1 DEF SameRest
  <2>3. Shape(t, u, pid, c)
    BY <2>1, <2>2, CallNames, PlainShape DEF SameRest, Known
  <2>4. ASSUME NEW s \in KProc, Agrees(t.pdata[pid], s), Good(s, c)
        PROVE  Follows(t, u, pid, s, c)
    <3>1. d1 = DirOf(s, At(c)) /\ d2 = DirOf(s, At2(c))
      BY <1>2, <2>4, DirAtRight DEF d1, d2
    <3>2. NewProc(s, c) = s
      BY CallNames DEF NewProc
    <3>3. Outs(s, c) = {y} /\ Ins(s, c) = {x} /\ Gone(s, c) = {x}
      BY <3>1, CallNames DEF Outs, Ins, Gone, x, y
    <3>4. tpath = y /\ u.td.input = v.td.input /\ u.td.output = (t.td.output \ {fpath}) \cup {y}
      BY <1>4, <1>7, <1>8, <1>11, <2>1
    <3>5. Accounts(t.td, u.td, s, c)
      <4>1. NoPath \notin t.td.output
        BY DEF TState, Found
      <4>2. t.td.output \subseteq u.td.output \cup {x}
        BY <1>4, <3>4, <4>1
      <4>. QED
        BY <1>4, <1>7, <3>3, <3>4, <4>2 DEF Accounts
    <3>. QED
      BY <2>2, <2>4, <3>2, <3>5 DEF Follows, SameRest
  <2>. QED
    BY <2>3, <2>4 DEF u
<1>. QED
  BY <1>6, <1>9, <1>10, <1>11

\* fork is handled rightly: the child gets the data of its parent.
LEMMA ForkHandled ==
    ASSUME NEW t \in TState, NEW pid \in Pid, NEW c \in AnyCall, ~t.failed, Known(t, pid),
           c.call = "fork"
    PROVE  LET u == HandleFork(t, pid, c)
           IN  /\ Shape(t, u, pid, c)
               /\ \A s \in KProc : Agrees(t.pdata[pid], s) /\ Good(s, c) => Follows(t, u, pid, s, c)
<1>. DEFINE q == c.child
            e == [t.pdata EXCEPT ![q] = t.pdata[pid]]
            k == IF t.delayed[q] = <<>> THEN t.work ELSE <<q>> \o t.work
            u == HandleFork(t, pid, c)
<1>1. q \in Pid /\ c = ForkOf(q)
  BY CallFields
<1>2. /\ e \in [Pid -> TProc] /\ e[pid] = t.pdata[pid]
      /\ \A p \in Pid : e[p] = IF p = q THEN t.pdata[pid] ELSE t.pdata[p]
  BY <1>1 DEF TState
<1>3. k \in Seq(Pid)
  BY <1>1, ConsIs DEF TState
<1>4. u = [t EXCEPT !.pdata = e, !.work = k]
  BY DEF HandleFork
<1>. HIDE DEF q, e, k, u
<1>5. /\ u \in TState /\ u.pdata = e /\ u.work = k /\ u.td = t.td
      /\ u.delayed = t.delayed /\ u.first = t.first /\ u.failed = t.failed
  BY <1>2, <1>3, <1>4 DEF TState
<1>6. Shape(t, u, pid, c)
  <2>1. ASSUME NEW p \in Pid
        PROVE  c = ForkOf(p) <=> p = q
    <3>1. ForkOf(p).child = p /\ ForkOf(q).child = q
      BY DEF ForkOf
    <3>. QED
      BY <1>1, <3>1
  <2>2. \A p \in Pid \ {pid} :
          u.pdata[p] = IF c = ForkOf(p) THEN t.pdata[pid] ELSE t.pdata[p]
    BY <1>2, <1>5, <2>1
  <2>3. u.work = IF c.call = "fork" /\ t.delayed[c.child] # <<>>
                    THEN <<c.child>> \o t.work ELSE t.work
    BY <1>5 DEF k, q
  <2>4. Known(u, pid)
    BY <1>2, <1>5 DEF Known
  <2>. QED
    BY <1>5, <2>2, <2>3, <2>4 DEF Shape
<1>7. ASSUME NEW s \in KProc, Agrees(t.pdata[pid], s), Good(s, c)
      PROVE  Follows(t, u, pid, s, c)
  <2>1. NewProc(s, c) = s
    BY CallNames DEF NewProc
  <2>2. Outs(s, c) = {} /\ Ins(s, c) = {} /\ Gone(s, c) = {}
    BY CallNames DEF Outs, Ins, Gone
  <2>. QED
    BY <1>2, <1>5, <1>7, <2>1, <2>2 DEF Follows, Accounts
<1>. QED
  BY <1>6, <1>7 DEF u

\* The handler of a call of a known process does what the call has done.
LEMMA Handled ==
    ASSUME NEW t \in TState, NEW pid \in Pid, NEW c \in AnyCall, ~t.failed, Known(t, pid)
    PROVE  LET u == Handle(t, pid, c)
           IN  /\ Shape(t, u, pid, c)
               /\ \A s \in KProc : Agrees(t.pdata[pid], s) /\ Good(s, c) => Follows(t, u, pid, s, c)
<1>1. \/ c.call \in OpenCalls \/ c.call \in MkdirCalls \/ c.call \in RenameCalls
      \/ c.call = "exec" \/ c.call = "chdir" \/ c.call = "fchdir" \/ c.call = "fork"
  BY CallFields
<1>2. CASE c.call \in OpenCalls
  BY <1>2, HandleIs, OpenHandled, Zenon
<1>3. CASE c.call \in MkdirCalls
  BY <1>3, HandleIs, MkdirHandled, Zenon
<1>4. CASE c.call \in RenameCalls
  BY <1>4, HandleIs, RenameHandled, Zenon
<1>5. CASE c.call = "exec"
  BY <1>5, HandleIs, ExecHandled, Zenon
<1>6. CASE c.call = "chdir"
  BY <1>6, HandleIs, ChdirHandled, Zenon
<1>7. CASE c.call = "fchdir"
  BY <1>7, HandleIs, FchdirHandled, Zenon
<1>8. CASE c.call = "fork"
  BY <1>8, HandleIs, ForkHandled, Zenon
<1>. QED
  BY <1>1, <1>2, <1>3, <1>4, <1>5, <1>6, <1>7, <1>8

-----------------------------------------------------------------------------
(***************************************************************************)
(* The kernel.                                                             *)
(***************************************************************************)

\* The directory a call starts from is a path.
LEMMA DirOfType ==
    ASSUME NEW s \in KProc, NEW at \in Fd \cup {"AT_FDCWD"}
    PROVE  DirOf(s, at) \in Path
BY CallAssumption DEF DirOf, KProc

\* After a call that is possible a process is still in some directory.
LEMMA NewProcType ==
    ASSUME NEW s \in KProc, NEW c \in Calls, Possible(s, c), s.cwd # NoPath
    PROVE  NewProc(s, c) \in KProc /\ NewProc(s, c).cwd # NoPath
<1>1. c \in AnyCall
  BY DEF AnyCall
<1>2. CASE c.call \in OpenCalls
  <2>. DEFINE x == Where(DirOf(s, At(c)), c.name)
  <2>1. c.fd \in Fd /\ c.name \in Name /\ DirOf(s, At(c)) \in Path
    BY <1>1, <1>2, CallFields, DirOfType
  <2>2. x \in Path
    BY <2>1, WhereType
  <2>3. NewProc(s, c) = [s EXCEPT !.fd[c.fd] = x, !.dups = @ \ {c.fd}]
    BY <1>2, CallNames DEF NewProc
  <2>. HIDE DEF x
  <2>. QED
    BY <2>1, <2>2, <2>3, ZenonT(30) DEF KProc
<1>3. CASE c.call = "chdir"
  <2>1. NewProc(s, c) = [s EXCEPT !.cwd = Where(s.cwd, c.name)]
    BY <1>3, CallNames DEF NewProc
  <2>2. Where(s.cwd, c.name) \in Path \ {NoPath}
    BY <1>3, TrackerAssumption DEF Possible
  <2>. QED
    BY <2>1, <2>2 DEF KProc
<1>4. CASE c.call = "fchdir"
  <2>1. NewProc(s, c) = [s EXCEPT !.cwd = s.fd[At(c)]]
    BY <1>4, CallNames DEF NewProc
  <2>2. At(c) \in UsedFds(c)
    BY <1>1, <1>4, CallFields DEF UsedFds
  <2>3. s.fd[At(c)] \in Path \ {NoPath}
    BY <2>2, TrackerAssumption DEF Possible
  <2>. QED
    BY <2>1, <2>3 DEF KProc
<1>5. CASE c.call \notin OpenCalls \cup {"chdir", "fchdir"}
  BY <1>5 DEF NewProc
<1>. QED
  BY <1>2, <1>3, <1>4, <1>5

\* The files g after a call of a process in state s, compared with those before.
Used(f, g, s, c) ==
    /\ g \in UsedFiles
    /\ f.ever \subseteq g.ever /\ f.read \subseteq g.read /\ f.moved \subseteq g.moved
    /\ Outs(s, c) \subseteq g.ever /\ Ins(s, c) \subseteq g.read \cup f.written
    /\ Gone(s, c) \subseteq g.moved
    /\ g.written \subseteq f.written \cup Outs(s, c)
    /\ g.read \subseteq f.read \cup Ins(s, c)

\* A call uses its own files and no others.
LEMMA NewFilesUsed ==
    ASSUME NEW f \in UsedFiles, NEW s \in KProc, NEW c \in Calls
    PROVE  Used(f, NewFiles(f, s, c), s, c)
<1>1. c \in AnyCall
  BY DEF AnyCall
<1>2. DirOf(s, At(c)) \in Path /\ DirOf(s, At2(c)) \in Path /\ s.cwd \in Path
  BY <1>1, CallFields, DirOfType DEF KProc
<1>3. CASE c.call \in OpenCalls \cup MkdirCalls
  <2>. DEFINE x == Where(DirOf(s, At(c)), c.name)
  <2>1. x \in Path
    BY <1>1, <1>2, <1>3, CallFields, WhereType
  <2>2. NewFiles(f, s, c) = IF c.dir = "out" THEN Write(f, x) ELSE Read(f, x)
    BY <1>3, CallNames DEF NewFiles
  <2>3. /\ Outs(s, c) = IF c.dir = "out" THEN {x} ELSE {}
        /\ Ins(s, c) = IF c.dir = "out" THEN {} ELSE {x}
        /\ Gone(s, c) = {}
    BY <1>3, CallNames DEF Outs, Ins, Gone
  <2>. HIDE DEF x
  <2>. QED
    BY <2>1, <2>2, <2>3, ZenonT(30) DEF Used, UsedFiles, Write, Read
<1>4. CASE c.call = "exec"
  <2>. DEFINE x == Where(s.cwd, c.name)
  <2>1. x \in Path
    BY <1>1, <1>2, <1>4, CallFields, WhereType
  <2>2. NewFiles(f, s, c) = Read(f, x)
    BY <1>4, CallNames DEF NewFiles
  <2>3. Outs(s, c) = {} /\ Ins(s, c) = {x} /\ Gone(s, c) = {}
    BY <1>4, CallNames DEF Outs, Ins, Gone
  <2>. HIDE DEF x
  <2>. QED
    BY <2>1, <2>2, <2>3 DEF Used, UsedFiles, Read
<1>5. CASE c.call \in RenameCalls
  <2>. DEFINE x == Where(DirOf(s, At(c)), c.from)
              y == Where(DirOf(s, At2(c)), c.to)
              h == Read(f, x)
              m == [h EXCEPT !.written = @ \ {x}, !.moved = @ \cup {x}]
              g == NewFiles(f, s, c)
  <2>1. x \in Path /\ y \in Path
    BY <1>1, <1>2, <1>5, CallFields, WhereType
  <2>2. g = Write(m, y)
    BY <1>5, CallNames DEF NewFiles, Move
  <2>3. Outs(s, c) = {y} /\ Ins(s, c) = {x} /\ Gone(s, c) = {x}
    BY <1>5, CallNames DEF Outs, Ins, Gone
  <2>. HIDE DEF x, y, g
  <2>4. /\ h \in UsedFiles /\ h.ever = f.ever /\ h.moved = f.moved /\ h.written = f.written
        /\ f.read \subseteq h.read /\ h.read \subseteq f.read \cup {x}
        /\ x \in h.read \cup f.written
    BY <2>1 DEF UsedFiles, Read
  <2>. HIDE DEF h
  <2>5. /\ m \in UsedFiles /\ m.ever = h.ever /\ m.moved = h.moved \cup {x}
        /\ m.written = h.written \ {x} /\ m.read = h.read
    BY <2>1, <2>4 DEF UsedFiles
  <2>. HIDE DEF m
  <2>6. /\ g \in UsedFiles /\ g.ever = m.ever \cup {y} /\ g.moved = m.moved
        /\ g.written = m.written \cup {y} /\ g.read = m.read
    BY <2>1, <2>2, <2>5 DEF UsedFiles, Write
  <2>7. Used(f, g, s, c)
    BY <2>3, <2>4, <2>5, <2>6 DEF Used
  <2>. QED
    BY <2>7 DEF g
<1>6. CASE c.call \in {"chdir", "fchdir"}
  <2>1. NewFiles(f, s, c) = f
    BY <1>6, CallNames DEF NewFiles
  <2>2. Outs(s, c) = {} /\ Ins(s, c) = {} /\ Gone(s, c) = {}
    BY <1>6, CallNames DEF Outs, Ins, Gone
  <2>. QED
    BY <2>1, <2>2 DEF Used
<1>. QED
  BY <1>3, <1>4, <1>5, <1>6, CallAssumption

-----------------------------------------------------------------------------
(***************************************************************************)
(* The calls of a process that the tracker has not yet handled: the        *)
(* delayed ones, and the one that is not in the log yet.                   *)
(***************************************************************************)
Pend(p) == Len(delayed[p]) + (IF inflight[p] = NoCall THEN 0 ELSE 1)
Nth(p, k) == IF k <= Len(delayed[p]) THEN delayed[p][k] ELSE inflight[p]

\* A step leaves them alone, adds one, or takes the first one away.
Kept == \A q \in Pid : Pend(q)' = Pend(q) /\ \A k \in 1..Pend(q) : Nth(q, k)' = Nth(q, k)

Made(p, c) ==
    /\ \A q \in Pid : /\ Pend(q)' = IF q = p THEN Pend(q) + 1 ELSE Pend(q)
                      /\ \A k \in 1..Pend(q) : Nth(q, k)' = Nth(q, k)
    /\ \A n \in Nat : n = Pend(p) + 1 => Nth(p, n)' = c

Taken(p) ==
    /\ Pend(p) > 0
    /\ Pend(p)' = Pend(p) - 1
    /\ \A k \in 1..(Pend(p) - 1) : Nth(p, k)' = Nth(p, k + 1)
    /\ \A q \in Pid \ {p} : /\ Pend(q)' = Pend(q)
                            /\ \A k \in 1..Pend(q) : Nth(q, k)' = Nth(q, k)

\* The calls that are not handled are calls.
LEMMA PendType ==
    ASSUME Types, NEW p \in Pid
    PROVE  Pend(p) \in Nat /\ \A k \in 1..Pend(p) : Nth(p, k) \in AnyCall
<1>1. delayed[p] \in Seq(AnyCall) /\ Len(delayed[p]) \in Nat
  BY DEF Types
<1>2. inflight[p] # NoCall => inflight[p] \in AnyCall
  BY DEF Types
<1>3. \A k \in 1..Len(delayed[p]) : delayed[p][k] \in AnyCall
  BY <1>1, ElementOfSeq
<1>4. CASE inflight[p] = NoCall
  BY <1>1, <1>3, <1>4 DEF Pend, Nth
<1>5. CASE inflight[p] # NoCall
  BY <1>1, <1>2, <1>3, <1>5 DEF Pend, Nth
<1>. QED
  BY <1>4, <1>5

\* Nothing happens to the calls of a process.
LEMMA SameQueue ==
    ASSUME NEW q \in Pid, delayed'[q] = delayed[q], inflight'[q] = inflight[q]
    PROVE  Pend(q)' = Pend(q) /\ \A k \in 1..Pend(q) : Nth(q, k)' = Nth(q, k)
BY DEF Pend, Nth

\* A call is made.
LEMMA CallMade ==
    ASSUME Types, NEW p \in Pid, NEW c \in AnyCall, inflight[p] = NoCall,
           inflight' = [inflight EXCEPT ![p] = c], delayed' = delayed
    PROVE  Made(p, c)
<1>1. \A q \in Pid : delayed'[q] = delayed[q] /\ Len(delayed[q]) \in Nat
  BY DEF Types
<1>2. \A q \in Pid : inflight'[q] = IF q = p THEN c ELSE inflight[q]
  BY DEF Types
<1>3. c # NoCall
  BY CallFields
<1>4. ASSUME NEW q \in Pid, q # p
      PROVE  Pend(q)' = Pend(q) /\ \A k \in 1..Pend(q) : Nth(q, k)' = Nth(q, k)
  BY <1>1, <1>2, <1>4, SameQueue
<1>5. Pend(p) = Len(delayed[p]) /\ Pend(p)' = Pend(p) + 1
  <2>1. delayed'[p] = delayed[p] /\ Len(delayed[p]) \in Nat /\ inflight'[p] # NoCall
    BY <1>1, <1>2, <1>3
  <2>2. Pend(p) = Len(delayed[p])
    BY <2>1 DEF Pend
  <2>3. Pend(p)' = Len(delayed'[p]) + 1
    BY <2>1 DEF Pend
  <2>. QED
    BY <2>1, <2>2, <2>3
<1>6. \A k \in 1..Pend(p) : Nth(p, k)' = Nth(p, k)
  BY <1>1, <1>5 DEF Nth
<1>7. ASSUME NEW n \in Nat, n = Pend(p) + 1
      PROVE  Nth(p, n)' = c
  <2>1. ~(n <= Len(delayed'[p]))
    BY <1>1, <1>5, <1>7
  <2>. QED
    BY <1>2, <2>1 DEF Nth
<1>. QED
  BY <1>4, <1>5, <1>6, <1>7 DEF Made

\* The call of an unknown process is put off.
LEMMA CallPutOff ==
    ASSUME Types, NEW p \in Pid, inflight[p] # NoCall,
           inflight' = [inflight EXCEPT ![p] = NoCall],
           delayed' = [delayed EXCEPT ![p] = Append(delayed[p], inflight[p])]
    PROVE  Kept
<1>1. delayed[p] \in Seq(AnyCall) /\ Len(delayed[p]) \in Nat /\ inflight[p] \in AnyCall
  BY DEF Types
<1>2. delayed'[p] = Append(delayed[p], inflight[p]) /\ inflight'[p] = NoCall
  BY DEF Types
<1>3. /\ Len(delayed'[p]) = Len(delayed[p]) + 1
      /\ \A k \in 1..Len(delayed[p]) : delayed'[p][k] = delayed[p][k]
      /\ delayed'[p][Len(delayed[p]) + 1] = inflight[p]
  BY <1>1, <1>2, AppendProperties
<1>4. \A q \in Pid \ {p} : delayed'[q] = delayed[q] /\ inflight'[q] = inflight[q]
  BY DEF Types
<1>5. Pend(p) = Len(delayed[p]) + 1 /\ Pend(p)' = Len(delayed[p]) + 1
  BY <1>1, <1>2, <1>3 DEF Pend
<1>6. \A k \in 1..Pend(p) : Nth(p, k)' = Nth(p, k)
  <2>. SUFFICES ASSUME NEW k \in 1..(Len(delayed[p]) + 1)
                PROVE  Nth(p, k)' = Nth(p, k)
    BY <1>5
  <2>1. CASE k <= Len(delayed[p])
    BY <1>1, <1>3, <2>1 DEF Nth
  <2>2. CASE ~(k <= Len(delayed[p]))
    <3>1. k = Len(delayed[p]) + 1
      BY <1>1, <2>2
    <3>. QED
      BY <1>1, <1>3, <2>2, <3>1 DEF Nth
  <2>. QED
    BY <2>1, <2>2
<1>7. ASSUME NEW q \in Pid \ {p}
      PROVE  Pend(q)' = Pend(q) /\ \A k \in 1..Pend(q) : Nth(q, k)' = Nth(q, k)
  BY <1>4, SameQueue
<1>. QED
  BY <1>5, <1>6, <1>7 DEF Kept

\* The call of a known process is handled as soon as it is in the log.
LEMMA CallTaken ==
    ASSUME Types, NEW p \in Pid, inflight[p] # NoCall, delayed[p] = <<>>,
           inflight' = [inflight EXCEPT ![p] = NoCall], delayed' = delayed
    PROVE  Taken(p) /\ Nth(p, 1) = inflight[p]
<1>1. inflight'[p] = NoCall /\ delayed'[p] = <<>>
  BY DEF Types
<1>2. \A q \in Pid \ {p} : delayed'[q] = delayed[q] /\ inflight'[q] = inflight[q]
  BY DEF Types
<1>3. Pend(p) = 1 /\ Pend(p)' = 0 /\ Nth(p, 1) = inflight[p]
  BY <1>1 DEF Pend, Nth
<1>4. ASSUME NEW q \in Pid \ {p}
      PROVE  Pend(q)' = Pend(q) /\ \A k \in 1..Pend(q) : Nth(q, k)' = Nth(q, k)
  BY <1>2, SameQueue
<1>. QED
  BY <1>3, <1>4 DEF Taken

\* replay handles a delayed call.
LEMMA CallReplayed ==
    ASSUME Types, NEW p \in Pid, delayed[p] # <<>>,
           delayed' = [delayed EXCEPT ![p] = Tail(delayed[p])], inflight' = inflight
    PROVE  Taken(p) /\ Nth(p, 1) = Head(delayed[p])
<1>1. delayed[p] \in Seq(AnyCall) /\ Len(delayed[p]) \in Nat /\ Len(delayed[p]) # 0
  BY DEF Types
<1>2. delayed'[p] = Tail(delayed[p]) /\ inflight'[p] = inflight[p]
  BY DEF Types
<1>3. /\ Len(delayed'[p]) = Len(delayed[p]) - 1
      /\ \A k \in 1..Len(delayed'[p]) : delayed'[p][k] = delayed[p][k + 1]
  BY <1>1, <1>2, HeadTailProperties, ZenonT(30)
<1>4. \A q \in Pid \ {p} : delayed'[q] = delayed[q] /\ inflight'[q] = inflight[q]
  BY DEF Types
<1>5. Pend(p) \in Nat /\ Pend(p) > 0 /\ Pend(p)' = Pend(p) - 1
  <2>1. CASE inflight[p] = NoCall
    <3>1. Pend(p) = Len(delayed[p]) /\ Pend(p)' = Len(delayed'[p])
      BY <1>1, <1>2, <1>3, <2>1 DEF Pend
    <3>. QED
      BY <1>1, <1>3, <3>1
  <2>2. CASE inflight[p] # NoCall
    <3>1. Pend(p) = Len(delayed[p]) + 1 /\ Pend(p)' = Len(delayed'[p]) + 1
      BY <1>1, <1>2, <1>3, <2>2 DEF Pend
    <3>. QED
      BY <1>1, <1>3, <3>1
  <2>. QED
    BY <2>1, <2>2
<1>6. Nth(p, 1) = Head(delayed[p])
  <2>1. Head(delayed[p]) = delayed[p][1]
    BY <1>1
  <2>. QED
    BY <1>1, <2>1 DEF Nth
<1>7. ASSUME NEW k \in 1..(Pend(p) - 1)
      PROVE  Nth(p, k)' = Nth(p, k + 1)
  <2>0. k \in Nat /\ k >= 1
    BY <1>5
  <2>1. CASE k <= Len(delayed'[p])
    <3>1. k + 1 <= Len(delayed[p]) /\ k \in 1..Len(delayed'[p])
      BY <1>1, <1>3, <2>0, <2>1
    <3>. QED
      BY <1>3, <2>1, <3>1 DEF Nth
  <2>2. CASE ~(k <= Len(delayed'[p]))
    <3>1. ~(k + 1 <= Len(delayed[p]))
      BY <1>1, <1>3, <2>0, <2>2
    <3>. QED
      BY <1>2, <2>2, <3>1 DEF Nth
  <2>. QED
    BY <2>1, <2>2
<1>8. ASSUME NEW q \in Pid \ {p}
      PROVE  Pend(q)' = Pend(q) /\ \A k \in 1..Pend(q) : Nth(q, k)' = Nth(q, k)
  BY <1>4, SameQueue
<1>. QED
  BY <1>5, <1>6, <1>7, <1>8 DEF Taken

-----------------------------------------------------------------------------
(***************************************************************************)
(* Which processes the tracker knows.                                      *)
(***************************************************************************)

\* The processes whose delayed calls are replayed are those that are known and
\* have delayed calls.
WorkRight(t) ==
    /\ \A i \in 1..Len(t.work) : Known(t, t.work[i]) /\ t.delayed[t.work[i]] # <<>>
    /\ \A i, j \in 1..Len(t.work) : t.work[i] = t.work[j] => i = j
    /\ \A q \in Pid : Known(t, q) /\ t.delayed[q] # <<>> =>
                        \E i \in 1..Len(t.work) : t.work[i] = q

\* The first line of the log of strace is the execve of the program.
Beginning ==
    /\ Exists(Top)
    /\ first => /\ \A p \in Pid : ~IsKnown(p) /\ delayed[p] = <<>>
                /\ \A p \in Pid : p # Top => ~Exists(p) /\ inflight[p] = NoCall
                /\ inflight[Top] = FirstExec /\ work = <<>>
    /\ ~first => IsKnown(Top)

\* A process becomes known by exactly one fork, which is not handled yet.  B orders
\* processes by age.
Families(B) ==
    /\ \A p \in Pid : Pend(p) > 0 \/ IsKnown(p) => Exists(p)
    /\ \A p, q \in Pid : \A k \in 1..Pend(p) :
         Nth(p, k) = ForkOf(q) => Exists(q) /\ ~IsKnown(q) /\ q # Top /\ B[p] < B[q]
    /\ \A p, q, r \in Pid : \A k \in 1..Pend(p), l \in 1..Pend(r) :
         Nth(p, k) = ForkOf(q) /\ Nth(r, l) = ForkOf(q) => p = r /\ k = l
    /\ \A q \in Pid : Exists(q) /\ ~IsKnown(q) /\ q # Top =>
         \E p \in Pid : \E k \in 1..Pend(p) : Nth(p, k) = ForkOf(q)

Struct ==
    /\ failed => work = <<>>
    /\ ~failed => /\ WorkRight(TrackerState) /\ Beginning
                  /\ \E B \in [Pid -> Nat] : Families(B)

\* A call of a known process is handled; t is the state of the tracker in which
\* its handler is called.
Consumed(p, t) ==
    /\ t \in TState /\ ~t.failed /\ ~t.first /\ Known(t, p)
    /\ t.pdata = IF first THEN [pdata EXCEPT ![p] = StartIn(StartDir)] ELSE pdata
    /\ t.td = td /\ WorkRight(t) /\ (first => p = Top)
    /\ Becomes(Handle(t, p, Nth(p, 1)))
    /\ Taken(p)
    /\ UNCHANGED <<proc, files, blind>>

\* A call of an unknown process is put off.
PutOff(p) ==
    /\ ~IsKnown(p) /\ ~first /\ inflight[p] # NoCall
    /\ Kept
    /\ delayed' = [delayed EXCEPT ![p] = Append(delayed[p], inflight[p])]
    /\ UNCHANGED <<proc, files, blind, pdata, work, td, first, failed>>

\* The tracker's variables make up a state of it.
LEMMA TrackerType ==
    ASSUME Types
    PROVE  TrackerState \in TState
BY DEF Types, TrackerState, TState

\* The tracker's variables are those of its state.
LEMMA StateIs ==
    /\ TrackerState.pdata = pdata /\ TrackerState.delayed = delayed
    /\ TrackerState.work = work /\ TrackerState.td = td
    /\ TrackerState.first = first /\ TrackerState.failed = failed
    /\ \A p : Known(TrackerState, p) <=> IsKnown(p)
BY DEF TrackerState, Known, IsKnown

\* The data of a process that has just been started.
LEMMA StartInType == StartIn(StartDir) \in TProc /\ StartIn(StartDir).cwd # NoPath
BY TrackerAssumption, NoPathType DEF StartIn, TProc

\* A handler keeps the types.
LEMMA HandleType ==
    ASSUME NEW t \in TState, NEW pid \in Pid, NEW c \in AnyCall
    PROVE  Handle(t, pid, c) \in TState
<1>1. CASE t.failed
  BY <1>1 DEF Handle
<1>2. CASE ~t.failed /\ ~Known(t, pid)
  <2>1. Handle(t, pid, c) = [t EXCEPT !.delayed[pid] = Append(@, c)]
    BY <1>2 DEF Handle
  <2>2. t.delayed[pid] \in Seq(AnyCall)
    BY DEF TState
  <2>3. Append(t.delayed[pid], c) \in Seq(AnyCall)
    BY <2>2, AppendProperties
  <2>. QED
    BY <2>1, <2>3, ZenonT(30) DEF TState
<1>3. CASE ~t.failed /\ Known(t, pid)
  BY <1>3, Handled DEF Shape
<1>. QED
  BY <1>1, <1>2, <1>3

\* Steps of the tracker keep the types.
LEMMA BecomesTypes ==
    ASSUME Types, NEW t \in TState, Becomes(t), proc' = proc, files' = files, blind' = blind,
           inflight' \in [Pid -> AnyCall \cup {NoCall}]
    PROVE  Types'
BY DEF Types, Becomes, TState

\* What Log does if no handler has failed.
LEMMA LogStep ==
    ASSUME Seeded, Types, Struct, ~failed, NEW p \in Pid, Log(p)
    PROVE  PutOff(p) \/ \E t : Consumed(p, t)
<1>. DEFINE s == TrackerState
            u == [s EXCEPT !.first = FALSE, !.pdata[p] = StartIn(StartDir)]
            c == inflight[p]
<1>1. /\ work = <<>> /\ c # NoCall /\ inflight' = [inflight EXCEPT ![p] = NoCall]
      /\ UNCHANGED <<proc, files, blind>>
  BY DEF Log
<1>2. c \in AnyCall /\ s \in TState
  BY <1>1, TrackerType DEF Types
<1>3. Becomes(Handle(IF first THEN u ELSE s, p, c))
  BY StateIs DEF Log, HandleLine, HandleFirst
<1>4. Beginning /\ WorkRight(s)
  BY DEF Struct
<1>5. CASE first
  <2>1. p = Top /\ \A q \in Pid : delayed[q] = <<>>
    BY <1>1, <1>4, <1>5 DEF Beginning
  <2>. DEFINE e == [pdata EXCEPT ![p] = StartIn(StartDir)]
  <2>2. e \in [Pid -> TProc] /\ e[p] = StartIn(StartDir)
    BY StartInType DEF Types
  <2>3. u = [s EXCEPT !.first = FALSE, !.pdata = e]
    BY StateIs
  <2>. HIDE DEF e, u, s
  <2>4. /\ u \in TState /\ u.pdata = e /\ u.first = FALSE /\ u.td = s.td
        /\ u.failed = s.failed /\ u.work = s.work /\ u.delayed = s.delayed
    BY <1>2, <2>2, <2>3 DEF TState
  <2>5. /\ s.td = td /\ s.failed = failed /\ s.work = work /\ s.delayed = delayed
    BY StateIs DEF s
  <2>6. WorkRight(u)
    <3>1. Len(u.work) = 0 /\ \A q \in Pid : u.delayed[q] = <<>>
      BY <1>1, <2>1, <2>4, <2>5
    <3>. QED
      BY <3>1 DEF WorkRight
  <2>7. Known(u, p)
    BY <2>2, <2>4, StartInType DEF Known
  <2>8. Becomes(Handle(u, p, c))
    BY <1>3, <1>5
  <2>9. Handle(u, p, c).delayed = u.delayed
    BY <1>2, <2>4, <2>5, <2>7, Handled DEF Shape
  <2>10. delayed' = delayed
    BY <2>4, <2>5, <2>8, <2>9 DEF Becomes
  <2>11. Taken(p) /\ Nth(p, 1) = c
    BY <1>1, <2>1, <2>10, CallTaken
  <2>12. u.pdata = IF first THEN [pdata EXCEPT ![p] = StartIn(StartDir)] ELSE pdata
    BY <1>5, <2>4 DEF e
  <2>13. Consumed(p, u)
    BY <1>1, <2>1, <2>4, <2>5, <2>6, <2>7, <2>8, <2>11, <2>12 DEF Consumed
  <2>. QED
    BY <2>13
<1>6. CASE ~first /\ ~IsKnown(p)
  <2>0. ~s.failed /\ ~Known(s, p)
    BY <1>6, StateIs
  <2>1. Handle(s, p, c) = [s EXCEPT !.delayed[p] = Append(@, c)]
    BY <2>0 DEF Handle
  <2>2. Becomes([s EXCEPT !.delayed[p] = Append(@, c)])
    BY <1>3, <1>6, <2>1
  <2>3. /\ delayed' = [delayed EXCEPT ![p] = Append(delayed[p], c)]
        /\ pdata' = pdata /\ work' = work /\ td' = td /\ first' = first /\ failed' = failed
    BY <2>2, StateIs DEF Becomes, TrackerState
  <2>4. Kept
    BY <1>1, <2>3, CallPutOff
  <2>. QED
    BY <1>1, <1>6, <2>3, <2>4 DEF PutOff
<1>7. CASE ~first /\ IsKnown(p)
  <2>1. delayed[p] = <<>>
    <3>1. Len(s.work) = 0
      BY <1>1, StateIs
    <3>. QED
      BY <1>4, <1>7, <3>1, StateIs DEF WorkRight
  <2>2. Known(s, p) /\ ~s.failed /\ ~s.first
    BY <1>7, StateIs
  <2>3. Becomes(Handle(s, p, c))
    BY <1>3, <1>7
  <2>4. Handle(s, p, c).delayed = s.delayed
    BY <1>2, <2>2, Handled DEF Shape
  <2>5. delayed' = delayed
    BY <2>3, <2>4, StateIs DEF Becomes
  <2>6. Taken(p) /\ Nth(p, 1) = c
    BY <1>1, <2>1, <2>5, CallTaken
  <2>7. s.td = td /\ s.pdata = IF first THEN [pdata EXCEPT ![p] = StartIn(StartDir)] ELSE pdata
    BY <1>7, StateIs
  <2>8. Consumed(p, s)
    BY <1>1, <1>2, <1>4, <1>7, <2>2, <2>3, <2>6, <2>7 DEF Consumed
  <2>. QED
    BY <2>8
<1>. QED
  BY <1>5, <1>6, <1>7

\* What Replay does.
LEMMA ReplayStep ==
    ASSUME Types, Struct, Replay
    PROVE  Head(work) \in Pid /\ \E t : Consumed(Head(work), t)
<1>. DEFINE q == Head(work)
            s == TrackerState
            d == [delayed EXCEPT ![q] = Tail(delayed[q])]
            w == IF Len(delayed[q]) = 1 THEN Tail(work) ELSE work
            t == [s EXCEPT !.delayed = d, !.work = w]
            c == Head(delayed[q])
<1>1. /\ work \in Seq(Pid) /\ work # <<>> /\ Len(work) \in Nat /\ Len(work) # 0
      /\ UNCHANGED kernel
  BY DEF Replay, Types
<1>2. ~failed /\ WorkRight(s) /\ Beginning
  BY <1>1 DEF Struct
<1>3. q = work[1] /\ q \in Pid /\ 1 \in 1..Len(work)
  BY <1>1
<1>4. IsKnown(q) /\ delayed[q] # <<>>
  BY <1>2, <1>3, StateIs DEF WorkRight
<1>5. ~first
  BY <1>2, <1>3, <1>4 DEF Beginning
<1>6. /\ delayed[q] \in Seq(AnyCall) /\ Len(delayed[q]) \in Nat /\ Len(delayed[q]) # 0
      /\ c \in AnyCall /\ Tail(delayed[q]) \in Seq(AnyCall)
      /\ Len(Tail(delayed[q])) = Len(delayed[q]) - 1
  BY <1>3, <1>4, HeadTailProperties DEF Types
<1>7. /\ d \in [Pid -> Seq(AnyCall)] /\ d[q] = Tail(delayed[q])
      /\ \A p \in Pid \ {q} : d[p] = delayed[p]
  BY <1>3, <1>6 DEF Types
<1>8. /\ Tail(work) \in Seq(Pid) /\ Len(Tail(work)) = Len(work) - 1
      /\ \A i \in 1..Len(Tail(work)) : Tail(work)[i] = work[i + 1]
  BY <1>1, HeadTailProperties
<1>9. Becomes(Handle(t, q, c))
  BY StateIs DEF Replay
<1>10. s \in TState /\ w \in Seq(Pid)
  BY <1>1, <1>8, TrackerType
<1>. HIDE DEF s, d, w, q
<1>11. /\ t \in TState /\ t.pdata = s.pdata /\ t.delayed = d /\ t.work = w
       /\ t.td = s.td /\ t.first = s.first /\ t.failed = s.failed
  BY <1>7, <1>10 DEF TState
<1>. HIDE DEF t, c
<1>12. s.pdata = pdata /\ s.td = td /\ s.first = first /\ s.failed = failed
       /\ s.work = work /\ s.delayed = delayed
  BY StateIs DEF s
<1>13. \A p \in Pid : Known(t, p) <=> IsKnown(p)
  BY <1>11, <1>12 DEF Known, IsKnown
<1>14. /\ \A i \in 1..Len(work) : IsKnown(work[i]) /\ delayed[work[i]] # <<>> /\ work[i] \in Pid
       /\ \A i, j \in 1..Len(work) : work[i] = work[j] => i = j
       /\ \A p \in Pid : IsKnown(p) /\ delayed[p] # <<>> => \E i \in 1..Len(work) : work[i] = p
  BY <1>1, <1>2, <1>12, StateIs, ElementOfSeq DEF WorkRight, s
<1>15. WorkRight(t)
  <2>1. CASE Len(delayed[q]) = 1
    <3>1. w = Tail(work) /\ Tail(delayed[q]) = <<>>
      <4>1. Len(Tail(delayed[q])) = 0
        BY <1>6, <2>1
      <4>2. Tail(delayed[q]) = <<>>
        BY <1>6, <4>1, EmptySeq
      <4>. QED
        BY <2>1, <4>2 DEF w
    <3>2. \A i \in 1..Len(w) : i + 1 \in 1..Len(work) /\ i + 1 # 1 /\ w[i] = work[i + 1]
      BY <1>1, <1>8, <3>1
    <3>3. \A i \in 1..Len(w) : w[i] # q /\ w[i] \in Pid
      BY <1>3, <1>14, <3>2
    <3>4. \A i \in 1..Len(w) : Known(t, w[i]) /\ d[w[i]] # <<>>
      <4>. SUFFICES ASSUME NEW i \in 1..Len(w)
                    PROVE  Known(t, w[i]) /\ d[w[i]] # <<>>
        OBVIOUS
      <4>1. w[i] \in Pid \ {q} /\ IsKnown(w[i]) /\ delayed[w[i]] # <<>>
        BY <1>14, <3>2, <3>3
      <4>. QED
        BY <1>7, <1>13, <4>1
    <3>5. ASSUME NEW i \in 1..Len(w), NEW j \in 1..Len(w), w[i] = w[j]
          PROVE  i = j
      <4>1. i + 1 = j + 1
        BY <1>14, <3>2, <3>5
      <4>. QED
        BY <4>1, <1>1, <1>8, <3>1
    <3>6. ASSUME NEW p \in Pid, Known(t, p), d[p] # <<>>
          PROVE  \E i \in 1..Len(w) : w[i] = p
      <4>1. p # q /\ d[p] = delayed[p]
        BY <1>7, <3>1, <3>6
      <4>2. PICK i \in 1..Len(work) : work[i] = p
        BY <1>13, <1>14, <3>6, <4>1
      <4>3. i # 1
        BY <1>3, <4>1, <4>2
      <4>4. i - 1 \in 1..Len(w) /\ (i - 1) + 1 = i
        BY <1>1, <1>8, <3>1, <4>3
      <4>5. w[i - 1] = work[(i - 1) + 1]
        BY <3>2, <4>4
      <4>. QED
        BY <4>2, <4>4, <4>5
    <3>. QED
      BY <1>11, <3>4, <3>5, <3>6 DEF WorkRight
  <2>2. CASE Len(delayed[q]) # 1
    <3>1. w = work /\ d[q] # <<>>
      <4>1. Len(d[q]) # 0
        BY <1>6, <1>7, <2>2
      <4>. QED
        BY <2>2, <4>1 DEF w
    <3>2. \A p \in Pid : d[p] # <<>> <=> delayed[p] # <<>>
      BY <1>4, <1>7, <3>1
    <3>. QED
      BY <1>11, <1>13, <1>14, <3>1, <3>2 DEF WorkRight
  <2>. QED
    BY <2>1, <2>2
<1>16. Known(t, q) /\ ~t.failed /\ ~t.first
  BY <1>2, <1>3, <1>4, <1>5, <1>11, <1>12, <1>13
<1>17. Handle(t, q, c).delayed = d
  BY <1>3, <1>6, <1>11, <1>16, Handled DEF Shape
<1>18. delayed' = d
  BY <1>9, <1>17 DEF Becomes
<1>19. Taken(q) /\ Nth(q, 1) = c
  BY <1>1, <1>3, <1>4, <1>18, CallReplayed DEF kernel, d, c
<1>20. t.pdata = IF first THEN [pdata EXCEPT ![q] = StartIn(StartDir)] ELSE pdata
  BY <1>5, <1>11, <1>12
<1>21. Consumed(q, t)
  BY <1>1, <1>5, <1>9, <1>11, <1>12, <1>15, <1>16, <1>19, <1>20 DEF Consumed, kernel
<1>. QED
  BY <1>3, <1>21

\* What the steps of the kernel do to the processes and their calls.
LEMMA CallStep ==
    ASSUME Types, NEW p \in Pid, Call(p)
    PROVE  \E c \in Calls :
             /\ work = <<>> /\ Exists(p) /\ inflight[p] = NoCall /\ Possible(proc[p], c)
             /\ proc' = [proc EXCEPT ![p] = NewProc(proc[p], c)]
             /\ files' = NewFiles(files, proc[p], c)
             /\ inflight' = [inflight EXCEPT ![p] = c]
             /\ blind' = (blind \/ Misread(proc[p], c))
             /\ Made(p, c) /\ UNCHANGED tracker
<1>1. PICK c \in Calls :
        /\ Possible(proc[p], c)
        /\ proc' = [proc EXCEPT ![p] = NewProc(proc[p], c)]
        /\ files' = NewFiles(files, proc[p], c)
        /\ inflight' = [inflight EXCEPT ![p] = c]
        /\ blind' = (blind \/ Misread(proc[p], c))
  BY DEF Call
<1>2. work = <<>> /\ Exists(p) /\ inflight[p] = NoCall /\ UNCHANGED tracker
  BY DEF Call, Ready
<1>3. c \in AnyCall /\ delayed' = delayed
  BY <1>2 DEF AnyCall, tracker
<1>4. Made(p, c)
  BY <1>1, <1>2, <1>3, CallMade
<1>. QED
  BY <1>1, <1>2, <1>4

\* A fork: a process is made that is not known yet.
LEMMA ForkStep ==
    ASSUME Types, NEW p \in Pid, Fork(p)
    PROVE  \E q \in Pid :
             /\ work = <<>> /\ Exists(p) /\ inflight[p] = NoCall /\ ~Exists(q)
             /\ proc' = [proc EXCEPT ![q] = proc[p]]
             /\ inflight' = [inflight EXCEPT ![p] = ForkOf(q)]
             /\ Made(p, ForkOf(q)) /\ UNCHANGED <<files, blind, tracker>>
<1>1. PICK q \in Pid :
        /\ ~Exists(q)
        /\ proc' = [proc EXCEPT ![q] = proc[p]]
        /\ inflight' = [inflight EXCEPT ![p] = ForkOf(q)]
  BY DEF Fork
<1>2. work = <<>> /\ Exists(p) /\ inflight[p] = NoCall /\ UNCHANGED <<files, blind, tracker>>
  BY DEF Fork, Ready
<1>3. ForkOf(q) \in AnyCall /\ delayed' = delayed
  BY <1>2 DEF AnyCall, tracker
<1>4. Made(p, ForkOf(q))
  BY <1>1, <1>2, <1>3, CallMade
<1>. QED
  BY <1>1, <1>2, <1>4

\* dup2: nothing of it will be in the log.
LEMMA DupStep ==
    ASSUME Types, NEW p \in Pid, Dup(p)
    PROVE  \E n \in Fd : \E x \in Path :
             /\ work = <<>> /\ Exists(p) /\ inflight[p] = NoCall
             /\ proc' = [proc EXCEPT ![p].fd[n] = x, ![p].dups = @ \cup {n}]
             /\ Kept /\ UNCHANGED <<files, inflight, blind, tracker>>
<1>1. PICK m \in Fd, n \in Fd :
        proc' = [proc EXCEPT ![p].fd[n] = proc[p].fd[m], ![p].dups = @ \cup {n}]
  BY DEF Dup
<1>2. /\ work = <<>> /\ Exists(p) /\ inflight[p] = NoCall
      /\ UNCHANGED <<files, inflight, blind, tracker>>
  BY DEF Dup, Ready
<1>3. Kept
  BY <1>2, SameQueue DEF Kept, tracker
<1>4. proc[p].fd[m] \in Path
  BY DEF Types, KProc
<1>. QED
  BY <1>1, <1>2, <1>3, <1>4

-----------------------------------------------------------------------------
(***************************************************************************)
(* The types.                                                              *)
(***************************************************************************)
\* The types at the beginning.
LEMMA TypesInit ==
    ASSUME Init
    PROVE  Types
<1>1. Started(StartDir) \in KProc /\ Started(NoPath) \in KProc /\ StartIn(NoPath) \in TProc
  BY TrackerAssumption, NoPathType DEF Started, StartIn, KProc, TProc
<1>2. proc \in [Pid -> KProc] /\ pdata \in [Pid -> TProc]
  BY <1>1 DEF Init
<1>3. Where(StartDir, Program) \in Path
  BY TrackerAssumption, CallAssumption, WhereType
<1>4. files \in UsedFiles
  BY <1>3 DEF Init, UsedFiles
<1>5. inflight \in [Pid -> AnyCall \cup {NoCall}]
  BY DEF Init, AnyCall
<1>6. delayed \in [Pid -> Seq(AnyCall)] /\ work \in Seq(Pid)
  BY EmptySeq DEF Init
<1>7. td \in Found
  BY DEF Init, Found
<1>8. blind \in BOOLEAN /\ first \in BOOLEAN /\ failed \in BOOLEAN
  BY DEF Init
<1>. QED
  BY <1>2, <1>4, <1>5, <1>6, <1>7, <1>8 DEF Types

\* Every step keeps the types.
LEMMA TypesNext ==
    ASSUME Seeded, Types, Struct, [Next]_vars
    PROVE  Types'
<1>1. ASSUME NEW p \in Pid, Call(p)
      PROVE  Types'
  <2>1. PICK c \in Calls :
             /\ Exists(p) /\ Possible(proc[p], c)
             /\ proc' = [proc EXCEPT ![p] = NewProc(proc[p], c)]
             /\ files' = NewFiles(files, proc[p], c)
             /\ inflight' = [inflight EXCEPT ![p] = c]
             /\ blind' = (blind \/ Misread(proc[p], c))
             /\ UNCHANGED tracker
    BY <1>1, CallStep
  <2>2. NewProc(proc[p], c) \in KProc
    BY <2>1, NewProcType DEF Types, Exists
  <2>3. NewFiles(files, proc[p], c) \in UsedFiles
    BY NewFilesUsed DEF Types, Used
  <2>4. blind' \in BOOLEAN
    BY <2>1 DEF Types
  <2>5. proc' \in [Pid -> KProc]
    BY <2>1, <2>2 DEF Types
  <2>6. inflight' \in [Pid -> AnyCall \cup {NoCall}]
    BY <2>1 DEF Types, AnyCall
  <2>. QED
    BY <2>1, <2>3, <2>4, <2>5, <2>6 DEF Types, tracker
<1>2. ASSUME NEW p \in Pid, Fork(p)
      PROVE  Types'
  <2>1. PICK q \in Pid :
             /\ proc' = [proc EXCEPT ![q] = proc[p]]
             /\ inflight' = [inflight EXCEPT ![p] = ForkOf(q)]
             /\ UNCHANGED <<files, blind, tracker>>
    BY <1>2, ForkStep
  <2>2. ForkOf(q) \in AnyCall
    BY DEF AnyCall
  <2>3. inflight' \in [Pid -> AnyCall \cup {NoCall}] /\ proc' \in [Pid -> KProc]
    BY <2>1, <2>2 DEF Types
  <2>. QED
    BY <2>1, <2>3 DEF Types, tracker
<1>3. ASSUME NEW p \in Pid, Dup(p)
      PROVE  Types'
  <2>1. PICK n \in Fd, x \in Path :
             /\ proc' = [proc EXCEPT ![p].fd[n] = x, ![p].dups = @ \cup {n}]
             /\ UNCHANGED <<files, inflight, blind, tracker>>
    BY <1>3, DupStep
  <2>2. proc' \in [Pid -> KProc]
    BY <2>1, ZenonT(30) DEF Types, KProc
  <2>. QED
    BY <2>1, <2>2 DEF Types, tracker
<1>4. ASSUME NEW p \in Pid, Log(p)
      PROVE  Types'
  <2>. DEFINE s == TrackerState
              u == [s EXCEPT !.first = FALSE, !.pdata[p] = StartIn(StartDir)]
              v == IF s.first THEN u ELSE s
  <2>1. /\ inflight[p] # NoCall /\ inflight' = [inflight EXCEPT ![p] = NoCall]
        /\ UNCHANGED <<proc, files, blind>>
    BY <1>4 DEF Log
  <2>2. inflight[p] \in AnyCall /\ inflight' \in [Pid -> AnyCall \cup {NoCall}]
    BY <2>1 DEF Types
  <2>3. s \in TState
    BY TrackerType
  <2>4. Becomes(Handle(v, p, inflight[p]))
    BY <1>4 DEF Log, HandleLine, HandleFirst
  <2>. HIDE DEF s
  <2>5. u \in TState
    BY <2>3, StartInType DEF TState
  <2>. HIDE DEF u
  <2>6. Handle(v, p, inflight[p]) \in TState
    BY <2>2, <2>3, <2>5, HandleType
  <2>. QED
    BY <2>1, <2>2, <2>4, <2>6, BecomesTypes
<1>5. ASSUME Replay
      PROVE  Types'
  <2>1. PICK t : Consumed(Head(work), t)
    BY <1>5, ReplayStep
  <2>2. Head(work) \in Pid /\ inflight' = inflight
    BY <1>5, ReplayStep DEF Replay, kernel
  <2>3. t \in TState /\ Pend(Head(work)) > 0 /\ Becomes(Handle(t, Head(work), Nth(Head(work), 1)))
        /\ UNCHANGED <<proc, files, blind>>
    BY <2>1 DEF Consumed, Taken
  <2>4. Nth(Head(work), 1) \in AnyCall
    BY <2>2, <2>3, PendType
  <2>5. Handle(t, Head(work), Nth(Head(work), 1)) \in TState
    BY <2>2, <2>3, <2>4, HandleType
  <2>6. inflight' \in [Pid -> AnyCall \cup {NoCall}]
    BY <2>2 DEF Types
  <2>. QED
    BY <2>3, <2>5, <2>6, BecomesTypes
<1>6. CASE UNCHANGED vars
  BY <1>6 DEF Types, vars, kernel, tracker
<1>. QED
  BY <1>1, <1>2, <1>3, <1>4, <1>5, <1>6 DEF Next

-----------------------------------------------------------------------------
(***************************************************************************)
(* Which processes are known, and which are about to be.                   *)
(***************************************************************************)

\* The place a call had before the first call of p was taken away.
Before(p, r, k) == IF r = p THEN k + 1 ELSE k

\* Which calls there are after the first one has been taken.
LEMMA TakenCalls ==
    ASSUME Types, Types', NEW p \in Pid, Taken(p), NEW r \in Pid
    PROVE  /\ \A k \in 1..Pend(r)' : /\ k \in Nat
                                     /\ Before(p, r, k) \in 1..Pend(r)
                                     /\ Nth(r, k)' = Nth(r, Before(p, r, k))
           /\ \A l \in 1..Pend(r) : r # p \/ l # 1 =>
                \E k \in 1..Pend(r)' : l = Before(p, r, k)
<1>1. Pend(r) \in Nat
  BY PendType
<1>2. CASE r = p
  <2>1. Pend(r)' = Pend(r) - 1 /\ Pend(r) > 0
    BY <1>2 DEF Taken
  <2>2. ASSUME NEW k \in 1..Pend(r)'
        PROVE  k \in Nat /\ k + 1 \in 1..Pend(r) /\ Nth(r, k)' = Nth(r, k + 1)
    <3>1. k \in 1..(Pend(p) - 1)
      BY <1>2, <2>1
    <3>2. Nth(p, k)' = Nth(p, k + 1)
      BY <3>1 DEF Taken
    <3>. QED
      BY <1>1, <1>2, <2>1, <3>2
  <2>3. ASSUME NEW l \in 1..Pend(r), l # 1
        PROVE  \E k \in 1..Pend(r)' : l = k + 1
    <3>1. l - 1 \in 1..Pend(r)' /\ l = (l - 1) + 1
      BY <1>1, <2>1, <2>3
    <3>. QED
      BY <3>1
  <2>. QED
    BY <1>2, <2>2, <2>3 DEF Before
<1>3. CASE r # p
  BY <1>1, <1>3 DEF Taken, Before
<1>. QED
  BY <1>2, <1>3

\* Which calls there are after one has been made.
LEMMA MadeCalls ==
    ASSUME Types, NEW p \in Pid, NEW c, Made(p, c), NEW r \in Pid
    PROVE  /\ \A k \in 1..Pend(r)' :
                \/ k \in 1..Pend(r) /\ Nth(r, k)' = Nth(r, k)
                \/ r = p /\ k = Pend(p) + 1 /\ Nth(r, k)' = c
           /\ \A k \in 1..Pend(r) : k \in 1..Pend(r)' /\ Nth(r, k)' = Nth(r, k)
           /\ \A n \in Nat : n = Pend(p) + 1 => n \in 1..Pend(p)' /\ Nth(p, n)' = c
<1>1. Pend(r) \in Nat /\ Pend(p) \in Nat
  BY PendType
<1>2. /\ Pend(r)' = IF r = p THEN Pend(r) + 1 ELSE Pend(r)
      /\ Pend(p)' = Pend(p) + 1
      /\ \A k \in 1..Pend(r) : Nth(r, k)' = Nth(r, k)
      /\ \A n \in Nat : n = Pend(p) + 1 => Nth(p, n)' = c
  BY DEF Made
<1>3. ASSUME NEW n \in Nat, n = Pend(p) + 1
      PROVE  n \in 1..Pend(p)' /\ Nth(p, n)' = c
  BY <1>1, <1>2, <1>3
<1>4. \A k \in 1..Pend(r) : k \in 1..Pend(r)' /\ Nth(r, k)' = Nth(r, k)
  BY <1>1, <1>2
<1>5. ASSUME NEW k \in 1..Pend(r)'
      PROVE  \/ k \in 1..Pend(r) /\ Nth(r, k)' = Nth(r, k)
             \/ r = p /\ k = Pend(p) + 1 /\ Nth(r, k)' = c
  <2>1. CASE k \in 1..Pend(r)
    BY <1>4, <2>1
  <2>2. CASE k \notin 1..Pend(r)
    <3>1. r = p /\ k = Pend(p) + 1 /\ k \in Nat
      BY <1>1, <1>2, <2>2
    <3>. QED
      BY <1>2, <3>1
  <2>. QED
    BY <2>1, <2>2
<1>. QED
  BY <1>3, <1>4, <1>5

\* Two forks are the same only if they have the same child.
LEMMA ForkInjective ==
    ASSUME NEW p, NEW q, ForkOf(p) = ForkOf(q)
    PROVE  p = q
<1>1. ForkOf(p).child = p /\ ForkOf(q).child = q
  BY DEF ForkOf
<1>. QED
  BY <1>1

\* Nobody is born and nobody becomes known.
LEMMA FamiliesKept ==
    ASSUME Types, NEW B, Families(B), Kept, pdata' = pdata,
           \A p \in Pid : Exists(p)' <=> Exists(p)
    PROVE  Families(B)'
<1>1. \A p \in Pid : /\ Pend(p)' = Pend(p) /\ (IsKnown(p)' <=> IsKnown(p))
                     /\ \A k \in 1..Pend(p) : Nth(p, k)' = Nth(p, k)
  BY DEF Kept, IsKnown
<1>. QED
  BY <1>1 DEF Families

\* A process makes a call that is no fork.
LEMMA FamiliesCall ==
    ASSUME Types, NEW B, Families(B), NEW p \in Pid, NEW c, Made(p, c), Exists(p),
           \A q \in Pid : c # ForkOf(q),
           pdata' = pdata, \A q \in Pid : Exists(q)' <=> Exists(q)
    PROVE  Families(B)'
<1>1. \A q \in Pid : IsKnown(q)' <=> IsKnown(q)
  BY DEF IsKnown
<1>2. \A r \in Pid : \A k \in 1..Pend(r)' : \A q \in Pid :
        Nth(r, k)' = ForkOf(q) => k \in 1..Pend(r) /\ Nth(r, k) = ForkOf(q)
  BY MadeCalls
<1>3. \A r \in Pid : Pend(r)' > 0 => r = p \/ Pend(r) > 0
  BY DEF Made
<1>4. \A q \in Pid : (Pend(q) > 0 \/ IsKnown(q) => Exists(q))'
  BY <1>1, <1>3 DEF Families
<1>5. \A r, q \in Pid : \A k \in 1..Pend(r)' :
        Nth(r, k)' = ForkOf(q) => Exists(q)' /\ ~IsKnown(q)' /\ q # Top /\ B[r] < B[q]
  BY <1>1, <1>2 DEF Families
<1>6. \A r, q, m \in Pid : \A k \in 1..Pend(r)', l \in 1..Pend(m)' :
         Nth(r, k)' = ForkOf(q) /\ Nth(m, l)' = ForkOf(q) => r = m /\ k = l
  BY <1>2 DEF Families
<1>7. \A q \in Pid : Exists(q)' /\ ~IsKnown(q)' /\ q # Top =>
         \E r \in Pid : \E k \in 1..Pend(r)' : Nth(r, k)' = ForkOf(q)
  BY <1>1, MadeCalls DEF Families
<1>. QED
  BY <1>4, <1>5, <1>6, <1>7 DEF Families

\* A process is born.
LEMMA FamiliesFork ==
    ASSUME Types, NEW B \in [Pid -> Nat], Families(B), NEW p \in Pid, NEW c \in Pid,
           Made(p, ForkOf(c)), Exists(p), ~Exists(c), c # Top, pdata' = pdata,
           \A q \in Pid : Exists(q)' <=> Exists(q) \/ q = c
    PROVE  \E A \in [Pid -> Nat] : Families(A)'
<1>. DEFINE A == [B EXCEPT ![c] = B[p] + 1]
<1>0. A \in [Pid -> Nat] /\ A[c] = B[p] + 1 /\ \A q \in Pid : q # c => A[q] = B[q]
  OBVIOUS
<1>. HIDE DEF A
<1>1. \A q \in Pid : IsKnown(q)' <=> IsKnown(q)
  BY DEF IsKnown
<1>2. ASSUME NEW r \in Pid, NEW k \in 1..Pend(r)', NEW q \in Pid, Nth(r, k)' = ForkOf(q)
      PROVE  \/ k \in 1..Pend(r) /\ Nth(r, k) = ForkOf(q) /\ r # c /\ q # c
             \/ r = p /\ k = Pend(p) + 1 /\ q = c
  <2>1. CASE k \in 1..Pend(r) /\ Nth(r, k)' = Nth(r, k)
    <3>1. Exists(q)
      BY <1>2, <2>1 DEF Families
    <3>2. Pend(r) \in Nat
      BY PendType
    <3>3. Pend(r) > 0
      BY <2>1, <3>2
    <3>4. Exists(r)
      BY <3>3 DEF Families
    <3>. QED
      BY <1>2, <2>1, <3>1, <3>4
  <2>2. CASE r = p /\ k = Pend(p) + 1 /\ Nth(r, k)' = ForkOf(c)
    BY <1>2, <2>2, ForkInjective
  <2>. QED
    BY <2>1, <2>2, MadeCalls
<1>3. \A r \in Pid : Pend(r)' > 0 => r = p \/ Pend(r) > 0
  BY DEF Made
<1>4. \A q \in Pid : (Pend(q) > 0 \/ IsKnown(q) => Exists(q))'
  BY <1>1, <1>3 DEF Families
<1>5. ASSUME NEW r \in Pid, NEW q \in Pid, NEW k \in 1..Pend(r)', Nth(r, k)' = ForkOf(q)
      PROVE  Exists(q)' /\ ~IsKnown(q)' /\ q # Top /\ A[r] < A[q]
  <2>1. CASE k \in 1..Pend(r) /\ Nth(r, k) = ForkOf(q) /\ r # c /\ q # c
    BY <1>0, <1>1, <2>1 DEF Families
  <2>2. CASE r = p /\ k = Pend(p) + 1 /\ q = c
    <3>1. p # c /\ ~IsKnown(c)
      BY DEF Families
    <3>2. A[p] = B[p] /\ B[p] \in Nat /\ A[c] = B[p] + 1
      BY <1>0, <3>1
    <3>3. A[p] < A[c]
      BY <3>2
    <3>. QED
      BY <1>1, <2>2, <3>1, <3>3
  <2>. QED
    BY <1>2, <1>5, <2>1, <2>2
<1>6. \A r, q, m \in Pid : \A k \in 1..Pend(r)', l \in 1..Pend(m)' :
         Nth(r, k)' = ForkOf(q) /\ Nth(m, l)' = ForkOf(q) => r = m /\ k = l
  <2>. SUFFICES ASSUME NEW r \in Pid, NEW q \in Pid, NEW m \in Pid,
                       NEW k \in 1..Pend(r)', NEW l \in 1..Pend(m)',
                       Nth(r, k)' = ForkOf(q), Nth(m, l)' = ForkOf(q)
                PROVE  r = m /\ k = l
    OBVIOUS
  <2>1. \/ k \in 1..Pend(r) /\ Nth(r, k) = ForkOf(q) /\ q # c
        \/ r = p /\ k = Pend(p) + 1 /\ q = c
    BY <1>2
  <2>2. \/ l \in 1..Pend(m) /\ Nth(m, l) = ForkOf(q) /\ q # c
        \/ m = p /\ l = Pend(p) + 1 /\ q = c
    BY <1>2
  <2>3. CASE q = c
    BY <2>1, <2>2, <2>3
  <2>4. CASE q # c
    BY <2>1, <2>2, <2>4 DEF Families
  <2>. QED
    BY <2>3, <2>4
<1>7. ASSUME NEW q \in Pid, Exists(q)', ~IsKnown(q)', q # Top
      PROVE  \E r \in Pid : \E k \in 1..Pend(r)' : Nth(r, k)' = ForkOf(q)
  <2>1. CASE q = c
    <3>1. PICK n \in Nat : n = Pend(p) + 1
      BY PendType
    <3>. QED
      BY <2>1, <3>1, MadeCalls
  <2>2. CASE q # c
    BY <1>1, <1>7, <2>2, MadeCalls DEF Families
  <2>. QED
    BY <2>1, <2>2
<1>8. Families(A)'
  BY <1>4, <1>5, <1>6, <1>7 DEF Families
<1>. QED
  BY <1>0, <1>8

\* Who is known after a call has been handled.
LEMMA ConsumedKnown ==
    ASSUME Types, NEW p \in Pid, NEW t, Consumed(p, t)
    PROVE  /\ Nth(p, 1) \in AnyCall
           /\ Shape(t, TrackerState', p, Nth(p, 1))
           /\ TrackerState' = Handle(t, p, Nth(p, 1))
           /\ ~first' /\ IsKnown(p)'
           /\ \A q \in Pid \ {p} :
                pdata'[q] = IF Nth(p, 1) = ForkOf(q) THEN t.pdata[p] ELSE pdata[q]
           /\ \A q \in Pid : IsKnown(q)' <=> IsKnown(q) \/ q = p \/ Nth(p, 1) = ForkOf(q)
           /\ \A q \in Pid : Exists(q)' <=> Exists(q)
<1>. DEFINE c == Nth(p, 1)
            u == Handle(t, p, c)
<1>1. t \in TState /\ ~t.failed /\ ~t.first /\ Known(t, p) /\ Becomes(u) /\ Pend(p) > 0 /\ proc' = proc
  BY DEF Consumed, Taken
<1>2. c \in AnyCall
  BY <1>1, PendType
<1>3. Shape(t, u, p, c)
  BY <1>1, <1>2, Handled
<1>4. u \in TState
  BY <1>3 DEF Shape
<1>. HIDE DEF u, c
<1>5. TrackerState' = u
  BY <1>1, <1>4 DEF Becomes, TrackerState, TState
<1>6. ~first' /\ pdata' = u.pdata
  BY <1>1, <1>3 DEF Becomes, Shape
<1>7. \A q \in Pid \ {p} : t.pdata[q] = pdata[q]
  BY DEF Consumed, Types
<1>8. \A q \in Pid \ {p} : pdata'[q] = IF c = ForkOf(q) THEN t.pdata[p] ELSE pdata[q]
  BY <1>3, <1>6, <1>7 DEF Shape
<1>9. IsKnown(p)'
  BY <1>3, <1>6 DEF Shape, Known, IsKnown
<1>10. \A q \in Pid : IsKnown(q)' <=> IsKnown(q) \/ q = p \/ c = ForkOf(q)
  BY <1>1, <1>8, <1>9 DEF Known, IsKnown
<1>11. \A q \in Pid : Exists(q)' <=> Exists(q)
  BY <1>1 DEF Exists
<1>. QED
  BY <1>2, <1>3, <1>5, <1>6, <1>8, <1>9, <1>10, <1>11 DEF u, c

\* A call is handled.
LEMMA FamiliesTaken ==
    ASSUME Types, Types', Beginning, NEW B, Families(B), NEW p \in Pid, NEW t, Consumed(p, t)
    PROVE  Families(B)'
<1>. DEFINE c == Nth(p, 1)
<1>1. /\ \A q \in Pid : IsKnown(q)' <=> IsKnown(q) \/ q = p \/ c = ForkOf(q)
      /\ \A q \in Pid : Exists(q)' <=> Exists(q)
  BY ConsumedKnown
<1>2. Taken(p) /\ Pend(p) \in Nat /\ 1 \in 1..Pend(p)
  BY PendType DEF Consumed, Taken
<1>3. Exists(p) /\ (p # Top => IsKnown(p))
  <2>1. CASE first
    BY <2>1 DEF Consumed, Beginning
  <2>2. CASE ~first
    <3>1. IsKnown(p)
      BY <2>2 DEF Consumed, Known, IsKnown
    <3>. QED
      BY <3>1 DEF Families
  <2>. QED
    BY <2>1, <2>2
<1>4. \A r \in Pid : \A k \in 1..Pend(r)' : /\ k \in Nat
                                     /\ Before(p, r, k) \in 1..Pend(r)
                                     /\ Nth(r, k)' = Nth(r, Before(p, r, k))
  BY <1>2, TakenCalls
<1>5. \A r \in Pid : \A l \in 1..Pend(r) : r # p \/ l # 1 =>
                \E k \in 1..Pend(r)' : l = Before(p, r, k)
  BY <1>2, TakenCalls
<1>6. \A r \in Pid : Pend(r)' > 0 => Pend(r) > 0
  <2>. SUFFICES ASSUME NEW r \in Pid, Pend(r)' > 0
                PROVE  Pend(r) > 0
    OBVIOUS
  <2>. QED
    BY DEF Taken, Consumed
<1>7. \A q \in Pid : (Pend(q) > 0 \/ IsKnown(q) => Exists(q))'
  <2>. SUFFICES ASSUME NEW q \in Pid, Pend(q)' > 0 \/ IsKnown(q)'
                PROVE  Exists(q)
    BY <1>1
  <2>1. c = ForkOf(q) => Exists(q)
    BY <1>2 DEF Families
  <2>. QED
    BY <1>1, <1>3, <1>6, <2>1 DEF Families
<1>8. ASSUME NEW r \in Pid, NEW k \in 1..Pend(r)'
      PROVE  ~(r = p /\ Before(p, r, k) = 1)
  BY <1>4 DEF Before
<1>9. ASSUME NEW r \in Pid, NEW q \in Pid, NEW k \in 1..Pend(r)', Nth(r, k)' = ForkOf(q)
      PROVE  Exists(q)' /\ ~IsKnown(q)' /\ q # Top /\ B[r] < B[q]
  <2>. DEFINE l == Before(p, r, k)
  <2>1. l \in 1..Pend(r) /\ Nth(r, l) = ForkOf(q) /\ ~(r = p /\ l = 1)
    BY <1>4, <1>8, <1>9
  <2>. HIDE DEF l
  <2>2. Exists(q) /\ ~IsKnown(q) /\ q # Top /\ B[r] < B[q]
    BY <2>1 DEF Families
  <2>3. c # ForkOf(q)
    BY <1>2, <2>1 DEF Families
  <2>4. q # p
    BY <1>3, <2>2
  <2>. QED
    BY <1>1, <2>2, <2>3, <2>4
<1>10. ASSUME NEW r \in Pid, NEW q \in Pid, NEW m \in Pid,
              NEW k \in 1..Pend(r)', NEW l \in 1..Pend(m)',
              Nth(r, k)' = ForkOf(q), Nth(m, l)' = ForkOf(q)
       PROVE  r = m /\ k = l
  <2>1. r = m /\ Before(p, r, k) = Before(p, m, l)
    BY <1>4, <1>10 DEF Families
  <2>2. k \in Nat /\ l \in Nat
    BY <1>4
  <2>. QED
    BY <2>1, <2>2 DEF Before
<1>11. ASSUME NEW q \in Pid, Exists(q)', ~IsKnown(q)', q # Top
       PROVE  \E r \in Pid : \E k \in 1..Pend(r)' : Nth(r, k)' = ForkOf(q)
  <2>1. Exists(q) /\ ~IsKnown(q) /\ c # ForkOf(q)
    BY <1>1, <1>11
  <2>r. PICK r \in Pid : \E l \in 1..Pend(r) : Nth(r, l) = ForkOf(q)
    BY <1>11, <2>1 DEF Families
  <2>2. PICK l \in 1..Pend(r) : Nth(r, l) = ForkOf(q)
    BY <2>r
  <2>3. r # p \/ l # 1
    BY <2>1, <2>2
  <2>4. PICK k \in 1..Pend(r)' : l = Before(p, r, k)
    BY <1>5, <2>3
  <2>. QED
    BY <1>4, <2>2, <2>4
<1>. QED
  BY <1>7, <1>9, <1>10, <1>11 DEF Families

\* The child of a fork that is handled is put before the processes at work.
LEMMA WorkTaken ==
    ASSUME Types, Types', Beginning, NEW B, B \in [Pid -> Nat], Families(B),
           NEW p \in Pid, NEW t, Consumed(p, t), ~failed'
    PROVE  WorkRight(TrackerState)'
<1>. DEFINE c == Nth(p, 1)
            u == TrackerState'
<1>1. t \in TState /\ WorkRight(t) /\ Known(t, p) /\ 1 \in 1..Pend(p)
  BY PendType DEF Consumed, Taken
<1>2. c \in AnyCall /\ Shape(t, u, p, c) /\ u.failed = failed'
  BY ConsumedKnown DEF TrackerState
<1>. HIDE DEF u
<1>3. /\ u.delayed = t.delayed
      /\ u.work = IF c.call = "fork" /\ t.delayed[c.child] # <<>> THEN <<c.child>> \o t.work ELSE t.work
  BY <1>2 DEF Shape
<1>4. \A q \in Pid : Known(u, q) <=> Known(t, q) \/ c = ForkOf(q)
  BY <1>1, <1>2 DEF Shape, Known
<1>5. t.work \in Seq(Pid) /\ Len(t.work) \in Nat /\ \A i \in 1..Len(t.work) : t.work[i] \in Pid
  BY <1>1, ElementOfSeq DEF TState
<1>6. CASE c.call = "fork" /\ t.delayed[c.child] # <<>>
  <2>. DEFINE q == c.child
              w == <<q>> \o t.work
  <2>1. q \in Pid /\ c = ForkOf(q)
    BY <1>2, <1>6, CallFields
  <2>2. ~IsKnown(q) /\ B[p] < B[q]
    BY <1>1, <2>1 DEF Families
  <2>3. q # p
    BY <2>2
  <2>4. t.pdata[q] = pdata[q]
    BY <2>1, <2>3 DEF Consumed, Types
  <2>5. ~Known(t, q)
    BY <2>2, <2>4 DEF Known, IsKnown
  <2>6. u.work = w
    BY <1>3, <1>6
  <2>. HIDE DEF q, c
  <2>7. /\ Len(w) = Len(t.work) + 1 /\ w[1] = q
        /\ \A i \in 1..Len(t.work) : w[i + 1] = t.work[i]
    BY <1>5, <2>1, ConsIs
  <2>. HIDE DEF w
  <2>8. ASSUME NEW i \in 1..Len(w)
        PROVE  \/ i = 1 /\ w[i] = q
               \/ i - 1 \in 1..Len(t.work) /\ w[i] = t.work[i - 1]
    <3>1. CASE i = 1
      BY <2>7, <3>1
    <3>2. CASE i # 1
      <4>1. i - 1 \in 1..Len(t.work) /\ (i - 1) + 1 = i
        BY <1>5, <2>7, <3>2
      <4>2. w[(i - 1) + 1] = t.work[i - 1]
        BY <2>7, <4>1
      <4>. QED
        BY <4>1, <4>2
    <3>. QED
      BY <3>1, <3>2
  <2>9. \A i \in 1..Len(t.work) : Known(t, t.work[i]) /\ t.delayed[t.work[i]] # <<>> /\ t.work[i] # q
    BY <1>1, <2>5 DEF WorkRight
  <2>10. t.delayed[q] # <<>>
    BY <1>6 DEF q
  <2>11. ASSUME NEW i \in 1..Len(w)
         PROVE  Known(u, w[i]) /\ u.delayed[w[i]] # <<>>
    <3>1. CASE i = 1 /\ w[i] = q
      BY <1>3, <1>4, <2>1, <2>10, <3>1
    <3>2. CASE i - 1 \in 1..Len(t.work) /\ w[i] = t.work[i - 1]
      BY <1>3, <1>4, <1>5, <2>9, <3>2
    <3>. QED
      BY <2>8, <3>1, <3>2
  <2>12. ASSUME NEW i \in 1..Len(w), NEW j \in 1..Len(w), w[i] = w[j]
         PROVE  i = j
    <3>1. CASE i - 1 \in 1..Len(t.work) /\ w[i] = t.work[i - 1]
      <4>1. j - 1 \in 1..Len(t.work) /\ w[j] = t.work[j - 1]
        BY <2>8, <2>9, <2>12, <3>1
      <4>2. i - 1 = j - 1
        BY <1>1, <2>12, <3>1, <4>1 DEF WorkRight
      <4>. QED
        BY <4>2
    <3>2. CASE i = 1 /\ w[i] = q
      BY <2>8, <2>9, <2>12, <3>2
    <3>. QED
      BY <2>8, <3>1, <3>2
  <2>13. ASSUME NEW r \in Pid, Known(u, r), u.delayed[r] # <<>>
         PROVE  \E i \in 1..Len(w) : w[i] = r
    <3>1. CASE r = q
      <4>1. 1 \in 1..Len(w)
        BY <1>5, <2>7
      <4>. QED
        BY <2>7, <3>1, <4>1
    <3>2. CASE r # q
      <4>1. Known(t, r)
        BY <1>4, <2>1, <2>13, <3>2, ForkInjective
      <4>2. PICK i \in 1..Len(t.work) : t.work[i] = r
        BY <1>1, <1>3, <2>13, <4>1 DEF WorkRight
      <4>3. i + 1 \in 1..Len(w)
        BY <1>5, <2>7
      <4>. QED
        BY <2>7, <4>2, <4>3
    <3>. QED
      BY <3>1, <3>2
  <2>14. WorkRight(u)
    BY <2>6, <2>11, <2>12, <2>13 DEF WorkRight
  <2>. QED
    BY <2>14 DEF u
<1>7. CASE ~(c.call = "fork" /\ t.delayed[c.child] # <<>>)
  <2>1. u.work = t.work
    BY <1>3, <1>7
  <2>2. ASSUME NEW r \in Pid, c = ForkOf(r)
        PROVE  t.delayed[r] = <<>>
    <3>1. ForkOf(r).call = "fork" /\ ForkOf(r).child = r
      BY DEF ForkOf
    <3>. QED
      BY <1>7, <2>2, <3>1
  <2>. HIDE DEF c
  <2>3. \A i \in 1..Len(t.work) : Known(u, t.work[i]) /\ t.delayed[t.work[i]] # <<>>
    BY <1>1, <1>4, <1>5 DEF WorkRight
  <2>4. \A r \in Pid : Known(u, r) /\ t.delayed[r] # <<>> => \E i \in 1..Len(t.work) : t.work[i] = r
    BY <1>1, <1>4, <2>2 DEF WorkRight
  <2>5. \A i, j \in 1..Len(t.work) : t.work[i] = t.work[j] => i = j
    BY <1>1 DEF WorkRight
  <2>6. u.delayed = t.delayed
    BY <1>3
  <2>7. WorkRight(u)
    BY <2>1, <2>3, <2>4, <2>5, <2>6 DEF WorkRight
  <2>. QED
    BY <2>7 DEF u
<1>. QED
  BY <1>6, <1>7

\* Only the program itself is there, with its execve still to be logged.
LEMMA StructInit ==
    ASSUME Seeded, Init
    PROVE  Struct
<1>1. /\ work = <<>> /\ first /\ ~failed
      /\ \A p \in Pid : /\ ~IsKnown(p) /\ delayed[p] = <<>> /\ (Exists(p) <=> p = Top)
                        /\ inflight[p] = IF p = Top THEN FirstExec ELSE NoCall
  BY TrackerAssumption DEF Init, IsKnown, Exists, StartIn, Started
<1>2. WorkRight(TrackerState)
  <2>1. Len(TrackerState.work) = 0
    BY <1>1, StateIs
  <2>. QED
    BY <1>1, <2>1, StateIs DEF WorkRight
<1>3. Beginning
  BY <1>1, TrackerAssumption DEF Beginning
<1>4. \A p \in Pid : Pend(p) = (IF p = Top THEN 1 ELSE 0) /\ Nth(p, 1) = inflight[p]
  <2>. SUFFICES ASSUME NEW p \in Pid
                PROVE  Pend(p) = (IF p = Top THEN 1 ELSE 0) /\ Nth(p, 1) = inflight[p]
    OBVIOUS
  <2>1. Len(delayed[p]) = 0
    BY <1>1
  <2>2. FirstExec # NoCall
    BY DEF FirstExec, NoCall
  <2>. QED
    BY <1>1, <2>1, <2>2 DEF Pend, Nth
<1>5. \A p, q \in Pid : \A k \in 1..Pend(p) : Nth(p, k) # ForkOf(q)
  <2>. SUFFICES ASSUME NEW p \in Pid, NEW q \in Pid, NEW k \in 1..Pend(p)
                PROVE  Nth(p, k) # ForkOf(q)
    OBVIOUS
  <2>1. p = Top /\ k = 1
    BY <1>4
  <2>2. Nth(p, k) = FirstExec
    BY <1>1, <1>4, <2>1
  <2>3. FirstExec.call = "exec" /\ ForkOf(q).call = "fork"
    BY DEF FirstExec, ForkOf
  <2>. QED
    BY <2>2, <2>3
<1>6. Families([p \in Pid |-> 0])
  BY <1>1, <1>4, <1>5 DEF Families
<1>7. [p \in Pid |-> 0] \in [Pid -> Nat]
  OBVIOUS
<1>. QED
  BY <1>1, <1>2, <1>3, <1>6, <1>7 DEF Struct

\* A process that can make a call is known to exist before it does.
LEMMA BegunAlready ==
    ASSUME Types, Beginning, NEW p \in Pid, Exists(p), inflight[p] = NoCall
    PROVE  ~first
<1>1. FirstExec # NoCall
  BY DEF FirstExec, NoCall
<1>. QED
  BY <1>1 DEF Beginning

\* After an error the tracker does nothing more.
LEMMA FailedStays ==
    ASSUME Seeded, Types, Struct, failed, [Next]_vars
    PROVE  failed' /\ work' = <<>>
<1>1. work = <<>>
  BY DEF Struct
<1>2. ~Replay
  BY <1>1 DEF Replay
<1>3. ASSUME NEW p \in Pid, Log(p)
      PROVE  failed' /\ work' = <<>>
  <2>. DEFINE s == TrackerState
              u == [s EXCEPT !.first = FALSE, !.pdata[p] = StartIn(StartDir)]
              v == IF s.first THEN u ELSE s
  <2>1. Becomes(Handle(v, p, inflight[p]))
    BY <1>3 DEF Log, HandleLine, HandleFirst
  <2>2. s \in TState /\ s.failed /\ s.work = <<>>
    BY <1>1, TrackerType, StateIs
  <2>. HIDE DEF s
  <2>3. u.failed = s.failed /\ u.work = s.work
    BY <2>2 DEF TState
  <2>. HIDE DEF u
  <2>4. v.failed /\ v.work = <<>>
    BY <2>2, <2>3
  <2>. HIDE DEF v
  <2>5. Handle(v, p, inflight[p]) = v
    BY <2>4 DEF Handle
  <2>. QED
    BY <2>1, <2>4, <2>5 DEF Becomes
<1>4. ASSUME NEW p \in Pid, Call(p) \/ Fork(p) \/ Dup(p)
      PROVE  failed' /\ work' = <<>>
  BY <1>1, <1>4 DEF Call, Fork, Dup, tracker
<1>5. ASSUME UNCHANGED vars
      PROVE  failed' /\ work' = <<>>
  BY <1>1, <1>5 DEF vars, tracker
<1>. QED
  BY <1>2, <1>3, <1>4, <1>5 DEF Next

\* Every step keeps the order of processes, forks and replays.
LEMMA StructNext ==
    ASSUME Seeded, Types, Types', Struct, [Next]_vars
    PROVE  Struct'
<1>1. CASE failed
  BY <1>1, FailedStays DEF Struct
<1>2. CASE ~failed
  <2>1. PICK B \in [Pid -> Nat] : Families(B)
    BY <1>2 DEF Struct
  <2>2. WorkRight(TrackerState) /\ Beginning
    BY <1>2 DEF Struct
  <2>3. ASSUME UNCHANGED tracker
        PROVE  /\ ~failed' /\ WorkRight(TrackerState)' /\ pdata' = pdata
               /\ \A q \in Pid : IsKnown(q)' <=> IsKnown(q)
    BY <1>2, <2>2, <2>3 DEF tracker, TrackerState, WorkRight, Known, IsKnown
  <2>4. ASSUME UNCHANGED tracker, ~first, \A q \in Pid : Exists(q) => Exists(q)'
        PROVE  Beginning'
    BY <2>2, <2>3, <2>4, TrackerAssumption DEF Beginning, tracker
  <2>5. ASSUME NEW p \in Pid, Call(p)
        PROVE  Struct'
    <3>1. PICK c \in Calls :
             /\ work = <<>> /\ Exists(p) /\ inflight[p] = NoCall /\ Possible(proc[p], c)
             /\ proc' = [proc EXCEPT ![p] = NewProc(proc[p], c)]
             /\ Made(p, c) /\ UNCHANGED tracker
      BY <2>5, CallStep
    <3>2. NewProc(proc[p], c).cwd # NoPath
      BY <3>1, NewProcType DEF Types, Exists
    <3>3. \A q \in Pid : Exists(q)' <=> Exists(q)
      BY <3>1, <3>2 DEF Types, Exists
    <3>4. \A q \in Pid : c # ForkOf(q)
      BY CallAssumption, CallNames DEF ForkOf
    <3>5. Families(B)'
      BY <2>1, <2>3, <3>1, <3>3, <3>4, FamiliesCall
    <3>6. ~first
      BY <2>2, <3>1, BegunAlready
    <3>. QED
      BY <2>3, <2>4, <3>1, <3>3, <3>5, <3>6 DEF Struct
  <2>6. ASSUME NEW p \in Pid, Fork(p)
        PROVE  Struct'
    <3>1. PICK q \in Pid :
             /\ work = <<>> /\ Exists(p) /\ inflight[p] = NoCall /\ ~Exists(q)
             /\ proc' = [proc EXCEPT ![q] = proc[p]]
             /\ Made(p, ForkOf(q)) /\ UNCHANGED <<files, blind, tracker>>
      BY <2>6, ForkStep
    <3>2. \A r \in Pid : Exists(r)' <=> Exists(r) \/ r = q
      BY <3>1 DEF Types, Exists
    <3>3. q # Top
      BY <2>2, <3>1 DEF Beginning
    <3>4. \E A \in [Pid -> Nat] : Families(A)'
      BY <2>1, <2>3, <3>1, <3>2, <3>3, FamiliesFork
    <3>5. ~first
      BY <2>2, <3>1, BegunAlready
    <3>. QED
      BY <2>3, <2>4, <3>1, <3>2, <3>4, <3>5 DEF Struct
  <2>7. ASSUME NEW p \in Pid, Dup(p)
        PROVE  Struct'
    <3>1. PICK n \in Fd, x \in Path :
             /\ Exists(p) /\ inflight[p] = NoCall
             /\ proc' = [proc EXCEPT ![p].fd[n] = x, ![p].dups = @ \cup {n}]
             /\ Kept /\ UNCHANGED <<files, inflight, blind, tracker>>
      BY <2>7, DupStep
    <3>2. \A r \in Pid : Exists(r)' <=> Exists(r)
      BY <3>1 DEF Types, Exists, KProc
    <3>3. Families(B)'
      BY <2>1, <2>3, <3>1, <3>2, FamiliesKept
    <3>4. ~first
      BY <2>2, <3>1, BegunAlready
    <3>. QED
      BY <2>1, <2>3, <2>4, <3>1, <3>2, <3>3, <3>4 DEF Struct
  <2>8. ASSUME NEW p \in Pid, NEW t, Consumed(p, t)
        PROVE  Struct'
    <3>1. /\ Shape(t, TrackerState', p, Nth(p, 1)) /\ ~first' /\ IsKnown(p)'
          /\ \A q \in Pid : IsKnown(q)' <=> IsKnown(q) \/ q = p \/ Nth(p, 1) = ForkOf(q)
          /\ \A q \in Pid : Exists(q)' <=> Exists(q)
      BY <2>8, ConsumedKnown
    <3>2. failed' => work' = <<>>
      BY <3>1 DEF Shape, TrackerState
    <3>3. Families(B)'
      BY <2>1, <2>2, <2>8, FamiliesTaken
    <3>4. ~failed' => WorkRight(TrackerState)'
      BY <2>1, <2>2, <2>8, WorkTaken
    <3>5. Beginning'
      BY <2>2, <2>8, <3>1, TrackerAssumption DEF Beginning, Consumed
    <3>. QED
      BY <2>1, <3>2, <3>3, <3>4, <3>5 DEF Struct
  <2>9. ASSUME NEW p \in Pid, PutOff(p)
        PROVE  Struct'
    <3>1. /\ ~IsKnown(p) /\ ~first /\ Kept
          /\ delayed' = [delayed EXCEPT ![p] = Append(delayed[p], inflight[p])]
          /\ UNCHANGED <<proc, files, blind, pdata, work, td, first, failed>>
      BY <2>9 DEF PutOff
    <3>2. \A r \in Pid : (Exists(r)' <=> Exists(r)) /\ (IsKnown(r)' <=> IsKnown(r))
      BY <3>1 DEF Exists, IsKnown
    <3>3. Families(B)'
      BY <2>1, <3>1, <3>2, FamiliesKept
    <3>4. Beginning'
      BY <2>2, <3>1, <3>2, TrackerAssumption DEF Beginning
    <3>5. \A r \in Pid : IsKnown(r) => delayed'[r] = delayed[r]
      BY <3>1 DEF Types
    <3>6. /\ \A i \in 1..Len(work) : IsKnown(work[i]) /\ delayed[work[i]] # <<>> /\ work[i] \in Pid
          /\ \A i, j \in 1..Len(work) : work[i] = work[j] => i = j
          /\ \A r \in Pid : IsKnown(r) /\ delayed[r] # <<>> => \E i \in 1..Len(work) : work[i] = r
      <4>1. work \in Seq(Pid)
        BY DEF Types
      <4>. QED
        BY <2>2, <4>1, StateIs, ElementOfSeq DEF WorkRight
    <3>7. WorkRight(TrackerState)'
      <4>1. /\ \A i \in 1..Len(work) : IsKnown(work[i])' /\ delayed'[work[i]] # <<>>
            /\ \A r \in Pid : IsKnown(r)' /\ delayed'[r] # <<>> => \E i \in 1..Len(work) : work[i] = r
        BY <3>1, <3>2, <3>5, <3>6 DEF IsKnown
      <4>. QED
        BY <3>1, <3>6, <4>1, SMTT(30) DEF WorkRight, TrackerState, Known, IsKnown
    <3>. QED
      BY <1>2, <2>1, <3>1, <3>3, <3>4, <3>7 DEF Struct
  <2>10. ASSUME NEW p \in Pid, Log(p)
         PROVE  Struct'
    BY <1>2, <2>8, <2>9, <2>10, LogStep
  <2>11. CASE Replay
    <3>1. PICK p \in Pid : p = Head(work)
      BY <2>11, ReplayStep
    <3>. QED
      BY <2>8, <2>11, <3>1, ReplayStep
  <2>12. CASE UNCHANGED vars
    <3>1. UNCHANGED tracker /\ Kept /\ proc' = proc /\ inflight' = inflight
      BY <2>12, SameQueue DEF vars, kernel, tracker, Kept
    <3>2. \A r \in Pid : Exists(r)' <=> Exists(r)
      BY <3>1 DEF Exists
    <3>3. Families(B)'
      BY <2>1, <2>3, <3>1, <3>2, FamiliesKept
    <3>4. Beginning'
      BY <2>2, <2>3, <3>1, <3>2, TrackerAssumption DEF Beginning, tracker
    <3>. QED
      BY <2>1, <2>3, <3>1, <3>3, <3>4 DEF Struct
  <2>. QED
    BY <2>5, <2>6, <2>7, <2>10, <2>11, <2>12 DEF Next
<1>. QED
  BY <1>1, <1>2

\* A set of natural numbers has a least element.
LEMMA Least ==
    ASSUME NEW T \in SUBSET Nat, T # {}
    PROVE  \E x \in T : \A y \in T : ~(y < x)
<1>1. PICK x \in T : \A y \in T : ~(<<y, x>> \in OpToRel(<, Nat))
  <2>. DEFINE R == OpToRel(<, Nat)
  <2>1. IsWellFoundedOn(R, Nat)
    BY NatLessThanWellFounded
  <2>. HIDE DEF R
  <2>2. \E x \in T : \A y \in T : ~(<<y, x>> \in R)
    BY <2>1, WFMin
  <2>. QED
    BY <2>2 DEF R
<1>2. \A y \in T : y < x => <<y, x>> \in OpToRel(<, Nat)
  BY DEF OpToRel
<1>. QED
  BY <1>1, <1>2

\* Of the processes that are not known the oldest one has a parent that is known,
\* so the fork that made it is handled as soon as it is in the log.
LEMMA StructLosesNothing ==
    ASSUME Types, Struct
    PROVE  NothingLost
<1>. SUFFICES ASSUME ~failed, work = <<>>, NEW p \in Pid, Quiet \/ IsKnown(p)
              PROVE  delayed[p] = <<>>
  BY DEF NothingLost
<1>1. WorkRight(TrackerState) /\ Beginning
  BY DEF Struct
<1>2. PICK B \in [Pid -> Nat] : Families(B)
  BY DEF Struct
<1>3. \A q \in Pid : IsKnown(q) => delayed[q] = <<>>
  <2>1. Len(TrackerState.work) = 0
    BY StateIs
  <2>. QED
    BY <1>1, <2>1, StateIs DEF WorkRight
<1>4. CASE ~IsKnown(p)
  <2>. SUFFICES ASSUME delayed[p] # <<>>
                PROVE  FALSE
    OBVIOUS
  <2>1. \A q \in Pid : inflight[q] = NoCall
    BY <1>4 DEF Quiet
  <2>2. ~first /\ IsKnown(Top)
    BY <1>1 DEF Beginning
  <2>3. Pend(p) > 0
    <3>1. Len(delayed[p]) \in Nat /\ Len(delayed[p]) # 0
      BY DEF Types
    <3>2. inflight[p] = NoCall
      BY <2>1
    <3>3. Pend(p) = Len(delayed[p]) + 0
      BY <3>2 DEF Pend
    <3>. QED
      BY <3>1, <3>3
  <2>. DEFINE U == {q \in Pid : Exists(q) /\ ~IsKnown(q)}
              T == {B[q] : q \in U}
  <2>4. p \in U
    BY <1>2, <1>4, <2>3 DEF Families
  <2>5. T \in SUBSET Nat /\ T # {}
    BY <2>4
  <2>6. PICK x \in T : \A y \in T : ~(y < x)
    BY <2>5, Least
  <2>7. PICK q \in U : x = B[q]
    OBVIOUS
  <2>8. q \in Pid /\ Exists(q) /\ ~IsKnown(q) /\ q # Top
    BY <2>2, <2>7
  <2>9. PICK r \in Pid : \E k \in 1..Pend(r) : Nth(r, k) = ForkOf(q)
    BY <1>2, <2>8 DEF Families
  <2>10. PICK k \in 1..Pend(r) : Nth(r, k) = ForkOf(q)
    BY <2>9
  <2>11. B[r] < B[q]
    BY <1>2, <2>8, <2>10 DEF Families
  <2>12. Pend(r) \in Nat
    BY PendType
  <2>13. Pend(r) > 0
    BY <2>10, <2>12
  <2>14. Exists(r)
    BY <1>2, <2>13 DEF Families
  <2>15. IsKnown(r)
    <3>. SUFFICES ASSUME ~IsKnown(r)
                  PROVE  FALSE
      OBVIOUS
    <3>1. B[r] \in T
      BY <2>14
    <3>. QED
      BY <2>6, <2>7, <2>11, <3>1
  <2>16. Pend(r) = 0
    <3>1. inflight[r] = NoCall /\ Len(delayed[r]) = 0
      BY <1>3, <2>1, <2>15
    <3>2. Pend(r) = Len(delayed[r]) + 0
      BY <3>1 DEF Pend
    <3>. QED
      BY <3>1, <3>2
  <2>. QED
    BY <2>13, <2>16
<1>. QED
  BY <1>3, <1>4

-----------------------------------------------------------------------------
(***************************************************************************)
(* The states in which the calls that are not handled yet were made:       *)
(* H[p][k] is the state of p at its k-th one, and the state after the last *)
(* one is the present state of p.  From a state to the next one there can  *)
(* be descriptors made by calls that are not traced.                       *)
(***************************************************************************)
Close(s, r) ==
    r.cwd = s.cwd /\ s.dups \subseteq r.dups /\ \A n \in Fd \ r.dups : r.fd[n] = s.fd[n]

History == [Pid -> [Nat -> KProc]]

NowRight(H) == \A p \in Pid : Exists(p) => \A n \in Nat : n = Pend(p) + 1 => H[p][n] = proc[p]
CallsRight(H) ==
    \A p \in Pid : \A k \in 1..Pend(p) :
      Good(H[p][k], Nth(p, k)) /\ Close(NewProc(H[p][k], Nth(p, k)), H[p][k + 1])
ForksRight(H) ==
    \A p, q \in Pid : \A k \in 1..Pend(p) : Nth(p, k) = ForkOf(q) => Close(H[p][k], H[q][1])
KnownRight(H) ==
    /\ \A p \in Pid : IsKnown(p) => Agrees(pdata[p], H[p][1])
    /\ first => Agrees(StartIn(StartDir), H[Top][1])

Followed(H) == NowRight(H) /\ CallsRight(H) /\ ForksRight(H) /\ KnownRight(H)

\* The files of these calls have been used, and the files that have been used are
\* in the lists or those of a call that is not handled yet.
Accounted(H) ==
    /\ \A p \in Pid : \A k \in 1..Pend(p) :
         /\ Outs(H[p][k], Nth(p, k)) \subseteq files.ever
         /\ Ins(H[p][k], Nth(p, k)) \subseteq files.read \cup files.ever
         /\ Gone(H[p][k], Nth(p, k)) \subseteq files.moved
    /\ td.output \subseteq files.ever /\ td.input \subseteq files.read \cup files.ever
    /\ files.written \subseteq files.ever
    /\ \A x \in files.written : InTree(x) =>
         \/ x \in td.output \cup files.moved
         \/ \E p \in Pid : \E k \in 1..Pend(p) : x \in Outs(H[p][k], Nth(p, k))
    /\ \A x \in files.read : InTree(x) =>
         \/ x \in td.input \cup td.output \cup files.moved
         \/ \E p \in Pid : \E k \in 1..Pend(p) : x \in Ins(H[p][k], Nth(p, k)) \cup Outs(H[p][k], Nth(p, k))

Right == Following => \E H \in History : Followed(H) /\ Accounted(H)

\* Untraced calls add up.
LEMMA CloseTwice ==
    ASSUME NEW s \in KProc, NEW r \in KProc, NEW v \in KProc, Close(s, r), Close(r, v)
    PROVE  Close(s, v)
BY DEF Close

\* There may be none of them.
LEMMA CloseSame ==
    ASSUME NEW s \in KProc
    PROVE  Close(s, s)
BY DEF Close

\* Untraced calls do not spoil what is known of traced ones.
LEMMA AgreesClose ==
    ASSUME NEW d, NEW s \in KProc, NEW r \in KProc, Agrees(d, s), Close(s, r)
    PROVE  Agrees(d, r)
BY DEF Close, Agrees

\* A fork, or the exec of a program, can be followed whatever the state.
LEMMA NoDescriptors ==
    ASSUME NEW s \in KProc, NEW c \in AnyCall, c = FirstExec \/ \E q \in Pid : c = ForkOf(q)
    PROVE  Good(s, c) /\ NewProc(s, c) = s
<1>1. At(c) = "AT_FDCWD" /\ At2(c) = "AT_FDCWD" /\ c.call \in {"exec", "fork"}
  BY DEF FirstExec, ForkOf, At, At2
<1>2. UsedFds(c) = {}
  BY <1>1, CallAssumption DEF UsedFds
<1>. QED
  BY <1>1, <1>2, CallNames DEF Good, Possible, Misread, NewProc

\* A process makes a call: its state becomes part of the history.
LEMMA FollowedMade ==
    ASSUME Types, NEW B, Families(B), NEW H \in History, NEW G \in History, Followed(H),
           NEW p \in Pid, NEW c, Made(p, c), Exists(p), ~first, pdata' = pdata, first' = first,
           Good(proc[p], c), NewProc(proc[p], c) = proc'[p],
           NEW n \in Nat, n = Pend(p) + 1, G[p][n + 1] = proc'[p],
           \A r \in Pid : Exists(r) => \A k \in 1..(Pend(r) + 1) : G[r][k] = H[r][k],
           \A r \in Pid : Exists(r) /\ r # p => proc'[r] = proc[r],
           \A r \in Pid : Exists(r)' <=> Exists(r) \/ c = ForkOf(r),
           \A r \in Pid : c = ForkOf(r) =>
             ~Exists(r) /\ G[r][1] = proc[p] /\ proc'[r] = proc[p]
    PROVE  Followed(G)'
<1>1. \A r \in Pid : Pend(r) \in Nat /\ (Pend(r) > 0 \/ IsKnown(r) => Exists(r))
  BY PendType DEF Families
<1>2. \A r \in Pid : Pend(r)' = IF r = p THEN Pend(r) + 1 ELSE Pend(r)
  BY DEF Made
<1>3. G[p][n] = proc[p] /\ proc[p] \in KProc /\ G[p][n + 1] \in KProc
  <2>1. H[p][n] = proc[p]
    BY DEF Followed, NowRight
  <2>2. n \in 1..(Pend(p) + 1)
    BY <1>1
  <2>. QED
    BY <2>1, <2>2 DEF Types, History
<1>4. NowRight(G)'
  <2>. SUFFICES ASSUME NEW r \in Pid, Exists(r)', NEW m \in Nat, m = Pend(r)' + 1
                PROVE  G[r][m] = proc'[r]
    BY DEF NowRight
  <2>1. CASE r = p
    <3>1. m = n + 1
      BY <1>1, <1>2, <2>1
    <3>. QED
      BY <2>1, <3>1
  <2>2. CASE r # p /\ Exists(r)
    <3>1. m = Pend(r) + 1 /\ m \in 1..(Pend(r) + 1)
      BY <1>1, <1>2, <2>2
    <3>2. H[r][m] = proc[r]
      BY <2>2, <3>1 DEF Followed, NowRight
    <3>. QED
      BY <2>2, <3>1, <3>2
  <2>3. CASE r # p /\ ~Exists(r)
    <3>1. c = ForkOf(r) /\ Pend(r) = 0
      BY <1>1, <2>3
    <3>2. m = 1
      BY <1>2, <2>3, <3>1
    <3>. QED
      BY <3>1, <3>2
  <2>. QED
    BY <2>1, <2>2, <2>3
<1>5. ASSUME NEW r \in Pid, NEW k \in 1..Pend(r)'
      PROVE  \/ /\ k \in 1..Pend(r) /\ Nth(r, k)' = Nth(r, k) /\ Exists(r)
                /\ G[r][k] = H[r][k] /\ G[r][k + 1] = H[r][k + 1]
             \/ r = p /\ k = n /\ Nth(r, k)' = c
  <2>1. CASE k \in 1..Pend(r) /\ Nth(r, k)' = Nth(r, k)
    <3>1. Exists(r)
      BY <1>1, <2>1
    <3>2. k \in 1..(Pend(r) + 1) /\ k + 1 \in 1..(Pend(r) + 1)
      BY <1>1, <2>1
    <3>. QED
      BY <2>1, <3>1, <3>2
  <2>2. CASE r = p /\ k = Pend(p) + 1 /\ Nth(r, k)' = c
    BY <2>2
  <2>. QED
    BY <2>1, <2>2, MadeCalls
<1>6. CallsRight(G)'
  <2>. SUFFICES ASSUME NEW r \in Pid, NEW k \in 1..Pend(r)'
                PROVE  Good(G[r][k], Nth(r, k)') /\ Close(NewProc(G[r][k], Nth(r, k)'), G[r][k + 1])
    BY DEF CallsRight
  <2>1. CASE /\ k \in 1..Pend(r) /\ Nth(r, k)' = Nth(r, k) /\ Exists(r)
             /\ G[r][k] = H[r][k] /\ G[r][k + 1] = H[r][k + 1]
    BY <2>1 DEF Followed, CallsRight
  <2>2. CASE r = p /\ k = n /\ Nth(r, k)' = c
    BY <1>3, <2>2, CloseSame
  <2>. QED
    BY <1>5, <2>1, <2>2
<1>7. ForksRight(G)'
  <2>. SUFFICES ASSUME NEW r \in Pid, NEW q \in Pid, NEW k \in 1..Pend(r)', Nth(r, k)' = ForkOf(q)
                PROVE  Close(G[r][k], G[q][1])
    BY DEF ForksRight
  <2>1. CASE /\ k \in 1..Pend(r) /\ Nth(r, k)' = Nth(r, k) /\ Exists(r)
             /\ G[r][k] = H[r][k] /\ G[r][k + 1] = H[r][k + 1]
    <3>1. Exists(q) /\ Close(H[r][k], H[q][1])
      BY <2>1 DEF Followed, ForksRight, Families
    <3>2. 1 \in 1..(Pend(q) + 1)
      BY <1>1
    <3>. QED
      BY <2>1, <3>1, <3>2
  <2>2. CASE r = p /\ k = n /\ Nth(r, k)' = c
    BY <1>3, <2>2, CloseSame
  <2>. QED
    BY <1>5, <2>1, <2>2
<1>8. KnownRight(G)'
  <2>. SUFFICES ASSUME NEW r \in Pid, IsKnown(r)'
                PROVE  Agrees(pdata[r], G[r][1])
    BY DEF KnownRight
  <2>1. IsKnown(r) /\ Exists(r)
    BY <1>1 DEF IsKnown
  <2>2. 1 \in 1..(Pend(r) + 1)
    BY <1>1
  <2>. QED
    BY <2>1, <2>2 DEF Followed, KnownRight
<1>. QED
  BY <1>4, <1>6, <1>7, <1>8 DEF Followed

\* The files of a call that is made are accounted for by the call.
LEMMA AccountedMade ==
    ASSUME Types, NEW H \in History, NEW G \in History, Accounted(H),
           NEW p \in Pid, NEW c, Made(p, c), Used(files, files', proc[p], c), td' = td,
           NEW n \in Nat, n = Pend(p) + 1, G[p][n] = proc[p],
           \A r \in Pid : \A k \in 1..Pend(r) : G[r][k] = H[r][k]
    PROVE  Accounted(G)'
<1>1. /\ files.ever \subseteq files'.ever /\ files.read \subseteq files'.read
      /\ files.moved \subseteq files'.moved
      /\ Outs(proc[p], c) \subseteq files'.ever
      /\ Ins(proc[p], c) \subseteq files'.read \cup files.written
      /\ Gone(proc[p], c) \subseteq files'.moved
      /\ files'.written \subseteq files.written \cup Outs(proc[p], c)
      /\ files'.read \subseteq files.read \cup Ins(proc[p], c)
  BY DEF Used
<1>2. files.written \subseteq files.ever
  BY DEF Accounted
<1>3. \A r \in Pid : \A k \in 1..Pend(r)' :
        \/ k \in 1..Pend(r) /\ Nth(r, k)' = Nth(r, k) /\ G[r][k] = H[r][k]
        \/ r = p /\ k = n /\ Nth(r, k)' = c /\ G[r][k] = proc[p]
  BY MadeCalls
<1>4. /\ \A r \in Pid : \A k \in 1..Pend(r) :
           k \in 1..Pend(r)' /\ Nth(r, k)' = Nth(r, k) /\ G[r][k] = H[r][k]
      /\ n \in 1..Pend(p)' /\ Nth(p, n)' = c
  BY MadeCalls
<1>5. ASSUME NEW r \in Pid, NEW k \in 1..Pend(r)'
      PROVE  /\ Outs(G[r][k], Nth(r, k)') \subseteq files'.ever
             /\ Ins(G[r][k], Nth(r, k)') \subseteq files'.read \cup files'.ever
             /\ Gone(G[r][k], Nth(r, k)') \subseteq files'.moved
  <2>1. CASE k \in 1..Pend(r) /\ Nth(r, k)' = Nth(r, k) /\ G[r][k] = H[r][k]
    <3>1. /\ Outs(H[r][k], Nth(r, k)) \subseteq files.ever
          /\ Ins(H[r][k], Nth(r, k)) \subseteq files.read \cup files.ever
          /\ Gone(H[r][k], Nth(r, k)) \subseteq files.moved
      BY <2>1 DEF Accounted
    <3>. QED
      BY <1>1, <2>1, <3>1
  <2>2. CASE r = p /\ k = n /\ Nth(r, k)' = c /\ G[r][k] = proc[p]
    BY <1>1, <1>2, <2>2
  <2>. QED
    BY <1>3, <2>1, <2>2
<1>6. /\ td.output \subseteq files'.ever /\ td.input \subseteq files'.read \cup files'.ever
      /\ files'.written \subseteq files'.ever
  BY <1>1, <1>2 DEF Accounted
<1>7. ASSUME NEW x \in files'.written, InTree(x)
      PROVE  \/ x \in td.output \cup files'.moved
             \/ \E r \in Pid : \E k \in 1..Pend(r)' : x \in Outs(G[r][k], Nth(r, k)')
  <2>1. CASE x \in Outs(proc[p], c)
    BY <1>4, <2>1
  <2>2. CASE x \in files.written
    <3>1. CASE x \in td.output \cup files.moved
      BY <1>1, <3>1
    <3>2. CASE \E r \in Pid : \E k \in 1..Pend(r) : x \in Outs(H[r][k], Nth(r, k))
      BY <1>4, <3>2
    <3>. QED
      BY <1>7, <2>2, <3>1, <3>2 DEF Accounted
  <2>. QED
    BY <1>1, <2>1, <2>2
<1>8. ASSUME NEW x \in files'.read, InTree(x)
      PROVE  \/ x \in td.input \cup td.output \cup files'.moved
             \/ \E r \in Pid : \E k \in 1..Pend(r)' :
                  x \in Ins(G[r][k], Nth(r, k)') \cup Outs(G[r][k], Nth(r, k)')
  <2>1. CASE x \in Ins(proc[p], c)
    BY <1>4, <2>1
  <2>2. CASE x \in files.read
    <3>1. CASE x \in td.input \cup td.output \cup files.moved
      BY <1>1, <3>1
    <3>2. CASE \E r \in Pid : \E k \in 1..Pend(r) :
                 x \in Ins(H[r][k], Nth(r, k)) \cup Outs(H[r][k], Nth(r, k))
      BY <1>4, <3>2
    <3>. QED
      BY <1>8, <2>2, <3>1, <3>2 DEF Accounted
  <2>. QED
    BY <1>1, <2>1, <2>2
<1>. QED
  BY <1>5, <1>6, <1>7, <1>8 DEF Accounted

\* The calls remain; the present state of a process may change by one that is not
\* traced.
LEMMA FollowedKept ==
    ASSUME Types, NEW B, Families(B), NEW H \in History, NEW G \in History, Followed(H), Kept,
           NEW p \in Pid, ~first, pdata' = pdata, first' = first,
           proc[p] \in KProc, proc'[p] \in KProc, Close(proc[p], proc'[p]),
           NEW n \in Nat, n = Pend(p) + 1, Exists(p) => G[p][n] = proc'[p],
           \A r \in Pid : \A k \in Nat : r # p \/ k # n => G[r][k] = H[r][k],
           \A r \in Pid : r # p => proc'[r] = proc[r],
           \A r \in Pid : Exists(r)' <=> Exists(r)
    PROVE  Followed(G)'
<1>1. \A r \in Pid : Pend(r) \in Nat /\ (Pend(r) > 0 \/ IsKnown(r) => Exists(r))
  BY PendType DEF Families
<1>2. \A r \in Pid : Pend(r)' = Pend(r) /\ \A k \in 1..Pend(r) : Nth(r, k)' = Nth(r, k)
  BY DEF Kept
<1>3. NowRight(G)'
  <2>. SUFFICES ASSUME NEW r \in Pid, Exists(r), NEW m \in Nat, m = Pend(r) + 1
                PROVE  G[r][m] = proc'[r]
    BY <1>2 DEF NowRight
  <2>1. H[r][m] = proc[r]
    BY DEF Followed, NowRight
  <2>. QED
    BY <2>1
<1>4. \A r \in Pid, k \in Nat : H[r][k] \in KProc /\ G[r][k] \in KProc
  BY DEF History
<1>5. \A r \in Pid, k \in Nat : Exists(r) => Close(H[r][k], G[r][k])
  <2>. SUFFICES ASSUME NEW r \in Pid, NEW k \in Nat, Exists(r)
                PROVE  Close(H[r][k], G[r][k])
    OBVIOUS
  <2>1. CASE r = p /\ k = n
    BY <2>1 DEF Followed, NowRight
  <2>2. CASE r # p \/ k # n
    BY <1>4, <2>2, CloseSame
  <2>. QED
    BY <2>1, <2>2
<1>6. ASSUME NEW r \in Pid, NEW k \in 1..Pend(r)
      PROVE  Exists(r) /\ k \in Nat /\ G[r][k] = H[r][k]
  <2>1. k \in Nat /\ Pend(r) > 0 /\ (r = p => k # n)
    BY <1>1
  <2>. QED
    BY <1>1, <2>1
<1>7. CallsRight(G)'
  <2>. SUFFICES ASSUME NEW r \in Pid, NEW k \in 1..Pend(r)
                PROVE  Good(G[r][k], Nth(r, k)) /\ Close(NewProc(G[r][k], Nth(r, k)), G[r][k + 1])
    BY <1>2 DEF CallsRight
  <2>1. Good(H[r][k], Nth(r, k)) /\ Close(NewProc(H[r][k], Nth(r, k)), H[r][k + 1])
    BY DEF Followed, CallsRight
  <2>2. Exists(r) /\ k + 1 \in Nat /\ G[r][k] = H[r][k]
    BY <1>6
  <2>3. Close(H[r][k + 1], G[r][k + 1])
    BY <1>5, <2>2
  <2>4. ASSUME NEW s, Close(s, H[r][k + 1])
        PROVE  Close(s, G[r][k + 1])
    BY <1>4, <2>2, <2>3, <2>4 DEF Close, KProc
  <2>. QED
    BY <2>1, <2>2, <2>4
<1>8. ForksRight(G)'
  <2>. SUFFICES ASSUME NEW r \in Pid, NEW q \in Pid, NEW k \in 1..Pend(r), Nth(r, k) = ForkOf(q)
                PROVE  Close(G[r][k], G[q][1])
    BY <1>2 DEF ForksRight
  <2>1. Exists(q) /\ Close(H[r][k], H[q][1])
    BY DEF Families, Followed, ForksRight
  <2>2. Close(H[q][1], G[q][1]) /\ G[r][k] = H[r][k] /\ k \in Nat
    BY <1>5, <1>6, <2>1
  <2>. QED
    BY <1>4, <2>1, <2>2, CloseTwice
<1>9. KnownRight(G)'
  <2>. SUFFICES ASSUME NEW r \in Pid, IsKnown(r)
                PROVE  Agrees(pdata[r], G[r][1])
    BY DEF KnownRight, IsKnown
  <2>1. Exists(r) /\ Agrees(pdata[r], H[r][1])
    BY <1>1 DEF Followed, KnownRight
  <2>. QED
    BY <1>4, <1>5, <2>1, AgreesClose
<1>. QED
  BY <1>3, <1>7, <1>8, <1>9 DEF Followed

\* Nothing changes for the files if the calls remain.
LEMMA AccountedKept ==
    ASSUME NEW H \in History, NEW G \in History, Accounted(H), Kept, files' = files, td' = td,
           \A r \in Pid : \A k \in 1..Pend(r) : G[r][k] = H[r][k]
    PROVE  Accounted(G)'
<1>1. \A r \in Pid : /\ Pend(r)' = Pend(r)
                     /\ \A k \in 1..Pend(r) : Nth(r, k)' = Nth(r, k) /\ G[r][k] = H[r][k]
  BY DEF Kept
<1>. QED
  BY <1>1 DEF Accounted

\* The handler of the first call of a process that is known does what the call has
\* done: the states of the process agreed when it was made.
LEMMA ConsumedFollows ==
    ASSUME Types, NEW H \in History, Followed(H), NEW p \in Pid, NEW t, Consumed(p, t), ~failed'
    PROVE  /\ Agrees(t.pdata[p], H[p][1])
           /\ Agrees(pdata'[p], NewProc(H[p][1], Nth(p, 1)))
           /\ Accounts(td, td', H[p][1], Nth(p, 1))
<1>. DEFINE c == Nth(p, 1)
            u == TrackerState'
<1>1. t \in TState /\ ~t.failed /\ Known(t, p) /\ t.td = td /\ 1 \in 1..Pend(p)
  BY PendType DEF Consumed, Taken
<1>2. c \in AnyCall /\ u = Handle(t, p, c)
  BY ConsumedKnown
<1>3. H[p][1] \in KProc /\ Good(H[p][1], c)
  BY <1>1 DEF History, Followed, CallsRight
<1>4. Agrees(t.pdata[p], H[p][1])
  <2>1. CASE first
    <3>1. p = Top /\ t.pdata[p] = StartIn(StartDir)
      BY <2>1 DEF Consumed, Types
    <3>. QED
      BY <2>1, <3>1 DEF Followed, KnownRight
  <2>2. CASE ~first
    <3>1. t.pdata = pdata
      BY <2>2 DEF Consumed
    <3>2. IsKnown(p)
      BY <1>1, <3>1 DEF Known, IsKnown
    <3>. QED
      BY <3>1, <3>2 DEF Followed, KnownRight
  <2>. QED
    BY <2>1, <2>2
<1>5. Follows(t, u, p, H[p][1], c)
  BY <1>1, <1>2, <1>3, <1>4, Handled
<1>6. ~u.failed /\ u.pdata = pdata' /\ u.td = td'
  BY DEF TrackerState
<1>. HIDE DEF u, c
<1>7. Agrees(pdata'[p], NewProc(H[p][1], c)) /\ Accounts(td, td', H[p][1], c)
  BY <1>1, <1>5, <1>6 DEF Follows
<1>. QED
  BY <1>4, <1>7 DEF c

\* A call is handled: the state in which it was made is no longer needed.
LEMMA FollowedTaken ==
    ASSUME Types, Types', Beginning, NEW B, Families(B), NEW H \in History, NEW G \in History,
           Followed(H), NEW p \in Pid, NEW t, Consumed(p, t), ~failed',
           \A r \in Pid : \A k \in Nat : G[r][k] = H[r][Before(p, r, k)]
    PROVE  Followed(G)'
<1>. DEFINE c == Nth(p, 1)
<1>1. Taken(p) /\ Pend(p) \in Nat /\ 1 \in 1..Pend(p) /\ (first => p = Top) /\ proc' = proc
  BY PendType DEF Consumed, Taken
<1>2. \A r \in Pid : \A k \in 1..Pend(r)' : /\ k \in Nat
                                     /\ Before(p, r, k) \in 1..Pend(r)
                                     /\ Nth(r, k)' = Nth(r, Before(p, r, k))
  BY <1>1, TakenCalls
<1>3. /\ ~first'
      /\ \A q \in Pid \ {p} :
           pdata'[q] = IF c = ForkOf(q) THEN t.pdata[p] ELSE pdata[q]
      /\ \A q \in Pid : IsKnown(q)' <=> IsKnown(q) \/ q = p \/ c = ForkOf(q)
      /\ \A q \in Pid : Exists(q)' <=> Exists(q)
  BY ConsumedKnown
<1>4. /\ Agrees(t.pdata[p], H[p][1])
      /\ Agrees(pdata'[p], NewProc(H[p][1], c))
  BY ConsumedFollows
<1>5. \A r \in Pid : Pend(r) \in Nat
  BY PendType
<1>6. \A r \in Pid, k \in Nat : H[r][k] \in KProc /\ G[r][k] \in KProc
  BY DEF History
<1>7. NowRight(G)'
  <2>. SUFFICES ASSUME NEW r \in Pid, Exists(r), NEW m \in Nat, m = Pend(r)' + 1
                PROVE  G[r][m] = proc[r]
    BY <1>1, <1>3 DEF NowRight
  <2>1. Pend(r)' = IF r = p THEN Pend(r) - 1 ELSE Pend(r)
    BY <1>1 DEF Taken
  <2>2. Before(p, r, m) = Pend(r) + 1 /\ Before(p, r, m) \in Nat
    BY <1>5, <2>1 DEF Before
  <2>3. H[r][Before(p, r, m)] = proc[r]
    BY <2>2 DEF Followed, NowRight
  <2>. QED
    BY <2>3
<1>8. CallsRight(G)'
  <2>. SUFFICES ASSUME NEW r \in Pid, NEW k \in 1..Pend(r)'
                PROVE  Good(G[r][k], Nth(r, k)') /\ Close(NewProc(G[r][k], Nth(r, k)'), G[r][k + 1])
    BY DEF CallsRight
  <2>. DEFINE l == Before(p, r, k)
  <2>1. k \in Nat /\ l \in 1..Pend(r) /\ Nth(r, k)' = Nth(r, l)
    BY <1>2
  <2>2. Before(p, r, k + 1) = l + 1 /\ k + 1 \in Nat
    BY <2>1 DEF Before
  <2>3. G[r][k] = H[r][l] /\ G[r][k + 1] = H[r][l + 1]
    BY <2>1, <2>2
  <2>. HIDE DEF l
  <2>4. Good(H[r][l], Nth(r, l)) /\ Close(NewProc(H[r][l], Nth(r, l)), H[r][l + 1])
    BY <2>1 DEF Followed, CallsRight
  <2>. QED
    BY <2>1, <2>3, <2>4
<1>9. ASSUME NEW q \in Pid, q # p
      PROVE  G[q][1] = H[q][1]
  BY <1>9 DEF Before
<1>10. ForksRight(G)'
  <2>. SUFFICES ASSUME NEW r \in Pid, NEW q \in Pid, NEW k \in 1..Pend(r)', Nth(r, k)' = ForkOf(q)
                PROVE  Close(G[r][k], G[q][1])
    BY DEF ForksRight
  <2>. DEFINE l == Before(p, r, k)
  <2>1. k \in Nat /\ l \in 1..Pend(r) /\ Nth(r, l) = ForkOf(q) /\ G[r][k] = H[r][l]
    BY <1>2
  <2>. HIDE DEF l
  <2>2. ~IsKnown(q) /\ q # Top /\ Close(H[r][l], H[q][1])
    BY <2>1 DEF Families, Followed, ForksRight
  <2>3. q # p
    BY <2>2 DEF Consumed, Known, IsKnown
  <2>. QED
    BY <1>9, <2>1, <2>2, <2>3
<1>11. KnownRight(G)'
  <2>. SUFFICES ASSUME NEW q \in Pid, IsKnown(q)'
                PROVE  Agrees(pdata'[q], G[q][1])
    BY <1>3 DEF KnownRight
  <2>1. CASE q = p
    <3>1. G[p][1] = H[p][2]
      BY DEF Before
    <3>2. Close(NewProc(H[p][1], c), H[p][2])
      <4>1. Close(NewProc(H[p][1], c), H[p][1 + 1])
        BY <1>1 DEF Followed, CallsRight
      <4>. QED
        BY <4>1
    <3>3. H[p][2] \in KProc
      BY <1>6
    <3>4. ASSUME NEW d, NEW s, Agrees(d, s), Close(s, H[p][2])
          PROVE  Agrees(d, H[p][2])
      BY <3>3, <3>4 DEF Agrees, Close, KProc
    <3>. QED
      BY <1>4, <2>1, <3>1, <3>2, <3>4
  <2>2. CASE q # p /\ c = ForkOf(q)
    <3>1. pdata'[q] = t.pdata[p] /\ G[q][1] = H[q][1]
      BY <1>3, <1>9, <2>2
    <3>2. Close(H[p][1], H[q][1])
      BY <1>1, <2>2 DEF Followed, ForksRight
    <3>. QED
      BY <1>4, <1>6, <3>1, <3>2, AgreesClose
  <2>3. CASE q # p /\ c # ForkOf(q)
    <3>1. pdata'[q] = pdata[q] /\ G[q][1] = H[q][1] /\ IsKnown(q)
      BY <1>3, <1>9, <2>3
    <3>. QED
      BY <3>1 DEF Followed, KnownRight
  <2>. QED
    BY <2>1, <2>2, <2>3
<1>. QED
  BY <1>7, <1>8, <1>10, <1>11 DEF Followed

\* The files of a call that is handled are in the lists.
LEMMA AccountedTaken ==
    ASSUME Types, Types', NEW H \in History, NEW G \in History,
           Followed(H), Accounted(H), NEW p \in Pid, NEW t, Consumed(p, t), ~failed',
           \A r \in Pid : \A k \in Nat : G[r][k] = H[r][Before(p, r, k)]
    PROVE  Accounted(G)'
<1>. DEFINE c == Nth(p, 1)
            s == H[p][1]
<1>1. Taken(p) /\ Pend(p) \in Nat /\ 1 \in 1..Pend(p) /\ files' = files
  BY PendType DEF Consumed, Taken
<1>2. \A r \in Pid : \A k \in 1..Pend(r)' :
        /\ Before(p, r, k) \in 1..Pend(r) /\ Nth(r, k)' = Nth(r, Before(p, r, k))
        /\ G[r][k] = H[r][Before(p, r, k)]
  BY <1>1, TakenCalls
<1>3. \A r \in Pid : \A l \in 1..Pend(r) : r # p \/ l # 1 =>
        \E k \in 1..Pend(r)' : l = Before(p, r, k)
  BY <1>1, TakenCalls
<1>4. Accounts(td, td', s, c)
  BY ConsumedFollows
<1>5. /\ Outs(s, c) \subseteq files.ever /\ Ins(s, c) \subseteq files.read \cup files.ever
      /\ Gone(s, c) \subseteq files.moved
  BY <1>1 DEF Accounted
<1>6. /\ \A r \in Pid : \A k \in 1..Pend(r)' :
           /\ Outs(G[r][k], Nth(r, k)') \subseteq files.ever
           /\ Ins(G[r][k], Nth(r, k)') \subseteq files.read \cup files.ever
           /\ Gone(G[r][k], Nth(r, k)') \subseteq files.moved
  <2>. SUFFICES ASSUME NEW r \in Pid, NEW k \in 1..Pend(r)'
                PROVE  /\ Outs(G[r][k], Nth(r, k)') \subseteq files.ever
                       /\ Ins(G[r][k], Nth(r, k)') \subseteq files.read \cup files.ever
                       /\ Gone(G[r][k], Nth(r, k)') \subseteq files.moved
    OBVIOUS
  <2>. DEFINE l == Before(p, r, k)
  <2>1. l \in 1..Pend(r) /\ Nth(r, k)' = Nth(r, l) /\ G[r][k] = H[r][l]
    BY <1>2
  <2>. HIDE DEF l
  <2>2. /\ Outs(H[r][l], Nth(r, l)) \subseteq files.ever
        /\ Ins(H[r][l], Nth(r, l)) \subseteq files.read \cup files.ever
        /\ Gone(H[r][l], Nth(r, l)) \subseteq files.moved
    BY <2>1 DEF Accounted
  <2>. QED
    BY <2>1, <2>2
<1>. HIDE DEF s, c
<1>7. /\ td'.output \subseteq files.ever /\ td'.input \subseteq files.read \cup files.ever
      /\ files.written \subseteq files.ever
  BY <1>4, <1>5 DEF Accounted, Accounts
<1>8. /\ td.input \subseteq td'.input /\ td.output \subseteq td'.output \cup Gone(s, c)
      /\ \A x \in Outs(s, c) : InTree(x) => x \in td'.output
      /\ \A x \in Ins(s, c) : InTree(x) => x \in td'.input \cup td'.output \cup Gone(s, c)
  BY <1>4 DEF Accounts
<1>9. ASSUME NEW r \in Pid, NEW l \in 1..Pend(r), r # p \/ l # 1
      PROVE  \E k \in 1..Pend(r)' : Nth(r, k)' = Nth(r, l) /\ G[r][k] = H[r][l]
  <2>1. PICK k \in 1..Pend(r)' : l = Before(p, r, k)
    BY <1>3, <1>9
  <2>. QED
    BY <1>2, <2>1
<1>10. ASSUME NEW x \in files.written, InTree(x)
       PROVE  \/ x \in td'.output \cup files.moved
              \/ \E r \in Pid : \E k \in 1..Pend(r)' : x \in Outs(G[r][k], Nth(r, k)')
  <2>1. CASE x \in td.output \cup files.moved
    BY <1>5, <1>8, <2>1
  <2>2. ASSUME NEW r \in Pid, NEW l \in 1..Pend(r), x \in Outs(H[r][l], Nth(r, l))
        PROVE  \/ x \in td'.output \cup files.moved
               \/ \E m \in Pid : \E k \in 1..Pend(m)' : x \in Outs(G[m][k], Nth(m, k)')
    <3>1. CASE r = p /\ l = 1
      <4>1. x \in Outs(s, c)
        BY <2>2, <3>1 DEF s, c
      <4>. QED
        BY <1>8, <1>10, <4>1
    <3>2. CASE r # p \/ l # 1
      BY <1>9, <2>2, <3>2
    <3>. QED
      BY <3>1, <3>2
  <2>. QED
    BY <1>10, <2>1, <2>2 DEF Accounted
<1>11. ASSUME NEW x \in files.read, InTree(x)
       PROVE  \/ x \in td'.input \cup td'.output \cup files.moved
              \/ \E r \in Pid : \E k \in 1..Pend(r)' :
                   x \in Ins(G[r][k], Nth(r, k)') \cup Outs(G[r][k], Nth(r, k)')
  <2>1. CASE x \in td.input \cup td.output \cup files.moved
    BY <1>5, <1>8, <2>1
  <2>2. ASSUME NEW r \in Pid, NEW l \in 1..Pend(r),
               x \in Ins(H[r][l], Nth(r, l)) \cup Outs(H[r][l], Nth(r, l))
        PROVE  \/ x \in td'.input \cup td'.output \cup files.moved
               \/ \E m \in Pid : \E k \in 1..Pend(m)' :
                    x \in Ins(G[m][k], Nth(m, k)') \cup Outs(G[m][k], Nth(m, k)')
    <3>1. CASE r = p /\ l = 1
      <4>1. x \in Ins(s, c) \cup Outs(s, c)
        BY <2>2, <3>1 DEF s, c
      <4>. QED
        BY <1>5, <1>8, <1>11, <4>1
    <3>2. CASE r # p \/ l # 1
      BY <1>9, <2>2, <3>2
    <3>. QED
      BY <3>1, <3>2
  <2>. QED
    BY <1>11, <2>1, <2>2 DEF Accounted
<1>. QED
  BY <1>1, <1>6, <1>7, <1>10, <1>11 DEF Accounted

\* At the beginning the program is where it was started.
LEMMA RightInit ==
    ASSUME Seeded, Init
    PROVE  Right
<1>. DEFINE s == Started(StartDir)
            H == [p \in Pid |-> [k \in Nat |-> s]]
<1>1. s \in KProc /\ s.cwd = StartDir /\ s.dups = {} /\ s.fd = [n \in Fd |-> NoPath]
  BY TrackerAssumption, NoPathType DEF Started, KProc
<1>2. H \in History /\ \A p \in Pid, k \in Nat : H[p][k] = s
  BY <1>1 DEF History
<1>3. /\ proc[Top] = s /\ first
      /\ \A p \in Pid : /\ ~IsKnown(p) /\ delayed[p] = <<>> /\ (Exists(p) <=> p = Top)
                        /\ inflight[p] = IF p = Top THEN FirstExec ELSE NoCall
  BY TrackerAssumption DEF Init, IsKnown, Exists, StartIn, Started
<1>4. \A p \in Pid : Pend(p) = (IF p = Top THEN 1 ELSE 0) /\ Nth(p, 1) = inflight[p]
  <2>. SUFFICES ASSUME NEW p \in Pid
                PROVE  Pend(p) = (IF p = Top THEN 1 ELSE 0) /\ Nth(p, 1) = inflight[p]
    OBVIOUS
  <2>1. Len(delayed[p]) = 0
    BY <1>3
  <2>2. FirstExec # NoCall
    BY DEF FirstExec, NoCall
  <2>. QED
    BY <1>3, <2>1, <2>2 DEF Pend, Nth
<1>5. \A p \in Pid : \A k \in 1..Pend(p) : p = Top /\ k = 1 /\ Nth(p, k) = FirstExec
  <2>. SUFFICES ASSUME NEW p \in Pid, NEW k \in 1..Pend(p)
                PROVE  p = Top /\ k = 1 /\ Nth(p, k) = FirstExec
    OBVIOUS
  <2>1. p = Top /\ k = 1
    BY <1>4
  <2>. QED
    BY <1>3, <1>4, <2>1
<1>. HIDE DEF H, s
<1>6. FirstExec \in AnyCall /\ FirstExec.call = "exec" /\ FirstExec.name = Program
  BY DEF AnyCall, FirstExec
<1>7. Good(s, FirstExec) /\ NewProc(s, FirstExec) = s
  BY <1>1, <1>6, NoDescriptors
<1>8. NowRight(H)
  BY <1>2, <1>3 DEF NowRight
<1>9. CallsRight(H)
  BY <1>1, <1>2, <1>5, <1>7, CloseSame DEF CallsRight
<1>10. ForksRight(H)
  <2>1. \A q \in Pid : FirstExec # ForkOf(q)
    BY <1>6, CallNames DEF ForkOf
  <2>. QED
    BY <1>5, <2>1 DEF ForksRight
<1>11. KnownRight(H)
  <2>1. Agrees(StartIn(StartDir), s)
    BY <1>1 DEF Agrees, StartIn
  <2>. QED
    BY <1>2, <1>3, <2>1, TrackerAssumption DEF KnownRight
<1>12. /\ Ins(s, FirstExec) = {Where(StartDir, Program)}
       /\ Outs(s, FirstExec) = {} /\ Gone(s, FirstExec) = {}
  BY <1>1, <1>6, CallNames DEF Ins, Outs, Gone
<1>13. /\ files.read = {Where(StartDir, Program)} /\ files.written = {} /\ files.ever = {}
       /\ td.input = {} /\ td.output = {}
  BY DEF Init
<1>14. Accounted(H)
  <2>1. \A p \in Pid : \A k \in 1..Pend(p) : H[p][k] = s /\ Nth(p, k) = FirstExec
    BY <1>2, <1>5
  <2>2. 1 \in 1..Pend(Top) /\ Top \in Pid
    BY <1>4, TrackerAssumption
  <2>. QED
    BY <1>12, <1>13, <2>1, <2>2 DEF Accounted
<1>. QED
  BY <1>2, <1>8, <1>9, <1>10, <1>11, <1>14 DEF Right, Followed

\* Every step keeps the tracker right.
LEMMA RightNext ==
    ASSUME Seeded, Types, Types', Struct, Right, [Next]_vars
    PROVE  Right'
<1>. SUFFICES ASSUME ~failed', ~blind'
              PROVE  \E G \in History : Followed(G)' /\ Accounted(G)'
  BY DEF Right, Following
<1>1. ~failed
  BY FailedStays
<1>2. ~blind
  <2>1. ASSUME NEW p \in Pid, Call(p) \/ Fork(p) \/ Dup(p) \/ Log(p)
        PROVE  ~blind
    BY <2>1 DEF Call, Fork, Dup, Log, Types
  <2>2. ASSUME Replay \/ UNCHANGED vars
        PROVE  ~blind
    BY <2>2 DEF Replay, vars, kernel
  <2>. QED
    BY <2>1, <2>2 DEF Next
<1>3. PICK H \in History : Followed(H) /\ Accounted(H)
  BY <1>1, <1>2 DEF Right, Following
<1>4. PICK B \in [Pid -> Nat] : Families(B)
  BY <1>1 DEF Struct
<1>5. Beginning
  BY <1>1 DEF Struct
<1>6. \A r \in Pid : Pend(r) \in Nat
  BY PendType
<1>7. \A r \in Pid : Exists(r) => \A n \in Nat : n = Pend(r) + 1 => H[r][n] = proc[r]
  BY <1>3 DEF Followed, NowRight
<1>8. ASSUME NEW p \in Pid, Call(p)
      PROVE  \E G \in History : Followed(G)' /\ Accounted(G)'
  <2>1. PICK c \in Calls :
             /\ work = <<>> /\ Exists(p) /\ inflight[p] = NoCall /\ Possible(proc[p], c)
             /\ proc' = [proc EXCEPT ![p] = NewProc(proc[p], c)]
             /\ files' = NewFiles(files, proc[p], c)
             /\ inflight' = [inflight EXCEPT ![p] = c]
             /\ blind' = (blind \/ Misread(proc[p], c))
             /\ Made(p, c) /\ UNCHANGED tracker
    BY <1>8, CallStep
  <2>2. PICK n \in Nat : n = Pend(p) + 1
    BY <1>6
  <2>3. PICK s \in KProc : s = proc'[p]
    BY DEF Types
  <2>. DEFINE G == [H EXCEPT ![p] = [H[p] EXCEPT ![n + 1] = s]]
  <2>4. /\ G \in History /\ G[p][n + 1] = s
        /\ \A r \in Pid, k \in Nat : r # p \/ k # n + 1 => G[r][k] = H[r][k]
    BY <2>2, <2>3 DEF History
  <2>. HIDE DEF G
  <2>5. \A r \in Pid : \A k \in 1..(Pend(r) + 1) : k \in Nat /\ (r = p => k # n + 1)
    BY <1>6, <2>2
  <2>6. \A r \in Pid : \A k \in 1..(Pend(r) + 1) : G[r][k] = H[r][k]
    BY <2>4, <2>5
  <2>7. \A r \in Pid : \A k \in 1..Pend(r) : G[r][k] = H[r][k]
    BY <1>6, <2>6
  <2>8. Good(proc[p], c)
    BY <1>2, <2>1 DEF Good
  <2>9. proc'[p] = NewProc(proc[p], c) /\ \A r \in Pid : r # p => proc'[r] = proc[r]
    BY <2>1 DEF Types
  <2>10. \A q \in Pid : c # ForkOf(q)
    BY CallAssumption, CallNames DEF ForkOf
  <2>11. \A r \in Pid : Exists(r)' <=> Exists(r)
    <3>1. NewProc(proc[p], c).cwd # NoPath
      BY <2>1, NewProcType DEF Types, Exists
    <3>. QED
      BY <2>1, <2>9, <3>1 DEF Exists
  <2>12. ~first /\ pdata' = pdata /\ first' = first /\ td' = td
    BY <1>5, <2>1, BegunAlready DEF tracker
  <2>13. Followed(G)'
    BY <1>3, <1>4, <2>1, <2>2, <2>3, <2>4, <2>6, <2>8, <2>9, <2>10, <2>11, <2>12, FollowedMade
  <2>14. G[p][n] = proc[p]
    <3>1. n \in 1..(Pend(p) + 1)
      BY <1>6, <2>2
    <3>. QED
      BY <1>7, <2>1, <2>2, <2>6, <3>1
  <2>15. Used(files, files', proc[p], c)
    BY <2>1, NewFilesUsed DEF Types
  <2>16. Accounted(G)'
    BY <1>3, <2>1, <2>2, <2>4, <2>7, <2>12, <2>14, <2>15, AccountedMade
  <2>. QED
    BY <2>4, <2>13, <2>16
<1>9. ASSUME NEW p \in Pid, Fork(p)
      PROVE  \E G \in History : Followed(G)' /\ Accounted(G)'
  <2>1. PICK q \in Pid :
             /\ work = <<>> /\ Exists(p) /\ inflight[p] = NoCall /\ ~Exists(q)
             /\ proc' = [proc EXCEPT ![q] = proc[p]]
             /\ Made(p, ForkOf(q)) /\ UNCHANGED <<files, blind, tracker>>
    BY <1>9, ForkStep
  <2>2. PICK n \in Nat : n = Pend(p) + 1
    BY <1>6
  <2>3. PICK s \in KProc : s = proc[p]
    BY DEF Types
  <2>q. q # p
    BY <2>1
  <2>. DEFINE F == [H EXCEPT ![p] = [H[p] EXCEPT ![n + 1] = s]]
              G == [F EXCEPT ![q] = [H[q] EXCEPT ![1] = s]]
  <2>f. /\ F \in History /\ F[p][n + 1] = s /\ F[q] = H[q]
        /\ \A r \in Pid, k \in Nat : r # p \/ k # n + 1 => F[r][k] = H[r][k]
    BY <2>2, <2>3, <2>q DEF History
  <2>. HIDE DEF F
  <2>4. /\ G \in History /\ G[p][n + 1] = s /\ G[q][1] = s
        /\ \A r \in Pid, k \in Nat : r # q /\ (r # p \/ k # n + 1) => G[r][k] = H[r][k]
    BY <2>2, <2>3, <2>q, <2>f DEF History
  <2>. HIDE DEF G
  <2>5. \A r \in Pid : \A k \in 1..(Pend(r) + 1) : k \in Nat /\ (r = p => k # n + 1)
    BY <1>6, <2>2
  <2>6. \A r \in Pid : Exists(r) => \A k \in 1..(Pend(r) + 1) : G[r][k] = H[r][k]
    BY <2>1, <2>4, <2>5
  <2>7. \A r \in Pid : \A k \in 1..Pend(r) : G[r][k] = H[r][k]
    <3>. SUFFICES ASSUME NEW r \in Pid, NEW k \in 1..Pend(r)
                  PROVE  G[r][k] = H[r][k]
      OBVIOUS
    <3>1. Pend(r) > 0 /\ k \in 1..(Pend(r) + 1)
      BY <1>6
    <3>2. Exists(r)
      BY <1>4, <3>1 DEF Families
    <3>. QED
      BY <2>6, <3>1, <3>2
  <2>c. ForkOf(q) \in AnyCall /\ ForkOf(q).call = "fork"
    BY DEF AnyCall, ForkOf
  <2>8. Good(proc[p], ForkOf(q)) /\ NewProc(proc[p], ForkOf(q)) = proc[p]
    BY <2>c, NoDescriptors DEF Types
  <2>9. proc'[p] = proc[p] /\ proc'[q] = proc[p] /\ \A r \in Pid : r # q => proc'[r] = proc[r]
    BY <2>1, <2>q DEF Types
  <2>10. \A r \in Pid : ForkOf(q) = ForkOf(r) <=> r = q
    BY ForkInjective
  <2>11. \A r \in Pid : Exists(r)' <=> Exists(r) \/ ForkOf(q) = ForkOf(r)
    BY <2>1, <2>9, <2>10 DEF Exists
  <2>12. ~first /\ pdata' = pdata /\ first' = first /\ td' = td /\ files' = files
    BY <1>5, <2>1, BegunAlready DEF tracker
  <2>13. /\ \A r \in Pid : Exists(r) /\ r # p => proc'[r] = proc[r]
         /\ \A r \in Pid : ForkOf(q) = ForkOf(r) =>
              ~Exists(r) /\ G[r][1] = proc[p] /\ proc'[r] = proc[p]
         /\ NewProc(proc[p], ForkOf(q)) = proc'[p] /\ G[p][n + 1] = proc'[p]
    BY <2>1, <2>3, <2>4, <2>8, <2>9, <2>10
  <2>14. Followed(G)'
    BY <1>3, <1>4, <2>1, <2>2, <2>4, <2>6, <2>8, <2>11, <2>12, <2>13, FollowedMade
  <2>15. G[p][n] = proc[p]
    <3>1. n \in 1..(Pend(p) + 1)
      BY <1>6, <2>2
    <3>. QED
      BY <1>7, <2>1, <2>2, <2>6, <3>1
  <2>16. Used(files, files', proc[p], ForkOf(q))
    <3>1. /\ Outs(proc[p], ForkOf(q)) = {} /\ Ins(proc[p], ForkOf(q)) = {}
          /\ Gone(proc[p], ForkOf(q)) = {}
      BY <2>c, CallNames DEF Outs, Ins, Gone
    <3>. QED
      BY <2>12, <3>1 DEF Used, Types
  <2>17. Accounted(G)'
    BY <1>3, <2>1, <2>2, <2>4, <2>7, <2>12, <2>15, <2>16, AccountedMade
  <2>. QED
    BY <2>4, <2>14, <2>17
<1>10. ASSUME NEW p \in Pid, Dup(p)
       PROVE  \E G \in History : Followed(G)' /\ Accounted(G)'
  <2>1. PICK m \in Fd, x \in Path :
             /\ Exists(p) /\ inflight[p] = NoCall
             /\ proc' = [proc EXCEPT ![p].fd[m] = x, ![p].dups = @ \cup {m}]
             /\ Kept /\ UNCHANGED <<files, inflight, blind, tracker>>
    BY <1>10, DupStep
  <2>2. PICK n \in Nat : n = Pend(p) + 1
    BY <1>6
  <2>3. PICK s \in KProc : s = proc'[p]
    BY DEF Types
  <2>. DEFINE G == [H EXCEPT ![p] = [H[p] EXCEPT ![n] = s]]
  <2>4. /\ G \in History /\ G[p][n] = s
        /\ \A r \in Pid : \A k \in Nat : r # p \/ k # n => G[r][k] = H[r][k]
    BY <2>2, <2>3 DEF History
  <2>. HIDE DEF G
  <2>5. proc[p] \in KProc /\ proc'[p] \in KProc
    BY DEF Types
  <2>6. /\ proc'[p].cwd = proc[p].cwd /\ proc'[p].dups = proc[p].dups \cup {m}
        /\ \A k \in Fd : k # m => proc'[p].fd[k] = proc[p].fd[k]
        /\ \A r \in Pid : r # p => proc'[r] = proc[r]
    BY <2>1 DEF Types, KProc
  <2>7. Close(proc[p], proc'[p]) /\ \A r \in Pid : Exists(r)' <=> Exists(r)
    BY <2>5, <2>6 DEF Close, Exists
  <2>8. ~first /\ pdata' = pdata /\ first' = first /\ td' = td /\ files' = files
    BY <1>5, <2>1, BegunAlready DEF tracker
  <2>k. Kept /\ (Exists(p) => G[p][n] = proc'[p]) /\ \A r \in Pid : r # p => proc'[r] = proc[r]
    BY <2>1, <2>3, <2>4, <2>6
  <2>9. Followed(G)'
    BY <1>3, <1>4, <2>2, <2>4, <2>5, <2>7, <2>8, <2>k, FollowedKept
  <2>10. \A r \in Pid : \A k \in 1..Pend(r) : k \in Nat /\ (r = p => k # n)
    BY <1>6, <2>2
  <2>11. Accounted(G)'
    BY <1>3, <2>1, <2>4, <2>8, <2>10, AccountedKept
  <2>. QED
    BY <2>4, <2>9, <2>11
<1>11. ASSUME NEW p \in Pid, NEW t, Consumed(p, t)
       PROVE  \E G \in History : Followed(G)' /\ Accounted(G)'
  <2>. DEFINE G == [r \in Pid |-> [k \in Nat |-> H[r][Before(p, r, k)]]]
  <2>1. \A r \in Pid : \A k \in Nat : Before(p, r, k) \in Nat
    BY DEF Before
  <2>2. G \in History /\ \A r \in Pid : \A k \in Nat : G[r][k] = H[r][Before(p, r, k)]
    BY <2>1 DEF History
  <2>. HIDE DEF G
  <2>3. Followed(G)'
    BY <1>3, <1>4, <1>5, <1>11, <2>2, FollowedTaken
  <2>4. Accounted(G)'
    BY <1>3, <1>11, <2>2, AccountedTaken
  <2>. QED
    BY <2>2, <2>3, <2>4
<1>12. ASSUME NEW p \in Pid, PutOff(p)
       PROVE  \E G \in History : Followed(G)' /\ Accounted(G)'
  <2>1. /\ ~first /\ Kept /\ pdata' = pdata /\ first' = first /\ td' = td /\ files' = files
        /\ proc' = proc
    BY <1>12 DEF PutOff
  <2>2. PICK n \in Nat : n = Pend(p) + 1
    BY <1>6
  <2>3. proc[p] \in KProc /\ proc'[p] \in KProc /\ Close(proc[p], proc'[p])
    BY <2>1, CloseSame DEF Types
  <2>4. Exists(p) => H[p][n] = proc'[p]
    BY <1>7, <2>1, <2>2
  <2>5. \A r \in Pid : Exists(r)' <=> Exists(r)
    BY <2>1 DEF Exists
  <2>6. Followed(H)'
    BY <1>3, <1>4, <2>1, <2>2, <2>3, <2>4, <2>5, FollowedKept
  <2>7. Accounted(H)'
    BY <1>3, <2>1, AccountedKept
  <2>. QED
    BY <2>6, <2>7
<1>13. ASSUME NEW p \in Pid, Log(p)
       PROVE  \E G \in History : Followed(G)' /\ Accounted(G)'
  BY <1>1, <1>11, <1>12, <1>13, LogStep
<1>14. ASSUME Replay
       PROVE  \E G \in History : Followed(G)' /\ Accounted(G)'
  <2>1. PICK p \in Pid : p = Head(work)
    BY <1>14, ReplayStep
  <2>. QED
    BY <1>11, <1>14, <2>1, ReplayStep
<1>15. ASSUME UNCHANGED vars
       PROVE  \E G \in History : Followed(G)' /\ Accounted(G)'
  <2>1. /\ proc' = proc /\ pdata' = pdata /\ first' = first /\ td' = td /\ files' = files
        /\ delayed' = delayed /\ inflight' = inflight
    BY <1>15 DEF vars, kernel, tracker
  <2>2. Kept
    BY <2>1, SameQueue DEF Kept
  <2>3. Accounted(H)'
    BY <1>3, <2>1, <2>2, AccountedKept
  <2>4. Followed(H)'
    BY <1>3, <2>1 DEF Followed, NowRight, CallsRight, ForksRight, KnownRight, Exists, IsKnown,
                      Pend, Nth
  <2>. QED
    BY <2>3, <2>4
<1>. QED
  BY <1>8, <1>9, <1>10, <1>13, <1>14, <1>15 DEF Next

-----------------------------------------------------------------------------
(***************************************************************************)
(* The theorems.  strace logs the execve of the program first (Seeded).    *)
(***************************************************************************)
IInv == Types /\ Struct /\ Right

\* The invariant of the tracker always holds.
LEMMA AlwaysRight == Seeded /\ Spec => []IInv
<1>. SUFFICES ASSUME Seeded
              PROVE  Spec => []IInv
  OBVIOUS
<1>1. Init => IInv
  BY TypesInit, StructInit, RightInit DEF IInv
<1>2. IInv /\ [Next]_vars => IInv'
  BY TypesNext, StructNext, RightNext DEF IInv
<1>. QED
  BY <1>1, <1>2, PTL DEF Spec

\* Whatever the order of the lines, what the tracker knows of a process whose calls
\* have all been logged is where the process is and what its descriptors are.
THEOREM TrackerKeepsInTouch == Seeded /\ Spec => []InTouch
<1>1. ASSUME IInv
      PROVE  InTouch
  <2>. SUFFICES ASSUME NEW p \in Pid, Following, IsKnown(p), work = <<>>, inflight[p] = NoCall
                PROVE  /\ pdata[p].cwd = proc[p].cwd
                       /\ \A n \in Fd \ proc[p].dups : pdata[p].fd[n] = proc[p].fd[n]
    BY DEF InTouch
  <2>1. Types /\ Struct /\ Right /\ ~failed
    BY <1>1 DEF IInv, Following
  <2>2. PICK H \in History : Followed(H)
    BY <2>1 DEF Right
  <2>3. delayed[p] = <<>>
    BY <2>1, StructLosesNothing DEF NothingLost
  <2>4. Pend(p) = 0
    <3>1. Len(delayed[p]) = 0
      BY <2>3
    <3>2. Pend(p) = Len(delayed[p]) + 0
      BY DEF Pend
    <3>. QED
      BY <3>1, <3>2
  <2>5. PICK B \in [Pid -> Nat] : Families(B)
    BY <2>1 DEF Struct
  <2>6. Exists(p)
    BY <2>5 DEF Families
  <2>7. H[p][1] = proc[p]
    BY <2>2, <2>4, <2>6 DEF Followed, NowRight
  <2>8. Agrees(pdata[p], proc[p])
    BY <2>2, <2>7 DEF Followed, KnownRight
  <2>. QED
    BY <2>8 DEF Agrees
<1>. QED
  BY <1>1, AlwaysRight, PTL

\* The files found are those that were used: no call gets lost between the log and
\* its handler, no file of the tree is missed and none is made up.
THEOREM TrackerFindsFiles == Seeded /\ Spec => []FilesExact
<1>1. ASSUME IInv
      PROVE  FilesExact
  <2>1. NothingLost
    BY <1>1, StructLosesNothing DEF IInv
  <2>2. NothingInvented
    <3>1. Following => \E H \in History : Accounted(H)
      BY <1>1 DEF IInv, Right
    <3>. QED
      BY <3>1 DEF Accounted, NothingInvented
  <2>3. FilesFound
    <3>. SUFFICES ASSUME Following, Quiet
                  PROVE  /\ \A x \in files.written : InTree(x) => x \in td.output \cup files.moved
                         /\ \A x \in files.read : InTree(x) =>
                              x \in td.input \cup td.output \cup files.moved
      BY DEF FilesFound
    <3>1. PICK H \in History : Accounted(H)
      BY <1>1 DEF IInv, Right
    <3>2. \A p \in Pid : delayed[p] = <<>> /\ inflight[p] = NoCall
      BY <2>1 DEF NothingLost, Following, Quiet
    <3>3. \A p \in Pid : Pend(p) = 0
      <4>. SUFFICES ASSUME NEW p \in Pid
                    PROVE  Pend(p) = 0
        OBVIOUS
      <4>1. Len(delayed[p]) = 0 /\ inflight[p] = NoCall
        BY <3>2
      <4>2. Pend(p) = Len(delayed[p]) + 0
        BY <4>1 DEF Pend
      <4>. QED
        BY <4>1, <4>2
    <3>4. \A p \in Pid : ~\E k \in 1..Pend(p) : TRUE
      <4>1. ~\E k \in 1..0 : TRUE
        OBVIOUS
      <4>. QED
        BY <3>3, <4>1
    <3>. QED
      BY <3>1, <3>4 DEF Accounted
  <2>. QED
    BY <2>1, <2>2, <2>3 DEF FilesExact
<1>. QED
  BY <1>1, AlwaysRight, PTL

-----------------------------------------------------------------------------
(* strace.lua, ktrace.lua and tracker.lua *)

CallInfo == [name : Names, id : Nat \ {0}, named : BOOLEAN]

\* What is the same for strace and kdump; Waiting is what pend holds.
LogsType(Waiting) ==
    /\ running \in [Procs -> CallInfo \cup {Nowhere}]
    /\ pend \in [Procs -> Seq(Waiting)]
    /\ nth \in Nat

LastWaiting(p, c) == pend[p] # <<>> /\ pend[p][Len(pend[p])] = c

\* A call is in progress in the line strace is writing, or its first half is the
\* last thing that was put aside for its process.
StraceInv ==
    /\ LogsType(CallInfo) /\ handed = made
    /\ broken \in Procs \cup {Nobody}
    /\ broken # Nobody => ~Outside(broken)
    /\ \A p \in Procs : ~Outside(p) /\ broken # p => LastWaiting(p, running[p])

\* The last call that is waiting for its RET line is the one the process is in, with
\* the name if that was shown already.
KdumpEntry == [name : Names, id : Nat \ {0}, nami : Nat]
KdumpInv ==
    /\ LogsType(KdumpEntry) /\ handed = made
    /\ \A p \in Procs : ~Outside(p) =>
         LastWaiting(p, [name |-> running[p].name, id |-> running[p].id,
                         nami |-> IF running[p].named THEN running[p].id ELSE 0])

-----------------------------------------------------------------------------
\* pop_unfinished and pop_syscall find the last element of the queue if it has the
\* name they look for.
LEMMA LastOfEnd ==
    ASSUME NEW T, NEW q \in Seq(T), q # <<>>, NEW name, q[Len(q)].name = name
    PROVE  LastOf(q, name) = Len(q) /\ Len(q) \in 1..Len(q)
<1> DEFINE at == {i \in DOMAIN q : q[i].name = name}
<1>1. Len(q) \in Nat /\ Len(q) > 0 /\ DOMAIN q = 1..Len(q)
  OBVIOUS
<1>2. Len(q) \in at /\ \A i \in at : i \in 1..Len(q)
  BY <1>1
<1> HIDE DEF at
<1>3. \A i \in at : (\A j \in at : j <= i) => i = Len(q)
  BY <1>1, <1>2
<1>4. (CHOOSE i \in at : \A j \in at : j <= i) = Len(q)
  <2>1. \A j \in at : j <= Len(q)
    BY <1>1, <1>2
  <2> QED
    BY <1>2, <1>3, <2>1
<1>5. at # {}
  BY <1>2
<1> QED
  BY <1>1, <1>4, <1>5 DEF LastOf, at

\* A sequence with an element taken out.
LEMMA RemoveAtType ==
    ASSUME NEW T, NEW q \in Seq(T), NEW i \in 1..Len(q)
    PROVE  RemoveAt(q, i) \in Seq(T)
<1>1. SubSeq(q, 1, i - 1) \in Seq(T) /\ SubSeq(q, i + 1, Len(q)) \in Seq(T)
  BY SubSeqProperties
<1> QED
  BY <1>1, ConcatProperties DEF RemoveAt

\* The mark of a process that is in no call.
LEMMA NowhereIsNoCall == Nowhere \notin CallInfo /\ ~Nowhere.named
  BY DEF Nowhere, CallInfo

\* The invariants hold before the first line.
LEMMA InitLogsInv == LogsInit => StraceInv /\ KdumpInv
<1> SUFFICES ASSUME LogsInit PROVE StraceInv /\ KdumpInv
  OBVIOUS
<1>1. /\ \A p \in Procs : Outside(p)
      /\ handed = made /\ broken = Nobody /\ nth \in Nat
      /\ running \in [Procs -> CallInfo \cup {Nowhere}]
  BY DEF LogsInit, Outside
<1>2. pend \in [Procs -> Seq(CallInfo)] /\ pend \in [Procs -> Seq(KdumpEntry)]
  BY DEF LogsInit
<1> QED
  BY <1>1, <1>2 DEF StraceInv, KdumpInv, LogsType

-----------------------------------------------------------------------------
\* push_unfinished puts the broken-off call at the end of its process's queue.
LEMMA PushUnfinished ==
    ASSUME StraceInv
    PROVE  /\ push_unfinished \in [Procs -> Seq(CallInfo)]
           /\ \A p \in Procs : broken # p => push_unfinished[p] = pend[p]
           /\ \A p \in Procs : ~Outside(p) =>
                push_unfinished[p] # <<>> /\ push_unfinished[p][Len(push_unfinished[p])] = running[p]
<1> USE TraceAssumption DEF TraceAssumption
<1>1. pend \in [Procs -> Seq(CallInfo)] /\ running \in [Procs -> CallInfo \cup {Nowhere}]
  BY DEF StraceInv, LogsType
<1>2. CASE broken = Nobody
  BY <1>1, <1>2 DEF StraceInv, LastWaiting, push_unfinished
<1>3. CASE broken \in Procs
  <2> DEFINE q == pend[broken]
             r == running[broken]
  <2>1. broken # Nobody /\ r \in CallInfo /\ q \in Seq(CallInfo)
    BY <1>1, <1>3 DEF StraceInv, Outside
  <2>2. /\ Append(q, r) \in Seq(CallInfo) /\ Append(q, r) # <<>>
        /\ Append(q, r)[Len(Append(q, r))] = r
    BY <2>1
  <2> HIDE DEF q, r
  <2>3. push_unfinished = [pend EXCEPT ![broken] = Append(q, r)]
    BY <2>1 DEF push_unfinished, q, r
  <2>4. /\ push_unfinished \in [Procs -> Seq(CallInfo)]
        /\ push_unfinished[broken] = Append(q, r)
        /\ \A p \in Procs : broken # p => push_unfinished[p] = pend[p]
    BY <1>1, <1>3, <2>2, <2>3
  <2>5. ASSUME NEW p \in Procs, ~Outside(p)
        PROVE  push_unfinished[p] # <<>> /\ push_unfinished[p][Len(push_unfinished[p])] = running[p]
    <3>1. CASE p = broken
      BY <2>2, <2>4, <3>1 DEF r
    <3>2. CASE p # broken
      BY <2>4, <2>5, <3>2 DEF StraceInv, LastWaiting
    <3> QED
      BY <3>1, <3>2
  <2> QED
    BY <2>4, <2>5
<1> QED
  BY <1>2, <1>3 DEF StraceInv

\* Every line of the strace log keeps the invariant.
LEMMA NextStraceInv == StraceInv /\ [StraceNext]_lvars => StraceInv'
<1> SUFFICES ASSUME StraceInv, [StraceNext]_lvars PROVE StraceInv'
  OBVIOUS
<1> USE TraceAssumption, NowhereIsNoCall DEF TraceAssumption
<1>0. /\ running \in [Procs -> CallInfo \cup {Nowhere}] /\ pend \in [Procs -> Seq(CallInfo)]
      /\ nth \in Nat /\ handed = made
  BY DEF StraceInv, LogsType
<1>1. ASSUME NEW p \in Procs, StraceEnter(p) PROVE StraceInv'
  <2>1. PICK name \in Names : Enter(p, [name |-> name, id |-> nth + 1, named |-> FALSE])
    BY <1>1 DEF StraceEnter
  <2>2. [name |-> name, id |-> nth + 1, named |-> FALSE] \in CallInfo
    <3>1. nth + 1 \in Nat \ {0}
      BY <1>0
    <3> QED
      BY <3>1 DEF CallInfo
  <2>3. /\ running' \in [Procs -> CallInfo \cup {Nowhere}] /\ nth' \in Nat /\ ~Outside(p)'
        /\ \A r \in Procs : r # p => running'[r] = running[r]
    <3>1. running' = [running EXCEPT ![p] = [name |-> name, id |-> nth + 1, named |-> FALSE]]
          /\ nth' = nth + 1
      BY <2>1 DEF Enter
    <3>2. running'[p] = [name |-> name, id |-> nth + 1, named |-> FALSE]
      BY <1>0, <3>1
    <3>3. ~Outside(p)'
      BY <2>2, <3>2 DEF Outside
    <3> QED
      BY <1>0, <2>2, <3>1, <3>3
  <2>4. /\ pend' = push_unfinished /\ broken' = p /\ handed' = made'
    BY <1>0, <1>1 DEF StraceEnter
  <2>5. \A r \in Procs : ~Outside(r)' /\ r # p => LastWaiting(r, running[r])'
    BY <2>3, <2>4, PushUnfinished DEF Outside, LastWaiting
  <2> QED
    BY <2>3, <2>4, <2>5, PushUnfinished DEF StraceInv, LogsType
<1>2. ASSUME NEW p \in Procs, StraceKilled(p) PROVE StraceInv'
  <2>1. /\ running' = [running EXCEPT ![p] = Nowhere] /\ nth' = nth
        /\ pend' = push_unfinished /\ broken' = Nobody /\ handed' = made'
    BY <1>0, <1>2 DEF StraceKilled
  <2>2. \A r \in Procs : ~Outside(r)' => LastWaiting(r, running[r])'
    BY <1>0, <2>1, PushUnfinished DEF Outside, LastWaiting
  <2> QED
    BY <1>0, <2>1, <2>2, PushUnfinished DEF StraceInv, LogsType
<1>3. ASSUME NEW p \in Procs, NEW ok \in BOOLEAN, StraceReturn(p, ok) PROVE StraceInv'
  <2> DEFINE call == [p |-> p, name |-> running[p].name, args |-> <<running[p].id, running[p].id>>]
  <2>1. /\ ~Outside(p) /\ running' = [running EXCEPT ![p] = Nowhere] /\ nth' = nth
        /\ made' = (IF ok THEN Append(made, call) ELSE made) /\ broken' = Nobody
    BY <1>3 DEF StraceReturn, Leave
  <2>2. running[p] \in CallInfo
    BY <1>0, <2>1 DEF Outside
  <2>3. /\ pend' \in [Procs -> Seq(CallInfo)] /\ handed' = made'
        /\ \A r \in Procs : r # p => pend'[r] = push_unfinished[r]
    <3>1. CASE broken = p
      BY <1>0, <1>3, <2>1, <3>1, PushUnfinished DEF StraceReturn
    <3>2. CASE broken # p
      <4> DEFINE q == pend[p]
                 i == LastOf(q, running[p].name)
      <4>1. pop_unfinished(p, running[p].name, running[p].id, ok)
        BY <1>3, <3>2 DEF StraceReturn
      <4>2. q \in Seq(CallInfo) /\ q # <<>> /\ q[Len(q)] = running[p]
        BY <1>0, <2>1, <3>2 DEF StraceInv, LastWaiting
      <4>3. i = Len(q) /\ i \in 1..Len(q) /\ i # 0 /\ q[i].id = running[p].id
        BY <4>2, LastOfEnd
      <4>4. RemoveAt(q, i) \in Seq(CallInfo) /\ push_unfinished[p] = q
        BY <3>2, <4>2, <4>3, RemoveAtType, PushUnfinished
      <4> HIDE DEF i, q
      <4>5. pend' = [push_unfinished EXCEPT ![p] = RemoveAt(q, i)]
        BY <4>1, <4>3, <4>4, PushUnfinished DEF pop_unfinished, i, q
      <4>6. handed' = IF ok THEN Append(handed, call) ELSE handed
        BY <4>1, <4>3 DEF pop_unfinished, i, q
      <4> QED
        BY <1>0, <2>1, <4>4, <4>5, <4>6, PushUnfinished
    <3> QED
      BY <3>1, <3>2
  <2>4. \A r \in Procs : ~Outside(r)' => LastWaiting(r, running[r])'
    BY <1>0, <2>1, <2>3, PushUnfinished DEF Outside, LastWaiting
  <2> QED
    BY <1>0, <2>1, <2>3, <2>4 DEF StraceInv, LogsType
<1>4. CASE UNCHANGED lvars
  BY <1>4 DEF lvars, StraceInv, LogsType, Outside, LastWaiting
<1> QED
  BY <1>1, <1>2, <1>3, <1>4 DEF StraceNext

\* strace.lua (push_unfinished, pop_unfinished): the handlers get exactly the calls
\* that succeeded, with their own arguments and in the order they returned.
THEOREM StraceHandedOn == StraceSpec => []HandedOn
<1>1. StraceInv => HandedOn
  BY DEF StraceInv, HandedOn
<1> QED
  BY InitLogsInv, NextStraceInv, <1>1, PTL DEF StraceSpec

-----------------------------------------------------------------------------
\* Every line of the kdump log keeps the invariant.
LEMMA NextKdumpInv == KdumpInv /\ [KdumpNext]_lvars => KdumpInv'
<1> SUFFICES ASSUME KdumpInv, [KdumpNext]_lvars PROVE KdumpInv'
  OBVIOUS
<1> USE NowhereIsNoCall
<1> DEFINE entry(c) == [name |-> c.name, id |-> c.id, nami |-> IF c.named THEN c.id ELSE 0]
<1>0. /\ running \in [Procs -> CallInfo \cup {Nowhere}] /\ pend \in [Procs -> Seq(KdumpEntry)]
      /\ nth \in Nat /\ handed = made
      /\ \A p \in Procs : ~Outside(p) => running[p] \in CallInfo /\ LastWaiting(p, entry(running[p]))
  BY DEF KdumpInv, LogsType, Outside
<1>1. ASSUME NEW p \in Procs, KdumpCall(p) PROVE KdumpInv'
  <2>1. PICK name \in Names :
          /\ Enter(p, [name |-> name, id |-> nth + 1, named |-> FALSE])
          /\ pend' = [pend EXCEPT ![p] = Append(@, [name |-> name, id |-> nth + 1, nami |-> 0])]
    BY <1>1 DEF KdumpCall
  <2> DEFINE c == [name |-> name, id |-> nth + 1, named |-> FALSE]
             e == [name |-> name, id |-> nth + 1, nami |-> 0]
  <2>2. c \in CallInfo /\ e \in KdumpEntry /\ entry(c) = e
    <3>1. nth + 1 \in Nat \ {0}
      BY <1>0
    <3> QED
      BY <3>1 DEF CallInfo, KdumpEntry
  <2> HIDE DEF c, e, entry
  <2>3. running' = [running EXCEPT ![p] = c] /\ pend' = [pend EXCEPT ![p] = Append(@, e)]
        /\ nth' = nth + 1 /\ handed' = made'
    BY <1>0, <1>1, <2>1 DEF Enter, KdumpCall, c, e
  <2>4. /\ Append(pend[p], e) \in Seq(KdumpEntry) /\ Append(pend[p], e) # <<>>
        /\ Append(pend[p], e)[Len(Append(pend[p], e))] = e
    BY <1>0, <2>2, SMTT(30)
  <2>5. LogsType(KdumpEntry)'
    BY <1>0, <2>2, <2>3, <2>4 DEF LogsType
  <2>6. ASSUME NEW r \in Procs, ~Outside(r)' PROVE LastWaiting(r, entry(running[r]))'
    <3>1. CASE r = p
      <4>1. pend'[r] = Append(pend[p], e) /\ running'[r] = c
        BY <1>0, <2>3, <3>1
      <4> QED
        BY <2>2, <2>4, <4>1 DEF LastWaiting, entry
    <3>2. CASE r # p
      <4>1. pend'[r] = pend[r] /\ running'[r] = running[r] /\ ~Outside(r)
        BY <1>0, <2>3, <2>6, <3>2 DEF Outside
      <4> QED
        BY <1>0, <4>1 DEF LastWaiting, entry
    <3> QED
      BY <3>1, <3>2
  <2> QED
    BY <2>3, <2>5, <2>6 DEF KdumpInv, entry
<1>2. ASSUME NEW p \in Procs, KdumpNami(p) PROVE KdumpInv'
  <2> DEFINE q == pend[p]
             c == running[p]
  <2>1. /\ ~Outside(p) /\ ~c.named /\ c \in CallInfo /\ q \in Seq(KdumpEntry)
        /\ q # <<>> /\ q[Len(q)] = entry(c) /\ Len(q) \in 1..Len(q)
    BY <1>0, <1>2 DEF KdumpNami, LastWaiting
  <2>2. /\ running' = [running EXCEPT ![p] = [c EXCEPT !.named = TRUE]]
        /\ pend' = [pend EXCEPT ![p] = [q EXCEPT ![Len(q)] = [q[Len(q)] EXCEPT !.nami = c.id]]]
        /\ nth' = nth /\ handed' = made'
    BY <1>0, <1>2, <2>1 DEF KdumpNami
  <2>3. [c EXCEPT !.named = TRUE] \in CallInfo
    BY <2>1 DEF CallInfo
  <2>4. /\ [q[Len(q)] EXCEPT !.nami = c.id] = entry([c EXCEPT !.named = TRUE])
        /\ [q[Len(q)] EXCEPT !.nami = c.id] \in KdumpEntry
    BY <2>1 DEF CallInfo, KdumpEntry
  <2> DEFINE d == [c EXCEPT !.named = TRUE]
             e == [q[Len(q)] EXCEPT !.nami = c.id]
             w == [q EXCEPT ![Len(q)] = e]
  <2> HIDE DEF d, e, entry
  <2>5. w \in Seq(KdumpEntry) /\ w # <<>> /\ w[Len(w)] = e
    BY <2>1, <2>4 DEF e
  <2> HIDE DEF w, q, c
  <2>6. running' = [running EXCEPT ![p] = d] /\ pend' = [pend EXCEPT ![p] = w]
    BY <2>2 DEF d, e, w
  <2>7. LogsType(KdumpEntry)'
    BY <1>0, <2>2, <2>3, <2>5, <2>6 DEF LogsType, d
  <2>8. ASSUME NEW r \in Procs, ~Outside(r)' PROVE LastWaiting(r, entry(running[r]))'
    <3>1. CASE r = p
      <4>1. pend'[r] = w /\ running'[r] = d
        BY <1>0, <2>6, <3>1
      <4> QED
        BY <2>4, <2>5, <4>1 DEF LastWaiting, d, e, entry
    <3>2. CASE r # p
      <4>1. pend'[r] = pend[r] /\ running'[r] = running[r] /\ ~Outside(r)
        BY <1>0, <2>6, <2>8, <3>2 DEF Outside
      <4> QED
        BY <1>0, <4>1 DEF LastWaiting, entry
    <3> QED
      BY <3>1, <3>2
  <2> QED
    BY <2>2, <2>7, <2>8 DEF KdumpInv, entry
<1>3. ASSUME NEW p \in Procs, KdumpKilled(p) PROVE KdumpInv'
  <2>1. /\ running' = [running EXCEPT ![p] = Nowhere]
        /\ UNCHANGED <<pend, nth>> /\ handed' = made'
    BY <1>0, <1>3 DEF KdumpKilled
  <2>2. LogsType(KdumpEntry)'
    BY <1>0, <2>1 DEF LogsType
  <2>3. ASSUME NEW r \in Procs, ~Outside(r)' PROVE LastWaiting(r, entry(running[r]))'
    BY <1>0, <2>1, <2>3 DEF LastWaiting, Outside
  <2> QED
    BY <2>1, <2>2, <2>3 DEF KdumpInv
<1>4. ASSUME NEW p \in Procs, NEW ok \in BOOLEAN, KdumpRet(p, ok) PROVE KdumpInv'
  <2> DEFINE q == pend[p]
             i == LastOf(q, running[p].name)
             call == [p |-> p, name |-> running[p].name, args |-> <<running[p].id, running[p].id>>]
  <2>1. /\ running[p].named /\ running' = [running EXCEPT ![p] = Nowhere] /\ nth' = nth
        /\ made' = IF ok THEN Append(made, call) ELSE made
    BY <1>4 DEF KdumpRet, Leave
  <2>2. ~Outside(p)
    BY <2>1 DEF Outside
  <2>3. q \in Seq(KdumpEntry) /\ q # <<>> /\ q[Len(q)] = entry(running[p])
    BY <1>0, <2>2 DEF LastWaiting
  <2>4. q[Len(q)].name = running[p].name
    BY <2>3
  <2>5. i = Len(q) /\ i \in 1..Len(q) /\ i # 0
    BY <2>3, <2>4, LastOfEnd
  <2>6. q[i].id = running[p].id /\ q[i].nami = running[p].id
    BY <2>1, <2>3, <2>5
  <2>7. RemoveAt(q, i) \in Seq(KdumpEntry)
    BY <2>3, <2>5, RemoveAtType
  <2> HIDE DEF i, q, entry
  <2>8. pend' = [pend EXCEPT ![p] = RemoveAt(q, i)]
    BY <1>4, <2>5 DEF KdumpRet, i, q
  <2>9. handed' = IF ok THEN Append(handed, call) ELSE handed
    BY <1>4, <2>5, <2>6 DEF KdumpRet, i, q
  <2>10. LogsType(KdumpEntry)' /\ handed' = made'
    BY <1>0, <2>1, <2>7, <2>8, <2>9 DEF LogsType
  <2>11. ASSUME NEW r \in Procs, ~Outside(r)' PROVE LastWaiting(r, entry(running[r]))'
    <3>1. r # p
      BY <1>0, <2>1, <2>11 DEF Outside
    <3>2. pend'[r] = pend[r] /\ running'[r] = running[r] /\ ~Outside(r)
      BY <1>0, <2>1, <2>8, <2>11, <3>1 DEF Outside
    <3> QED
      BY <1>0, <3>2 DEF LastWaiting, entry
  <2> QED
    BY <2>10, <2>11 DEF KdumpInv, entry
<1>5. CASE UNCHANGED lvars
  BY <1>5 DEF lvars, KdumpInv, LogsType, Outside, LastWaiting
<1> QED
  BY <1>1, <1>2, <1>3, <1>4, <1>5 DEF KdumpNext

\* ktrace.lua (push_syscall, set_syscall_arg, pop_syscall): the handlers get exactly
\* the calls that succeeded, with their own arguments and the name the kernel looked
\* up for them, in the order they returned.
THEOREM KdumpHandedOn == KdumpSpec => []HandedOn
<1>1. KdumpInv => HandedOn
  BY DEF KdumpInv, HandedOn
<1> QED
  BY InitLogsInv, NextKdumpInv, <1>1, PTL DEF KdumpSpec

-----------------------------------------------------------------------------
\* What the three logs of tracker.exe say about the files that are there.
ExeInv ==
    /\ exe \in [there : SUBSET ExeFiles, wrote : SUBSET ExeFiles, deleted : SUBSET ExeFiles,
                read : SUBSET ExeFiles, again : SUBSET ExeFiles]
    /\ exe.wrote \ exe.deleted \subseteq exe.there
    /\ exe.deleted \cap exe.there \subseteq exe.again

\* Every write, deletion and report of tracker.exe keeps the invariant.
LEMMA NextExeInv == ExeInv /\ [ExeNext]_lvars => ExeInv'
<1> SUFFICES ASSUME ExeInv, [ExeNext]_lvars PROVE ExeInv'
  OBVIOUS
<1>1. ASSUME NEW f \in ExeFiles, ExeWrite(f) PROVE ExeInv'
  BY <1>1 DEF ExeInv, ExeWrite
<1>2. ASSUME NEW f \in ExeFiles, ExeRead(f) PROVE ExeInv'
  BY <1>2 DEF ExeInv, ExeRead
<1>3. ASSUME NEW f \in ExeFiles, ExeDelete(f) PROVE ExeInv'
  BY <1>3 DEF ExeInv, ExeDelete
<1>4. CASE UNCHANGED lvars
  BY <1>4 DEF ExeInv, lvars
<1> QED
  BY <1>1, <1>2, <1>3, <1>4 DEF ExeNext

\* tracker.lua (post_process): what is taken for an output was written and is there,
\* no input is missed, and no output but those written after a deletion.
THEOREM ExeOutputsRight == ExeSpec => []ExeOutputs
<1>1. LogsInit => ExeInv
  BY DEF LogsInit, ExeInv
<1>2. ExeInv => ExeOutputs
  BY DEF ExeInv, ExeOutputs, PostProcess
<1> QED
  BY NextExeInv, <1>1, <1>2, PTL DEF ExeSpec

-----------------------------------------------------------------------------
(***************************************************************************)
(* The keys of the records (Commands).                                     *)
(***************************************************************************)

\* f is the state of the reader after each character of s.
Reads(f, r, s) == f = [k \in 0..Len(s) |-> IF k = 0 THEN r ELSE ReadChar(f[k - 1], s[k])]

\* The recursive function in the definition of ReadChars is what it says.
LEMMA ReadCharsIs ==
    ASSUME NEW r, NEW s, Len(s) \in Nat
    PROVE  \E f : Reads(f, r, s) /\ ReadChars(r, s) = f[Len(s)]
<1> DEFINE N == Len(s)
           Step(g, i) == IF i = 0 THEN r ELSE ReadChar(g[i - 1], s[i])
           D(m, g) == g = [i \in 0..m |-> Step(g, i)]
           T == {m \in Nat : \E g : D(m, g)}
<1>1. 0 \in T
  <2> DEFINE z == [i \in 0..0 |-> r]
  <2>1. \A i \in 0..0 : Step(z, i) = r
    OBVIOUS
  <2>2. z = [i \in 0..0 |-> Step(z, i)]
    <3> HIDE DEF Step
    <3> QED BY <2>1
  <2>3. D(0, z)
    BY <2>2
  <2> HIDE DEF z, D
  <2> QED BY <2>3
<1>2. ASSUME NEW m \in Nat, m \in T PROVE m + 1 \in T
  <2>1. PICK g : D(m, g)
    BY <1>2
  <2> DEFINE h == [i \in 0..(m + 1) |-> Step(g, i)]
  <2>2. \A i \in 0..m : h[i] = g[i]
    <3> TAKE i \in 0..m
    <3>1. h[i] = Step(g, i)
      OBVIOUS
    <3>2. g[i] = [q \in 0..m |-> Step(g, q)][i]
      BY <2>1
    <3> QED BY <3>1, <3>2
  <2>3. \A i \in 0..(m + 1) : Step(h, i) = Step(g, i)
    <3> HIDE DEF h
    <3> TAKE i \in 0..(m + 1)
    <3>1. i # 0 => i - 1 \in 0..m
      OBVIOUS
    <3>2. i # 0 => h[i - 1] = g[i - 1]
      BY <2>2, <3>1
    <3> QED BY <3>2
  <2>4. h = [i \in 0..(m + 1) |-> Step(h, i)]
    <3> HIDE DEF Step
    <3> QED BY <2>3
  <2>5. D(m + 1, h)
    BY <2>4
  <2> HIDE DEF h, D
  <2> QED BY <2>5
<1>3. N \in T
  <2> HIDE DEF T
  <2> QED BY <1>1, <1>2, Induction
<1>4. PICK g : D(N, g)
  BY <1>3
<1> DEFINE f == CHOOSE z : D(N, z)
<1>6. D(N, f)
  BY <1>4
<1>7. ReadChars(r, s) = f[N]
  BY DEF ReadChars
<1> QED
  BY <1>6, <1>7 DEF Reads

\* One step of that function.
LEMMA ReadsStep ==
    ASSUME NEW r, NEW s, NEW f, Reads(f, r, s), NEW k \in 0..Len(s)
    PROVE  f[k] = IF k = 0 THEN r ELSE ReadChar(f[k - 1], s[k])
  BY DEF Reads

\* Two such functions agree as long as their strings do.
LEMMA ReadsAlike ==
    ASSUME NEW r, NEW s, NEW t, NEW f, NEW g, Reads(f, r, s), Reads(g, r, t),
           Len(s) \in Nat, Len(t) \in Nat, Len(s) <= Len(t), \A i \in 1..Len(s) : s[i] = t[i]
    PROVE  \A i \in 0..Len(s) : f[i] = g[i]
<1> DEFINE T == {m \in Nat : m \in 0..Len(s) => f[m] = g[m]}
<1>0. /\ \A k \in 0..Len(s) : f[k] = IF k = 0 THEN r ELSE ReadChar(f[k - 1], s[k])
      /\ \A k \in 0..Len(t) : g[k] = IF k = 0 THEN r ELSE ReadChar(g[k - 1], t[k])
  BY ReadsStep
<1>1. 0 \in T
  BY <1>0
<1>2. ASSUME NEW m \in Nat, m \in T PROVE m + 1 \in T
  <2> SUFFICES ASSUME m + 1 \in 0..Len(s) PROVE f[m + 1] = g[m + 1]
    OBVIOUS
  <2> DEFINE j == m + 1
  <2>1. j \in 0..Len(s) /\ j \in 0..Len(t) /\ j # 0 /\ s[j] = t[j]
    OBVIOUS
  <2>2. f[j - 1] = g[j - 1]
    BY <1>2
  <2> HIDE DEF j
  <2>3. f[j] = g[j]
    BY <1>0, <2>1, <2>2
  <2> QED BY <2>3 DEF j
<1> HIDE DEF T
<1>3. \A m \in Nat : m \in T
  BY <1>1, <1>2, Induction
<1> QED
  BY <1>3 DEF T

\* What ReadChars computes, one character at a time.
LEMMA ReadAppend ==
    ASSUME NEW S, NEW r, NEW s \in Seq(S), NEW c \in S
    PROVE  ReadChars(r, Append(s, c)) = ReadChar(ReadChars(r, s), c)
<1> DEFINE t == Append(s, c)
           N == Len(s)
<1>1. N \in Nat /\ Len(t) = N + 1 /\ t[N + 1] = c /\ (\A i \in 1..N : s[i] = t[i]) /\ N = Len(s)
  OBVIOUS
<1> HIDE DEF t, N
<1>2. PICK f : Reads(f, r, s) /\ ReadChars(r, s) = f[N]
  BY <1>1, ReadCharsIs
<1>3. PICK g : Reads(g, r, t) /\ ReadChars(r, t) = g[N + 1]
  BY <1>1, ReadCharsIs
<1>4. f[N] = g[N]
  <2>1. \A i \in 0..Len(s) : f[i] = g[i]
    <3>1. Len(s) \in Nat /\ Len(t) \in Nat /\ Len(s) <= Len(t) /\ \A i \in 1..Len(s) : s[i] = t[i]
      BY <1>1
    <3> QED BY <3>1, <1>2, <1>3, ReadsAlike
  <2> QED BY <2>1, <1>1
<1>5. g[N + 1] = ReadChar(g[N], c)
  <2>1. \A k \in 0..Len(t) : g[k] = IF k = 0 THEN r ELSE ReadChar(g[k - 1], t[k])
    BY <1>3, ReadsStep
  <2>2. N + 1 \in 0..Len(t) /\ N + 1 # 0 /\ N + 1 - 1 = N
    BY <1>1
  <2> QED BY <1>1, <2>1, <2>2
<1>6. ReadChars(r, t) = ReadChar(ReadChars(r, s), c)
  BY <1>2, <1>3, <1>4, <1>5
<1> QED
  BY <1>6 DEF t

\* Nothing read changes nothing.
LEMMA ReadNothing == ASSUME NEW r PROVE ReadChars(r, <<>>) = r
<1>1. PICK f : Reads(f, r, <<>>) /\ ReadChars(r, <<>>) = f[Len(<<>>)]
  BY ReadCharsIs
<1>2. f[0] = r
  BY <1>1, ReadsStep
<1> QED
  BY <1>1, <1>2

\* A string of one character.
LEMMA ReadOne == ASSUME NEW S, NEW r, NEW c \in S PROVE ReadChars(r, <<c>>) = ReadChar(r, c)
<1> DEFINE e == <<>>
<1>1. <<c>> = Append(e, c) /\ e \in Seq(S) /\ ReadChars(r, e) = r
  BY ReadNothing
<1> HIDE DEF e
<1>2. ReadChars(r, Append(e, c)) = ReadChar(ReadChars(r, e), c)
  BY <1>1, ReadAppend
<1> QED
  BY <1>1, <1>2

\* Two strings after each other.
LEMMA ReadConcat ==
    ASSUME NEW S, NEW r, NEW s \in Seq(S), NEW t \in Seq(S)
    PROVE  ReadChars(r, s \o t) = ReadChars(ReadChars(r, s), t)
<1> DEFINE A(m) == SubSeq(t, 1, m)
           T == {m \in Nat : m <= Len(t) => ReadChars(r, s \o A(m)) = ReadChars(ReadChars(r, s), A(m))}
<1>0. Len(t) \in Nat /\ A(0) = <<>> /\ A(Len(t)) = t /\ s \o <<>> = s
  OBVIOUS
<1>a. ASSUME NEW m \in Nat, m + 1 <= Len(t)
      PROVE  /\ A(m + 1) = Append(A(m), t[m + 1]) /\ A(m) \in Seq(S) /\ t[m + 1] \in S
             /\ s \o A(m + 1) = Append(s \o A(m), t[m + 1]) /\ s \o A(m) \in Seq(S)
  <2>1. A(m + 1) = Append(A(m), t[m + 1]) /\ A(m) \in Seq(S) /\ t[m + 1] \in S
    BY <1>0, <1>a
  <2> DEFINE u == A(m)
             x == t[m + 1]
  <2>2. u \in Seq(S) /\ x \in S
    BY <2>1
  <2> HIDE DEF A, u, x
  <2>3. s \o u \in Seq(S) /\ s \o Append(u, x) = Append(s \o u, x)
    BY <2>2
  <2> QED BY <2>1, <2>3 DEF u, x
<1> HIDE DEF A
<1>1. 0 \in T
  BY <1>0, ReadNothing
<1>2. ASSUME NEW m \in Nat, m \in T PROVE m + 1 \in T
  <2> SUFFICES ASSUME m + 1 <= Len(t)
               PROVE  ReadChars(r, s \o A(m + 1)) = ReadChars(ReadChars(r, s), A(m + 1))
    OBVIOUS
  <2>1. ReadChars(r, s \o A(m)) = ReadChars(ReadChars(r, s), A(m))
    BY <1>0, <1>2
  <2>2. ReadChars(r, Append(s \o A(m), t[m + 1])) = ReadChar(ReadChars(r, s \o A(m)), t[m + 1])
    <3> DEFINE u == s \o A(m)
               x == t[m + 1]
    <3>1. u \in Seq(S) /\ x \in S
      BY <1>a
    <3> HIDE DEF u, x
    <3>2. ReadChars(r, Append(u, x)) = ReadChar(ReadChars(r, u), x)
      BY <3>1, ReadAppend
    <3> QED BY <3>2 DEF u, x
  <2>3. ReadChars(ReadChars(r, s), Append(A(m), t[m + 1])) = ReadChar(ReadChars(ReadChars(r, s), A(m)), t[m + 1])
    BY <1>a, ReadAppend
  <2> QED BY <1>a, <2>1, <2>2, <2>3
<1>3. Len(t) \in T
  <2> HIDE DEF T
  <2> QED BY <1>0, <1>1, <1>2, Induction
<1> QED
  BY <1>0, <1>3

-----------------------------------------------------------------------------
Sym == Char \cup {"cd", "&&"}

\* The reader has the arguments B, and w of the next one.
ReadAt(B, w, q, e) == Reader(Append(B, w), q, e)

\* The reader adds a character to its last argument.
LEMMA ExtendIs ==
    ASSUME NEW B \in Seq(Seq(Sym)), NEW w \in Seq(Sym), NEW c \in Sym
    PROVE  Extend(Append(B, w), c) = Append(B, Append(w, c))
<1> DEFINE A == Append(B, w)
           v == Append(w, c)
           S == Seq(Sym)
<1>1. B \in Seq(S) /\ w \in S /\ v \in S
  BY AppendIn
<1>2. Extend(A, c) = [A EXCEPT ![Len(A)] = Append(A[Len(A)], c)]
  BY DEF Extend
<1> HIDE DEF S
<1>3. A[Len(A)] = w /\ \A x \in S : [A EXCEPT ![Len(A)] = x] = Append(B, x)
  BY <1>1, LastChanged
<1> HIDE DEF A
<1>4. Extend(A, c) = [A EXCEPT ![Len(A)] = v]
  BY <1>2, <1>3
<1> QED
  BY <1>1, <1>3, <1>4 DEF A

\* A character, not after a backslash between quotes.
LEMMA ReadPlain ==
    ASSUME NEW B \in Seq(Seq(Sym)), NEW w \in Seq(Sym), NEW c \in Sym, NEW q \in BOOLEAN
    PROVE  LET n == ReadChar(ReadAt(B, w, q, FALSE), c)
           IN  /\ n = Plain(ReadAt(B, w, q, FALSE), c)
               /\ c = Quote => n = ReadAt(B, w, ~q, FALSE)
               /\ c = Backslash /\ q => n = ReadAt(B, w, TRUE, TRUE)
               /\ c = " " /\ ~q => n = ReadAt(Append(B, w), <<>>, FALSE, FALSE)
               /\ c # Quote /\ ~(c = Backslash /\ q) /\ ~(c = " " /\ ~q) => n = ReadAt(B, Append(w, c), q, FALSE)
<1> DEFINE A == Append(B, w)
           r == ReadAt(B, w, q, FALSE)
<1>1. Extend(A, c) = Append(B, Append(w, c))
  BY ExtendIs
<1>2. r.args = A /\ r.quoted = q /\ r.escape = FALSE
  BY DEF ReadAt, Reader
<1>3. Quote # Backslash /\ Quote # " " /\ Backslash # " "
  BY DEF Quote, Backslash
<1> HIDE DEF A, r
<1>4. ReadChar(r, c) = Plain(r, c)
  BY <1>2 DEF ReadChar
<1>5. c = Quote => Plain(r, c) = Reader(A, ~q, FALSE)
  BY <1>2, <1>3 DEF Plain
<1>6. c = Backslash /\ q => Plain(r, c) = Reader(A, TRUE, TRUE)
  BY <1>2, <1>3 DEF Plain
<1>7. c = " " /\ ~q => Plain(r, c) = Reader(Append(A, <<>>), FALSE, FALSE)
  BY <1>2, <1>3 DEF Plain
<1>8. c # Quote /\ ~(c = Backslash /\ q) /\ ~(c = " " /\ ~q) => Plain(r, c) = Reader(Extend(A, c), q, FALSE)
  BY <1>2, <1>3 DEF Plain
<1> QED
  BY <1>1, <1>4, <1>5, <1>6, <1>7, <1>8, Zenon DEF r, A, ReadAt

\* A character after a backslash between quotes.
LEMMA ReadEscaped ==
    ASSUME NEW B \in Seq(Seq(Sym)), NEW w \in Seq(Sym), NEW c \in Sym
    PROVE  LET n == ReadChar(ReadAt(B, w, TRUE, TRUE), c)
               v == Append(w, Backslash)
           IN  /\ c = Quote \/ (c = Backslash /\ dirsep # Backslash) => n = ReadAt(B, Append(w, c), TRUE, FALSE)
               /\ c = Backslash /\ dirsep = Backslash => n = ReadAt(B, v, TRUE, TRUE)
               /\ c # Quote /\ c # Backslash => n = ReadAt(B, Append(v, c), TRUE, FALSE)
<1> DEFINE A == Append(B, w)
           r == ReadAt(B, w, TRUE, TRUE)
           v == Append(w, Backslash)
<1>0. Quote # Backslash /\ Backslash # " " /\ Backslash \in Sym
  BY DEF Quote, Backslash, Sym, Char
<1>1. v \in Seq(Sym) /\ Extend(A, c) = Append(B, Append(w, c)) /\ Extend(A, Backslash) = Append(B, v)
  BY <1>0, ExtendIs, AppendIn
<1>2. r.args = A /\ r.quoted = TRUE /\ r.escape = TRUE
  BY DEF ReadAt, Reader
<1> HIDE DEF A, r, v
<1>3. c = Quote \/ (c = Backslash /\ dirsep # Backslash) => ReadChar(r, c) = Reader(Extend(A, c), TRUE, FALSE)
  BY <1>2 DEF ReadChar
<1>4. ~(c = Quote \/ (c = Backslash /\ dirsep # Backslash)) =>
        ReadChar(r, c) = Plain(Reader(Extend(A, Backslash), TRUE, FALSE), c)
  BY <1>2 DEF ReadChar
<1>5. LET n == Plain(ReadAt(B, v, TRUE, FALSE), c)
      IN  /\ c = Backslash => n = ReadAt(B, v, TRUE, TRUE)
          /\ c # Quote /\ c # Backslash => n = ReadAt(B, Append(v, c), TRUE, FALSE)
  <2>0. TRUE \in BOOLEAN
    OBVIOUS
  <2>1. LET n == ReadChar(ReadAt(B, v, TRUE, FALSE), c)
        IN  /\ n = Plain(ReadAt(B, v, TRUE, FALSE), c)
            /\ c = Backslash /\ TRUE => n = ReadAt(B, v, TRUE, TRUE)
            /\ c # Quote /\ ~(c = Backslash /\ TRUE) /\ ~(c = " " /\ ~TRUE) => n = ReadAt(B, Append(v, c), TRUE, FALSE)
    BY <2>0, <1>1, ReadPlain, Zenon
  <2> QED BY <2>1, Zenon
<1>6. c = Quote \/ (c = Backslash /\ dirsep # Backslash) => ReadChar(r, c) = ReadAt(B, Append(w, c), TRUE, FALSE)
  BY <1>1, <1>3, Zenon DEF ReadAt
<1>7. ~(c = Quote \/ (c = Backslash /\ dirsep # Backslash)) => ReadChar(r, c) = Plain(ReadAt(B, v, TRUE, FALSE), c)
  BY <1>1, <1>4, Zenon DEF ReadAt
<1>8. c = Backslash /\ dirsep = Backslash => ReadChar(r, c) = ReadAt(B, v, TRUE, TRUE)
  BY <1>0, <1>5, <1>7
<1>9. c # Quote /\ c # Backslash => ReadChar(r, c) = ReadAt(B, Append(v, c), TRUE, FALSE)
  BY <1>0, <1>5, <1>7
<1> QED
  BY <1>6, <1>8, <1>9, Zenon DEF r, v

\* gsub and Seen, one character at a time.
SeenOne(c) == IF c = "cr" THEN <<>> ELSE IF c = "tab" THEN <<" ">> ELSE <<c>>

\* What gsub and Seen make of each character.
LEMMA CharFacts ==
    ASSUME NEW c \in Char
    PROVE  /\ a2c_repl(c) \in Seq(Char) /\ SeenOne(c) \in Seq(Char)
           /\ c \in Sym /\ Quote \in Sym /\ Backslash \in Sym /\ " " \in Sym
           /\ Quote # Backslash /\ Backslash # " " /\ Quote # " "
           /\ c = "x" => a2c_repl(c) = <<c>> /\ SeenOne(c) = <<c>>
           /\ c = Quote => a2c_repl(c) = <<Backslash, Quote>> /\ SeenOne(c) = <<Quote>>
           /\ c = Backslash /\ dirsep # Backslash => a2c_repl(c) = <<Backslash, Backslash>> /\ SeenOne(c) = <<Backslash>>
           /\ c = Backslash /\ dirsep = Backslash => a2c_repl(c) = <<Backslash>> /\ SeenOne(c) = <<Backslash>>
           /\ c = "cr" => a2c_repl(c) = <<>> /\ SeenOne(c) = <<>>
           /\ c \in {" ", "tab"} => a2c_repl(c) = <<" ">> /\ SeenOne(c) = <<" ">>
           /\ c \in {"x", Quote, Backslash, "cr", " ", "tab"}
<1> USE DEF Char, White, Quote, Backslash, Sym
<1>0. c \in {"x", Quote, Backslash, "cr", " ", "tab"}
  OBVIOUS
<1>1. c = "x" => a2c_repl(c) = <<c>> /\ SeenOne(c) = <<c>>
  BY DEF a2c_repl, a2c_pattern, SeenOne
<1>2. c = Quote => a2c_repl(c) = <<Backslash, Quote>> /\ SeenOne(c) = <<Quote>>
  BY DEF a2c_repl, a2c_pattern, SeenOne
<1>3. c = Backslash /\ dirsep # Backslash => a2c_repl(c) = <<Backslash, Backslash>> /\ SeenOne(c) = <<Backslash>>
  BY DEF a2c_repl, a2c_pattern, SeenOne
<1>4. c = Backslash /\ dirsep = Backslash => a2c_repl(c) = <<Backslash>> /\ SeenOne(c) = <<Backslash>>
  BY DEF a2c_repl, a2c_pattern, SeenOne
<1>5. c = "cr" => a2c_repl(c) = <<>> /\ SeenOne(c) = <<>>
  BY DEF a2c_repl, a2c_pattern, SeenOne
<1>6. c \in {" ", "tab"} => a2c_repl(c) = <<" ">> /\ SeenOne(c) = <<" ">>
  BY DEF a2c_repl, a2c_pattern, SeenOne
<1>7. a2c_repl(c) \in Seq(Char) /\ SeenOne(c) \in Seq(Char)
  <2>1. " " \in Char /\ Quote \in Char /\ Backslash \in Char
    OBVIOUS
  <2>2. <<>> \in Seq(Char) /\ \A x, y \in Char : <<x>> \in Seq(Char) /\ <<x, y>> \in Seq(Char)
    BY SmallSeqs
  <2> HIDE DEF Char, White, Quote, Backslash, Sym
  <2> QED BY <2>1, <2>2, <1>0, <1>1, <1>2, <1>3, <1>4, <1>5, <1>6
<1> QED
  BY <1>0, <1>1, <1>2, <1>3, <1>4, <1>5, <1>6, <1>7

\* gsub and Seen work character by character.
LEMMA TextAppend ==
    ASSUME NEW a \in Seq(Char), NEW c \in Char
    PROVE  gsub(Append(a, c)) = gsub(a) \o a2c_repl(c) /\ Seen(Append(a, c)) = Seen(a) \o SeenOne(c)
<1> DEFINE b == Append(a, c)
           N == Len(a)
           ga == [i \in DOMAIN a |-> a2c_repl(a[i])]
           gb == [i \in DOMAIN b |-> a2c_repl(b[i])]
           sa == [i \in DOMAIN a |-> SeenOne(a[i])]
           sb == [i \in DOMAIN b |-> SeenOne(b[i])]
<1>0. \A x \in Char : a2c_repl(x) \in Seq(Char) /\ SeenOne(x) \in Seq(Char)
  BY CharFacts
<1>1. /\ N \in Nat /\ DOMAIN a = 1..N /\ DOMAIN b = 1..(N + 1) /\ b[N + 1] = c
      /\ \A i \in 1..N : b[i] = a[i] /\ a[i] \in Char
  OBVIOUS
<1> HIDE DEF b, N
<1>2. /\ ga \in [1..N -> Seq(Char)] /\ sa \in [1..N -> Seq(Char)]
      /\ gb \in [1..(N + 1) -> Seq(Char)] /\ sb \in [1..(N + 1) -> Seq(Char)]
  <2>1. \A i \in 1..(N + 1) : b[i] \in Char
    <3> TAKE i \in 1..(N + 1)
    <3>1. i = N + 1 \/ i \in 1..N
      BY <1>1
    <3> QED BY <1>1, <3>1
  <2> QED BY <1>0, <1>1, <2>1
<1>3. /\ ga \in Seq(Seq(Char)) /\ sa \in Seq(Seq(Char)) /\ Len(ga) = N /\ Len(sa) = N
      /\ gb \in Seq(Seq(Char)) /\ sb \in Seq(Seq(Char)) /\ Len(gb) = N + 1 /\ Len(sb) = N + 1
  <2> HIDE DEF ga, sa, gb, sb
  <2> QED BY <1>1, <1>2
<1>a. /\ gb[N + 1] = a2c_repl(c) /\ sb[N + 1] = SeenOne(c)
      /\ \A i \in 1..N : gb[i] = ga[i] /\ sb[i] = sa[i]
  BY <1>1
<1>4. gb = Append(ga, a2c_repl(c)) /\ sb = Append(sa, SeenOne(c))
  <2> DEFINE S == Seq(Char)
             x == a2c_repl(c)
             y == SeenOne(c)
  <2>1. x \in S /\ y \in S /\ ga \in Seq(S) /\ gb \in Seq(S) /\ sa \in Seq(S) /\ sb \in Seq(S)
    BY <1>0, <1>3
  <2>2. gb[N + 1] = x /\ sb[N + 1] = y
    BY <1>a
  <2> HIDE DEF S, x, y, ga, gb, sa, sb
  <2>3. gb = Append(ga, x)
    BY <1>1, <2>1, <2>2, <1>3, <1>a, AppendEqual
  <2>4. sb = Append(sa, y)
    BY <1>1, <2>1, <2>2, <1>3, <1>a, AppendEqual
  <2> QED BY <2>3, <2>4 DEF x, y
<1>6. gsub(a) = FlattenSeq(ga) /\ gsub(b) = FlattenSeq(gb) /\ Seen(a) = FlattenSeq(sa) /\ Seen(b) = FlattenSeq(sb)
  BY DEF gsub, Seen, SeenOne
<1> HIDE DEF ga, gb, sa, sb
<1>7. FlattenSeq(Append(ga, a2c_repl(c))) = FlattenSeq(ga) \o a2c_repl(c)
  BY <1>0, <1>3, FlattenAppend
<1>8. FlattenSeq(Append(sa, SeenOne(c))) = FlattenSeq(sa) \o SeenOne(c)
  BY <1>0, <1>3, FlattenAppend
<1> QED
  BY <1>4, <1>6, <1>7, <1>8 DEF b

-----------------------------------------------------------------------------
\* A string of two characters.
LEMMA ReadTwo ==
    ASSUME NEW r, NEW c \in Char, NEW d \in Char
    PROVE  ReadChars(r, <<c, d>>) = ReadChar(ReadChar(r, c), d)
<1> DEFINE s == <<c>>
<1>1. s \in Seq(Char) /\ <<c, d>> = Append(s, d)
  OBVIOUS
<1> HIDE DEF s
<1>2. ReadChars(r, Append(s, d)) = ReadChar(ReadChars(r, s), d)
  BY <1>1, ReadAppend
<1>3. ReadChars(r, s) = ReadChar(r, c)
  BY ReadOne DEF s
<1> QED
  BY <1>1, <1>2, <1>3

\* The reader r is between quotes and has read s of an argument; on Windows it
\* may still have to see what the last backslash is.
Between(B, r, s) ==
    \E u \in Seq(Sym) :
       \/ r = ReadAt(B, u, TRUE, FALSE) /\ s = u
       \/ dirsep = Backslash /\ r = ReadAt(B, u, TRUE, TRUE) /\ s = Append(u, Backslash)

\* What the reader does with a character between quotes.
LEMMA ReadQuoted ==
    ASSUME NEW B \in Seq(Seq(Sym)), NEW u \in Seq(Sym), NEW c \in Sym
    PROVE  /\ c = Quote => ReadChar(ReadAt(B, u, TRUE, FALSE), c) = ReadAt(B, u, FALSE, FALSE)
           /\ c = Backslash => ReadChar(ReadAt(B, u, TRUE, FALSE), c) = ReadAt(B, u, TRUE, TRUE)
           /\ c # Quote /\ c # Backslash => ReadChar(ReadAt(B, u, TRUE, FALSE), c) = ReadAt(B, Append(u, c), TRUE, FALSE)
<1>0. TRUE \in BOOLEAN
  OBVIOUS
<1>1. LET n == ReadChar(ReadAt(B, u, TRUE, FALSE), c)
      IN  /\ c = Quote => n = ReadAt(B, u, ~TRUE, FALSE)
          /\ c = Backslash /\ TRUE => n = ReadAt(B, u, TRUE, TRUE)
          /\ c # Quote /\ ~(c = Backslash /\ TRUE) /\ ~(c = " " /\ ~TRUE) => n = ReadAt(B, Append(u, c), TRUE, FALSE)
  BY <1>0, ReadPlain, Zenon
<1>2. c = Quote => ReadChar(ReadAt(B, u, TRUE, FALSE), c) = ReadAt(B, u, FALSE, FALSE)
  <2>1. (~TRUE) = FALSE
    OBVIOUS
  <2> QED BY <1>1, <2>1, Zenon
<1> QED
  BY <1>1, <1>2, Zenon

\* And outside of them.
LEMMA ReadUnquoted ==
    ASSUME NEW B \in Seq(Seq(Sym)), NEW u \in Seq(Sym), NEW c \in Sym
    PROVE  /\ c = Quote => ReadChar(ReadAt(B, u, FALSE, FALSE), c) = ReadAt(B, u, TRUE, FALSE)
           /\ c = " " => ReadChar(ReadAt(B, u, FALSE, FALSE), c) = ReadAt(Append(B, u), <<>>, FALSE, FALSE)
           /\ c # Quote /\ c # " " => ReadChar(ReadAt(B, u, FALSE, FALSE), c) = ReadAt(B, Append(u, c), FALSE, FALSE)
<1>0. FALSE \in BOOLEAN
  OBVIOUS
<1>1. LET n == ReadChar(ReadAt(B, u, FALSE, FALSE), c)
      IN  /\ c = Quote => n = ReadAt(B, u, ~FALSE, FALSE)
          /\ c = " " /\ ~FALSE => n = ReadAt(Append(B, u), <<>>, FALSE, FALSE)
          /\ c # Quote /\ ~(c = Backslash /\ FALSE) /\ ~(c = " " /\ ~FALSE) => n = ReadAt(B, Append(u, c), FALSE, FALSE)
  BY <1>0, ReadPlain, Zenon
<1>2. c = Quote => ReadChar(ReadAt(B, u, FALSE, FALSE), c) = ReadAt(B, u, TRUE, FALSE)
  <2>1. (~FALSE) = TRUE
    OBVIOUS
  <2> QED BY <1>1, <2>1, Zenon
<1> QED
  BY <1>1, <1>2, Zenon

\* The reader gets back what gsub writes, one character at a time.
LEMMA BetweenStep ==
    ASSUME NEW B \in Seq(Seq(Sym)), NEW r, NEW s, Between(B, r, s), NEW c \in Char
    PROVE  Between(B, ReadChars(r, a2c_repl(c)), s \o SeenOne(c))
<1> DEFINE n == ReadChars(r, a2c_repl(c))
           t == s \o SeenOne(c)
<1>0. PICK u \in Seq(Sym) : \/ r = ReadAt(B, u, TRUE, FALSE) /\ s = u
                            \/ dirsep = Backslash /\ r = ReadAt(B, u, TRUE, TRUE) /\ s = Append(u, Backslash)
  BY DEF Between
<1> DEFINE v == Append(u, Backslash)
<1>1. /\ c \in Sym /\ Quote \in Sym /\ Backslash \in Sym /\ " " \in Sym
      /\ Quote \in Char /\ Backslash \in Char /\ " " \in Char /\ "x" \in Char
      /\ Quote # Backslash /\ Backslash # " " /\ Quote # " " /\ "x" # Quote /\ "x" # Backslash
  BY DEF Sym, Char, White, Quote, Backslash
<1>2. /\ v \in Seq(Sym)
      /\ \A d \in Sym : Append(u, d) \in Seq(Sym) /\ Append(v, d) \in Seq(Sym)
      /\ \A d \in Sym : u \o <<d>> = Append(u, d) /\ v \o <<d>> = Append(v, d)
      /\ u \o <<>> = u /\ v \o <<>> = v
  BY <1>1, Ends, AppendIn
<1>3. /\ \A q : ReadChars(q, <<>>) = q
      /\ \A q : \A d \in Char : ReadChars(q, <<d>>) = ReadChar(q, d)
      /\ \A q : \A d, e \in Char : ReadChars(q, <<d, e>>) = ReadChar(ReadChar(q, d), e)
  BY ReadNothing, ReadOne, ReadTwo
<1> HIDE DEF v
<1>4. CASE r = ReadAt(B, u, TRUE, FALSE) /\ s = u
  <2>1. CASE c \in {"x", " ", "tab"}
    <3> DEFINE d == IF c = "tab" THEN " " ELSE c
    <3>1. d \in Char /\ d # Quote /\ d # Backslash /\ d \in Sym /\ a2c_repl(c) = <<d>> /\ SeenOne(c) = <<d>>
      BY <1>1, <2>1, CharFacts
    <3> HIDE DEF d
    <3>2. n = ReadChar(r, d) /\ t = Append(u, d)
      BY <1>2, <1>3, <1>4, <3>1
    <3>3. ReadChar(r, d) = ReadAt(B, Append(u, d), TRUE, FALSE)
      BY <1>4, <3>1, ReadQuoted
    <3> HIDE DEF n, t
    <3>4. Between(B, n, t)
      BY <1>2, <3>1, <3>2, <3>3 DEF Between
    <3> QED BY <3>4 DEF n, t
  <2>2. CASE c = "cr"
    <3>1. a2c_repl(c) = <<>> /\ SeenOne(c) = <<>>
      BY <2>2, CharFacts
    <3>2. n = r /\ t = u
      BY <1>2, <1>3, <1>4, <3>1
    <3> HIDE DEF n, t
    <3>4. Between(B, n, t)
      BY <1>4, <3>2 DEF Between
    <3> QED BY <3>4 DEF n, t
  <2>3. CASE c = Quote \/ (c = Backslash /\ dirsep # Backslash)
    <3>1. a2c_repl(c) = <<Backslash, c>> /\ SeenOne(c) = <<c>>
      BY <2>3, CharFacts
    <3>2. n = ReadChar(ReadChar(r, Backslash), c) /\ t = Append(u, c)
      <4>1. ReadChars(r, <<Backslash, c>>) = ReadChar(ReadChar(r, Backslash), c)
        BY <1>1, ReadTwo
      <4>2. s \o <<c>> = Append(u, c)
        BY <1>1, <1>2, <1>4
      <4> QED BY <3>1, <4>1, <4>2, Zenon
    <3>3. ReadChar(r, Backslash) = ReadAt(B, u, TRUE, TRUE)
      BY <1>1, <1>4, ReadQuoted
    <3>4. ReadChar(ReadAt(B, u, TRUE, TRUE), c) = ReadAt(B, Append(u, c), TRUE, FALSE)
      BY <1>1, <2>3, ReadEscaped
    <3> HIDE DEF n, t
    <3>5. Between(B, n, t)
      BY <1>1, <1>2, <3>2, <3>3, <3>4 DEF Between
    <3> QED BY <3>5 DEF n, t
  <2>4. CASE c = Backslash /\ dirsep = Backslash
    <3>1. a2c_repl(c) = <<Backslash>> /\ SeenOne(c) = <<Backslash>>
      BY <2>4, CharFacts
    <3>2. n = ReadChar(r, Backslash) /\ t = Append(u, Backslash)
      BY <1>1, <1>2, <1>3, <1>4, <3>1
    <3>3. ReadChar(r, Backslash) = ReadAt(B, u, TRUE, TRUE)
      BY <1>1, <1>4, ReadQuoted
    <3> HIDE DEF n, t
    <3>5. Between(B, n, t)
      BY <2>4, <3>2, <3>3 DEF Between
    <3> QED BY <3>5 DEF n, t
  <2> QED
    BY <2>1, <2>2, <2>3, <2>4, CharFacts
<1>5. CASE dirsep = Backslash /\ r = ReadAt(B, u, TRUE, TRUE) /\ s = v
  <2>1. CASE c \in {"x", " ", "tab"}
    <3> DEFINE d == IF c = "tab" THEN " " ELSE c
    <3>1. d \in Char /\ d # Quote /\ d # Backslash /\ d \in Sym /\ a2c_repl(c) = <<d>> /\ SeenOne(c) = <<d>>
      BY <1>1, <2>1, CharFacts
    <3> HIDE DEF d
    <3>2. n = ReadChar(r, d) /\ t = Append(v, d)
      BY <1>2, <1>3, <1>5, <3>1
    <3>3. ReadChar(r, d) = ReadAt(B, Append(v, d), TRUE, FALSE)
      BY <1>5, <3>1, ReadEscaped DEF v
    <3> HIDE DEF n, t
    <3>4. Between(B, n, t)
      BY <1>2, <3>1, <3>2, <3>3 DEF Between
    <3> QED BY <3>4 DEF n, t
  <2>2. CASE c = "cr"
    <3>1. a2c_repl(c) = <<>> /\ SeenOne(c) = <<>>
      BY <2>2, CharFacts
    <3>2. n = r /\ t = v
      BY <1>2, <1>3, <1>5, <3>1
    <3> HIDE DEF n, t
    <3>4. Between(B, n, t)
      BY <1>5, <3>2 DEF Between, v
    <3> QED BY <3>4 DEF n, t
  <2>3. CASE c = Quote
    <3>1. a2c_repl(c) = <<Backslash, c>> /\ SeenOne(c) = <<c>>
      BY <2>3, CharFacts
    <3>2. n = ReadChar(ReadChar(r, Backslash), c) /\ t = Append(v, c)
      <4>1. ReadChars(r, <<Backslash, c>>) = ReadChar(ReadChar(r, Backslash), c)
        BY <1>1, ReadTwo
      <4>2. s \o <<c>> = Append(v, c)
        BY <1>1, <1>2, <1>5
      <4> QED BY <3>1, <4>1, <4>2, Zenon
    <3>3. ReadChar(r, Backslash) = ReadAt(B, v, TRUE, TRUE)
      BY <1>1, <1>5, ReadEscaped DEF v
    <3>4. ReadChar(ReadAt(B, v, TRUE, TRUE), c) = ReadAt(B, Append(v, c), TRUE, FALSE)
      BY <1>1, <1>2, <2>3, ReadEscaped
    <3> HIDE DEF n, t
    <3>5. Between(B, n, t)
      BY <1>1, <1>2, <3>2, <3>3, <3>4 DEF Between
    <3> QED BY <3>5 DEF n, t
  <2>4. CASE c = Backslash
    <3>1. a2c_repl(c) = <<Backslash>> /\ SeenOne(c) = <<Backslash>>
      BY <1>5, <2>4, CharFacts
    <3>2. n = ReadChar(r, Backslash) /\ t = Append(v, Backslash)
      BY <1>1, <1>2, <1>3, <1>5, <3>1
    <3>3. ReadChar(r, Backslash) = ReadAt(B, v, TRUE, TRUE)
      BY <1>1, <1>5, ReadEscaped DEF v
    <3> HIDE DEF n, t
    <3>5. Between(B, n, t)
      BY <1>2, <1>5, <3>2, <3>3 DEF Between
    <3> QED BY <3>5 DEF n, t
  <2> QED
    BY <2>1, <2>2, <2>3, <2>4, CharFacts
<1> QED
  BY <1>0, <1>4, <1>5 DEF v

\* What gsub and Seen make of a string are strings.
LEMMA TextIn == ASSUME NEW a \in Seq(Char) PROVE gsub(a) \in Seq(Char) /\ Seen(a) \in Seq(Char)
<1> DEFINE N == Len(a)
           ga == [i \in DOMAIN a |-> a2c_repl(a[i])]
           sa == [i \in DOMAIN a |-> SeenOne(a[i])]
<1>0. \A x \in Char : a2c_repl(x) \in Seq(Char) /\ SeenOne(x) \in Seq(Char)
  BY CharFacts
<1>1. N \in Nat /\ DOMAIN a = 1..N /\ \A i \in 1..N : a[i] \in Char
  OBVIOUS
<1> HIDE DEF N
<1>2. ga \in [1..N -> Seq(Char)] /\ sa \in [1..N -> Seq(Char)]
  BY <1>0, <1>1
<1>3. gsub(a) = FlattenSeq(ga) /\ Seen(a) = FlattenSeq(sa)
  BY DEF gsub, Seen, SeenOne
<1> HIDE DEF ga, sa
<1>4. ga \in Seq(Seq(Char)) /\ sa \in Seq(Seq(Char)) /\ 0 \in 0..Len(ga) /\ 0 \in 0..Len(sa)
  BY <1>1, <1>2
<1> QED
  BY <1>3, <1>4, FlattenSplit

\* They make nothing of nothing.
LEMMA TextEmpty == gsub(<<>>) = <<>> /\ Seen(<<>>) = <<>>
<1>1. [i \in DOMAIN <<>> |-> a2c_repl((<<>>)[i])] = <<>>
  OBVIOUS
<1>2. [i \in DOMAIN <<>> |-> IF (<<>>)[i] = "cr" THEN <<>> ELSE IF (<<>>)[i] = "tab" THEN <<" ">> ELSE <<(<<>>)[i]>>] = <<>>
  OBVIOUS
<1> QED
  BY <1>1, <1>2, FlattenEmpty DEF gsub, Seen

\* A string written between quotes.
LEMMA BetweenRun ==
    ASSUME NEW B \in Seq(Seq(Sym)), NEW a \in Seq(Char)
    PROVE  Between(B, ReadChars(ReadAt(B, <<>>, TRUE, FALSE), gsub(a)), Seen(a))
<1> DEFINE r == ReadAt(B, <<>>, TRUE, FALSE)
           A(m) == SubSeq(a, 1, m)
           T == {m \in Nat : m <= Len(a) => Between(B, ReadChars(r, gsub(A(m))), Seen(A(m)))}
<1>0. /\ Len(a) \in Nat /\ A(0) = <<>> /\ A(Len(a)) = a
      /\ \A m \in Nat : m + 1 <= Len(a) => A(m) \in Seq(Char) /\ a[m + 1] \in Char /\ A(m + 1) = Append(A(m), a[m + 1])
  BY FirstOnes
<1> HIDE DEF A, r
<1>1. 0 \in T
  <2>1. ReadChars(r, gsub(A(0))) = r /\ Seen(A(0)) = <<>>
    BY <1>0, TextEmpty, ReadNothing
  <2>2. <<>> \in Seq(Sym)
    OBVIOUS
  <2>3. Between(B, r, <<>>)
    BY <2>2, Zenon DEF Between, r
  <2> QED BY <2>1, <2>3
<1>2. ASSUME NEW m \in Nat, m \in T PROVE m + 1 \in T
  <2> SUFFICES ASSUME m + 1 <= Len(a) PROVE Between(B, ReadChars(r, gsub(A(m + 1))), Seen(A(m + 1)))
    OBVIOUS
  <2> DEFINE p == A(m)
             c == a[m + 1]
             g == gsub(p)
             h == a2c_repl(c)
  <2>1. p \in Seq(Char) /\ c \in Char /\ A(m + 1) = Append(p, c)
    BY <1>0
  <2>2. Between(B, ReadChars(r, g), Seen(p))
    BY <1>0, <1>2
  <2> HIDE DEF p, c, T
  <2>3. g \in Seq(Char) /\ h \in Seq(Char)
    BY <2>1, TextIn, CharFacts
  <2>4. Between(B, ReadChars(ReadChars(r, g), h), Seen(p) \o SeenOne(c))
    BY <2>1, <2>2, BetweenStep
  <2>5. gsub(Append(p, c)) = g \o h /\ Seen(Append(p, c)) = Seen(p) \o SeenOne(c)
    BY <2>1, TextAppend
  <2> HIDE DEF g, h
  <2>6. ReadChars(r, g \o h) = ReadChars(ReadChars(r, g), h)
    BY <2>3, ReadConcat
  <2> QED BY <2>1, <2>4, <2>5, <2>6
<1>3. Len(a) \in T
  <2> HIDE DEF T
  <2> QED BY <1>0, <1>1, <1>2, Induction
<1> QED
  <2>1. Between(B, ReadChars(r, gsub(a)), Seen(a))
    BY <1>0, <1>3
  <2> QED BY <2>1, Zenon DEF r

\* A string written without quotes.
LEMMA PlainRun ==
    ASSUME NEW B \in Seq(Seq(Sym)), NEW a \in Seq(Char), Range(a) \cap a2c_pattern = {}
    PROVE  ReadChars(ReadAt(B, <<>>, FALSE, FALSE), a) = ReadAt(B, a, FALSE, FALSE) /\ Seen(a) = a
<1> DEFINE R(w) == ReadAt(B, w, FALSE, FALSE)
           r == R(<<>>)
           A(m) == SubSeq(a, 1, m)
           T == {m \in Nat : m <= Len(a) => ReadChars(r, A(m)) = R(A(m)) /\ Seen(A(m)) = A(m)}
<1>0. /\ Len(a) \in Nat /\ A(0) = <<>> /\ A(Len(a)) = a
      /\ \A m \in Nat : m + 1 <= Len(a) => A(m) \in Seq(Char) /\ a[m + 1] \in Char /\ A(m + 1) = Append(A(m), a[m + 1])
  BY FirstOnes
<1>a. \A m \in Nat : m + 1 <= Len(a) => a[m + 1] \notin a2c_pattern
  <2>1. \A m \in Nat : m + 1 <= Len(a) => m + 1 \in DOMAIN a
    OBVIOUS
  <2> QED BY <2>1 DEF Range
<1> HIDE DEF A, R, r
<1>1. 0 \in T
  BY <1>0, TextEmpty, ReadNothing DEF r
<1>2. ASSUME NEW m \in Nat, m \in T PROVE m + 1 \in T
  <2> SUFFICES ASSUME m + 1 <= Len(a)
               PROVE  ReadChars(r, A(m + 1)) = R(A(m + 1)) /\ Seen(A(m + 1)) = A(m + 1)
    OBVIOUS
  <2> DEFINE p == A(m)
             c == a[m + 1]
  <2>1. p \in Seq(Char) /\ c \in Char /\ A(m + 1) = Append(p, c) /\ c \notin a2c_pattern
    BY <1>0, <1>a
  <2>2. ReadChars(r, p) = R(p) /\ Seen(p) = p
    BY <1>0, <1>2
  <2> HIDE DEF p, c, T
  <2>3. c \in Sym /\ c # Quote /\ c # " " /\ SeenOne(c) = <<c>>
    BY <2>1 DEF a2c_pattern, White, Char, Sym, SeenOne, Quote, Backslash
  <2>4. p \in Seq(Sym)
    <3>1. \A x \in Char : x \in Sym
      BY DEF Sym
    <3> QED BY <2>1, <3>1
  <2>5. ReadChar(R(p), c) = R(Append(p, c))
    BY <2>3, <2>4, ReadUnquoted DEF R
  <2>6. ReadChars(r, Append(p, c)) = ReadChar(ReadChars(r, p), c)
    BY <2>1, ReadAppend
  <2>7. Seen(Append(p, c)) = Seen(p) \o SeenOne(c)
    BY <2>1, TextAppend
  <2>8. p \o <<c>> = Append(p, c)
    BY <2>1, Ends
  <2> QED BY <2>1, <2>2, <2>3, <2>5, <2>6, <2>7, <2>8
<1>3. Len(a) \in T
  <2> HIDE DEF T
  <2> QED BY <1>0, <1>1, <1>2, Induction
<1> QED
  <2>1. ReadChars(r, a) = R(a) /\ Seen(a) = a
    BY <1>0, <1>3
  <2> QED BY <2>1, Zenon DEF R, r

\* An argument of a key is read back.
LEMMA ArgRead ==
    ASSUME NEW B \in Seq(Seq(Sym)), NEW a \in Seq(Char), ~Doubtful(a)
    PROVE  ReadChars(ReadAt(B, <<>>, FALSE, FALSE), arg(a)) = ReadAt(B, Seen(a), FALSE, FALSE) /\ arg(a) \in Seq(Char)
<1> DEFINE g == gsub(a)
           r == ReadAt(B, <<>>, FALSE, FALSE)
           q == <<Quote>>
<1>1. CASE Range(a) \cap a2c_pattern = {}
  BY <1>1, PlainRun DEF arg
<1>2. CASE Range(a) \cap a2c_pattern # {}
  <2>0. g \in Seq(Char) /\ Quote \in Char /\ Quote \in Sym /\ q \in Seq(Char) /\ arg(a) = (q \o g) \o q
    <3>1. Quote \in Char /\ Quote \in Sym
      BY DEF Char, Sym
    <3>2. arg(a) = <<Quote>> \o g \o <<Quote>>
      BY <1>2 DEF arg
    <3> QED BY <3>1, <3>2, TextIn
  <2>1. Between(B, ReadChars(ReadAt(B, <<>>, TRUE, FALSE), g), Seen(a))
    BY BetweenRun
  <2>2. ReadChars(r, q) = ReadAt(B, <<>>, TRUE, FALSE)
    <3>1. ReadChars(r, q) = ReadChar(r, Quote)
      BY <2>0, ReadOne
    <3>2. <<>> \in Seq(Sym)
      OBVIOUS
    <3>3. ReadChar(r, Quote) = ReadAt(B, <<>>, TRUE, FALSE)
      BY <2>0, <3>2, ReadUnquoted
    <3> QED BY <3>1, <3>3
  <2> HIDE DEF g, r
  <2>3. PICK u \in Seq(Sym) : \/ ReadChars(ReadAt(B, <<>>, TRUE, FALSE), g) = ReadAt(B, u, TRUE, FALSE) /\ Seen(a) = u
                              \/ /\ dirsep = Backslash /\ ReadChars(ReadAt(B, <<>>, TRUE, FALSE), g) = ReadAt(B, u, TRUE, TRUE)
                                 /\ Seen(a) = Append(u, Backslash)
    BY <2>1 DEF Between
  <2>4. ReadChars(ReadAt(B, <<>>, TRUE, FALSE), g) = ReadAt(B, u, TRUE, FALSE) /\ Seen(a) = u
    <3> SUFFICES ASSUME dirsep = Backslash, Seen(a) = Append(u, Backslash) PROVE FALSE
      BY <2>3
    <3>1. Backslash \in Sym
      BY DEF Sym, Char
    <3>2. Append(u, Backslash) # <<>> /\ Last(Append(u, Backslash)) = Backslash
      BY <3>1 DEF Last
    <3> QED BY <1>2, <3>2 DEF Doubtful
  <2>5. ReadChars(ReadAt(B, u, TRUE, FALSE), q) = ReadAt(B, u, FALSE, FALSE)
    <3>1. ReadChars(ReadAt(B, u, TRUE, FALSE), q) = ReadChar(ReadAt(B, u, TRUE, FALSE), Quote)
      BY <2>0, ReadOne
    <3> QED BY <2>0, <3>1, ReadQuoted
  <2> HIDE DEF q
  <2>6. q \o g \in Seq(Char) /\ (q \o g) \o q \in Seq(Char)
    BY <2>0
  <2>7. ReadChars(r, (q \o g) \o q) = ReadChars(ReadChars(r, q \o g), q)
    <3> DEFINE t == q \o g
    <3>1. t \in Seq(Char)
      BY <2>6
    <3> HIDE DEF t
    <3>2. ReadChars(r, t \o q) = ReadChars(ReadChars(r, t), q)
      BY <2>0, <3>1, ReadConcat
    <3> QED BY <3>2 DEF t
  <2>8. ReadChars(r, q \o g) = ReadChars(ReadChars(r, q), g)
    BY <2>0, ReadConcat
  <2>9. ReadChars(r, arg(a)) = ReadAt(B, Seen(a), FALSE, FALSE)
    BY <2>0, <2>2, <2>4, <2>5, <2>7, <2>8
  <2> QED BY <2>0, <2>6, <2>9 DEF r
<1> QED
  BY <1>1, <1>2

-----------------------------------------------------------------------------
\* A string is one of the characters a key may have.
LEMMA CharsAreSyms == \A a \in Seq(Char) : a \in Seq(Sym)
<1>1. \A x \in Char : x \in Sym
  BY DEF Sym
<1> QED
  BY <1>1

\* An argument and the space after it.
LEMMA PieceRead ==
    ASSUME NEW B \in Seq(Seq(Sym)), NEW a \in Seq(Char), ~Doubtful(a)
    PROVE  /\ Append(arg(a), " ") \in Seq(Char)
           /\ ReadChars(ReadAt(B, <<>>, FALSE, FALSE), Append(arg(a), " ")) = ReadAt(Append(B, Seen(a)), <<>>, FALSE, FALSE)
<1> DEFINE r == ReadAt(B, <<>>, FALSE, FALSE)
           g == arg(a)
<1>1. ReadChars(r, g) = ReadAt(B, Seen(a), FALSE, FALSE)
  BY ArgRead
<1>a. g \in Seq(Char)
  BY ArgRead
<1>2. " " \in Char /\ " " \in Sym /\ Seen(a) \in Seq(Sym)
  <2>1. Seen(a) \in Seq(Char)
    BY TextIn
  <2> QED BY <2>1, CharsAreSyms DEF Char, White, Sym
<1> HIDE DEF g, r
<1>3. ReadChars(r, Append(g, " ")) = ReadChar(ReadChars(r, g), " ")
  <2>1. \A c \in Char : ReadChars(r, Append(g, c)) = ReadChar(ReadChars(r, g), c)
    BY <1>a, ReadAppend
  <2> QED BY <1>2, <2>1, Zenon
<1>4. ReadChar(ReadAt(B, Seen(a), FALSE, FALSE), " ") = ReadAt(Append(B, Seen(a)), <<>>, FALSE, FALSE)
  BY <1>2, ReadUnquoted
<1>5. Append(g, " ") \in Seq(Char)
  BY <1>a, <1>2, AppendIn
<1> QED
  BY <1>1, <1>3, <1>4, <1>5, Zenon DEF g, r

\* The arguments of a program, written after what the reader has in B.
Pieces(v) == [i \in DOMAIN v |-> IF i < Len(v) THEN Append(arg(v[i]), " ") ELSE arg(v[i])]

\* The reader gets back the arguments written after each other.
LEMMA ArgumentsRead ==
    ASSUME NEW B \in Seq(Seq(Sym)), NEW v \in Seq(Seq(Char)), Len(v) >= 1,
           \A i \in DOMAIN v : ~Doubtful(v[i])
    PROVE  /\ FlattenSeq(Pieces(v)) \in Seq(Char)
           /\ ReadChars(ReadAt(B, <<>>, FALSE, FALSE), FlattenSeq(Pieces(v))).args = B \o SeenAll(v)
<1> DEFINE N == Len(v)
           ps == Pieces(v)
           R(C) == ReadAt(C, <<>>, FALSE, FALSE)
           r == R(B)
           A(m) == SubSeq(ps, 1, m)
           S(m) == [i \in 1..m |-> Seen(v[i])]
           T == {m \in Nat : m < N => ReadChars(r, FlattenSeq(A(m))) = R(B \o S(m))}
<1>0. N \in Nat /\ N >= 1 /\ N = Len(v) /\ DOMAIN v = 1..N /\ \A i \in 1..N : v[i] \in Seq(Char) /\ ~Doubtful(v[i])
  OBVIOUS
<1>1. /\ \A i \in 1..N : arg(v[i]) \in Seq(Char) /\ Append(arg(v[i]), " ") \in Seq(Char)
      /\ \A i \in 1..N : Seen(v[i]) \in Seq(Sym)
  <2>1. <<>> \in Seq(Seq(Sym))
    OBVIOUS
  <2>2. \A i \in 1..N : Seen(v[i]) \in Seq(Char)
    BY <1>0, TextIn
  <2>3. \A i \in 1..N : arg(v[i]) \in Seq(Char)
    BY <2>1, <1>0, ArgRead
  <2>4. \A i \in 1..N : Append(arg(v[i]), " ") \in Seq(Char)
    BY <2>1, <1>0, PieceRead
  <2> QED BY <2>2, <2>3, <2>4, CharsAreSyms
<1> HIDE DEF N
<1>2. /\ ps \in [1..N -> Seq(Char)] /\ ps[N] = arg(v[N])
      /\ \A i \in 1..N : i < N => ps[i] = Append(arg(v[i]), " ")
  <2> DEFINE P(i) == IF i < N THEN Append(arg(v[i]), " ") ELSE arg(v[i])
  <2>1. ps = [i \in 1..N |-> P(i)]
    <3>1. ps = [i \in DOMAIN v |-> P(i)]
      BY <1>0, Zenon DEF Pieces
    <3> HIDE DEF P, ps
    <3> QED BY <1>0, <3>1
  <2>2. P(N) = arg(v[N]) /\ \A i \in 1..N : i < N => P(i) = Append(arg(v[i]), " ")
    <3>1. ~(N < N)
      BY <1>0
    <3> QED BY <3>1, Zenon
  <2>3. \A i \in 1..N : P(i) \in Seq(Char)
    BY <1>1
  <2>4. N \in 1..N
    BY <1>0
  <2> HIDE DEF P, ps
  <2> QED BY <2>1, <2>2, <2>3, <2>4
<1> HIDE DEF ps
<1>3. ps \in Seq(Seq(Char)) /\ Len(ps) = N
  <2>1. ps \in [1..N -> Seq(Char)] /\ N \in Nat
    BY <1>0, <1>2
  <2> QED BY <2>1
<1>4. /\ A(0) = <<>> /\ A(N) = ps
      /\ \A m \in Nat : m + 1 <= N => A(m) \in Seq(Seq(Char)) /\ ps[m + 1] \in Seq(Char) /\ A(m + 1) = Append(A(m), ps[m + 1])
  <2> DEFINE W == Seq(Char)
  <2>1. ps \in Seq(W)
    BY <1>3
  <2> HIDE DEF W
  <2>2. /\ A(0) = <<>> /\ A(N) = ps
        /\ \A m \in Nat : m + 1 <= N => A(m) \in Seq(W) /\ ps[m + 1] \in W /\ A(m + 1) = Append(A(m), ps[m + 1])
    BY <1>3, <2>1, FirstOnes
  <2> QED BY <2>2 DEF W
<1>5. ASSUME NEW m \in Nat, m + 1 <= N
      PROVE  /\ FlattenSeq(A(m)) \in Seq(Char)
             /\ FlattenSeq(A(m + 1)) = FlattenSeq(A(m)) \o ps[m + 1]
  <2> DEFINE p == A(m)
             x == ps[m + 1]
  <2>1. p \in Seq(Seq(Char)) /\ x \in Seq(Char) /\ A(m + 1) = Append(p, x)
    BY <1>4, <1>5
  <2> HIDE DEF p, x, A
  <2>2. FlattenSeq(p) \in Seq(Char) /\ FlattenSeq(Append(p, x)) = FlattenSeq(p) \o x
    BY <2>1, JoinedIn, FlattenAppend
  <2> QED BY <2>1, <2>2 DEF p, x
<1>6. ASSUME NEW m \in Nat, m <= N
      PROVE  S(m) \in Seq(Seq(Sym)) /\ Len(S(m)) = m /\ B \o S(m) \in Seq(Seq(Sym))
  <2> DEFINE f == S(m)
             W == Seq(Sym)
  <2>1. f \in [1..m -> W] /\ B \in Seq(W)
    <3>1. \A i \in 1..m : i \in 1..N
      BY <1>0, <1>6
    <3> QED BY <3>1, <1>1
  <2> HIDE DEF f, W
  <2>2. f \in Seq(W) /\ Len(f) = m
    BY <2>1
  <2>3. B \o f \in Seq(W)
    BY <2>1, <2>2
  <2> QED BY <2>2, <2>3 DEF f, W
<1>7. ASSUME NEW m \in Nat, m + 1 <= N
      PROVE  B \o S(m + 1) = Append(B \o S(m), Seen(v[m + 1]))
  <2> DEFINE f == S(m)
             g == S(m + 1)
             x == Seen(v[m + 1])
             W == Seq(Sym)
  <2>0. m <= N /\ m + 1 \in Nat /\ m + 1 \in 1..N
    BY <1>0, <1>7
  <2>1. f \in Seq(W) /\ Len(f) = m /\ g \in Seq(W) /\ Len(g) = m + 1 /\ x \in W /\ B \in Seq(W)
    BY <2>0, <1>1, <1>6, <1>7
  <2>2. g[m + 1] = x /\ \A i \in 1..m : g[i] = f[i]
    BY <2>0
  <2> HIDE DEF f, g, x, W
  <2>3. g = Append(f, x)
    BY <2>1, <2>2, AppendEqual
  <2>4. B \o Append(f, x) = Append(B \o f, x)
    BY <2>1
  <2> QED BY <2>3, <2>4 DEF f, g, x
<1>8. B \o S(0) = B
  <2>1. S(0) = <<>>
    OBVIOUS
  <2> HIDE DEF S
  <2> QED BY <2>1
<1> HIDE DEF A, S, R, r
<1>9. 0 \in T
  BY <1>4, <1>8, FlattenEmpty, ReadNothing DEF r
<1>10. ASSUME NEW m \in Nat, m \in T PROVE m + 1 \in T
  <2> SUFFICES ASSUME m + 1 < N PROVE ReadChars(r, FlattenSeq(A(m + 1))) = R(B \o S(m + 1))
    OBVIOUS
  <2> DEFINE h == FlattenSeq(A(m))
             x == ps[m + 1]
             C == B \o S(m)
             a == v[m + 1]
  <2>1. m + 1 <= N /\ m < N /\ m <= N /\ m + 1 \in 1..N
    BY <1>0
  <2>2. ReadChars(r, h) = R(C)
    BY <1>10, <2>1
  <2>3. h \in Seq(Char) /\ FlattenSeq(A(m + 1)) = h \o x /\ x = Append(arg(a), " ") /\ x \in Seq(Char)
    BY <1>1, <1>2, <1>5, <2>1
  <2>4. C \in Seq(Seq(Sym)) /\ B \o S(m + 1) = Append(C, Seen(a)) /\ a \in Seq(Char) /\ ~Doubtful(a)
    BY <1>0, <1>6, <1>7, <2>1
  <2> HIDE DEF h, x, C, a, T
  <2>5. ReadChars(r, h \o x) = ReadChars(ReadChars(r, h), x)
    <3>1. h \in Seq(Char) /\ x \in Seq(Char)
      BY <2>3
    <3> QED BY <3>1, ReadConcat
  <2>6. ReadChars(R(C), x) = R(Append(C, Seen(a)))
    <3>1. ReadChars(ReadAt(C, <<>>, FALSE, FALSE), Append(arg(a), " ")) = ReadAt(Append(C, Seen(a)), <<>>, FALSE, FALSE)
      BY <2>4, PieceRead
    <3> QED BY <2>3, <3>1, Zenon DEF R
  <2> QED BY <2>2, <2>3, <2>4, <2>5, <2>6
<1>11. N - 1 \in T
  <2>1. N - 1 \in Nat
    BY <1>0
  <2> HIDE DEF T
  <2> QED BY <2>1, <1>9, <1>10, Induction
<1>12. PICK m \in Nat : N = m + 1 /\ ReadChars(r, FlattenSeq(A(m))) = R(B \o S(m))
  <2>1. N - 1 \in Nat /\ N = (N - 1) + 1 /\ N - 1 < N
    BY <1>0
  <2> QED BY <1>11, <2>1
<1> DEFINE h == FlattenSeq(A(m))
           C == B \o S(m)
           a == v[N]
<1>13. /\ h \in Seq(Char) /\ FlattenSeq(ps) = h \o arg(a) /\ arg(a) \in Seq(Char)
       /\ C \in Seq(Seq(Sym)) /\ a \in Seq(Char) /\ ~Doubtful(a)
       /\ B \o S(N) = Append(C, Seen(a))
  <2>1. m + 1 <= N /\ m <= N /\ N \in 1..N /\ m + 1 = N
    BY <1>0, <1>12
  <2>2. FlattenSeq(A(m)) \in Seq(Char) /\ FlattenSeq(A(m + 1)) = FlattenSeq(A(m)) \o ps[m + 1]
    BY <1>5, <2>1
  <2>3. B \o S(m + 1) = Append(C, Seen(v[m + 1])) /\ C \in Seq(Seq(Sym))
    BY <1>6, <1>7, <2>1
  <2> QED BY <1>0, <1>1, <1>2, <1>4, <2>1, <2>2, <2>3
<1>14. S(N) = SeenAll(v)
  BY <1>0 DEF S, SeenAll
<1>15. ReadChars(r, h) = R(C)
  BY <1>12
<1> HIDE DEF h, C, a
<1>16. ReadChars(r, h \o arg(a)) = ReadChars(ReadChars(r, h), arg(a))
  <2> DEFINE x == arg(a)
  <2>1. x \in Seq(Char)
    BY <1>13
  <2> HIDE DEF x
  <2>2. ReadChars(r, h \o x) = ReadChars(ReadChars(r, h), x)
    BY <1>13, <2>1, ReadConcat
  <2> QED BY <2>2 DEF x
<1>17. ReadChars(R(C), arg(a)) = ReadAt(C, Seen(a), FALSE, FALSE)
  <2>1. ReadChars(ReadAt(C, <<>>, FALSE, FALSE), arg(a)) = ReadAt(C, Seen(a), FALSE, FALSE)
    BY <1>13, ArgRead
  <2> QED BY <2>1, Zenon DEF R
<1>18. ReadAt(C, Seen(a), FALSE, FALSE).args = Append(C, Seen(a))
  BY DEF ReadAt, Reader
<1>19. ReadChars(r, FlattenSeq(ps)).args = B \o SeenAll(v)
  <2>1. ReadChars(r, FlattenSeq(ps)) = ReadAt(C, Seen(a), FALSE, FALSE)
    BY <1>13, <1>15, <1>16, <1>17, Zenon
  <2> QED BY <1>13, <1>14, <1>18, <2>1, Zenon
<1>20. FlattenSeq(ps) \in Seq(Char)
  BY <1>3, JoinedIn
<1> QED
  BY <1>19, <1>20, Zenon DEF r, R, ps

-----------------------------------------------------------------------------
(* The directory, and the theorem. *)

\* A string that ends in another character than a backslash is told apart.
LEMMA NotDoubtful ==
    ASSUME NEW a \in Seq(Char), NEW c \in Char, c # Backslash, SeenOne(c) = <<c>>
    PROVE  Append(a, c) \in Seq(Char) /\ ~Doubtful(Append(a, c))
<1>1. Seen(Append(a, c)) = Seen(a) \o SeenOne(c)
  BY TextAppend
<1>2. Seen(a) \in Seq(Char)
  BY TextIn
<1>3. Seen(Append(a, c)) = Append(Seen(a), c)
  BY <1>1, <1>2, Ends
<1>4. Last(Append(Seen(a), c)) = c
  BY <1>2, LastIs
<1>5. Append(a, c) \in Seq(Char)
  BY AppendIn
<1> QED
  BY <1>3, <1>4, <1>5, Zenon DEF Doubtful

\* The directories are told apart.
LEMMA DirsTold ==
    /\ <<"x">> \in Seq(Char) /\ ~Doubtful(<<"x">>)
    /\ <<" ", "x">> \in Seq(Char) /\ ~Doubtful(<<" ", "x">>)
<1> DEFINE e == <<>>
           f == <<" ">>
<1>1. "x" \in Char /\ " " \in Char /\ "x" # Backslash
  BY DEF Char, White, Backslash
<1>2. SeenOne("x") = <<"x">>
  BY <1>1, CharFacts
<1>3. e \in Seq(Char) /\ f \in Seq(Char)
  BY <1>1, SmallSeqs
<1>4. e = <<>> /\ f = <<" ">>
  OBVIOUS
<1> HIDE DEF e, f
<1>5. Append(e, "x") = <<"x">> /\ Append(f, "x") = <<" ", "x">>
  BY <1>1, <1>4, OneMore, Zenon
<1>6. Append(e, "x") \in Seq(Char) /\ ~Doubtful(Append(e, "x")) /\ Append(f, "x") \in Seq(Char) /\ ~Doubtful(Append(f, "x"))
  BY <1>1, <1>2, <1>3, NotDoubtful, Zenon
<1> QED
  BY <1>5, <1>6, Zenon

\* The directory is read back as well.
LEMMA DirRead ==
    ASSUME NEW d \in Seq(Char), ~Doubtful(d)
    PROVE  LET s == <<"cd", " ">> \o arg(d) \o <<" ", "&&", " ">>
               B == <<<<"cd">>, Seen(d), <<"&&">>>>
           IN  /\ s \in Seq(Sym) /\ B \in Seq(Seq(Sym))
               /\ ReadChars(ReadAt(<<>>, <<>>, FALSE, FALSE), s) = ReadAt(B, <<>>, FALSE, FALSE)
<1> DEFINE R(C, w) == ReadAt(C, w, FALSE, FALSE)
           W == Seq(Sym)
           e == <<>>
           x == Seen(d)
           cd == <<"cd">>
           and == <<"&&">>
           s1 == <<"cd", " ">>
           g == arg(d)
           s2 == s1 \o g
           t1 == Append(s2, " ")
           t2 == Append(t1, "&&")
           t3 == Append(t2, " ")
           C1 == <<cd>>
           C2 == <<cd, x>>
           C3 == <<cd, x, and>>
           r == R(e, e)
<1>0. /\ "cd" \in Sym /\ " " \in Sym /\ "&&" \in Sym
      /\ "cd" # Quote /\ "cd" # " " /\ "&&" # Quote /\ "&&" # " " /\ " " # Quote
  BY DEF Sym, Char, White, Quote
<1>1. g \in W /\ x \in W
  <2>1. <<>> \in Seq(Seq(Sym))
    OBVIOUS
  <2>2. g \in Seq(Char)
    BY <2>1, ArgRead
  <2>3. x \in Seq(Char)
    BY TextIn
  <2> HIDE DEF g, x
  <2> QED BY <2>2, <2>3, CharsAreSyms
<1>2. e \in W /\ e \in Seq(W) /\ cd \in W /\ and \in W /\ s1 \in W
  BY <1>0, SmallSeqs, Zenon
<1>3. e = <<>> /\ cd = <<"cd">> /\ and = <<"&&">> /\ s1 = <<"cd", " ">> /\ C1 = <<cd>> /\ C2 = <<cd, x>> /\ C3 = <<cd, x, and>>
  OBVIOUS
<1>r. \A B, w : R(B, w) = ReadAt(B, w, FALSE, FALSE)
  BY Zenon
<1>s. /\ s2 = s1 \o g /\ t1 = Append(s2, " ") /\ t2 = Append(t1, "&&") /\ t3 = Append(t2, " ") /\ r = R(e, e)
  OBVIOUS
<1>5. /\ \A B \in Seq(Seq(Sym)), w \in Seq(Sym) : ReadChar(R(B, w), " ") = R(Append(B, w), e)
      /\ \A B \in Seq(Seq(Sym)), w \in Seq(Sym) : ReadChar(R(B, w), "cd") = R(B, Append(w, "cd"))
      /\ \A B \in Seq(Seq(Sym)), w \in Seq(Sym) : ReadChar(R(B, w), "&&") = R(B, Append(w, "&&"))
  BY <1>0, ReadUnquoted
<1> HIDE DEF R, W, e, x, cd, and, s1, g, s2, t1, t2, t3, C1, C2, C3, r
<1>4. /\ Append(e, "cd") = cd /\ Append(e, "&&") = and /\ Append(cd, " ") = s1
      /\ Append(e, cd) = C1 /\ Append(C1, x) = C2 /\ Append(C2, and) = C3
  <2>1. Append(e, "cd") = cd /\ Append(e, "&&") = and /\ Append(cd, " ") = s1
    BY <1>0, <1>3, OneMore, Zenon
  <2>2. \A i, j, k \in W : /\ \A p : p = <<>> => Append(p, i) = <<i>>
                           /\ \A p : p = <<i>> => Append(p, j) = <<i, j>>
                           /\ \A p : p = <<i, j>> => Append(p, k) = <<i, j, k>>
    BY OneMore, Zenon
  <2>3. Append(e, cd) = C1
    BY <1>2, <1>3, <2>2, Zenon
  <2>6. /\ \A p : p = <<cd>> => Append(p, x) = <<cd, x>>
        /\ \A p : p = <<cd, x>> => Append(p, and) = <<cd, x, and>>
    <3>1. cd \in W /\ x \in W /\ and \in W
      BY <1>1, <1>2
    <3>2. \A i, j, k \in W : \A p : p = <<i>> => Append(p, j) = <<i, j>>
      BY <2>2, Zenon
    <3>3. \A i, j, k \in W : \A p : p = <<i, j>> => Append(p, k) = <<i, j, k>>
      BY <2>2, Zenon
    <3>4. \A p : p = <<cd>> => Append(p, x) = <<cd, x>>
      BY <3>1, <3>2, Zenon
    <3>5. \A p : p = <<cd, x>> => Append(p, and) = <<cd, x, and>>
      BY <3>1, <3>3, Zenon
    <3> QED BY <3>4, <3>5, Zenon
  <2>4. Append(C1, x) = C2
    BY <1>3, <2>6, Zenon
  <2>5. Append(C2, and) = C3
    BY <1>3, <2>6, Zenon
  <2> QED BY <2>1, <2>3, <2>4, <2>5, Zenon
<1>a. C1 \in Seq(W) /\ C2 \in Seq(W) /\ C3 \in Seq(W)
  <2>1. C1 \in Seq(W)
    BY <1>1, <1>2, <1>4, AppendIn, Zenon
  <2>2. C2 \in Seq(W)
    BY <2>1, <1>1, <1>2, <1>4, AppendIn, Zenon
  <2>3. C3 \in Seq(W)
    BY <2>2, <1>1, <1>2, <1>4, AppendIn, Zenon
  <2> QED BY <2>1, <2>2, <2>3
<1>b. s2 \in W /\ t1 \in W /\ t2 \in W /\ t3 \in W /\ s2 \o <<" ", "&&", " ">> = t3
  <2>1. s2 \in W
    BY <1>1, <1>2, <1>s, ConcatIn, Zenon DEF W
  <2>2. t1 \in W
    BY <1>0, <2>1, <1>s, AppendIn, Zenon DEF W
  <2>3. t2 \in W
    BY <1>0, <2>2, <1>s, AppendIn, Zenon DEF W
  <2>4. t3 \in W
    BY <1>0, <2>3, <1>s, AppendIn, Zenon DEF W
  <2>5. s2 \o <<" ", "&&", " ">> = Append(Append(Append(s2, " "), "&&"), " ")
    <3>1. \A i, j, k \in Sym : s2 \o <<i, j, k>> = Append(Append(Append(s2, i), j), k)
      BY <2>1, ThreeMore DEF W
    <3> QED BY <1>0, <2>1, <3>1, Zenon DEF W
  <2> QED BY <1>s, <2>1, <2>2, <2>3, <2>4, <2>5, Zenon
<1>c. \A s \in W, c \in Sym : ReadChars(r, Append(s, c)) = ReadChar(ReadChars(r, s), c)
  BY ReadAppend DEF W
<1>6. ReadChars(R(C1, e), g) = R(C1, x)
  <2>1. C1 \in Seq(Seq(Sym))
    BY <1>a DEF W
  <2>2. ReadChars(ReadAt(C1, <<>>, FALSE, FALSE), arg(d)) = ReadAt(C1, Seen(d), FALSE, FALSE)
    BY <2>1, ArgRead
  <2> QED BY <2>2, <1>r, <1>3, Zenon DEF g, x
<1>7. ReadChars(r, s1) = R(C1, e)
  <2>1. ReadChars(r, cd) = ReadChar(r, "cd")
    BY <1>0, ReadOne DEF cd
  <2>2. ReadChars(r, s1) = ReadChar(ReadChars(r, cd), " ")
    BY <1>0, <1>2, <1>4, <1>c, Zenon
  <2>3. ReadChar(r, "cd") = R(e, cd)
    BY <1>2, <1>s, <1>4, <1>5, Zenon DEF W
  <2>4. ReadChar(R(e, cd), " ") = R(C1, e)
    BY <1>2, <1>4, <1>5, Zenon DEF W
  <2> QED BY <2>1, <2>2, <2>3, <2>4, Zenon
<1>8. ReadChars(r, s2) = R(C1, x)
  <2>1. ReadChars(r, s1 \o g) = ReadChars(ReadChars(r, s1), g)
    BY <1>1, <1>2, ReadConcat DEF W
  <2> QED BY <1>6, <1>7, <1>s, <2>1, Zenon
<1>10. ReadChars(r, t1) = R(C2, e)
  <2>1. ReadChar(R(C1, x), " ") = R(C2, e)
    BY <1>1, <1>a, <1>4, <1>5, Zenon DEF W
  <2>2. s2 \in W /\ " " \in Sym /\ t1 = Append(s2, " ")
    BY <1>0, <1>b, <1>s
  <2>3. ReadChars(r, Append(s2, " ")) = ReadChar(ReadChars(r, s2), " ")
    BY <1>c, <2>2, Zenon
  <2> QED BY <1>8, <2>1, <2>2, <2>3, Zenon
<1>11. ReadChars(r, t2) = R(C2, and)
  <2>1. ReadChar(R(C2, e), "&&") = R(C2, and)
    BY <1>2, <1>a, <1>4, <1>5, Zenon DEF W
  <2>2. t1 \in W /\ "&&" \in Sym /\ t2 = Append(t1, "&&")
    BY <1>0, <1>b, <1>s
  <2>3. ReadChars(r, Append(t1, "&&")) = ReadChar(ReadChars(r, t1), "&&")
    BY <1>c, <2>2, Zenon
  <2> QED BY <1>10, <2>1, <2>2, <2>3, Zenon
<1>12. ReadChars(r, t3) = R(C3, e)
  <2>1. ReadChar(R(C2, and), " ") = R(C3, e)
    BY <1>2, <1>a, <1>4, <1>5, Zenon DEF W
  <2>2. t2 \in W /\ " " \in Sym /\ t3 = Append(t2, " ")
    BY <1>0, <1>b, <1>s
  <2>3. ReadChars(r, Append(t2, " ")) = ReadChar(ReadChars(r, t2), " ")
    BY <1>c, <2>2, Zenon
  <2> QED BY <1>11, <2>1, <2>2, <2>3, Zenon
<1>13. t3 = <<"cd", " ">> \o arg(d) \o <<" ", "&&", " ">>
  BY <1>b, <1>s, Zenon DEF s1, g
<1>14. C3 = <<<<"cd">>, Seen(d), <<"&&">>>>
  BY Zenon DEF C3, cd, x, and
<1>15. R(C3, e) = ReadAt(C3, <<>>, FALSE, FALSE) /\ r = ReadAt(<<>>, <<>>, FALSE, FALSE)
  BY <1>s, <1>r, <1>3, Zenon
<1> QED
  BY <1>a, <1>b, <1>12, <1>13, <1>14, <1>15, Zenon DEF W

\* The arguments are strings, and the directory can be told apart.
CommandOK ==
    /\ argv \in Seq(Seq(Char)) /\ Len(argv) >= 1
    /\ rundir = <<>> \/ \E d \in Seq(Char) : rundir = <<d>> /\ ~Doubtful(d)

\* The key is read back in every state of that kind.
LEMMA KeyRead == CommandOK => KeyTellsApart
<1> SUFFICES ASSUME CommandOK, \A i \in DOMAIN argv : ~Doubtful(argv[i])
             PROVE  ReadKey(argv2cmd) = (IF rundir = <<>> THEN <<>> ELSE <<<<"cd">>, Seen(rundir[1]), <<"&&">>>>) \o SeenAll(argv)
  BY DEF KeyTellsApart
<1> DEFINE X == FlattenSeq(Pieces(argv))
           F(d) == <<"cd", " ">> \o arg(d) \o <<" ", "&&", " ">>
           D == [i \in DOMAIN rundir |-> F(rundir[i])]
           r == ReadAt(<<>>, <<>>, FALSE, FALSE)
           R(C) == ReadAt(C, <<>>, FALSE, FALSE)
<1>1. argv2cmd = FlattenSeq(D) \o X
  BY Zenon DEF argv2cmd, Pieces
<1>2. \A key : ReadKey(key) = ReadChars(r, key).args
  <2>1. Reader(<<<<>>>>, FALSE, FALSE) = r
    <3> DEFINE e == <<>>
    <3>1. Append(e, e) = <<e>>
      OBVIOUS
    <3> HIDE DEF e
    <3>2. Reader(<<e>>, FALSE, FALSE) = ReadAt(e, e, FALSE, FALSE)
      BY <3>1, Zenon DEF ReadAt
    <3> QED BY <3>2, Zenon DEF e
  <2> QED BY <2>1, Zenon DEF ReadKey
<1>3. argv \in Seq(Seq(Char)) /\ Len(argv) >= 1
  BY DEF CommandOK
<1>4. X \in Seq(Char) /\ \A B \in Seq(Seq(Sym)) : ReadChars(R(B), X).args = B \o SeenAll(argv)
  <2>0. <<>> \in Seq(Seq(Sym))
    OBVIOUS
  <2>1. \A B \in Seq(Seq(Sym)) : X \in Seq(Char) /\ ReadChars(R(B), X).args = B \o SeenAll(argv)
    BY <1>3, ArgumentsRead, Zenon
  <2> QED BY <2>0, <2>1, Zenon
<1>5. X \in Seq(Sym)
  BY <1>4, CharsAreSyms, Zenon
<1>6. CASE rundir = <<>>
  <2>1. D = <<>>
    BY <1>6
  <2>2. argv2cmd = X
    <3>1. <<>> \o X = X
      <4> HIDE DEF X
      <4> QED BY <1>5
    <3> QED BY <1>1, <2>1, <3>1, FlattenEmpty, Zenon
  <2>3. <<>> \in Seq(Seq(Sym))
    OBVIOUS
  <2>4. ReadChars(r, X).args = <<>> \o SeenAll(argv)
    BY <1>4, <2>3, Zenon
  <2> QED BY <1>2, <1>6, <2>2, <2>4, Zenon
<1>7. ASSUME NEW d \in Seq(Char), rundir = <<d>>, ~Doubtful(d)
      PROVE  ReadKey(argv2cmd) = (IF rundir = <<>> THEN <<>> ELSE <<<<"cd">>, Seen(rundir[1]), <<"&&">>>>) \o SeenAll(argv)
  <2> DEFINE B == <<<<"cd">>, Seen(d), <<"&&">>>>
             s == F(d)
  <2>1. s \in Seq(Sym) /\ B \in Seq(Seq(Sym)) /\ ReadChars(r, s) = R(B)
    BY <1>7, DirRead, Zenon
  <2>2. D = <<s>>
    <3> HIDE DEF F
    <3> QED BY <1>7
  <2>3. rundir # <<>> /\ rundir[1] = d
    BY <1>7
  <2>4. s \in Seq(Sym)
    BY <2>1
  <2> HIDE DEF s, X, r
  <2>5. FlattenSeq(<<s>>) = s
    BY <2>4, FlattenOne
  <2>6. argv2cmd = s \o X
    BY <1>1, <2>2, <2>5, Zenon
  <2>7. ReadChars(r, s \o X) = ReadChars(ReadChars(r, s), X)
    BY <1>5, <2>4, ReadConcat
  <2>8. ReadChars(R(B), X).args = B \o SeenAll(argv)
    BY <1>4, <2>1, Zenon
  <2>9. ReadKey(argv2cmd) = B \o SeenAll(argv)
    BY <1>2, <2>1, <2>6, <2>7, <2>8, Zenon
  <2> QED BY <2>3, <2>9, Zenon
<1> QED
  BY <1>6, <1>7 DEF CommandOK

\* Whatever arguments a make file gives a program, and wherever it runs, the key
\* of its record in .deps.lua (argv2cmd) tells it apart from the others.
THEOREM KeysTellApart == CommandSpec => []KeyTellsApart
<1>1. CommandInit => CommandOK
  <2> SUFFICES ASSUME CommandInit PROVE CommandOK
    OBVIOUS
  <2>1. argv \in Seq(Seq(Char)) /\ Len(argv) >= 1
    <3>1. argv = <<<<>>>>
      BY Zenon DEF CommandInit
    <3> QED BY <3>1
  <2>2. rundir = <<>> \/ rundir = <<<<"x">>>> \/ rundir = <<<<" ", "x">>>>
    BY Zenon DEF CommandInit
  <2>3. rundir = <<>> \/ \E d \in Seq(Char) : rundir = <<d>> /\ ~Doubtful(d)
    BY <2>2, DirsTold, Zenon
  <2> QED BY <2>1, <2>3, Zenon DEF CommandOK
<1>2. CommandOK /\ [CommandNext]_cmdvars => CommandOK'
  <2> SUFFICES ASSUME CommandOK, [CommandNext]_cmdvars PROVE CommandOK'
    OBVIOUS
  <2>0. dirsep' = dirsep /\ rundir' = rundir
    BY DEF CommandNext, cmdvars
  <2>1. argv \in Seq(Seq(Char)) /\ Len(argv) >= 1
    BY DEF CommandOK
  <2>2. (rundir = <<>> \/ \E d \in Seq(Char) : rundir = <<d>> /\ ~Doubtful(d))'
    <3>1. \A d : Doubtful(d)' <=> Doubtful(d)
      BY <2>0 DEF Doubtful, a2c_pattern
    <3>2. rundir = <<>> \/ \E d \in Seq(Char) : rundir = <<d>> /\ ~Doubtful(d)
      BY DEF CommandOK
    <3> QED BY <2>0, <3>1, <3>2, Zenon
  <2>3. argv' \in Seq(Seq(Char)) /\ Len(argv') >= 1
    <3> DEFINE W == Seq(Char)
               n == Len(argv)
    <3>1. argv \in Seq(W) /\ \A w \in W, c \in Char : Append(w, c) \in W
      BY <2>1, AppendIn
    <3>2. <<>> \in W
      OBVIOUS
    <3> HIDE DEF W
    <3>3. CASE Another
      BY <2>1, <3>1, <3>2, <3>3 DEF Another, W
    <3>4. ASSUME NEW c \in Char, Longer(c) PROVE argv' \in Seq(W) /\ Len(argv') >= 1
      <4>1. n \in Nat /\ n >= 1 /\ argv \in [1..n -> W] /\ argv[n] \in W
        BY <2>1, <3>1, LenProperties
      <4>2. argv' = [argv EXCEPT ![n] = Append(argv[n], c)] /\ Append(argv[n], c) \in W
        BY <3>1, <3>4, <4>1 DEF Longer
      <4> HIDE DEF n
      <4>3. argv' \in [1..n -> W]
        BY <4>1, <4>2
      <4> QED BY <4>1, <4>3
    <3>5. CASE UNCHANGED cmdvars
      BY <2>1, <3>5 DEF cmdvars
    <3> QED BY <3>3, <3>4, <3>5 DEF CommandNext, W
  <2> QED BY <2>2, <2>3, Zenon DEF CommandOK
<1> QED
  BY <1>1, <1>2, KeyRead, PTL DEF CommandSpec
=============================================================================
