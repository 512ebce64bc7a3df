-------------------------------- MODULE Ape ---------------------------------
(***************************************************************************)
(* The binding of the Apache Portable Runtime (ape*.c): Lua objects that    *)
(* stand for pools, files, directories, process attributes, processes and   *)
(* hashes, and what APR keeps behind them.                                 *)
(*                                                                         *)
(* An object points to a native resource, which lies in a pool and goes     *)
(* with it.  The object keeps its pool's object from being collected; the   *)
(* collector finalizes what the program has dropped some time later, the    *)
(* newest first.  A long call (run_collect, path_glob, wait) allocates or   *)
(* waits, so the collector and the child processes run during it.           *)
(***************************************************************************)
EXTENDS Integers, Sequences, FiniteSets

CONSTANT
    Programs       \* what programs do, each with
                   \* uses: some of pools, files, dup, dirs, values, procs, waits, collect
                   \* objects: a bound on Lua objects, with the finalizer and default pool
                   \* natives, kids: bounds on APR resources and child processes

ASSUME ApeAssumption == \A p \in Programs : {p.objects, p.natives, p.kids} \subseteq Nat

VARIABLES
    prog,     \* the program, one of Programs
    objs,     \* objs[i]: the i-th object created: kind, h (its resource, 0: NULL),
              \* pool (its pool's object), refs (all objects it keeps alive), kid and
              \* out of a process, and fin: no, queued or done
    nats,     \* nats[n]: the n-th resource: kind, in (all pools it lies in), live
    pipes,    \* pipes[o]: the resource that process attributes have as the parent's end of
              \* a pipe, and that the processes made with them have then
    held,     \* the objects that Lua variables refer to
    queue,    \* objects whose finalizers are to be called: one set for each time the
              \* collector has looked for them
    kids,     \* children: st (running, exited, reaped), collect, writes, failed; writes: it,
              \* or a process it has left behind, has the pipe of run_collect open
    call,     \* the C function that is running
    apr,      \* apr_initialize has been called, apr_terminate has not
    phase     \* start, running, closing, closed

avars == <<prog, objs, nats, pipes, held, queue, kids, call, apr, phase>>

None == [fn |-> "none", args |-> {}, nat |-> 0, kid |-> 0, among |-> {}]
Finalizer   == 1
DefaultPool == 2
HasGC == {"finalizer", "pool", "file", "dir"}

Object(kind, h, pool, refs) ==
    [kind |-> kind, h |-> h, pool |-> pool, refs |-> refs, kid |-> 0, out |-> 0, fin |-> "no"]
Native(kind, n) == [kind |-> kind, in |-> IF n = 0 THEN {} ELSE {n} \cup nats[n].in, live |-> TRUE]

\* moon_newobject_ref: the object keeps the pool's object, and what that one keeps.
Keeps(p) == {p} \cup objs[p].refs

Held(kind) == {o \in held : objs[o].kind = kind}
Room(o, n) == Len(objs) + o <= prog.objects /\ Len(nats) + n <= prog.natives
Uses(what) == what \in prog.uses
Idle == phase = "running" /\ call = None

\* apr_pool_clear and apr_pool_destroy of the pool n
Clear(ns, n)   == [i \in DOMAIN ns |-> IF n \in ns[i].in THEN [ns[i] EXCEPT !.live = FALSE] ELSE ns[i]]
Destroy(ns, n) == [Clear(ns, n) EXCEPT ![n].live = FALSE]

\* ape_opt_pool: 0 stands for no argument, and for the default pool, which is cleared.
PoolArgs == {0} \cup Held("pool")
OptPool(a) == IF a = 0 THEN Clear(nats, objs[DefaultPool].h) ELSE nats
PoolOf(a)  == objs[IF a = 0 THEN DefaultPool ELSE a].h

Reachable ==
    LET roots == held \cup call.args \cup {Finalizer, DefaultPool}
    IN  roots \cup UNION {objs[o].refs : o \in roots \cap DOMAIN objs}
-----------------------------------------------------------------------------
(***************************************************************************)
(* Opening the library                                                     *)
(***************************************************************************)

AInit ==
    /\ prog \in Programs
    /\ objs = <<>> /\ nats = <<>> /\ pipes = <<>> /\ held = {} /\ queue = <<>> /\ kids = <<>>
    /\ call = None /\ apr = FALSE /\ phase = "start"

\* luaopen_ape with ape_pool_setup; an error makes the program close the state.
LuaOpen ==
    /\ phase = "start"
    /\ \/ /\ objs' = <<Object("finalizer", 0, 0, {}), Object("pool", 1, 0, {})>>
          /\ nats' = <<Native("pool", 0)>>
          /\ apr' = TRUE /\ phase' = "running" /\ queue' = queue
       \/ /\ objs' = <<[Object("finalizer", 0, 0, {}) EXCEPT !.fin = "queued"]>>
          /\ phase' = "closing" /\ queue' = <<{Finalizer}>> /\ UNCHANGED <<nats, apr>>
    /\ UNCHANGED <<prog, pipes, held, kids, call>>

\* A new object of the pool p with a resource, which the program holds.
Create(kind, p, refs) ==
    /\ Idle /\ Room(1, 1)
    /\ objs' = Append(objs, Object(kind, Len(nats) + 1, p, refs))
    /\ nats' = Append(nats, Native(kind, IF p = 0 THEN 0 ELSE objs[p].h))
    /\ held' = held \cup {Len(objs) + 1}
    /\ UNCHANGED <<prog, pipes, queue, kids, call, apr, phase>>

\* APR reports an error: the object points to nothing, and nobody holds it.
Fails(kind, p, refs) ==
    /\ Idle /\ Room(1, 0)
    /\ objs' = Append(objs, Object(kind, 0, p, refs))
    /\ UNCHANGED <<prog, pipes, nats, held, queue, kids, call, apr, phase>>

PoolCreate == Create("pool", 0, {}) \/ Fails("pool", 0, {})
PoolChild  == \E p \in Held("pool") : Create("pool", p, Keeps(p)) \/ Fails("pool", p, Keeps(p))

\* ape_file_open that does not keep its pool.
FileOpenUnref == \E p \in Held("pool") : Create("file", p, {}) \/ Fails("file", p, {})

\* ape_file_open, open_stdin and others, mktemp
FileOpen == \E p \in Held("pool") : Create("file", p, Keeps(p)) \/ Fails("file", p, Keeps(p))

DirOpen == \E p \in Held("pool") : Create("dir", p, Keeps(p)) \/ Fails("dir", p, Keeps(p))

\* ape_procattr_create
ProcattrCreate == \E p \in Held("pool") : Create("procattr", p, Keeps(p))

\* ape_crypto_sha256_new: the state of the hash lies in the pool.
HashNew == \E p \in Held("pool") : Create("hash", p, Keeps(p))

\* A user and a group, one object for both: a number, and a reference to the pool.
NewUser(p) ==
    /\ Idle /\ Room(1, 0)
    /\ objs' = Append(objs, Object("uid", 0, p, Keeps(p)))
    /\ held' = held \cup {Len(objs) + 1}
    /\ UNCHANGED <<prog, pipes, nats, queue, kids, call, apr, phase>>

\* ape_uid_current, ape_uid_get, ape_gid_get
UidNew == \E p \in Held("pool") : NewUser(p)

\* What can be read from: APR_EBADF otherwise.
Open(f) == objs[f].h # 0 /\ nats[objs[f].h].live

\* ape_dir_read and others that tell about a file: the pool is that of the object,
\* unless it has been closed.
DirRead == \E d \in Held("file") \cup Held("dir") : Open(d) /\ NewUser(objs[d].pool)

\* ape_file_pipe_create, pipe_create_ex
FilePipeCreate ==
    /\ Idle
    /\ \E p \in Held("pool") :
         \/ /\ Room(2, 2)
            /\ objs' = objs \o [i \in 1..2 |-> Object("file", Len(nats) + i, p, Keeps(p))]
            /\ nats' = nats \o [i \in 1..2 |-> Native("file", objs[p].h)]
            /\ held' = held \cup {Len(objs) + 1, Len(objs) + 2}
         \/ /\ Room(2, 0)
            /\ objs' = objs \o [i \in 1..2 |-> Object("file", 0, p, Keeps(p))]
            /\ UNCHANGED <<nats, held>>
    /\ UNCHANGED <<prog, pipes, queue, kids, call, apr, phase>>

\* ape_file_dup
FileDup ==
    \E f \in Held("file"), p \in Held("pool") :
        IF Open(f) THEN Create("file", p, Keeps(p)) ELSE Fails("file", p, Keeps(p))

\* ape_file_close: the pointer is reset when APR has closed the file; it does not
\* close a file twice.
FileClose ==
    /\ Idle
    /\ \E f \in Held("file") :
         /\ Open(f)
         /\ nats' = [nats EXCEPT ![objs[f].h].live = FALSE]
         /\ objs' = [objs EXCEPT ![f].h = 0]
    /\ UNCHANGED <<prog, pipes, held, queue, kids, call, apr, phase>>

\* ape_dir_close also drops what the object keeps.
DirClose ==
    /\ Idle
    /\ \E d \in Held("dir") :
         /\ objs[d].h # 0
         /\ nats' = [nats EXCEPT ![objs[d].h].live = FALSE]
         /\ objs' = [objs EXCEPT ![d].h = 0, ![d].refs = {}]
    /\ UNCHANGED <<prog, pipes, held, queue, kids, call, apr, phase>>

\* ape_file_remove, rename and the other functions of a path: the pool holds what
\* APR needs while it works.
PathOp ==
    /\ Idle
    /\ \E a \in PoolArgs : nats' = OptPool(a)
    /\ UNCHANGED <<prog, pipes, objs, held, queue, kids, call, apr, phase>>

\* ape_file_read and the other methods of an open file: the pointer is tested, then
\* memory is allocated for the answer, or the call blocks.  The argument may be all
\* that holds the file.
FileRead ==
    /\ Idle
    /\ \E f \in Held("file") :
         /\ Open(f)
         /\ call' = [None EXCEPT !.fn = "read", !.args = {f}, !.nat = objs[f].h]
         /\ held' = held \ {f}
    /\ UNCHANGED <<prog, pipes, objs, nats, queue, kids, apr, phase>>

\* The read of a pipe may block for ever.
FileReadEnd ==
    /\ call.fn = "read"
    /\ call' = None
    /\ UNCHANGED <<prog, pipes, objs, nats, held, queue, kids, apr, phase>>

\* A Lua variable goes out of scope.
Drop ==
    /\ Idle
    /\ \E o \in held : held' = held \ {o}
    /\ UNCHANGED <<prog, pipes, objs, nats, queue, kids, call, apr, phase>>
-----------------------------------------------------------------------------
(***************************************************************************)
(* Processes                                                               *)
(***************************************************************************)

Kid(collect) == [st |-> "running", collect |-> collect, writes |-> collect, failed |-> FALSE]

\* ape_procattr_io_set, child_out_set and others: APR makes the pipes when they are
\* asked for.
IoSet ==
    /\ Idle /\ Room(0, 1)
    /\ \E a \in Held("procattr") :
         /\ nats' = Append(nats, Native("file", objs[objs[a].pool].h))
         /\ pipes' = [o \in DOMAIN pipes \cup {a} |-> IF o = a THEN Len(nats) + 1 ELSE pipes[o]]
    /\ UNCHANGED <<prog, objs, held, queue, kids, call, apr, phase>>

\* ape_proc_create with the pool of the attributes.  The process gets the pipe of the
\* attributes, as every process made with them does, and ape_file_userdata makes an
\* object for it.
ProcCreate ==
    /\ Idle /\ Len(kids) < prog.kids
    /\ \E a \in Held("procattr") :
         LET p == objs[a].pool
             o == Len(objs) + 1
             proc == [Object("proc", 0, p, Keeps(p)) EXCEPT !.kid = Len(kids) + 1]
         IN  /\ \/ /\ a \in DOMAIN pipes /\ Room(2, 0)
                   /\ objs' = objs \o <<[proc EXCEPT !.out = o + 1, !.refs = @ \cup {o + 1}],
                                        Object("file", pipes[a], p, Keeps(p))>>
                   /\ pipes' = [q \in DOMAIN pipes \cup {o} |-> IF q = o THEN pipes[a] ELSE pipes[q]]
                \/ /\ a \notin DOMAIN pipes /\ Room(1, 0)
                   /\ objs' = Append(objs, proc) /\ pipes' = pipes
             /\ held' = held \cup {o}
    /\ kids' = Append(kids, Kid(FALSE))
    /\ UNCHANGED <<prog, nats, queue, call, apr, phase>>

\* ape_proc_out_get
OutGet ==
    /\ Idle
    /\ \E o \in Held("proc") : objs[o].out # 0 /\ held' = held \cup {objs[o].out}
    /\ UNCHANGED <<prog, pipes, objs, nats, queue, kids, call, apr, phase>>

\* The child ends, by itself or by ape_proc_kill.
KidExits ==
    /\ \E k \in DOMAIN kids : kids[k].st = "running" /\ kids' = [kids EXCEPT ![k].st = "exited"]
    /\ UNCHANGED <<prog, pipes, objs, nats, held, queue, call, apr, phase>>

\* The pipe of run_collect has no writer any more.
KidCloses ==
    /\ \E k \in DOMAIN kids : kids[k].writes /\ kids' = [kids EXCEPT ![k].writes = FALSE]
    /\ UNCHANGED <<prog, pipes, objs, nats, held, queue, call, apr, phase>>

\* ape_proc_wait: APR_NOWAIT of a running child, and a child whose status was
\* taken before, change nothing.
ProcWait ==
    /\ Idle
    /\ \E o \in Held("proc") :
         LET k == objs[o].kid
         IN  \/ kids[k].st = "exited" /\ kids' = [kids EXCEPT ![k].st = "reaped"] /\ call' = call
             \/ /\ kids[k].st = "running" /\ kids' = kids
                /\ call' = [None EXCEPT !.fn = "wait", !.args = {o}, !.kid = k]
    /\ UNCHANGED <<prog, pipes, objs, nats, held, queue, apr, phase>>

ProcWaitEnd ==
    /\ call.fn = "wait" /\ kids[call.kid].st = "exited"
    /\ kids' = [kids EXCEPT ![call.kid].st = "reaped"]
    /\ call' = None
    /\ UNCHANGED <<prog, pipes, objs, nats, held, queue, apr, phase>>

\* ape_proc_wait_all_procs of the processes in a table
WaitAll ==
    /\ Idle /\ kids # <<>>
    /\ \E among \in SUBSET Held("proc"), a \in PoolArgs :
         /\ nats' = OptPool(a)
         /\ call' = [None EXCEPT !.fn = "waitall", !.args = among \cup ({a} \ {0}),
                                 !.among = {objs[o].kid : o \in among}]
    /\ UNCHANGED <<prog, pipes, objs, held, queue, kids, apr, phase>>

\* wait_all_procs that tries again when there are no children.
WaitAllStepForever ==
    /\ call.fn = "waitall"
    /\ \E k \in DOMAIN kids :
         /\ kids[k].st = "exited"
         /\ kids' = [kids EXCEPT ![k].st = "reaped"]
         /\ call' = IF k \in call.among THEN None ELSE call
    /\ UNCHANGED <<prog, pipes, objs, nats, held, queue, apr, phase>>

\* The status of a child that is not in the table is lost; with no child left, the
\* call returns an error.
WaitAllStep ==
    /\ call.fn = "waitall"
    /\ \/ \E k \in DOMAIN kids :
            /\ kids[k].st = "exited"
            /\ kids' = [kids EXCEPT ![k].st = "reaped"]
            /\ call' = IF k \in call.among THEN None ELSE call
       \/ (\A k \in DOMAIN kids : kids[k].st = "reaped") /\ call' = None /\ kids' = kids
    /\ UNCHANGED <<prog, pipes, objs, nats, held, queue, apr, phase>>

\* ape_extra_run_collect starts the child with a pipe, or fails and leaves the pipe
\* to the pool.
RunCollect ==
    /\ Idle /\ Room(0, 1) /\ Len(kids) < prog.kids
    /\ \E a \in PoolArgs :
         /\ nats' = Append(OptPool(a), Native("file", PoolOf(a)))
         /\ \/ /\ kids' = Append(kids, Kid(TRUE))
               /\ call' = [None EXCEPT !.fn = "collect", !.args = {a} \ {0}, !.nat = Len(nats) + 1,
                                       !.kid = Len(kids) + 1]
            \/ UNCHANGED <<kids, call>>
    /\ UNCHANGED <<prog, pipes, objs, held, queue, apr, phase>>

\* run_collect that does not wait after the end of the output.
RunCollectReadOnly ==
    /\ call.fn = "collect" /\ ~kids[call.kid].writes
    /\ nats' = [nats EXCEPT ![call.nat].live = FALSE]
    /\ call' = None
    /\ UNCHANGED <<prog, pipes, kids, objs, held, queue, apr, phase>>

\* The pipe has ended: the call waits for the child.
RunCollectRead ==
    /\ call.fn = "collect" /\ ~kids[call.kid].writes
    /\ nats' = [nats EXCEPT ![call.nat].live = FALSE]
    /\ call' = [call EXCEPT !.fn = "wait", !.nat = 0]
    /\ UNCHANGED <<prog, pipes, kids, objs, held, queue, apr, phase>>

\* Reading has failed: the call only takes the status if there is one.
RunCollectFails ==
    /\ call.fn = "collect"
    /\ nats' = [nats EXCEPT ![call.nat].live = FALSE]
    /\ call' = None
    /\ kids' = [kids EXCEPT ![call.kid] = IF @.st = "exited" THEN [@ EXCEPT !.st = "reaped"]
                                          ELSE [@ EXCEPT !.failed = TRUE]]
    /\ UNCHANGED <<prog, pipes, objs, held, queue, apr, phase>>

\* ape_extra_path_glob opens a directory in the pool; the argument may be all that
\* holds it (the program has no variable for it any more).
PathGlob ==
    /\ Idle /\ Room(0, 1)
    /\ \E a \in PoolArgs :
         /\ nats' = Append(OptPool(a), Native("dir", PoolOf(a)))
         /\ call' = [None EXCEPT !.fn = "glob", !.args = {a} \ {0}, !.nat = Len(nats) + 1]
         /\ held' = held \ {a}
    /\ UNCHANGED <<prog, pipes, objs, queue, kids, apr, phase>>

\* It has read all names, or a name that cannot be merged with the path.
PathGlobEnd ==
    /\ call.fn = "glob"
    /\ nats' = [nats EXCEPT ![call.nat].live = FALSE]
    /\ call' = None
    /\ UNCHANGED <<prog, pipes, objs, held, queue, kids, apr, phase>>
-----------------------------------------------------------------------------
(***************************************************************************)
(* Finalizers                                                              *)
(***************************************************************************)

Queue(S) ==
    /\ LET gc == {o \in S : objs[o].kind \in HasGC}
       IN  queue' = IF gc = {} THEN queue ELSE Append(queue, gc)
    /\ objs' = [o \in DOMAIN objs |->
                  IF o \notin S THEN objs[o]
                  ELSE [objs[o] EXCEPT !.fin = IF @ = "no" /\ objs[o].kind \in HasGC
                                               THEN "queued" ELSE "done"]]

\* luaC_separateudata: when the finalizers of the last cycle have been called.
Separate ==
    /\ phase = "running" /\ queue = <<>>
    /\ LET dead == {o \in DOMAIN objs \ Reachable : objs[o].fin = "no"}
       IN  dead # {} /\ Queue(dead)
    /\ UNCHANGED <<prog, pipes, nats, held, kids, call, apr, phase>>

\* The finalizers proper; o is an object whose pointer may be NULL.
ape_pool_gc(o) == IF o.h = 0 THEN nats ELSE Destroy(nats, o.h)
ape_file_gc(o) == IF o.h = 0 THEN nats ELSE [nats EXCEPT ![o.h].live = FALSE]
ape_dir_gc(o)  == IF o.h = 0 THEN nats ELSE [nats EXCEPT ![o.h].live = FALSE]
terminate_apr  == IF ~apr THEN nats ELSE [n \in DOMAIN nats |-> [nats[n] EXCEPT !.live = FALSE]]

\* GCTM: luaC_separateudata has put the newest first.
Newest(x, S) == x \in S /\ \A y \in S : y <= x
Finalize ==
    /\ queue # <<>>
    /\ \E x \in Head(queue) :
         /\ Newest(x, Head(queue))
         /\ LET o == objs[x]
            IN  /\ nats' = CASE o.kind = "finalizer" -> terminate_apr [] o.kind = "pool" -> ape_pool_gc(o)
                             [] o.kind = "file" -> ape_file_gc(o)     [] o.kind = "dir" -> ape_dir_gc(o)
                /\ apr' = (apr /\ o.kind # "finalizer")
         /\ objs' = [objs EXCEPT ![x].fin = "done"]
         /\ queue' = IF Head(queue) = {x} THEN Tail(queue) ELSE [queue EXCEPT ![1] = @ \ {x}]
    /\ UNCHANGED <<prog, pipes, held, kids, call, phase>>

\* lua_close: everything that is left
LuaClose ==
    /\ Idle
    /\ Queue({o \in DOMAIN objs : objs[o].fin = "no"})
    /\ phase' = "closing" /\ held' = {}
    /\ UNCHANGED <<prog, pipes, nats, kids, call, apr>>

Closed ==
    /\ phase = "closing" /\ queue = <<>>
    /\ phase' = "closed"
    /\ UNCHANGED <<prog, pipes, objs, nats, held, queue, kids, call, apr>>

ANext ==
    \/ LuaOpen \/ PoolCreate \/ FileClose \/ FileRead \/ FileReadEnd \/ Drop
    \/ Uses("pools") /\ PoolChild
    \/ Uses("pools") /\ PathOp
    \/ Uses("dup") /\ FileDup
    \/ Uses("files") /\ FileOpen
    \/ Uses("files") /\ FilePipeCreate
    \/ Uses("dirs") /\ DirOpen
    \/ Uses("dirs") /\ PathGlob
    \/ Uses("values") /\ HashNew
    \/ Uses("values") /\ UidNew
    \/ Uses("values") /\ DirRead
    \/ Uses("procs") /\ ProcattrCreate
    \/ Uses("procs") /\ IoSet
    \/ Uses("collect") /\ RunCollect
    \/ DirClose \/ PathGlobEnd \/ ProcCreate \/ OutGet \/ KidExits \/ KidCloses \/ ProcWaitEnd
    \/ Uses("waits") /\ ProcWait
    \/ Uses("waits") /\ WaitAll
    \/ WaitAllStep \/ RunCollectRead \/ RunCollectFails \/ Separate \/ Finalize \/ LuaClose \/ Closed

\* C code goes on when nothing keeps it waiting; children end, and so do the
\* processes they leave behind; what is queued is finalized.
AFairness ==
    /\ WF_avars(ProcWaitEnd) /\ WF_avars(WaitAllStep) /\ WF_avars(RunCollectRead) /\ WF_avars(PathGlobEnd)
    /\ WF_avars(KidExits) /\ WF_avars(KidCloses) /\ WF_avars(Finalize) /\ WF_avars(Closed)

ASpec == AInit /\ [][ANext]_avars /\ AFairness
-----------------------------------------------------------------------------
\* apr_terminate (ape.c, terminate_apr) is called when no object with a resource is
\* left: a finalizer that called APR after it would use pools that are gone.
TerminatedLast ==
    phase # "start" /\ ~apr => \A o \in DOMAIN objs : objs[o].fin = "done" \/ objs[o].h = 0

\* Two processes have been made with the same attributes, so that two objects
\* stand for one pipe; each of them may close it.
Shared(n) ==
    \E o, q \in DOMAIN pipes : /\ o # q /\ objs[o].kind = "proc" /\ objs[q].kind = "proc"
                              /\ pipes[o] = n /\ pipes[q] = n

\* The memory of a resource is there, and what it stands for is open.
InPlace(n) == (\A m \in nats[n].in : nats[m].live) /\ (nats[n].live \/ Shared(n))

\* The pointer of an object whose finalizer has not been called is NULL or points
\* to a resource that is there (the finalizer and the methods use it after testing
\* for NULL only).
HandlesValid ==
    \A o \in DOMAIN objs : objs[o].fin # "done" /\ objs[o].h # 0 => InPlace(objs[o].h)

\* What a call works with stays, whatever the collector does during it.
CallsKeepPool == call.nat # 0 => InPlace(call.nat)

\* Every resource belongs to a pool that some object still has to destroy: nothing
\* is left for apr_terminate to find.
Owned ==
    \A n \in DOMAIN nats : nats[n].live =>
        \E o \in DOMAIN objs : /\ objs[o].kind = "pool" /\ objs[o].fin # "done" /\ objs[o].h # 0
                               /\ objs[o].h = n \/ objs[o].h \in nats[n].in

\* Objects and calls never outlive what they point to, and resources never outlive
\* the pools that some object has still to destroy, in whatever order the collector
\* finalizes them.
Lifetimes == TerminatedLast /\ HandlesValid /\ CallsKeepPool /\ Owned

\* run_collect leaves no child behind, but when reading its output has failed.
Collected ==
    call = None => \A k \in DOMAIN kids : kids[k].collect => kids[k].st = "reaped" \/ kids[k].failed

\* A call that waits returns, as children end: run_collect when nobody can write to its
\* pipe any more and its child has ended, and one that waits for any child also when
\* there is none.
Returns == (call.fn \in {"wait", "waitall", "collect", "glob"}) ~> (call = None)
=============================================================================
