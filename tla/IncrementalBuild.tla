-------------------------- MODULE IncrementalBuild --------------------------
(***************************************************************************)
(* The dependency bookkeeping of buildsh (build.lua, base.finish): one     *)
(* buildsh process at a time loads .deps.lua, checks for every command     *)
(* whether the files recorded for it still have the recorded hashes, runs  *)
(* the command under a system call tracer if they have not, records the    *)
(* files the trace shows with their hashes, and writes the table back when *)
(* its Lua state is closed.  Editors and other programs change files at    *)
(* any time; buildsh may be interrupted (SIGINT) or killed at any time.    *)
(***************************************************************************)
EXTENDS Programs, Naturals, Sequences

CONSTANTS
    Jobs,       \* the sequences of commands and cleanups a script may ask for
    Clean,      \* an element of a job: make.autoclean()
    InitTrees,  \* the trees a project may start with
    UserEdits,  \* the changes <<file, node>> other processes make
    EditStages, \* the values of pc at which they make them
    Stubborn,   \* the files whose removal the operating system may refuse
    Rank(_)     \* position of a path in the order of Lua's string comparison

Stages == {"idle", "ready", "run", "trace", "clean", "exit", "saving"}

\* A directory's path is a proper prefix of the paths below it.
ASSUME JobAssumption ==
    /\ \A j \in Jobs : j \in Seq(Cmd \cup {Clean})
    /\ Clean \notin Cmd
    /\ InitTrees \subseteq FS
    /\ UserEdits \subseteq File \X Node
    /\ EditStages \subseteq Stages
    /\ Stubborn \subseteq File
    /\ \A f, g \in File : Rank(f) \in Nat /\ (Rank(f) = Rank(g) => f = g)
    /\ \A f \in File : Parent(f) # f => Rank(Parent(f)) < Rank(f)

(***************************************************************************)
(* Lua tables from file names to hashes.                                   *)
(***************************************************************************)
Nil == <<"nil">>            \* no entry
Unhashed == <<"true">>      \* the entry `true' of a file seen in a trace

\* hash_file returns the digest, or the error message in place of a hash.
HashFile(n) ==
    CASE n = Absent -> <<"error", "missing">>
      [] n = Dir    -> <<"error", "irregular">>
      [] OTHER      -> <<"digest", n>>

Hash == {HashFile(n) : n \in Node}
Table == [File -> Hash \cup {Nil, Unhashed}]
EmptyTable == [f \in File |-> Nil]
Entries(io) == {f \in File : io[f] # Nil}
TableOf(S) == [f \in File |-> IF f \in S THEN Unhashed ELSE Nil]

(***************************************************************************)
(* A record is what .deps.lua holds for a command.  Field raced is history *)
(* and not in the code: a file of the record was changed by someone else   *)
(* between the moment the command used it and the moment it was hashed.    *)
(* check_deps treats a missing record like one with two empty tables, so   *)
(* the latter stands for both.                                             *)
(***************************************************************************)
Record == [input : Table, output : Table, raced : BOOLEAN]
NoRecord == [input |-> EmptyTable, output |-> EmptyTable, raced |-> FALSE]
IsEmpty(r) == Entries(r.input) = {} /\ Entries(r.output) = {}

Dependencies == [Cmd -> Record]
NoDependencies == [c \in Cmd |-> NoRecord]
Trace == [input : SUBSET File, output : SUBSET File]
NoTrace == [input |-> {}, output |-> {}]

\* update_deps_io: the table after hashing its entries (only the ones without
\* a hash if onlynew is set) in tree s, and whether any hash was different.
UpdateDepsIO(io, s, onlynew) ==
    [f \in File |-> IF io[f] = Nil \/ (onlynew /\ io[f] # Unhashed)
                      THEN io[f] ELSE HashFile(s[f])]

Differ(io, s) == \E f \in File : io[f] # Nil /\ io[f] # HashFile(s[f])

\* Variant: outputs are not looked at.
RunItInputsOnly(r, s) == IsEmpty(r) \/ Differ(r.input, s)

\* check_deps: must the command be run?
RunIt(r, s) == IsEmpty(r) \/ Differ(r.input, s) \/ Differ(r.output, s)

\* Variant: hashing stops at the first input that differs.
CheckedCopyStop(r, s) ==
    LET Differs(f) == r.input[f] # Nil /\ r.input[f] # HashFile(s[f])
    IN  [r EXCEPT !.raced = FALSE,
                  !.input = [f \in File |->
                               IF \E g \in File : Differs(g) /\ Rank(g) < Rank(f)
                                 THEN r.input[f] ELSE UpdateDepsIO(r.input, s, FALSE)[f]]]

\* check_deps: the copy run goes on with.  All of its inputs are hashed anew;
\* its outputs are not used again.
CheckedCopy(r, s) ==
    [input  |-> UpdateDepsIO(r.input, s, FALSE),
     output |-> r.output,
     raced  |-> FALSE]

\* base.finish: the traced files replace the old ones, hashes of inputs that
\* are known from check_deps are kept.
Finish(d, t) ==
    [input  |-> [f \in File |-> IF f \in t.input
                                  THEN IF d.input[f] # Nil THEN d.input[f] ELSE Unhashed
                                  ELSE Nil],
     output |-> TableOf(t.output),
     raced  |-> d.raced]

\* The end of make.run: hash what has no hash yet.
Rehash(r, s) ==
    [r EXCEPT !.input  = UpdateDepsIO(r.input, s, TRUE),
              !.output = UpdateDepsIO(r.output, s, FALSE)]

\* save_deps writes string values only.
Saved(t) ==
    LET Strings(io) == [f \in File |-> IF io[f] = Unhashed THEN Nil ELSE io[f]]
    IN  [c \in Cmd |-> [t[c] EXCEPT !.input  = Strings(t[c].input),
                                    !.output = Strings(t[c].output)]]

\* collect_outputs
CollectOutputs(t) == UNION {Entries(t[c].output) : c \in Cmd}

-----------------------------------------------------------------------------
VARIABLES
    fs,             \* the build tree, without .deps.lua
    disk,           \* .deps.lua: is it missing, torn or complete; its table
    dependencies,   \* the table in memory
    dont_save_deps, \* set by autoclean, reset by run
    exec_handler,   \* has a system call tracer been found?
    pc,             \* control state of buildsh; "idle": it is not running
    job, pos,       \* commands and cleanups of the targets, position reached
    deps,           \* local of run: the copy of the record
    td,             \* local of post_process: the files the trace shows
    rest,           \* local of autoclean: the files still to delete
    refused,        \* history: the files this cleanup could not delete
    settled         \* history: "calm" while a job runs with nothing going
                    \* wrong, "yes" after a whole build of that kind

process == <<job, pos, exec_handler>>
locals == <<deps, td, rest, refused>>
vars == <<fs, disk, dependencies, dont_save_deps, pc, process, locals, settled>>

Disk == [state : {"none", "torn", "ok"}, table : Dependencies]
NoDisk == [state |-> "none", table |-> NoDependencies]
TornDisk == [state |-> "torn", table |-> NoDependencies]

TypeOK ==
    /\ fs \in FS
    /\ disk \in Disk
    /\ dependencies \in Dependencies
    /\ dont_save_deps \in BOOLEAN /\ exec_handler \in BOOLEAN
    /\ pc \in Stages
    /\ job \in Seq(Cmd \cup {Clean}) /\ pos \in Nat \ {0}
    /\ deps \in Record /\ td \in Trace /\ rest \subseteq File /\ refused \subseteq File
    /\ settled \in {"no", "calm", "yes"}
    /\ pc \in {"run", "trace"} => pos \in DOMAIN job /\ job[pos] \in Cmd
    /\ pc = "clean" => pos \in DOMAIN job /\ job[pos] = Clean

Init ==
    /\ fs \in InitTrees /\ disk = NoDisk
    /\ dependencies = NoDependencies /\ dont_save_deps = FALSE
    /\ exec_handler = FALSE /\ pc = "idle" /\ job = <<>> /\ pos = 1
    /\ deps = NoRecord /\ td = NoTrace /\ rest = {} /\ refused = {} /\ settled = "no"

\* Leave the job for the end of the program, with the locals given up.
Leave ==
    /\ pc' = "exit" /\ job' = <<>> /\ pos' = 1
    /\ deps' = NoRecord /\ td' = NoTrace /\ rest' = {} /\ refused' = {}
    /\ UNCHANGED exec_handler

\* The end of the process.
Gone ==
    /\ pc' = "idle" /\ job' = <<>> /\ pos' = 1 /\ exec_handler' = FALSE
    /\ dependencies' = NoDependencies /\ dont_save_deps' = FALSE
    /\ deps' = NoRecord /\ td' = NoTrace /\ rest' = {} /\ refused' = {}

Disturbed == IF settled = "calm" THEN "no" ELSE settled

AtCmd == pc = "ready" /\ pos \in DOMAIN job /\ job[pos] \in Cmd
Current == job[pos]

\* Load .deps.lua (load_deps: a missing or torn file counts as {}), look for
\* a tracer and pick the targets.
LoadDeps == IF disk.state = "ok" THEN disk.table ELSE NoDependencies

Start ==
    /\ pc = "idle"
    /\ dependencies' = LoadDeps
    /\ job' \in Jobs /\ pos' = 1 /\ exec_handler' \in BOOLEAN
    /\ pc' = "ready"
    /\ settled' = IF settled = "yes" THEN "yes" ELSE "calm"
    /\ UNCHANGED <<fs, disk, dont_save_deps, locals>>

\* run, when nothing has changed
Skip ==
    /\ AtCmd /\ ~RunIt(dependencies[Current], fs)
    /\ pos' = pos + 1
    /\ UNCHANGED <<fs, disk, dependencies, dont_save_deps, pc, job,
                   exec_handler, locals, settled>>

\* Variant: check_deps works on the record itself, not on a deep copy.
SpawnNoCopy ==
    /\ AtCmd /\ RunIt(dependencies[Current], fs)
    /\ deps' = CheckedCopy(dependencies[Current], fs)
    /\ dependencies' = [dependencies EXCEPT ![Current] = deps']
    /\ dont_save_deps' = FALSE
    /\ pc' = "run"
    /\ UNCHANGED <<fs, disk, process, td, rest, refused, settled>>


\* run, up to proc_create
Spawn ==
    /\ AtCmd /\ RunIt(dependencies[Current], fs)
    /\ deps' = CheckedCopy(dependencies[Current], fs)
    /\ dont_save_deps' = FALSE
    /\ pc' = "run"
    /\ UNCHANGED <<fs, disk, dependencies, process, td, rest, refused, settled>>

\* The program exits with status 0; without a tracer that is all.
ChildOK ==
    /\ pc = "run" /\ Succeeds(Current, fs)
    /\ fs' = Effect(Current, fs)
    /\ IF exec_handler
         THEN /\ td' = [input |-> Reads(Current, fs), output |-> Writes(Current, fs)]
              /\ pc' = "trace"
              /\ UNCHANGED <<pos, deps>>
         ELSE /\ pc' = "ready" /\ pos' = pos + 1 /\ deps' = NoRecord
              /\ UNCHANGED td
    /\ UNCHANGED <<disk, dependencies, dont_save_deps, job, exec_handler, rest, refused,
                   settled>>

\* The program cannot be started, exits with another status or dies from a
\* signal: run raises an error and the target is given up.
ChildFail ==
    /\ pc = "run"
    /\ fs' \in Partial(Current, fs)
    /\ Leave /\ settled' = "no"
    /\ UNCHANGED <<disk, dependencies, dont_save_deps>>

\* post_process and the rest of run
StoreRecord ==
    /\ pc = "trace"
    /\ dependencies' = [dependencies EXCEPT ![Current] = Rehash(Finish(deps, td), fs)]
    /\ pc' = "ready" /\ pos' = pos + 1
    /\ deps' = NoRecord /\ td' = NoTrace
    /\ UNCHANGED <<fs, disk, dont_save_deps, job, exec_handler, rest, refused,
                   settled>>

\* post_process raises an error (the trace file cannot be read, base.rename).
TraceError ==
    /\ pc = "trace"
    /\ Leave /\ settled' = "no"
    /\ UNCHANGED <<fs, disk, dependencies, dont_save_deps>>

\* SIGINT: the hook set by laction raises an error at the next Lua step.
Interrupt ==
    /\ pc \in {"ready", "trace", "clean"}
    /\ Leave /\ settled' = Disturbed
    /\ UNCHANGED <<fs, disk, dependencies, dont_save_deps>>

\* Every command is in the job, with no cleanup after it.
WholeBuild ==
    \A c \in Cmd : \E i \in DOMAIN job : job[i] = c /\ \A k \in i..Len(job) : job[k] # Clean

\* All targets are done.
Done ==
    /\ pc = "ready" /\ pos = Len(job) + 1
    /\ settled' = IF settled = "calm" /\ exec_handler /\ WholeBuild THEN "yes" ELSE Disturbed
    /\ Leave
    /\ UNCHANGED <<fs, disk, dependencies, dont_save_deps>>

(***************************************************************************)
(* make.autoclean                                                          *)
(***************************************************************************)
CleanBegin ==
    /\ pc = "ready" /\ pos \in DOMAIN job /\ job[pos] = Clean
    /\ dont_save_deps' = TRUE
    /\ rest' = CollectOutputs(dependencies) /\ refused' = {}
    /\ pc' = "clean" /\ settled' = IF settled = "calm" THEN "calm" ELSE "no"
    /\ UNCHANGED <<fs, disk, dependencies, process, deps, td>>

CanRemove(f, s) == \A g \in File : Parent(g) = f /\ g # f => s[g] = Absent
\* Variant: a directory goes with its contents still there.
RemovedBlindly(f, s) == [s EXCEPT ![f] = Absent]
\* os.remove or dir_remove: a directory goes only if nothing is left in it.
Removed(f, s) == IF CanRemove(f, s) THEN [s EXCEPT ![f] = Absent] ELSE s

\* Variant: ascending order.
IsNextAscending(f) == \A g \in rest : Rank(g) >= Rank(f)
\* The outputs are deleted in descending order (compare in collect_outputs).
IsNext(f) == \A g \in rest : Rank(g) <= Rank(f)

\* Variant: what cannot be deleted is tried again.
CleanStepRetry ==
    /\ pc = "clean"
    /\ \E f \in rest : /\ IsNext(f) /\ fs' = Removed(f, fs)
                       /\ rest' = IF CanRemove(f, fs) THEN rest \ {f} ELSE rest
    /\ UNCHANGED <<disk, dependencies, dont_save_deps, pc, process, deps, td, refused,
                   settled>>

\* A removal may fail for other reasons too (a file in use, a directory that
\* must not be written); autoclean does not look at the result.
CleanStep ==
    /\ pc = "clean"
    /\ \E f \in rest :
         /\ IsNext(f) /\ rest' = rest \ {f}
         /\ \/ fs' = Removed(f, fs) /\ UNCHANGED refused
            \/ f \in Stubborn /\ UNCHANGED fs /\ refused' = refused \cup {f}
    /\ UNCHANGED <<disk, dependencies, dont_save_deps, pc, process, deps, td, settled>>

\* .deps.lua comes last, and may stay as well; then the table in memory is
\* emptied.
CleanEnd ==
    /\ pc = "clean" /\ rest = {}
    /\ disk' \in {NoDisk, disk} /\ refused' = {}
    /\ dependencies' = NoDependencies
    /\ pc' = "ready" /\ pos' = pos + 1
    /\ UNCHANGED <<fs, dont_save_deps, job, exec_handler, deps, td, rest, settled>>

(***************************************************************************)
(* lua_close runs the finalizer of depproxy.                               *)
(***************************************************************************)
ExitNoSave ==
    /\ pc = "exit" /\ dont_save_deps
    /\ Gone
    /\ UNCHANGED <<fs, disk, settled>>

\* io.open( ".deps.lua", "w" ) truncates the file.
SaveBegin ==
    /\ pc = "exit" /\ ~dont_save_deps
    /\ disk' = TornDisk
    /\ pc' = "saving"
    /\ UNCHANGED <<fs, dependencies, dont_save_deps, process, locals, settled>>

\* io.open fails; the error is ignored.
SaveFail ==
    /\ pc = "exit" /\ ~dont_save_deps
    /\ Gone /\ settled' = "no"
    /\ UNCHANGED <<fs, disk>>

SaveEnd ==
    /\ pc = "saving"
    /\ disk' = [state |-> "ok", table |-> Saved(dependencies)]
    /\ Gone
    /\ UNCHANGED <<fs, settled>>

\* SIGKILL, a second SIGINT, power failure, or (while saving) a full disk
Crash ==
    /\ pc # "idle"
    /\ IF pc = "run" THEN fs' \in Partial(Current, fs) ELSE UNCHANGED fs
    /\ Gone /\ settled' = "no"
    /\ UNCHANGED disk

(***************************************************************************)
(* Everybody else.  The edit spoils the record under construction if it    *)
(* hits an input whose hash has been taken before the program has run, or  *)
(* a file that will be hashed although the program has already used it.    *)
(***************************************************************************)
Spoils(f) ==
    \/ pc = "run" /\ deps.input[f] # Nil
    \/ pc = "trace" /\ (f \in td.output \/ (f \in td.input /\ deps.input[f] = Nil))

Edit ==
    /\ pc \in EditStages
    /\ \E e \in UserEdits :
         /\ fs' = [fs EXCEPT ![e[1]] = e[2]]
         /\ deps' = [deps EXCEPT !.raced = @ \/ Spoils(e[1])]
    /\ fs' \in FS /\ fs' # fs
    /\ settled' = "no"
    /\ UNCHANGED <<disk, dependencies, dont_save_deps, pc, process, td, rest, refused>>

Step ==
    \/ Skip \/ Spawn \/ ChildOK \/ ChildFail \/ StoreRecord \/ Done
    \/ CleanBegin \/ CleanStep \/ CleanEnd \/ ExitNoSave \/ SaveBegin \/ SaveEnd

Mishap == TraceError \/ Interrupt \/ SaveFail \/ Crash

Next == Start \/ Step \/ Mishap \/ Edit

\* buildsh goes on while it can, and programs terminate.  Nothing is promised
\* about interrupts, errors, crashes, edits or another start.
Spec == Init /\ [][Next]_vars /\ WF_vars(Step)

-----------------------------------------------------------------------------
(***************************************************************************)
(* Properties.                                                             *)
(***************************************************************************)

\* A command that is skipped would have succeeded and would have changed
\* nothing, unless a file of its record was changed by someone else while
\* the command was running or being recorded.
SkipSound ==
    \A c \in Cmd :
      pc = "ready" /\ ~RunIt(dependencies[c], fs) /\ ~dependencies[c].raced
        => Succeeds(c, fs) /\ Effect(c, fs) = fs

\* The strengthening of SkipSound that is inductive.  A record, in memory or
\* on disk, is valid: in every tree that has the recorded hashes the command
\* would succeed and change nothing.
Valid(c, r) ==
    ~r.raced => \A s \in FS : ~RunIt(r, s) => Succeeds(c, s) /\ Effect(c, s) = s

\* No entry is without a hash, so that save_deps drops none.
Hashed(io) == \A f \in File : io[f] # Unhashed

TableValid(t) ==
    \A c \in Cmd : Valid(c, t[c]) /\ Hashed(t[c].input) /\ Hashed(t[c].output)

\* While the program runs, the hashes of the copy are those of the files.
CopyFresh ==
    pc = "run" =>
      /\ Hashed(deps.input)
      /\ ~deps.raced =>
           \A f \in File : deps.input[f] # Nil => deps.input[f] = HashFile(fs[f])

\* After it, there is a tree it has run from, as far as the trace can tell.
RanFrom(c, s) ==
    /\ Succeeds(c, s)
    /\ td = [input |-> Reads(c, s), output |-> Writes(c, s)]
    /\ \A f \in Reads(c, s) : IF deps.input[f] = Nil THEN fs[f] = s[f]
                                                    ELSE deps.input[f] = HashFile(s[f])
    /\ \A f \in Writes(c, s) : fs[f] = Effect(c, s)[f]

TraceFaithful ==
    pc = "trace" =>
      /\ Hashed(deps.input)
      /\ ~deps.raced => \E s \in FS : RanFrom(Current, s)

RecordsValid ==
    TableValid(dependencies) /\ TableValid(disk.table) /\ CopyFresh /\ TraceFaithful

\* README.md, run(program): the program is run if its recorded dependencies
\* have changed.  Stated without the exception made by SkipSound.
RunsIfChanged ==
    \A c \in Cmd :
      pc = "ready" /\ ~RunIt(dependencies[c], fs) => Effect(c, fs) = fs


\* Why an output is still there: its removal was refused, or it is a directory
\* and something in it is no output or had to stay itself.
Kept(f, s, outputs, stuck) ==
    \/ f \in stuck
    \/ s[f] = Dir /\ \E g \in File \ {f} : Parent(g) = f /\ s[g] # Absent
                       /\ (g \notin outputs \/ s[g] = Dir \/ g \in stuck)

\* The table of outputs is given up only after a removal of every output was
\* tried, in an order in which none stays behind that could have gone: a
\* cleanup that is interrupted or killed at any point can be repeated.  (What
\* the operating system refuses to delete is forgotten with the table.)
TableOutlivesOutputs ==
    [][disk.state # "none" /\ disk'.state = "none"
         => \A f \in CollectOutputs(dependencies) :
              fs[f] = Absent \/ Kept(f, fs, CollectOutputs(dependencies), refused)]_vars

\* Every buildsh process comes to an end.
Terminates == pc # "idle" ~> pc = "idle"

\* Nobody can tell from the files that commands were skipped.
Full == INSTANCE FullBuild WITH
    pos <- IF pc = "trace" THEN pos + 1 ELSE pos,
    building <- pc \notin {"idle", "exit", "saving"}

BuildsLikeFull == Full!Spec
=============================================================================
