------------------------------- MODULE Driver -------------------------------
(***************************************************************************)
(* One invocation of buildsh: the main chunk of build.lua looks for the    *)
(* first make file whose prerequisites are met and executes the targets    *)
(* from the command line; buildsh.c runs the chunk in protected mode and   *)
(* turns SIGINT into a Lua error.  The signal handler only arms a hook,    *)
(* and the error is raised when the interpreter comes to its next step, in *)
(* whatever protected call that happens to be.                             *)
(***************************************************************************)
EXTENDS Naturals, Sequences

CONSTANTS
    Target,     \* names of targets, "build", "list" and "clean" among them
    MaxFiles,   \* bound on the number of make files
    MaxTargets, \* bound on the number of targets on the command line
    MaxSignals  \* bound on the number of SIGINTs

ASSUME DriverAssumption ==
    /\ {"build", "list", "clean"} \subseteq Target
    /\ MaxFiles \in Nat /\ MaxTargets \in Nat /\ MaxSignals \in Nat

VARIABLES
    files, targets, \* what handle_args returns: how many make files, and the targets
    i, j,           \* the current make file and the next target
    retval,         \* what the chunk will return
    pc,             \* where the chunk is
    defined,        \* the targets the chosen make file defines
    ran,            \* history: the targets that have been executed
    onsigint,       \* what SIGINT does: "default" or "laction"
    hook,           \* lstop is due
    broken,         \* history: an error before the first make file is looked at
    stopped,        \* history: lstop has ended the chunk
    signals         \* number of SIGINTs so far

args == <<files, targets>>
signal == <<onsigint, hook, stopped, signals>>
vars == <<args, i, j, retval, pc, defined, ran, broken, signal>>

TypeOK ==
    /\ files \in 0..MaxFiles /\ targets \in Seq(Target)
    /\ i \in 1..(files + 1) /\ j \in 1..(Len(targets) + 1)
    /\ retval \in BOOLEAN /\ hook \in BOOLEAN
    /\ broken \in BOOLEAN /\ stopped \in BOOLEAN
    /\ pc \in {"load", "scan", "env", "setup", "target", "close", "exit", "killed"}
    /\ defined \subseteq Target
    /\ ran \in Seq(Target)
    /\ onsigint \in {"default", "laction"} /\ signals \in 0..MaxSignals

-----------------------------------------------------------------------------
\* handle_args: the make file on the command line or all there are; "build"
\* if there is no target.  docall has installed laction.
Init ==
    /\ files \in 0..MaxFiles
    /\ targets \in UNION {[1..n -> Target] : n \in 1..MaxTargets}
    /\ i = 1 /\ j = 1 /\ retval = TRUE /\ pc = "load"
    /\ defined = {} /\ ran = <<>>
    /\ onsigint = "laction" /\ hook = FALSE /\ broken = FALSE /\ stopped = FALSE
    /\ signals = 0

\* The interpreter takes a step of the chunk.
At(p) == pc = p /\ ~hook

\* The chunk returns v, or raises an error (v is FALSE): back in docall SIGINT
\* gets its default action.
Return(v) ==
    /\ retval' = v /\ pc' = "close" /\ onsigint' = "default"
    /\ UNCHANGED <<args, i, j, defined, ran, hook, stopped, signals>>

GiveUp == Return(FALSE) /\ UNCHANGED broken

\* Variant: the loop does not get on.
NextFileAgain ==
    /\ retval' = FALSE /\ pc' = "scan"
    /\ UNCHANGED <<args, i, j, defined, ran, broken, signal>>

\* The make file cannot be used, the next one is looked at.
NextFile ==
    /\ retval' = FALSE /\ i' = i + 1 /\ pc' = "scan"
    /\ UNCHANGED <<args, j, defined, ran, broken, signal>>

Goto(p) == pc' = p /\ UNCHANGED <<args, i, j, retval, defined, ran, broken, signal>>

\* load_deps, which tracer to use, and handle_args.  have_exec and have_file
\* raise an error if looking fails otherwise than by finding nothing (PATH is
\* not set), and so does the assertion about match_glob.
LoadDeps ==
    /\ At("load")
    /\ \/ Goto("scan")
       \/ Return(FALSE) /\ broken' = TRUE

\* loadfile and check_bytecode: the file has a syntax error, assigns a global
\* variable, or is fine.
Check == At("scan") /\ i <= files /\ (NextFile \/ Goto("env"))

NoMoreFiles == At("scan") /\ i > files /\ Return(retval) /\ UNCHANGED broken

\* make_env_with_executables: a program is missing, looking for it is an error
\* (which raises one), or all are there.
MakeEnv == At("env") /\ (NextFile \/ GiveUp \/ Goto("setup"))

\* Variant: retval remains as the make files before have left it.
ChooseKeep ==
    /\ j' = 1 /\ pc' = "target"
    /\ defined' \in SUBSET Target
    /\ UNCHANGED <<args, i, retval, ran, broken, signal>>

\* The make file has returned a table of targets.
Choose ==
    /\ retval' = TRUE /\ j' = 1 /\ pc' = "target"
    /\ defined' \in SUBSET Target
    /\ UNCHANGED <<args, i, ran, broken, signal>>

\* The make file is executed: make.assert, assert_file or assert_exec fails,
\* there is another error or no target, or this is the one.
Setup == At("setup") /\ (NextFile \/ GiveUp \/ Choose)

Builtin(t) == t \in {"list", "clean"} /\ t \notin defined

Executed ==
    /\ ran' = Append(ran, targets[j]) /\ j' = j + 1
    /\ UNCHANGED <<args, i, retval, pc, defined, broken, signal>>

\* Variant: a target that does not exist is passed over.
ExecuteLenient ==
    /\ At("target") /\ j <= Len(targets)
    /\ \/ (Builtin(targets[j]) \/ targets[j] \in defined) /\ (Executed \/ GiveUp)
       \/ /\ ~Builtin(targets[j]) /\ targets[j] \notin defined
          /\ j' = j + 1 /\ UNCHANGED <<args, i, retval, pc, defined, ran, broken, signal>>

\* A target is listed, cleaned or a function, any of which may fail (list_targets
\* cannot sort keys of different types), or it is missing.
Execute ==
    /\ At("target") /\ j <= Len(targets)
    /\ \/ (Builtin(targets[j]) \/ targets[j] \in defined) /\ Executed
       \/ GiveUp

NoMoreTargets == At("target") /\ j > Len(targets) /\ Return(retval) /\ UNCHANGED broken

\* lua_close saves the dependencies, and main returns the exit status.
Close == pc = "close" /\ Goto("exit")

-----------------------------------------------------------------------------
Running == pc \notin {"close", "exit", "killed"}

Sigint ==
    /\ pc \notin {"exit", "killed"} /\ signals < MaxSignals
    /\ signals' = signals + 1
    /\ IF onsigint = "laction"
         THEN onsigint' = "default" /\ hook' = TRUE /\ UNCHANGED pc
         ELSE pc' = "killed" /\ UNCHANGED <<onsigint, hook>>
    /\ UNCHANGED <<args, i, j, retval, defined, ran, broken, stopped>>

\* lstop raises "interrupted!" in whatever protected call is active.  load_deps
\* goes on with an empty table; a make file or the function of a target may have
\* called pcall itself (make_env lets it see _G) and goes on as it likes.  If
\* nobody catches it there, call_buildsh_function gives up, and elsewhere docall.
Stop ==
    /\ hook /\ Running
    /\ hook' = FALSE
    /\ \/ /\ \/ pc \in {"load", "setup"}
             \/ pc = "target" /\ j <= Len(targets) /\ targets[j] \in defined
          /\ UNCHANGED <<pc, retval, onsigint, stopped>>
       \/ /\ pc' = "close" /\ retval' = FALSE /\ onsigint' = "default"
          /\ stopped' = TRUE
    /\ UNCHANGED <<args, i, j, defined, ran, broken, signals>>

Step ==
    \/ LoadDeps \/ Check \/ NoMoreFiles \/ MakeEnv \/ Setup \/ Execute
    \/ NoMoreTargets \/ Close \/ Stop

Next == Step \/ Sigint

Spec == Init /\ [][Next]_vars /\ WF_vars(Step)

-----------------------------------------------------------------------------
\* The exit status tells what has happened (report and main): it is 0 if all
\* targets were executed, even if other make files had to be passed over, or
\* if there is no make file at all; and only then.  An interrupt that nobody
\* has caught or an error before the first make file excludes it, even if
\* there was nothing left to do.
ExitStatus ==
    pc = "exit" => (retval <=> (ran = targets \/ files = 0) /\ ~broken /\ ~stopped)

\* The targets are executed in the order they are given and none is left out.
InOrder ==
    Len(ran) <= Len(targets) /\ \A k \in 1..Len(ran) : ran[k] = targets[k]

\* Every invocation comes to an end, whenever SIGINT arrives (docall, laction),
\* if make files and programs do.
Terminates == <>(pc \in {"exit", "killed"})
=============================================================================
