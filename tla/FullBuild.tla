------------------------------ MODULE FullBuild ------------------------------
(***************************************************************************)
(* What buildsh promises, without any bookkeeping: a build that always     *)
(* runs every command of its job.  IncrementalBuild, which skips commands  *)
(* by comparing file hashes, must not be distinguishable from it by        *)
(* looking at the files.                                                   *)
(***************************************************************************)
EXTENDS Programs, Naturals, Sequences

CONSTANTS
    Jobs,       \* the sequences of commands and cleanups a script may ask for
    Clean,      \* an element of a job: make.autoclean()
    InitTrees,  \* the trees a project may start with
    UserEdits   \* the changes <<file, node>> other processes make

VARIABLES
    fs,         \* the tree
    job, pos,   \* the job under way and the position reached in it
    building    \* is a job under way?

vars == <<fs, job, pos, building>>

\* The files that some program writes; all that a cleanup may touch.
Products == {f \in File : \E c \in Cmd, s \in FS : Succeeds(c, s) /\ f \in Writes(c, s)}

Init == fs \in InitTrees /\ job = <<>> /\ pos = 1 /\ building = FALSE

Start ==
    /\ ~building
    /\ job' \in Jobs /\ pos' = 1 /\ building' = TRUE
    /\ UNCHANGED fs

Run ==
    /\ building /\ pos \in DOMAIN job /\ job[pos] \in Cmd
    /\ Succeeds(job[pos], fs)
    /\ fs' = Effect(job[pos], fs)
    /\ pos' = pos + 1
    /\ UNCHANGED <<job, building>>

\* A command that fails ends the job.
Fail ==
    /\ building /\ pos \in DOMAIN job /\ job[pos] \in Cmd
    /\ fs' \in Partial(job[pos], fs)
    /\ building' = FALSE /\ job' = <<>> /\ pos' = 1

Remove ==
    /\ building /\ pos \in DOMAIN job /\ job[pos] = Clean
    /\ \E f \in Products : fs' = [fs EXCEPT ![f] = Absent]
    /\ fs' \in FS
    /\ UNCHANGED <<job, pos, building>>

Cleaned ==
    /\ building /\ pos \in DOMAIN job /\ job[pos] = Clean
    /\ pos' = pos + 1
    /\ UNCHANGED <<fs, job, building>>

\* The end of the job, an interrupt or a crash.
Stop ==
    /\ building
    /\ building' = FALSE /\ job' = <<>> /\ pos' = 1
    /\ UNCHANGED fs

Edit ==
    /\ \E e \in UserEdits : fs' = [fs EXCEPT ![e[1]] = e[2]]
    /\ fs' \in FS
    /\ UNCHANGED <<job, pos, building>>

Next == Start \/ Run \/ Fail \/ Remove \/ Cleaned \/ Stop \/ Edit

Spec == Init /\ [][Next]_vars
=============================================================================
