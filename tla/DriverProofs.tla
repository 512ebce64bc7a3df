---------------------------- MODULE DriverProofs ----------------------------
(***************************************************************************)
(* The exit status of buildsh tells whether the targets were executed, for *)
(* any number of make files, targets and interrupts.                       *)
(***************************************************************************)
EXTENDS Driver, TLAPS

Looking == pc \in {"load", "scan", "env", "setup"}

\* While make files are looked at, retval is TRUE only before the first one has
\* been turned down; no error has ended anything.
LookingInv ==
    Looking => /\ (retval = TRUE) <=> (i = 1)
               /\ ran = <<>> /\ broken = FALSE /\ stopped = FALSE
               /\ pc \in {"env", "setup"} => i <= files

TargetInv ==
    pc = "target" =>
      /\ retval = TRUE /\ broken = FALSE /\ stopped = FALSE
      /\ files # 0 /\ Len(ran) = j - 1

ReturnInv ==
    pc \in {"close", "exit"} =>
      ((retval = TRUE) <=> (ran = targets \/ files = 0) /\ broken = FALSE /\ stopped = FALSE)

IInv == TypeOK /\ targets # <<>> /\ InOrder /\ LookingInv /\ TargetInv /\ ReturnInv

\* The invariant holds when buildsh starts.
LEMMA InitIInv == Init => IInv
<1> SUFFICES ASSUME Init PROVE IInv
  OBVIOUS
<1> USE DriverAssumption
<1>1. PICK n \in 1..MaxTargets : targets \in [1..n -> Target]
  BY DEF Init
<1>2. targets \in Seq(Target) /\ Len(targets) = n
  BY <1>1
<1>3. TypeOK
  <2>1. <<>> \in Seq(Target)
    OBVIOUS
  <2>2. targets \in Seq(Target) /\ i \in 1..(files + 1) /\ j \in 1..(Len(targets) + 1)
    BY <1>2 DEF Init
  <2>3. ran \in Seq(Target)
    BY <2>1 DEF Init
  <2>4. signals \in 0..MaxSignals /\ defined \subseteq Target
    BY DEF Init, DriverAssumption
  <2>5. /\ retval \in BOOLEAN /\ hook \in BOOLEAN
        /\ broken \in BOOLEAN /\ stopped \in BOOLEAN
        /\ onsigint \in {"default", "laction"}
        /\ files \in 0..MaxFiles
    BY DEF Init
  <2> QED
    BY <2>2, <2>3, <2>4, <2>5, Zenon DEF Init, TypeOK
<1>4. targets # <<>>
  BY <1>2
<1>5. InOrder
  BY <1>2 DEF Init, InOrder
<1>6. LookingInv /\ TargetInv /\ ReturnInv
  BY <1>3 DEF Init, LookingInv, Looking, TargetInv, ReturnInv, TypeOK
<1> QED
  BY <1>3, <1>4, <1>5, <1>6 DEF IInv

\* Executing the next target keeps the executed ones a prefix of the list.
LEMMA ExecutedInOrder ==
    ASSUME IInv, pc = "target", j <= Len(targets), Executed
    PROVE  IInv'
<1> USE DEF IInv, TypeOK, Executed, args, signal
<1>1. /\ ran' \in Seq(Target) /\ Len(ran') = Len(ran) + 1
      /\ \A k \in 1..Len(ran) : ran'[k] = ran[k]
      /\ ran'[Len(ran) + 1] = targets[j]
  OBVIOUS
<1>2. j = Len(ran) + 1
  BY DEF TargetInv
<1>3. InOrder'
  BY <1>1, <1>2 DEF InOrder
<1>4. TypeOK'
  BY <1>1
<1>5. LookingInv' /\ ReturnInv'
  BY DEF LookingInv, Looking, ReturnInv
<1>6. TargetInv'
  BY <1>1, <1>2 DEF TargetInv
<1> QED
  BY <1>3, <1>4, <1>5, <1>6

\* Every step of main, of the scripts and of the targets keeps it.
LEMMA NextIInv == IInv /\ [Next]_vars => IInv'
<1> SUFFICES ASSUME IInv, [Next]_vars PROVE IInv'
  OBVIOUS
<1> USE DriverAssumption
<1>a. ASSUME NextFile, Looking, i <= files PROVE IInv'
  <2>a. i' \in 1..(files' + 1)
    BY <1>a DEF NextFile, IInv, TypeOK, args
  <2>1. TypeOK'
    BY <1>a, <2>a DEF NextFile, IInv, TypeOK, Looking, LookingInv, args, signal
  <2>2. InOrder' /\ targets' # <<>>
    BY <1>a DEF NextFile, IInv, InOrder, args, signal
  <2>3. LookingInv' /\ TargetInv'
    BY <1>a DEF NextFile, IInv, TypeOK, Looking, LookingInv, TargetInv, args, signal
  <2>4. ReturnInv'
    BY <1>a DEF NextFile, IInv, TypeOK, InOrder, Looking, LookingInv, TargetInv, ReturnInv, args, signal
  <2> QED
    BY <2>1, <2>2, <2>3, <2>4 DEF IInv
<1>b. ASSUME NEW p \in {"scan", "env", "setup"}, Goto(p), Looking, i <= files PROVE IInv'
  BY <1>b DEF IInv, TypeOK, Goto, InOrder, LookingInv, Looking, TargetInv, ReturnInv,
     args, signal
<1>c. ASSUME GiveUp, Looking, i <= files PROVE IInv'
  <2>1. TypeOK'
    BY <1>c DEF GiveUp, Return, IInv, TypeOK, Looking, LookingInv, args, signal
  <2>2. InOrder' /\ targets' # <<>>
    BY <1>c DEF GiveUp, Return, IInv, InOrder, args, signal
  <2>3. LookingInv' /\ TargetInv'
    BY <1>c DEF GiveUp, Return, IInv, TypeOK, Looking, LookingInv, TargetInv, args, signal
  <2>4. ReturnInv'
    BY <1>c DEF GiveUp, Return, IInv, TypeOK, InOrder, Looking, LookingInv, TargetInv, ReturnInv, args, signal
  <2> QED
    BY <2>1, <2>2, <2>3, <2>4 DEF IInv
<1>d. ASSUME GiveUp, pc = "target", j <= Len(targets) PROVE IInv'
  <2>1. TypeOK'
    BY <1>d DEF GiveUp, Return, IInv, TypeOK, Looking, LookingInv, args, signal
  <2>2. InOrder' /\ targets' # <<>>
    BY <1>d DEF GiveUp, Return, IInv, InOrder, args, signal
  <2>3. LookingInv' /\ TargetInv'
    BY <1>d DEF GiveUp, Return, IInv, TypeOK, Looking, LookingInv, TargetInv, args, signal
  <2>4. ReturnInv'
    BY <1>d DEF GiveUp, Return, IInv, TypeOK, InOrder, Looking, LookingInv, TargetInv, ReturnInv, args, signal
  <2> QED
    BY <2>1, <2>2, <2>3, <2>4 DEF IInv
<1>1. CASE LoadDeps
  <2>1. CASE Goto("scan")
    BY <1>1, <2>1 DEF LoadDeps, At, IInv, TypeOK, Goto, InOrder, LookingInv, Looking,
       TargetInv, ReturnInv, args, signal
  <2>2. CASE Return(FALSE) /\ broken' = TRUE
    <3>1. TypeOK'
      BY <1>1, <2>2 DEF Return, IInv, TypeOK, args
    <3>2. InOrder' /\ targets' # <<>>
      BY <2>2 DEF Return, IInv, InOrder, args
    <3>3. LookingInv' /\ TargetInv'
      BY <2>2 DEF Return, Looking, LookingInv, TargetInv
    <3>4. ReturnInv'
      BY <2>2 DEF Return, ReturnInv
    <3> QED
      BY <3>1, <3>2, <3>3, <3>4 DEF IInv
  <2> QED
    BY <1>1, <2>1, <2>2 DEF LoadDeps
<1>2. CASE Check
  BY <1>2, <1>a, <1>b DEF Check, At, Looking
<1>3. CASE NoMoreFiles
  BY <1>3 DEF NoMoreFiles, At, IInv, TypeOK, Return, InOrder, LookingInv, Looking,
     TargetInv, ReturnInv, args
<1>4. CASE MakeEnv
  BY <1>4, <1>a, <1>b, <1>c DEF MakeEnv, At, Looking, IInv, LookingInv
<1>5. CASE Setup
  <2>1. CASE Choose
    BY <1>5, <2>1 DEF Setup, At, Choose, IInv, TypeOK, InOrder, LookingInv, Looking,
       TargetInv, ReturnInv, args, signal
  <2>2. CASE NextFile \/ GiveUp
    BY <1>5, <2>2, <1>a, <1>c DEF Setup, At, Looking, IInv, LookingInv
  <2> QED
    BY <1>5, <2>1, <2>2 DEF Setup
<1>6. CASE Execute
  BY <1>6, <1>d, ExecutedInOrder DEF Execute, At
<1>7. CASE NoMoreTargets
  <2>1. Len(ran) = Len(targets) /\ ran \in Seq(Target) /\ targets \in Seq(Target)
    BY <1>7 DEF NoMoreTargets, At, IInv, TypeOK, TargetInv
  <2>2. ran = targets
    BY <2>1 DEF IInv, InOrder
  <2> QED
    BY <1>7, <2>2 DEF NoMoreTargets, At, IInv, TypeOK, Return, InOrder, LookingInv, Looking,
       TargetInv, ReturnInv, args
<1>8. CASE Close
  BY <1>8 DEF Close, Goto, IInv, TypeOK, InOrder, LookingInv, Looking, TargetInv,
     ReturnInv, args, signal
<1>9. CASE Stop
  <2>1. CASE UNCHANGED <<pc, retval, onsigint, stopped>>
    BY <1>9, <2>1 DEF Stop, IInv, TypeOK, InOrder, LookingInv, Looking, TargetInv,
       ReturnInv, args
  <2>2. CASE ~UNCHANGED <<pc, retval, onsigint, stopped>>
    BY <1>9, <2>2 DEF Stop, IInv, TypeOK, InOrder, LookingInv, Looking, TargetInv,
       ReturnInv, args
  <2> QED
    BY <2>1, <2>2
<1>10. CASE Sigint
  <2>a. signals' \in 0..MaxSignals
    BY <1>10 DEF Sigint, IInv, TypeOK
  <2>b. /\ pc' \in {pc, "killed"}
        /\ onsigint' \in {onsigint, "default"}
        /\ hook' \in {hook, TRUE}
    BY <1>10 DEF Sigint
  <2>1. TypeOK'
    BY <1>10, <2>a, <2>b DEF Sigint, IInv, TypeOK, args
  <2>2. InOrder' /\ targets' # <<>>
    BY <1>10 DEF Sigint, IInv, InOrder, args, signal
  <2>3. LookingInv' /\ TargetInv'
    BY <1>10 DEF Sigint, IInv, TypeOK, Looking, LookingInv, TargetInv, args, signal
  <2>4. ReturnInv'
    BY <1>10 DEF Sigint, IInv, TypeOK, InOrder, Looking, LookingInv, TargetInv, ReturnInv, args, signal
  <2> QED
    BY <2>1, <2>2, <2>3, <2>4 DEF IInv
<1>11. CASE UNCHANGED vars
  BY <1>11 DEF vars, IInv, TypeOK, InOrder, LookingInv, Looking, TargetInv, ReturnInv,
     args, signal
<1> QED
  BY <1>1, <1>2, <1>3, <1>4, <1>5, <1>6, <1>7, <1>8, <1>9, <1>10, <1>11 DEF Next, Step

\* The invariant of the driver always holds.
LEMMA AlwaysIInv == Spec => []IInv
BY InitIInv, NextIInv, PTL DEF Spec

(***************************************************************************)
(* buildsh exits with status 0 exactly if all targets were executed or     *)
(* there was no make file, and neither an error before that nor a SIGINT   *)
(* that nobody caught ended it, whatever make files were passed over and   *)
(* whenever SIGINT came (the main chunk of build.lua, report and main).    *)
(***************************************************************************)
THEOREM ExitStatusRight == Spec => []ExitStatus
<1>1. IInv => ExitStatus
  BY DEF IInv, TypeOK, ReturnInv, ExitStatus
<1> QED
  BY <1>1, AlwaysIInv, PTL

(***************************************************************************)
(* The executed targets are always a prefix of the ones asked for (the     *)
(* loop over make_targets).                                                *)
(***************************************************************************)
THEOREM TargetsInOrder == Spec => []InOrder
<1>1. IInv => InOrder
  BY DEF IInv
<1> QED
  BY <1>1, AlwaysIInv, PTL
=============================================================================
