--------------------------- MODULE PreloadProofs ---------------------------
(***************************************************************************)
(* The preload library: its log and its environments.                      *)
(***************************************************************************)
EXTENDS PreloadLog, PreloadEnv, FiniteSetTheorems, TLAPS
-----------------------------------------------------------------------------
(***************************************************************************)
(* What the preload library's lock on the log is worth, for any number of  *)
(* processes, calls and writes per line.  That nobody keeps the lock holds *)
(* for programs with threads as well; that a killed process costs at most  *)
(* one call of another one is proved for programs without threads, because *)
(* the lock does not make the threads of one process wait for each other.  *)
(***************************************************************************)

\* No program has a second thread.
SingleThreaded == \A t, u \in Thread : Owner[t] = Owner[u] => t = u

\* A wrapper that is writing to the log file.
Writing(t) == At(t, "write") /\ log_fd[Owner[t]] = "log"

PieceOf(t, c, w) == [thread |-> t, call |-> c, part |-> w]

\* What a wrapper knows on its way from open_log_file to my_unlock.
WrapperInv ==
    /\ \A t \in Thread : /\ pc[t] \notin {"program", "gone"} => calls[t] > 0
                         /\ pc[t] \in {"open", "lock"} => written[t] = 0
                         /\ pc[t] \in {"lock", "write"} => log_fd[Owner[t]] # "none"
    /\ \A p \in Proc : log_fd[p] \in {"closed", "other"} => p \in closed

\* The process that has locked the log file has it open, in log_fd unless a
\* thread of it was destroyed by exec.
LockInv ==
    lock # NoProc =>
      log_fd[lock] = "log" \/ Inherited

\* The lock keeps all other writers out.
Exclusive == \A t \in Thread : Writing(t) => lock = Owner[t]

\* A piece comes after all of the pieces of its line before it.
Contiguous ==
    \A i \in 1..Len(log) :
      /\ log[i].part <= i
      /\ \A q \in 1..log[i].part :
           log[i - log[i].part + q] = PieceOf(log[i].thread, log[i].call, q)

\* The line of piece i has been left unfinished.
Torn(i) ==
    /\ log[i + 1].part = 1 /\ Owner[log[i].thread] \in ended
    /\ \A j \in (i + 1)..Len(log) : log[j].thread # log[i].thread
Interrupted ==
    \A i \in 1..(Len(log) - 1) : log[i].part < Pieces => Torn(i) \/ log[i + 1].part > 1

\* What a wrapper has written is at the end of the log; an unfinished line at
\* the end of the log is one that is being written, or its writer was killed.
AtTheEnd ==
    \A t \in Thread : Writing(t) /\ written[t] > 0 =>
      Len(log) > 0 /\ log[Len(log)] = PieceOf(t, calls[t], written[t])
LastLine ==
    Len(log) > 0 /\ log[Len(log)].part < Pieces =>
      LET t == log[Len(log)].thread
      IN  Owner[t] \in ended \/ (Writing(t) /\ written[t] = log[Len(log)].part)

\* The last piece of the line of a call that has returned is in the log.
Finished ==
    \A t \in Thread : \A c \in Returned(t) :
      Owner[t] \notin closed /\ <<t, c>> \notin dropped =>
        \E i \in 1..Len(log) : log[i] = PieceOf(t, c, Pieces)

LogInv == /\ TypeOK /\ WrapperInv /\ Exclusive /\ Contiguous /\ Interrupted
          /\ AtTheEnd /\ LastLine /\ Finished /\ IsFiniteSet(ended)

-----------------------------------------------------------------------------
\* What holds for programs with threads as well.
BaseInv == TypeOK /\ WrapperInv /\ LockInv /\ LockReleased

\* The part of the invariant about the lock holds at first.
LEMMA InitBaseInv == Init => BaseInv
<1> SUFFICES ASSUME Init PROVE BaseInv
  OBVIOUS
<1> USE LogAssumption DEF LogAssumption, Init
<1>1. TypeOK
  <2>1. log \in Seq(Piece)
    OBVIOUS
  <2>2. dropped \subseteq Thread \X (0..MaxCalls) /\ failed \in BOOLEAN
    BY Zenon
  <2>3. /\ pc \in [Thread -> {"program", "open", "lock", "write", "cut", "gone"}]
        /\ calls \in [Thread -> 0..MaxCalls] /\ written \in [Thread -> 0..Pieces]
        /\ log_fd \in [Proc -> {"none", "log", "closed", "other"}]
        /\ lock \in Proc \cup {NoProc} /\ ended \subseteq Proc /\ closed \subseteq Proc
    OBVIOUS
  <2> QED
    BY <2>1, <2>2, <2>3, Zenon DEF TypeOK
<1>2. WrapperInv /\ LockInv /\ LockReleased
  BY DEF WrapperInv, LockInv, LockReleased, Inherited
<1> QED
  BY <1>1, <1>2 DEF BaseInv

\* One step, action by action: types and what a wrapper knows.
LEMMA NextBaseInv == BaseInv /\ [Next]_vars => BaseInv'
<1> SUFFICES ASSUME BaseInv, [Next]_vars PROVE BaseInv'
  OBVIOUS
<1> USE LogAssumption DEF LogAssumption, BaseInv, TypeOK, At, Alive, Goto, Drop
<1>1. ASSUME NEW t \in Thread, Call(t) PROVE BaseInv'
  <2> USE <1>1 DEF Call
  <2>1. TypeOK' /\ WrapperInv'
    BY DEF WrapperInv
  <2>2. LockInv' /\ LockReleased'
    BY DEF LockInv, LockReleased, Inherited
  <2> QED
    BY <2>1, <2>2
<1>2. ASSUME NEW t \in Thread, OpenLogFile(t) PROVE BaseInv'
  <2> USE <1>2 DEF OpenLogFile
  <2>1. TypeOK' /\ WrapperInv'
    BY DEF WrapperInv
  <2>2. LockInv' /\ LockReleased'
    BY DEF LockInv, LockReleased, Inherited
  <2> QED
    BY <2>1, <2>2
<1>3. ASSUME NEW t \in Thread, Lock(t) PROVE BaseInv'
  <2> USE <1>3 DEF Lock
  <2>1. TypeOK' /\ WrapperInv'
    <3>1. dropped' \subseteq Thread \X (0..MaxCalls)
      <4>1. <<t, calls[t]>> \in Thread \X (0..MaxCalls)
        OBVIOUS
      <4>2. dropped' = dropped \/ dropped' = dropped \cup {<<t, calls[t]>>}
        OBVIOUS
      <4> QED
        BY <4>1, <4>2
    <3>2. /\ pc' \in [Thread -> {"program", "open", "lock", "write", "cut", "gone"}]
          /\ log_fd' \in [Proc -> {"none", "log", "closed", "other"}]
          /\ lock' \in Proc \cup {NoProc}
          /\ UNCHANGED <<calls, written, log, ended, closed, failed>>
      <4>1. pc' \in {[pc EXCEPT ![t] = "write"], [pc EXCEPT ![t] = "program"]}
        OBVIOUS
      <4>2. lock' = lock \/ lock' = Owner[t]
        OBVIOUS
      <4>3. pc' \in [Thread -> {"program", "open", "lock", "write", "cut", "gone"}]
        BY <4>1
      <4>4. lock' \in Proc \cup {NoProc}
        BY <4>2
      <4>5. UNCHANGED <<log_fd, calls, written, log, ended, closed, failed>>
        OBVIOUS
      <4> QED
        BY <4>3, <4>4, <4>5
    <3>3. TypeOK'
      BY <3>1, <3>2, Zenon DEF TypeOK
    <3>4. WrapperInv'
      BY DEF WrapperInv
    <3> QED
      BY <3>3, <3>4
  <2>2. LockInv' /\ LockReleased'
    BY DEF LockInv, LockReleased, Inherited
  <2> QED
    BY <2>1, <2>2
<1>4. ASSUME NEW t \in Thread, Write(t) PROVE BaseInv'
  <2> USE <1>4 DEF Write
  <2>1. [thread |-> t, call |-> calls[t], part |-> written[t] + 1] \in Piece
    <3>1. pc[t] = "write" /\ written[t] < Pieces /\ calls[t] > 0
      BY DEF WrapperInv
    <3>2. calls[t] \in 0..MaxCalls /\ written[t] \in 0..Pieces
      OBVIOUS
    <3>3. calls[t] \in 1..MaxCalls /\ written[t] + 1 \in 1..Pieces
      BY <3>1, <3>2
    <3> QED
      BY <3>3 DEF Piece
  <2>2. log' \in Seq(Piece) /\ failed' \in BOOLEAN
    <3>1. \/ UNCHANGED <<log, failed>>
          \/ UNCHANGED failed
             /\ log' = Append(log, [thread |-> t, call |-> calls[t], part |-> written[t] + 1])
          \/ failed' = TRUE /\ UNCHANGED log
      BY Zenon
    <3>2. failed' \in BOOLEAN
      BY <3>1, Zenon
    <3>3. log' \in Seq(Piece)
      <4>1. PICK new \in Piece : log' = log \/ log' = Append(log, new)
        BY <2>1, <3>1, Zenon
      <4>2. log \in Seq(Piece)
        OBVIOUS
      <4>3. \A s \in Seq(Piece), x \in Piece : Append(s, x) \in Seq(Piece)
        OBVIOUS
      <4> QED
        BY <4>1, <4>2, <4>3, Zenon
    <3> QED
      BY <3>2, <3>3
  <2>3. TypeOK' /\ WrapperInv'
    BY <2>2 DEF WrapperInv
  <2>4. LockInv' /\ LockReleased'
    BY DEF LockInv, LockReleased, Inherited
  <2> QED
    BY <2>3, <2>4
<1>5. ASSUME NEW t \in Thread, Unlock(t) PROVE BaseInv'
  <2> USE <1>5 DEF Unlock, Release
  <2>1. TypeOK' /\ WrapperInv'
    BY DEF WrapperInv
  <2>2. LockInv' /\ LockReleased'
    BY DEF LockInv, LockReleased, Inherited
  <2> QED
    BY <2>1, <2>2
<1>6. ASSUME NEW p \in Proc, Exec(p) PROVE BaseInv'
  <2> USE <1>6 DEF Exec, AfterExec
  <2>1. TypeOK' /\ WrapperInv'
    BY DEF WrapperInv
  <2>2. LockInv' /\ LockReleased'
    BY DEF LockInv, LockReleased, Inherited
  <2> QED
    BY <2>1, <2>2
<1>7. ASSUME NEW p \in Proc, Close(p) PROVE BaseInv'
  <2> USE <1>7 DEF Close, Release
  <2>1. TypeOK' /\ WrapperInv'
    <3>1. \/ UNCHANGED <<log_fd, closed>>
          \/ /\ log_fd[p] = "log" /\ closed' = closed \cup {p}
             /\ \E f \in {"closed", "other"} : log_fd' = [log_fd EXCEPT ![p] = f]
      OBVIOUS
    <3>2. UNCHANGED <<pc, calls, written, log, ended, dropped, failed>>
      OBVIOUS
    <3>3. TypeOK'
      <4>1. lock' \in Proc \cup {NoProc}
        OBVIOUS
      <4>2. /\ closed' \subseteq Proc
            /\ log_fd' \in [Proc -> {"none", "log", "closed", "other"}]
        BY <3>1
      <4> QED
        BY <3>2, <4>1, <4>2, Zenon DEF TypeOK
    <3>4. WrapperInv'
      BY <3>1, <3>2 DEF WrapperInv
    <3> QED
      BY <3>3, <3>4
  <2>2. LockInv' /\ LockReleased'
    BY DEF LockInv, LockReleased, Inherited
  <2> QED
    BY <2>1, <2>2
<1>8. ASSUME NEW p \in Proc, Kill(p) PROVE BaseInv'
  <2> USE <1>8 DEF Kill, Release
  <2>1. TypeOK' /\ WrapperInv'
    BY DEF WrapperInv
  <2>2. LockInv' /\ LockReleased'
    BY DEF LockInv, LockReleased, Inherited
  <2> QED
    BY <2>1, <2>2
<1>9. CASE UNCHANGED vars
  BY <1>9 DEF vars, WrapperInv, LockInv, LockReleased, Inherited
<1>10. ASSUME NEW t \in Thread, Refused(t) PROVE BaseInv'
  <2> USE <1>10 DEF Refused
  <2>1. TypeOK' /\ WrapperInv'
    <3>1. dropped' \subseteq Thread \X (0..MaxCalls)
      <4>1. <<t, calls[t]>> \in Thread \X (0..MaxCalls)
        OBVIOUS
      <4>2. dropped' = dropped \/ dropped' = dropped \cup {<<t, calls[t]>>}
        OBVIOUS
      <4> QED
        BY <4>1, <4>2
    <3>2. /\ pc' \in [Thread -> {"program", "open", "lock", "write", "cut", "gone"}]
          /\ log_fd' \in [Proc -> {"none", "log", "closed", "other"}]
          /\ lock' \in Proc \cup {NoProc}
          /\ UNCHANGED <<calls, written, log, ended, closed, failed>>
      OBVIOUS
    <3>3. TypeOK'
      BY <3>1, <3>2, Zenon DEF TypeOK
    <3>4. WrapperInv'
      BY DEF WrapperInv
    <3> QED
      BY <3>3, <3>4
  <2>2. LockInv' /\ LockReleased'
    BY DEF LockInv, LockReleased, Inherited
  <2> QED
    BY <2>1, <2>2
<1> QED
  BY <1>1, <1>2, <1>3, <1>4, <1>5, <1>6, <1>7, <1>8, <1>9, <1>10 DEF Next, Report

\* The part of the invariant about the lock always holds.
LEMMA BaseInvAlways == Spec => []BaseInv
<1> QED
  BY InitBaseInv, NextBaseInv, PTL DEF Spec

\* Type correctness of the model of the preload library's log.
THEOREM LogTypeCorrect == Spec => []TypeOK
<1>1. BaseInv => TypeOK
  BY DEF BaseInv
<1> QED
  BY <1>1, BaseInvAlways, PTL

\* my_lock and my_unlock: whenever no wrapper is between them the log file is
\* not locked, also after a process has been killed or has closed log_fd,
\* and however many threads a program has.
THEOREM LockAlwaysReleased == Spec => []LockReleased
<1>1. BaseInv => LockReleased
  BY DEF BaseInv
<1> QED
  BY <1>1, BaseInvAlways, PTL

-----------------------------------------------------------------------------
\* The log starts empty.
LEMMA InitLogInv == Init => LogInv
<1> SUFFICES ASSUME Init PROVE LogInv
  OBVIOUS
<1>1. BaseInv
  BY InitBaseInv
<1>2. IsFiniteSet(ended)
  BY FS_EmptySet DEF Init
<1>3. Exclusive /\ AtTheEnd
  BY DEF Init, Exclusive, AtTheEnd, Writing, At
<1>4. Contiguous /\ Interrupted /\ LastLine
  BY DEF Init, Contiguous, Interrupted, LastLine
<1>5. Finished
  <2>1. ASSUME NEW t \in Thread PROVE Returned(t) = {}
    BY DEF Returned, Init
  <2> QED
    BY <2>1 DEF Finished
<1> QED
  BY <1>1, <1>2, <1>3, <1>4, <1>5 DEF LogInv, BaseInv

\* A step that leaves the log file alone disturbs no line of it: of the writers
\* that were there it only has to tell what became of them.
LEMMA LogUnchanged ==
    ASSUME LogInv, UNCHANGED log, ended \subseteq ended',
           \A t \in Thread : Writing(t) => Owner[t] \in ended' \/ (Writing(t)' /\ written'[t] = written[t])
                                           \/ written[t] = Pieces
    PROVE  Contiguous' /\ Interrupted' /\ LastLine'
<1>1. Contiguous'
  BY DEF LogInv, Contiguous, PieceOf
<1>2. Interrupted'
  BY DEF LogInv, Interrupted, Torn
<1>3. LastLine'
  <2> SUFFICES ASSUME Len(log) > 0, log[Len(log)].part < Pieces
               PROVE  LET t == log[Len(log)].thread
                      IN  Owner[t] \in ended' \/ (Writing(t)' /\ written'[t] = log[Len(log)].part)
    BY DEF LastLine
  <2> DEFINE t == log[Len(log)].thread
  <2>1. log[Len(log)] \in Piece
    BY DEF LogInv, TypeOK
  <2>2. t \in Thread /\ log[Len(log)].part \in 1..Pieces
    BY <2>1 DEF Piece
  <2>3. Owner[t] \in ended \/ (Writing(t) /\ written[t] = log[Len(log)].part)
    BY DEF LogInv, LastLine
  <2>4. CASE Writing(t) /\ written[t] = log[Len(log)].part
    BY <2>2, <2>4, LogAssumption DEF LogAssumption
  <2> QED
    BY <2>3, <2>4
<1> QED
  BY <1>1, <1>2, <1>3

\* What a step does to the calls that have returned, if it adds only such calls
\* to them as are not logged.
LEMMA FinishedKept ==
    ASSUME LogInv, UNCHANGED log, closed \subseteq closed', dropped \subseteq dropped',
           \A t \in Thread : \A c \in Returned(t)' :
             c \in Returned(t) \/ Owner[t] \in closed' \/ <<t, c>> \in dropped'
    PROVE  Finished'
<1> SUFFICES ASSUME NEW t \in Thread, NEW c \in Returned(t)',
                    Owner[t] \notin closed', <<t, c>> \notin dropped'
             PROVE  \E i \in 1..Len(log) : log[i] = PieceOf(t, c, Pieces)
  BY DEF Finished, PieceOf
<1>1. c \in Returned(t) /\ Owner[t] \notin closed /\ <<t, c>> \notin dropped
  OBVIOUS
<1> QED
  BY <1>1 DEF LogInv, Finished

\* A call that is given up returns to the program.
LEMMA DropKeeps ==
    ASSUME TypeOK, NEW t \in Thread, Drop(t), pc[t] # "program", calls' = calls
    PROVE  \A u \in Thread : \A c \in Returned(u)' :
             c \in Returned(u) \/ <<u, c>> \in dropped'
<1> SUFFICES ASSUME NEW u \in Thread, NEW c \in Returned(u)', c \notin Returned(u)
             PROVE  <<u, c>> \in dropped'
  OBVIOUS
<1>1. calls[u] \in Nat /\ pc'[t] = "program" /\ (u # t => pc'[u] = pc[u])
  BY LogAssumption DEF LogAssumption, TypeOK, Drop, Goto
<1>2. u = t
  BY <1>1 DEF Returned
<1>3. c = calls[t]
  <2>1. c \in 1..calls[t] /\ c \notin 1..(calls[t] - 1)
    BY <1>1, <1>2 DEF Returned
  <2> QED
    BY <1>1, <1>2, <2>1
<1> QED
  BY <1>2, <1>3 DEF Drop

\* Where the pieces of a line are after another one has been appended.
LEMMA PieceIndex ==
    ASSUME NEW w \in Nat, NEW l \in Nat, w <= l
    PROVE  \A q \in 1..w : (l + 1) - (w + 1) + q = l - w + q /\ l - w + q \in 1..l
<1> QED
  OBVIOUS

\* A wrapper writes the next piece of its line.
LEMMA WriteLogInv ==
    ASSUME SingleThreaded, LogInv, NEW t \in Thread, Write(t), log_fd[Owner[t]] = "log",
           ~failed', TypeOK'
    PROVE  Exclusive' /\ Contiguous' /\ Interrupted' /\ AtTheEnd' /\ LastLine' /\ Finished'
<1> USE LogAssumption DEF LogAssumption, Write, At, Alive
<1> DEFINE new == PieceOf(t, calls[t], written[t] + 1)
<1>1. /\ log \in Seq(Piece) /\ log' = Append(log, new) /\ Len(log) \in Nat
      /\ written \in [Thread -> 0..Pieces]
      /\ \A i \in 1..Len(log) : log[i] \in Piece
  BY DEF LogInv, TypeOK, PieceOf
<1>2. /\ Len(log') = Len(log) + 1 /\ log'[Len(log) + 1] = new
      /\ \A i \in 1..Len(log) : log'[i] = log[i]
  BY <1>1
<1>3. /\ new.thread = t /\ new.call = calls[t] /\ new.part = written[t] + 1
      /\ written[t] \in Nat /\ written[t] < Pieces
  BY <1>1 DEF PieceOf
<1>4. \A i \in 1..Len(log) : log[i].part \in 1..Pieces /\ log[i].thread \in Thread
  BY <1>1 DEF Piece
<1>5. Writing(t) /\ \A u \in Thread : Writing(u) => u = t
  BY DEF LogInv, Exclusive, Writing, SingleThreaded
<1>6. written[t] > 0 => Len(log) > 0 /\ log[Len(log)] = PieceOf(t, calls[t], written[t])
  BY <1>5 DEF LogInv, AtTheEnd
<1>7. \A u \in Thread : Writing(u)' => u = t
  BY <1>5 DEF Writing
<1>8. Exclusive'
  BY <1>5 DEF LogInv, Exclusive, Writing
<1>9. Contiguous'
  <2> SUFFICES ASSUME NEW i \in 1..(Len(log) + 1)
               PROVE  /\ log'[i].part <= i
                      /\ \A q \in 1..log'[i].part :
                           log'[i - log'[i].part + q] = PieceOf(log'[i].thread, log'[i].call, q)
    BY <1>2, ZenonT(30) DEF Contiguous, PieceOf
  <2>1. CASE i \in 1..Len(log)
    <3>1. log'[i] = log[i] /\ log[i].part <= i /\ log[i].part \in 1..Pieces
      BY <1>2, <1>4, <2>1 DEF LogInv, Contiguous
    <3>2. ASSUME NEW q \in 1..log[i].part
          PROVE  log'[i - log[i].part + q] = PieceOf(log[i].thread, log[i].call, q)
      <4>1. i - log[i].part + q \in 1..Len(log)
        BY <2>1, <3>1
      <4>2. log[i - log[i].part + q] = PieceOf(log[i].thread, log[i].call, q)
        BY <2>1 DEF LogInv, Contiguous
      <4> QED
        BY <1>2, <4>1, <4>2
    <3> QED
      BY <3>1, <3>2
  <2>2. CASE i = Len(log) + 1 /\ written[t] = 0
    <3>1. log'[i].part = 1
      BY <1>2, <1>3, <2>2
    <3> QED
      BY <1>2, <1>3, <2>2, <3>1
  <2>3. CASE i = Len(log) + 1 /\ written[t] > 0
    <3> DEFINE l == Len(log)
    <3>1. /\ l \in 1..l /\ log[l].part = written[t]
          /\ log[l].thread = t /\ log[l].call = calls[t]
      BY <1>1, <1>6, <2>3 DEF PieceOf
    <3>2. /\ written[t] <= l
          /\ \A q \in 1..written[t] : log[l - written[t] + q] = PieceOf(t, calls[t], q)
      BY <3>1 DEF LogInv, Contiguous
    <3>3. log'[i].part <= i
      BY <1>1, <1>2, <1>3, <2>3, <3>2
    <3>4. ASSUME NEW q \in 1..(written[t] + 1)
          PROVE  log'[i - (written[t] + 1) + q] = PieceOf(t, calls[t], q)
      <4>1. CASE q = written[t] + 1
        BY <1>2, <1>3, <2>3, <4>1
      <4>2. CASE q \in 1..written[t]
        <5>1. i - (written[t] + 1) + q = l - written[t] + q /\ l - written[t] + q \in 1..l
          <6>1. l \in Nat /\ written[t] \in Nat /\ i = l + 1 /\ written[t] <= l
            BY <1>1, <1>3, <2>3, <3>2
          <6> HIDE DEF l
          <6>2. /\ (l + 1) - (written[t] + 1) + q = l - written[t] + q
                /\ l - written[t] + q \in 1..l
            BY <4>2, <6>1, PieceIndex
          <6> QED
            BY <6>1, <6>2
        <5> QED
          BY <1>2, <3>2, <4>2, <5>1
      <4>3. q = written[t] + 1 \/ q \in 1..written[t]
        BY <1>3
      <4> QED
        BY <4>1, <4>2, <4>3
    <3> QED
      BY <1>2, <1>3, <2>3, <3>3, <3>4
  <2>4. i \in 1..Len(log) \/ i = Len(log) + 1
    BY <1>1
  <2>5. written[t] = 0 \/ written[t] > 0
    BY <1>3
  <2> QED
    BY <2>1, <2>2, <2>3, <2>4, <2>5
<1>10. Interrupted'
  <2> SUFFICES ASSUME NEW i \in 1..Len(log), log[i].part < Pieces
               PROVE  Torn(i)' \/ log'[i + 1].part > 1
    BY <1>1, <1>2 DEF Interrupted
  <2>1. CASE i < Len(log)
    <3>1. Torn(i) \/ log[i + 1].part > 1
      BY <1>1, <2>1 DEF LogInv, Interrupted
    <3>2. i + 1 \in 1..Len(log) /\ log'[i + 1] = log[i + 1] /\ log'[i] = log[i]
      BY <1>1, <1>2, <2>1
    <3>3. CASE Torn(i)
      <4>1. log[i].thread # t
        BY <3>3 DEF Torn
      <4>2. ASSUME NEW j \in (i + 1)..(Len(log) + 1) PROVE log'[j].thread # log'[i].thread
        <5>1. CASE j = Len(log) + 1
          BY <1>2, <1>3, <3>2, <4>1, <5>1
        <5>2. CASE j \in (i + 1)..Len(log)
          BY <1>1, <1>2, <3>2, <3>3, <5>2 DEF Torn
        <5> QED
          BY <1>1, <5>1, <5>2
      <4>3. log'[i + 1].part = 1 /\ Owner[log'[i].thread] \in ended'
        BY <3>2, <3>3 DEF Torn
      <4> QED
        BY <1>2, <4>2, <4>3 DEF Torn
    <3> QED
      BY <3>1, <3>2, <3>3
  <2>2. CASE i = Len(log)
    <3>1. log'[i + 1] = new /\ log'[i] = log[i] /\ log[i].thread \in Thread
      BY <1>1, <1>2, <1>4, <2>2
    <3>2. CASE Owner[log[i].thread] \in ended
      <4>1. log[i].thread # t
        BY <3>2
      <4>2. written[t] = 0
        BY <1>3, <1>6, <2>2, <4>1 DEF PieceOf
      <4>3. Torn(i)'
        BY <1>1, <1>2, <1>3, <2>2, <3>1, <3>2, <4>1, <4>2 DEF Torn
      <4> QED
        BY <4>3
    <3>3. CASE Owner[log[i].thread] \notin ended
      <4>1. Writing(log[i].thread) /\ written[log[i].thread] = log[i].part
        BY <2>2, <3>3 DEF LogInv, LastLine
      <4>2. written[t] = log[i].part
        BY <1>5, <3>1, <4>1
      <4> QED
        BY <1>3, <1>4, <3>1, <4>2
    <3> QED
      BY <3>2, <3>3
  <2> QED
    BY <1>1, <2>1, <2>2
<1>11. AtTheEnd'
  <2> SUFFICES ASSUME NEW u \in Thread, Writing(u)'
               PROVE  Len(log') > 0 /\ log'[Len(log')] = PieceOf(u, calls'[u], written'[u])
    BY DEF AtTheEnd, PieceOf
  <2> QED
    BY <1>1, <1>2, <1>7
<1>12. LastLine'
  <2>1. Writing(t)'
    BY <1>5 DEF Writing
  <2> QED
    BY <1>1, <1>2, <1>3, <2>1 DEF LastLine
<1>13. Finished'
  <2> SUFFICES ASSUME NEW u \in Thread, NEW c \in Returned(u), Owner[u] \notin closed,
                      <<u, c>> \notin dropped
               PROVE  \E i \in 1..Len(log') : log'[i] = PieceOf(u, c, Pieces)
    BY DEF Finished, Returned, PieceOf
  <2>1. PICK i \in 1..Len(log) : log[i] = PieceOf(u, c, Pieces)
    BY DEF LogInv, Finished
  <2> QED
    BY <1>1, <1>2, <2>1
<1> QED
  BY <1>8, <1>9, <1>10, <1>11, <1>12, <1>13

\* The ways out of open_log_file, and of my_lock if it fails.
LEMMA OpenWays ==
    ASSUME NEW t \in Thread, OpenLogFile(t) \/ Refused(t)
    PROVE  /\ pc[t] \in {"open", "lock"} /\ UNCHANGED <<lock, written, calls>>
           /\ pc' = [pc EXCEPT ![t] = "lock"] \/ pc' = [pc EXCEPT ![t] = "program"]
<1>1. ASSUME OpenLogFile(t)
      PROVE  pc[t] = "open" /\ UNCHANGED <<lock, written, calls>> /\ pc' = [pc EXCEPT ![t] = "lock"]
  BY <1>1 DEF OpenLogFile, At, Goto
<1>2. ASSUME Refused(t)
      PROVE  /\ pc[t] \in {"open", "lock"} /\ UNCHANGED <<lock, written, calls>>
             /\ pc' = [pc EXCEPT ![t] = "program"]
  BY <1>2 DEF Refused, At, Goto, Drop
<1> QED
  BY <1>1, <1>2

\* The ways out of my_lock.
LEMMA LockWays ==
    ASSUME NEW t \in Thread, Lock(t)
    PROVE  \/ pc' = [pc EXCEPT ![t] = "write"] /\ lock' = Owner[t] /\ lock \in {NoProc, Owner[t]}
           \/ pc' = [pc EXCEPT ![t] = "write"] /\ log_fd[Owner[t]] = "other" /\ UNCHANGED lock
           \/ pc' = [pc EXCEPT ![t] = "program"] /\ UNCHANGED lock
  BY Zenon DEF Lock, Goto, Drop

\* The inductive step, action by action.
LEMMA NextLogInv == SingleThreaded /\ LogInv /\ BaseInv /\ [Next]_vars => failed' \/ LogInv'
<1> SUFFICES ASSUME SingleThreaded, LogInv, BaseInv, [Next]_vars, ~failed' PROVE LogInv'
  OBVIOUS
<1>0. TypeOK' /\ WrapperInv'
  BY NextBaseInv DEF BaseInv
<1> USE LogAssumption DEF LogAssumption, TypeOK, At, Alive, Goto, SingleThreaded
<1>1. ASSUME NEW t \in Thread, Call(t) PROVE LogInv'
  <2> USE <1>1 DEF Call
  <2>1. \A u \in Thread : Writing(u) => Owner[u] \in ended' \/ (Writing(u)' /\ written'[u] = written[u])
                                           \/ written[u] = Pieces
    BY DEF Writing
  <2>2. Contiguous' /\ Interrupted' /\ LastLine'
    BY <2>1, LogUnchanged
  <2>3. Finished'
    <3>1. \A u \in Thread : Returned(u)' = Returned(u)
      BY DEF Returned, BaseInv
    <3> QED
      BY <3>1, FinishedKept
  <2>4. Exclusive'
    BY DEF LogInv, Exclusive, Writing
  <2>5. AtTheEnd'
    BY DEF LogInv, AtTheEnd, Writing, PieceOf
  <2>6. IsFiniteSet(ended')
    BY DEF LogInv
  <2> QED
    BY <1>0, <2>2, <2>3, <2>4, <2>5, <2>6 DEF LogInv
<1>2. ASSUME NEW t \in Thread, OpenLogFile(t) PROVE LogInv'
  <2> USE <1>2 DEF OpenLogFile, BaseInv
  <2>0. \A u \in Thread : Writing(u)' <=> Writing(u)
    <3>1. /\ pc[t] \in {"open", "lock"}
          /\ pc' = [pc EXCEPT ![t] = "lock"] \/ pc' = [pc EXCEPT ![t] = "program"]
      BY <1>2, OpenWays, Zenon
    <3>2. \A u \in Thread : pc'[u] = "write" <=> pc[u] = "write"
      BY <3>1
    <3>3. \A u \in Thread : pc[u] = "write" => log_fd'[Owner[u]] = log_fd[Owner[u]]
      BY <3>1
    <3> QED
      BY <3>2, <3>3 DEF Writing
  <2>1. \A u \in Thread : Writing(u) => Owner[u] \in ended' \/ (Writing(u)' /\ written'[u] = written[u])
                                           \/ written[u] = Pieces
    BY <2>0
  <2>2. Contiguous' /\ Interrupted' /\ LastLine'
    BY <2>1, LogUnchanged
  <2>3. Finished'
    <3>1. \A u \in Thread : Returned(u)' = Returned(u)
      BY DEF Returned
    <3> QED
      BY <3>1, FinishedKept
  <2>4. Exclusive'
    BY <2>0 DEF LogInv, Exclusive
  <2>5. AtTheEnd'
    BY <2>0 DEF LogInv, AtTheEnd, PieceOf
  <2>6. IsFiniteSet(ended')
    BY DEF LogInv
  <2> QED
    BY <1>0, <2>2, <2>3, <2>4, <2>5, <2>6 DEF LogInv
<1>3. ASSUME NEW t \in Thread, Lock(t) PROVE LogInv'
  <2> USE <1>3 DEF Lock, BaseInv, WrapperInv
  <2>0. /\ pc[t] = "lock" /\ written[t] = 0 /\ \A u \in Thread \ {t} : pc'[u] = pc[u]
        /\ Writing(t)' => lock' = Owner[t]
        /\ \A u \in Thread : Writing(u) => u # t /\ lock' = lock
    <3>1. CASE pc' = [pc EXCEPT ![t] = "write"] /\ lock' = Owner[t] /\ lock \in {NoProc, Owner[t]}
      <4>1. \A u \in Thread : Writing(u) => u # t /\ lock = Owner[u]
        BY DEF LogInv, Exclusive, Writing
      <4> QED
        BY <3>1, <4>1
    <3>2. CASE pc' = [pc EXCEPT ![t] = "write"] /\ log_fd[Owner[t]] = "other" /\ UNCHANGED lock
      BY <3>2 DEF Writing
    <3>3. CASE pc' = [pc EXCEPT ![t] = "program"] /\ UNCHANGED lock
      BY <3>3 DEF Writing
    <3>4. \/ pc' = [pc EXCEPT ![t] = "write"] /\ lock' = Owner[t] /\ lock \in {NoProc, Owner[t]}
          \/ pc' = [pc EXCEPT ![t] = "write"] /\ log_fd[Owner[t]] = "other" /\ UNCHANGED lock
          \/ pc' = [pc EXCEPT ![t] = "program"] /\ UNCHANGED lock
      BY <1>3, LockWays, Zenon
    <3> QED
      BY <3>1, <3>2, <3>3, <3>4
  <2>1. \A u \in Thread : Writing(u) => Owner[u] \in ended' \/ (Writing(u)' /\ written'[u] = written[u])
                                           \/ written[u] = Pieces
    BY <2>0 DEF Writing
  <2>2. Contiguous' /\ Interrupted' /\ LastLine'
    BY <2>1, LogUnchanged
  <2>3. Finished'
    <3>1. CASE Drop(t)
      BY <3>1, DropKeeps, FinishedKept DEF Drop
    <3>2. CASE ~Drop(t)
      <4>1. UNCHANGED dropped /\ \A u \in Thread : Returned(u)' = Returned(u)
        BY <3>2 DEF Returned
      <4> QED
        BY <4>1, FinishedKept
    <3> QED
      BY <3>1, <3>2
  <2>4. Exclusive'
    <3> SUFFICES ASSUME NEW u \in Thread, Writing(u)' PROVE lock' = Owner[u]
      BY DEF Exclusive
    <3>1. CASE u = t
      BY <2>0, <3>1
    <3>2. CASE u # t
      <4>1. Writing(u)
        BY <2>0, <3>2 DEF Writing
      <4> QED
        BY <2>0, <4>1 DEF LogInv, Exclusive
    <3> QED
      BY <3>1, <3>2
  <2>5. AtTheEnd'
    <3>1. \A u \in Thread : Writing(u)' => Writing(u) \/ written'[u] = 0
      BY <2>0 DEF Writing
    <3> QED
      BY <3>1 DEF LogInv, AtTheEnd, PieceOf
  <2>6. IsFiniteSet(ended')
    BY DEF LogInv
  <2> QED
    BY <1>0, <2>2, <2>3, <2>4, <2>5, <2>6 DEF LogInv
<1>4. ASSUME NEW t \in Thread, Write(t), log_fd[Owner[t]] = "log" PROVE LogInv'
  <2>1. Exclusive' /\ Contiguous' /\ Interrupted' /\ AtTheEnd' /\ LastLine' /\ Finished'
    BY <1>0, <1>4, WriteLogInv
  <2>2. IsFiniteSet(ended')
    BY <1>4 DEF Write, LogInv
  <2> QED
    BY <1>0, <2>1, <2>2 DEF LogInv
<1>5. ASSUME NEW t \in Thread, Write(t), log_fd[Owner[t]] # "log" PROVE LogInv'
  <2> USE <1>5 DEF Write, BaseInv
  <2>1. \A u \in Thread : Writing(u) => Owner[u] \in ended' \/ (Writing(u)' /\ written'[u] = written[u])
                                           \/ written[u] = Pieces
    BY DEF Writing
  <2>2. Contiguous' /\ Interrupted' /\ LastLine'
    BY <2>1, LogUnchanged
  <2>3. Finished'
    <3>1. \A u \in Thread : Returned(u)' = Returned(u)
      BY DEF Returned
    <3> QED
      BY <3>1, FinishedKept
  <2>4. Exclusive'
    BY DEF LogInv, Exclusive, Writing
  <2>5. AtTheEnd'
    BY DEF LogInv, AtTheEnd, Writing, PieceOf
  <2>6. IsFiniteSet(ended')
    BY DEF LogInv
  <2> QED
    BY <1>0, <2>2, <2>3, <2>4, <2>5, <2>6 DEF LogInv
<1>6. ASSUME NEW t \in Thread, Unlock(t) PROVE LogInv'
  <2> USE <1>6 DEF Unlock, Release, BaseInv
  <2>1. \A u \in Thread : Writing(u) => Owner[u] \in ended' \/ (Writing(u)' /\ written'[u] = written[u])
                                           \/ written[u] = Pieces
    BY DEF Writing
  <2>2. Contiguous' /\ Interrupted' /\ LastLine'
    BY <2>1, LogUnchanged
  <2>3. Finished'
    <3> SUFFICES ASSUME NEW u \in Thread, NEW c \in Returned(u)', Owner[u] \notin closed,
                        <<u, c>> \notin dropped
                 PROVE  \E i \in 1..Len(log) : log[i] = PieceOf(u, c, Pieces)
      BY DEF Finished, PieceOf
    <3>1. CASE c \in Returned(u)
      BY <3>1 DEF LogInv, Finished
    <3>2. CASE c \notin Returned(u)
      <4>0. calls[u] \in Nat /\ pc'[t] = "program" /\ pc[t] = "write" /\ (u # t => pc'[u] = pc[u])
        BY DEF BaseInv
      <4>1. u = t /\ c = calls[t]
        <5>1. u = t
          BY <3>2, <4>0 DEF Returned
        <5>2. c \in 1..calls[t] /\ c \notin 1..(calls[t] - 1)
          BY <3>2, <4>0, <5>1 DEF Returned
        <5> QED
          BY <4>0, <5>1, <5>2
      <4>2. Writing(t)
        BY <4>1 DEF Writing, BaseInv, WrapperInv
      <4>3. Len(log) > 0 /\ log[Len(log)] = PieceOf(t, calls[t], Pieces)
        BY <4>2 DEF LogInv, AtTheEnd
      <4>4. Len(log) \in 1..Len(log)
        BY <4>3 DEF BaseInv
      <4> QED
        BY <4>1, <4>3, <4>4
    <3> QED
      BY <3>1, <3>2
  <2>4. Exclusive'
    BY DEF LogInv, Exclusive, Writing
  <2>5. AtTheEnd'
    BY DEF LogInv, AtTheEnd, Writing, PieceOf
  <2>6. IsFiniteSet(ended')
    BY DEF LogInv
  <2> QED
    BY <1>0, <2>2, <2>3, <2>4, <2>5, <2>6 DEF LogInv
<1>7. ASSUME NEW p \in Proc, Exec(p) PROVE LogInv'
  <2> USE <1>7 DEF Exec, BaseInv
  <2>0. pc' = pc
    <3>1. \A t \in Thread : Owner[t] = p => pc[t] = "program"
      OBVIOUS
    <3>2. \A t \in Thread : Owner[t] = p => AfterExec(t) = pc[t]
      BY <3>1 DEF AfterExec
    <3> QED
      BY <3>2
  <2>1. \A u \in Thread : Writing(u) => Owner[u] \in ended' \/ (Writing(u)' /\ written'[u] = written[u])
                                           \/ written[u] = Pieces
    BY <2>0 DEF Writing
  <2>2. Contiguous' /\ Interrupted' /\ LastLine'
    BY <2>1, LogUnchanged
  <2>3. Finished'
    <3>1. \A u \in Thread : Returned(u)' = Returned(u)
      BY <2>0 DEF Returned
    <3> QED
      BY <3>1, FinishedKept
  <2>4. Exclusive'
    BY <2>0 DEF LogInv, Exclusive, Writing
  <2>5. AtTheEnd'
    BY <2>0 DEF LogInv, AtTheEnd, Writing, PieceOf
  <2>6. IsFiniteSet(ended')
    BY DEF LogInv
  <2> QED
    BY <1>0, <2>2, <2>3, <2>4, <2>5, <2>6 DEF LogInv
<1>8. ASSUME NEW p \in Proc, Close(p) PROVE LogInv'
  <2> USE <1>8 DEF Close, Release, BaseInv
  <2>1. \A u \in Thread : Writing(u) => Owner[u] \in ended' \/ (Writing(u)' /\ written'[u] = written[u])
                                           \/ written[u] = Pieces
    BY DEF Writing
  <2>2. Contiguous' /\ Interrupted' /\ LastLine'
    BY <2>1, LogUnchanged
  <2>3. Finished'
    <3>1. \A u \in Thread : Returned(u)' = Returned(u)
      BY DEF Returned
    <3> QED
      BY <3>1, FinishedKept
  <2>4. Exclusive'
    BY DEF LogInv, Exclusive, Writing
  <2>5. AtTheEnd'
    BY DEF LogInv, AtTheEnd, Writing, PieceOf
  <2>6. IsFiniteSet(ended')
    BY DEF LogInv
  <2> QED
    BY <1>0, <2>2, <2>3, <2>4, <2>5, <2>6 DEF LogInv
<1>9. ASSUME NEW p \in Proc, Kill(p) PROVE LogInv'
  <2> USE <1>9 DEF Kill, Release, BaseInv
  <2>1. \A u \in Thread : Writing(u) => Owner[u] \in ended' \/ (Writing(u)' /\ written'[u] = written[u])
                                           \/ written[u] = Pieces
    BY DEF Writing
  <2>2. Contiguous' /\ Interrupted' /\ LastLine'
    BY <2>1, LogUnchanged
  <2>3. Finished'
    <3>1. \A u \in Thread : Returned(u)' = Returned(u)
      BY DEF Returned
    <3> QED
      BY <3>1, FinishedKept
  <2>4. Exclusive'
    BY DEF LogInv, Exclusive, Writing
  <2>5. AtTheEnd'
    BY DEF LogInv, AtTheEnd, Writing, PieceOf
  <2>6. IsFiniteSet(ended')
    BY FS_AddElement DEF LogInv
  <2> QED
    BY <1>0, <2>2, <2>3, <2>4, <2>5, <2>6 DEF LogInv
<1>10. CASE UNCHANGED vars
  <2> USE <1>10 DEF vars
  <2>1. Contiguous' /\ Interrupted' /\ LastLine'
    BY LogUnchanged DEF Writing
  <2>2. Finished'
    BY FinishedKept DEF Returned
  <2>3. Exclusive' /\ AtTheEnd' /\ IsFiniteSet(ended')
    BY DEF LogInv, Exclusive, AtTheEnd, Writing, PieceOf
  <2> QED
    BY <1>0, <2>1, <2>2, <2>3 DEF LogInv
<1>11. ASSUME NEW t \in Thread, Refused(t) PROVE LogInv'
  <2> USE <1>11 DEF Refused, BaseInv
  <2>0. \A u \in Thread : Writing(u)' <=> Writing(u)
    <3>1. /\ pc[t] \in {"open", "lock"}
          /\ pc' = [pc EXCEPT ![t] = "lock"] \/ pc' = [pc EXCEPT ![t] = "program"]
      BY <1>11, OpenWays, Zenon
    <3>2. \A u \in Thread : pc'[u] = "write" <=> pc[u] = "write"
      BY <3>1
    <3>3. \A u \in Thread : pc[u] = "write" => log_fd'[Owner[u]] = log_fd[Owner[u]]
      BY <3>1
    <3> QED
      BY <3>2, <3>3 DEF Writing
  <2>1. \A u \in Thread : Writing(u) => Owner[u] \in ended' \/ (Writing(u)' /\ written'[u] = written[u])
                                           \/ written[u] = Pieces
    BY <2>0
  <2>2. Contiguous' /\ Interrupted' /\ LastLine'
    BY <2>1, LogUnchanged
  <2>3. Finished'
    BY DropKeeps, FinishedKept DEF Drop
  <2>4. Exclusive'
    BY <2>0 DEF LogInv, Exclusive
  <2>5. AtTheEnd'
    BY <2>0 DEF LogInv, AtTheEnd, PieceOf
  <2>6. IsFiniteSet(ended')
    BY DEF LogInv
  <2> QED
    BY <1>0, <2>2, <2>3, <2>4, <2>5, <2>6 DEF LogInv
<1> QED
  BY <1>1, <1>2, <1>3, <1>4, <1>5, <1>6, <1>7, <1>8, <1>9, <1>10, <1>11 DEF Next, Report

\* A write that has failed is not forgotten.
LEMMA FailedStays == failed /\ [Next]_vars => failed'
  BY Zenon DEF Next, Report, vars, Call, OpenLogFile, Refused, Lock, Write, Unlock, Exec, Close, Kill

\* The pieces of lines in the log file.
LEMMA LogPieces ==
    ASSUME LogInv
    PROVE  /\ Len(log) \in Nat
           /\ \A i \in 1..Len(log) : log[i].thread \in Thread /\ log[i].part \in 1..Pieces
<1>1. log \in Seq(Piece)
  BY DEF LogInv, TypeOK
<1>2. Len(log) \in Nat /\ \A i \in 1..Len(log) : log[i] \in Piece
  BY <1>1
<1> QED
  BY <1>2 DEF Piece

\* A returned call that preload.lua does not find has its whole line in the log,
\* right after a line that its writer did not live to finish.
LEMMA LostAfterTorn ==
    ASSUME LogInv, NEW tc \in Lost, Owner[tc[1]] \notin closed, tc \notin dropped
    PROVE  \E s \in 1..(Len(log) - 1) :
             log[s + 1] = PieceOf(tc[1], tc[2], 1) /\ log[s].part < Pieces /\ Torn(s)
<1> USE LogAssumption DEF LogAssumption
<1> DEFINE t == tc[1]  c == tc[2]
<1>1. t \in Thread /\ c \in Returned(t) /\ ~Logged(t, c) /\ <<t, c>> \notin dropped
  BY DEF Lost
<1>2. PICK i \in 1..Len(log) : log[i] = PieceOf(t, c, Pieces)
  BY <1>1 DEF LogInv, Finished
<1> DEFINE s == i - Pieces
<1>3. /\ Len(log) \in Nat /\ \A j \in 1..Len(log) : log[j].part \in 1..Pieces
      /\ log[i].part = Pieces /\ log[i].thread = t /\ log[i].call = c
  BY <1>2, LogPieces DEF PieceOf
<1>4. Pieces <= i /\ \A q \in 1..Pieces : log[s + q] = PieceOf(t, c, q)
  BY <1>3 DEF LogInv, Contiguous
<1>5. s \in 0..Len(log) /\ s + Pieces = i
  BY <1>3, <1>4, SMTT(30)
<1>6. s # 0 /\ log[s].part # Pieces
  <2>1. ~LineAt(s, t, c)
    BY <1>1, <1>5 DEF Logged
  <2>2. s + Pieces <= Len(log)
    BY <1>3, <1>5
  <2> QED
    BY <1>4, <2>1, <2>2 DEF LineAt, PieceOf
<1>7. s \in 1..(Len(log) - 1) /\ log[s].part < Pieces
  <2>1. s \in 1..(Len(log) - 1)
    BY <1>3, <1>5, <1>6
  <2> QED
    BY <1>3, <1>6, <2>1
<1>8. log[s + 1] = PieceOf(t, c, 1) /\ log[s + 1].part = 1
  BY <1>4 DEF PieceOf
<1>9. Torn(s)
  BY <1>7, <1>8 DEF LogInv, Interrupted
<1> QED
  BY <1>7, <1>8, <1>9

\* Different lost calls come after lines of different killed processes.
LEMMA LogInvBounds == SingleThreaded /\ LogInv => LossBounded
<1> SUFFICES ASSUME SingleThreaded, LogInv PROVE LossBounded
  OBVIOUS
<1> DEFINE L == {tc \in Lost : Owner[tc[1]] \notin closed /\ tc \notin dropped}
           After(tc, s) == /\ log[s + 1] = PieceOf(tc[1], tc[2], 1)
                           /\ log[s].part < Pieces /\ Torn(s)
           at == [tc \in L |-> CHOOSE s \in 1..(Len(log) - 1) : After(tc, s)]
           f == [tc \in L |-> Owner[log[at[tc]].thread]]
<1>1. ASSUME NEW tc \in L PROVE at[tc] \in 1..(Len(log) - 1) /\ After(tc, at[tc])
  <2>1. \E s \in 1..(Len(log) - 1) : After(tc, s)
    BY LostAfterTorn
  <2> QED
    BY <2>1
<1>2. Len(log) \in Nat /\ \A j \in 1..Len(log) : log[j].thread \in Thread
  BY LogPieces
<1>3. f \in [L -> ended]
  BY <1>1 DEF Torn
<1>4. ASSUME NEW a \in L, NEW b \in L, f[a] = f[b] PROVE a = b
  <2> DEFINE r == at[a]  s == at[b]
  <2>1. /\ r \in 1..(Len(log) - 1) /\ After(a, r)
        /\ s \in 1..(Len(log) - 1) /\ After(b, s)
    BY <1>1
  <2> HIDE DEF at
  <2>2. log[r].thread = log[s].thread
    BY <1>2, <1>4, <2>1, SMTT(30) DEF SingleThreaded
  <2>3. r = s
    <3>1. \A j \in (r + 1)..Len(log) : log[j].thread # log[r].thread
      BY <2>1 DEF Torn
    <3>2. \A j \in (s + 1)..Len(log) : log[j].thread # log[s].thread
      BY <2>1 DEF Torn
    <3>3. r \in Nat /\ s \in Nat /\ r \in 1..Len(log) /\ s \in 1..Len(log)
      BY <1>2, <2>1, SMTT(30)
    <3> HIDE DEF r, s, After
    <3>4. s \notin (r + 1)..Len(log)
      BY <2>2, <3>1
    <3>5. r \notin (s + 1)..Len(log)
      BY <2>2, <3>2
    <3> QED
      BY <1>2, <3>3, <3>4, <3>5
  <2>4. a[1] = b[1] /\ a[2] = b[2]
    BY <2>1, <2>3 DEF PieceOf
  <2>5. a \in Thread \X (1..MaxCalls) /\ b \in Thread \X (1..MaxCalls)
    BY DEF Lost
  <2> QED
    BY <2>4, <2>5
<1>5. f \in Injection(L, ended)
  <2>1. f \in [L -> ended] /\ \A a, b \in L : f[a] = f[b] => a = b
    BY <1>3, <1>4
  <2> HIDE DEF f, L
  <2> QED
    BY <2>1 DEF Injection, IsInjective
<1>6. Cardinality(L) <= Cardinality(ended)
  BY <1>5, FS_Injection DEF LogInv
<1> QED
  BY <1>6 DEF LossBounded

\* Programs without threads, as long as no write fails: each killed process
\* costs at most one call of another process, the one whose line my_lock lets
\* begin after the unfinished one.  No other call is missing in the log, but
\* those of processes that have closed log_fd and those whose log file could
\* not be opened or locked.
THEOREM LossIsBounded == SingleThreaded /\ Spec => []LossBounded
<1> SUFFICES ASSUME SingleThreaded PROVE Spec => []LossBounded
  OBVIOUS
<1> DEFINE FailedOrLogInv == failed \/ LogInv
<1>1. FailedOrLogInv /\ BaseInv /\ [Next]_vars => FailedOrLogInv'
  BY NextLogInv, FailedStays
<1>2. FailedOrLogInv => LossBounded
  BY LogInvBounds DEF LossBounded
<1>3. Init => FailedOrLogInv
  BY InitLogInv
<1> QED
  BY <1>1, <1>2, <1>3, BaseInvAlways, PTL DEF Spec
-----------------------------------------------------------------------------
(***************************************************************************)
(* clone_env and free_env neither lose a variable of the program nor leak  *)
(* memory or free what is not theirs, for environments of any size.  The   *)
(* argument: scan_env never finds a position, so the strings of clone_env  *)
(* are appended, the j-th of the five to element Len(env) + j + 1, and pos *)
(* tells for each of them whether it has to be freed.                      *)
(***************************************************************************)

\* The element of the new array the j-th of the five variables goes to.
Added(j) == Len(env) + j + 1

EnvShape == env \in Seq(Entry) /\ Len(env) \in 0..MaxEnv

\* Nothing has been found or allocated before the array is made.
NotCloned ==
    /\ new_env = <<>> /\ n = Len(env) /\ k = 1
    /\ pos = [v \in FiveSet |-> None] /\ made = 0 /\ freed = <<>>

\* The elements clone_env has set so far.
HeapAt == {s \in DOMAIN new_env : new_env[s].mem = "heap"}

Counters == k \in 1..6 /\ n = Len(env) + k - 1

Positions ==
    /\ pos \in [FiveSet -> Nat]
    /\ \A j \in 1..5 : pos[Five[j]] \in {None, Added(j)} /\ (j >= k => pos[Five[j]] = None)

Elements(len) ==
    /\ new_env \in [1..len -> [var : Other \cup FiveSet \cup {NoName},
                              mem : {"program", "heap", "static", "null", "junk"}]]
    /\ \A s \in 1..Len(env) : new_env[s] = Slot(env[s].var, "program")
    /\ \A j \in 1..5 : pos[Five[j]] # None => new_env[Added(j)].mem \in {"heap", "null"}
    /\ \A s \in HeapAt : \E j \in 1..5 : pos[Five[j]] = s
    /\ IsFiniteSet(HeapAt) /\ made = Cardinality(HeapAt)

EnvInv ==
    /\ EnvShape
    /\ stage \in {"scan", "put", "undo", "exec", "executed", "returned"}
    /\ stage = "scan" => NotCloned
    /\ stage \in {"put", "undo"} => Counters /\ Positions /\ Elements(Len(env) + 6)
    /\ stage = "exec" => k = 6 /\ Positions /\ Elements(Len(env) + 7)
    /\ MemoryReturned /\ KeepsVariables

-----------------------------------------------------------------------------
\* The five variables are five.
LEMMA FiveDistinct ==
    /\ \A j \in 1..5 : Five[j] \in FiveSet
    /\ \A i, j \in 1..5 : Five[i] = Five[j] => i = j
    /\ \A v \in FiveSet : v # NoName /\ \E j \in 1..5 : v = Five[j]
<1>1. \A j \in 1..5 : Five[j] \in FiveSet
  BY DEF FiveSet
<1>2. 1..5 = {1, 2, 3, 4, 5}
  OBVIOUS
<1>3. /\ Five[1] = "DYLD_FORCE_FLAT_NAMESPACE" /\ Five[2] = "BUILDSH_TEMPFILE"
      /\ Five[3] = "BUILDSH_PRELOAD" /\ Five[4] = "LD_PRELOAD"
      /\ Five[5] = "DYLD_INSERT_LIBRARIES"
  BY DEF Five
<1>4. \A i, j \in 1..5 : Five[i] = Five[j] => i = j
  BY <1>2, <1>3
<1>5. \A v \in FiveSet : \E j \in 1..5 : v = Five[j]
  BY DEF FiveSet
<1>6. \A j \in 1..5 : Five[j] # NoName
  BY <1>2, <1>3 DEF NoName
<1> QED
  BY <1>1, <1>4, <1>5, <1>6

\* The positions and names that stand for nothing are none.
LEMMA Constants == MaxEnv \in Nat /\ None \in Nat /\ None > MaxEnv + 7 /\ NoName \notin Other \cup FiveSet
<1>1. MaxEnv \in Nat /\ NoName \notin Other
  BY EnvAssumption DEF EnvAssumption
<1> QED
  BY <1>1, FiveDistinct DEF None

\* The parts of an element of the cloned environment.
LEMMA SlotFields == \A v, m : Slot(v, m).var = v /\ Slot(v, m).mem = m
  BY DEF Slot

\* The invariant holds when execve is called.
LEMMA InitEnvInv == EnvInit => EnvInv
<1> SUFFICES ASSUME EnvInit PROVE EnvInv
  OBVIOUS
<1> USE Constants
<1>1. PICK m \in 0..MaxEnv : env \in [1..m -> Entry]
  BY DEF EnvInit
<1>2. EnvShape
  <2>1. env \in Seq(Entry) /\ Len(env) = m
    BY <1>1
  <2> QED
    BY <2>1 DEF EnvShape
<1>3. NotCloned /\ stage = "scan"
  BY DEF EnvInit, NotCloned
<1> QED
  BY <1>2, <1>3 DEF EnvInv, MemoryReturned, KeepsVariables

\* scan_env finds nothing, and clone_env copies every string of the program.
LEMMA CloneEnvInv == EnvInv /\ Clone => EnvInv'
<1> SUFFICES ASSUME EnvInv, Clone PROVE EnvInv'
  OBVIOUS
<1> USE Constants
<1> DEFINE L == Len(env)
<1>1. /\ EnvShape /\ stage = "scan" /\ NotCloned
      /\ env \in Seq(Entry) /\ L \in Nat /\ L <= MaxEnv
      /\ \A s \in 1..L : env[s].var \in Other \cup FiveSet
  <2>1. EnvShape /\ stage = "scan" /\ NotCloned
    BY DEF EnvInv, Clone
  <2>2. env \in Seq(Entry) /\ L \in Nat /\ L <= MaxEnv
    BY <2>1 DEF EnvShape
  <2>3. \A s \in 1..L : env[s] \in Entry
    BY <2>2
  <2> QED
    BY <2>1, <2>2, <2>3 DEF Entry
<1>2. EnvShape' /\ UNCHANGED <<env, n, k, made, freed, got>>
  BY <1>1 DEF Clone, EnvShape
<1>3. pos' = [v \in FiveSet |-> None]
  <2>1. pos = [v \in FiveSet |-> None]
    BY <1>1 DEF NotCloned
  <2> DEFINE found(v) == {s \in 1..Len(env) :
                             pos[v] # None /\ env[s].var = v /\ env[s].val = "empty"}
  <2>2. \A v \in FiveSet : found(v) = {}
    BY <2>1
  <2> HIDE DEF found
  <2>3. ScanEnv = [v \in FiveSet |-> IF found(v) = {} THEN pos[v]
                                    ELSE CHOOSE s \in found(v) : \A r \in found(v) : r <= s]
    BY DEF ScanEnv, found
  <2> QED
    BY <2>1, <2>2, <2>3 DEF Clone
<1>4. CASE stage' = "returned"
  <2>1. {s \in DOMAIN freed' : freed'[s] = "heap"} = {} /\ made' = 0
    BY <1>1, <1>2 DEF NotCloned
  <2>2. MemoryReturned'
    BY <1>1, <1>2, <2>1, FS_EmptySet DEF NotCloned, MemoryReturned
  <2> QED
    BY <1>2, <1>4, <2>2 DEF EnvInv, KeepsVariables
<1>5. CASE stage' = "put"
  <2>1. Counters'
    BY <1>1, <1>2 DEF NotCloned, Counters
  <2>2. Positions'
    BY <1>1, <1>2, <1>3, FiveDistinct DEF NotCloned, Positions, None
  <2>3. new_env' = [s \in 1..(L + 6) |-> IF s > L THEN Junk ELSE Slot(env[s].var, "program")]
    <3>1. new_env' = [s \in 1..(L + 6) |-> Copied(pos', s)]
      BY <1>1, <1>5 DEF Clone, NotCloned
    <3>2. ASSUME NEW s \in 1..(L + 6)
          PROVE  Copied(pos', s) = IF s > L THEN Junk ELSE Slot(env[s].var, "program")
      BY <1>1, <1>3 DEF Copied, NotCloned, None
    <3> QED
      BY <3>1, <3>2
  <2>4. HeapAt' = {}
    BY <2>3 DEF HeapAt, Junk, Slot
  <2>5. Elements(L + 6)'
    <3>1. new_env' \in [1..(L + 6) -> [var : Other \cup FiveSet \cup {NoName},
                              mem : {"program", "heap", "static", "null", "junk"}]]
      BY <1>1, <2>3 DEF Junk, Slot
    <3>2. \A s \in 1..L : new_env'[s] = Slot(env[s].var, "program")
      BY <1>1, <2>3
    <3>3. \A j \in 1..5 : pos'[Five[j]] = None
      BY <1>3, FiveDistinct
    <3>4. IsFiniteSet(HeapAt') /\ made' = Cardinality(HeapAt')
      BY <1>1, <1>2, <2>4, FS_EmptySet DEF NotCloned
    <3> QED
      BY <1>2, <2>4, <3>1, <3>2, <3>3, <3>4 DEF Elements, Slot, None
  <2> QED
    BY <1>2, <1>5, <2>1, <2>2, <2>5 DEF EnvInv, MemoryReturned, KeepsVariables
<1> QED
  BY <1>4, <1>5 DEF Clone

\* Adding one of the five variables: its element was free, and only a string
\* that is on the heap adds to what has to be given back.
LEMMA ReplaceEnvInv == EnvInv /\ Replace => EnvInv'
<1> SUFFICES ASSUME EnvInv, Replace PROVE EnvInv'
  OBVIOUS
<1> USE Constants, FiveDistinct
<1> DEFINE L == Len(env)
           v == Five[k]
           e == Added(k)
<1>1. /\ stage = "put" /\ k \in 1..5 /\ L \in Nat /\ L <= MaxEnv /\ EnvShape
      /\ Counters /\ Positions /\ Elements(L + 6)
  BY DEF EnvInv, Replace, EnvShape, Counters
<1>2. pos[v] = None /\ v \in FiveSet /\ Place(v) = e /\ e = L + k + 1 /\ e \in 1..(L + 6)
  <2>1. v \in FiveSet /\ pos[v] = None
    BY <1>1, SMTT(30) DEF Positions
  <2>2. e = L + k + 1 /\ n = L + k - 1
    BY <1>1 DEF Counters, Added
  <2>3. Place(v) = n + 2
    BY <2>1 DEF Place
  <2> QED
    BY <1>1, <2>1, <2>2, <2>3, SMTT(30)
<1>3. PICK x \in {Slot(v, "static"), Slot(v, "heap"), Null} : Put(v, x)
  <2>1. PICK x \in Values(v) : Put(v, x)
    BY DEF Replace
  <2>2. x \in {Slot(v, "static"), Slot(v, "heap"), Null}
    BY <1>2 DEF Values
  <2> QED
    BY <2>1, <2>2
<1>4. /\ x.mem \in {"static", "heap", "null"} /\ x.var \in FiveSet \cup {NoName}
      /\ x \in [var : Other \cup FiveSet \cup {NoName},
                mem : {"program", "heap", "static", "null", "junk"}]
      /\ x = Null <=> x.mem = "null"
  BY <1>2 DEF Slot, Null
<1>5. /\ UNCHANGED <<env, freed, got>> /\ k' = k + 1 /\ n' = n + 1
      /\ new_env' = [new_env EXCEPT ![e] = x]
      /\ pos' = [pos EXCEPT ![v] = IF x.mem \in {"heap", "null"} THEN e ELSE None]
      /\ made' = IF x.mem = "heap" THEN made + 1 ELSE made
      /\ stage' \in {"put", "undo"}
  BY <1>1, <1>2, <1>3, ZenonT(60) DEF Replace, Put
<1>6. EnvShape' /\ Counters'
  BY <1>1, <1>5 DEF EnvShape, Counters
<1>7. Positions'
  <2>1. pos \in [FiveSet -> Nat] /\ e \in Nat
    BY <1>1, <1>2, SMTT(30) DEF Positions
  <2>2. pos' \in [FiveSet -> Nat]
    BY <1>2, <1>5, <2>1
  <2>3. ASSUME NEW j \in 1..5
        PROVE  pos'[Five[j]] \in {None, L + j + 1} /\ (j >= k + 1 => pos'[Five[j]] = None)
    <3>1. CASE j = k
      BY <1>1, <1>2, <1>5, <2>1, <3>1
    <3>2. CASE j # k
      <4>1. Five[j] # v /\ Five[j] \in FiveSet
        BY <1>1, <3>2
      <4>2. pos'[Five[j]] = pos[Five[j]]
        BY <1>2, <1>5, <2>1, <4>1
      <4>3. pos[Five[j]] \in {None, L + j + 1} /\ (j >= k => pos[Five[j]] = None)
        BY <1>1 DEF Positions, Added
      <4> QED
        BY <1>1, <4>2, <4>3
    <3> QED
      BY <3>1, <3>2
  <2> QED
    BY <1>5, <2>2, <2>3 DEF Positions, Added
<1>8. Elements(L + 6)'
  <2> DEFINE SlotSet == [var : Other \cup FiveSet \cup {NoName},
                         mem : {"program", "heap", "static", "null", "junk"}]
  <2>1. new_env \in [1..(L + 6) -> SlotSet]
    BY <1>1 DEF Elements
  <2>2. new_env' \in [1..(L + 6) -> SlotSet] /\ new_env'[e] = x
    BY <1>2, <1>4, <1>5, <2>1
  <2>3. \A s \in (1..(L + 6)) \ {e} : new_env'[s] = new_env[s]
    BY <1>5, <2>1
  <2>4. \A s \in 1..L : new_env'[s] = Slot(env[s].var, "program")
    BY <1>1, <1>2, <2>3 DEF Elements
  <2>5. \A j \in 1..5 : j # k => pos'[Five[j]] = pos[Five[j]]
    BY <1>1, <1>2, <1>5 DEF Positions
  <2>6. pos'[v] = IF x.mem \in {"heap", "null"} THEN e ELSE None
    BY <1>1, <1>2, <1>5 DEF Positions
  <2>7. ASSUME NEW j \in 1..5, pos'[Five[j]] # None
        PROVE  new_env'[L + j + 1].mem \in {"heap", "null"}
    <3>1. CASE j = k
      BY <1>2, <2>2, <2>6, <2>7, <3>1
    <3>2. CASE j # k
      <4>1. L + j + 1 # e /\ L + j + 1 \in 1..(L + 6)
        BY <1>1, <1>2, <3>2
      <4>2. new_env[L + j + 1].mem \in {"heap", "null"}
        BY <1>1, <2>5, <2>7, <3>2 DEF Elements, Added
      <4> QED
        BY <2>3, <4>1, <4>2
    <3> QED
      BY <3>1, <3>2
  <2>8. e \notin HeapAt
    <3> SUFFICES ASSUME e \in HeapAt PROVE FALSE
      OBVIOUS
    <3>1. PICK j \in 1..5 : pos[Five[j]] = e
      BY <1>1 DEF Elements
    <3>2. e # None
      BY <1>1, <1>2
    <3>3. j = k
      BY <1>1, <1>2, <3>1, <3>2, SMTT(30) DEF Positions, Added
    <3> QED
      BY <1>2, <3>1, <3>2, <3>3
  <2>9. HeapAt' = IF x.mem = "heap" THEN HeapAt \cup {e} ELSE HeapAt
    <3>1. HeapAt' = {s \in 1..(L + 6) : new_env'[s].mem = "heap"}
      BY <2>2 DEF HeapAt
    <3>2. HeapAt = {s \in 1..(L + 6) : new_env[s].mem = "heap"}
      BY <2>1 DEF HeapAt
    <3> QED
      BY <1>2, <2>2, <2>3, <2>8, <3>1, <3>2
  <2>10. IsFiniteSet(HeapAt') /\ made' = Cardinality(HeapAt')
    <3>1. IsFiniteSet(HeapAt) /\ made = Cardinality(HeapAt)
      BY <1>1 DEF Elements
    <3> QED
      BY <1>5, <2>8, <2>9, <3>1, FS_AddElement
  <2>11. \A s \in HeapAt' : \E j \in 1..5 : pos'[Five[j]] = s
    <3>1. ASSUME NEW s \in HeapAt PROVE \E j \in 1..5 : pos'[Five[j]] = s
      <4>1. PICK j \in 1..5 : pos[Five[j]] = s
        BY <1>1 DEF Elements
      <4>2. s # None
        BY <1>1, <2>1 DEF HeapAt
      <4>3. j # k
        BY <1>2, <4>1, <4>2
      <4> QED
        BY <2>5, <4>1, <4>3
    <3> QED
      BY <1>1, <2>6, <2>9, <3>1
  <2> QED
    BY <1>5, <2>2, <2>4, <2>7, <2>10, <2>11 DEF Elements, Added, Slot, None
<1> QED
  BY <1>5, <1>6, <1>7, <1>8 DEF EnvInv, MemoryReturned, KeepsVariables

\* The terminating null pointer goes after everything clone_env has made.
LEMMA TerminateEnvInv == EnvInv /\ Terminate => EnvInv'
<1> SUFFICES ASSUME EnvInv, Terminate PROVE EnvInv'
  OBVIOUS
<1> USE Constants
<1> DEFINE L == Len(env)
           SlotSet == [var : Other \cup FiveSet \cup {NoName},
                       mem : {"program", "heap", "static", "null", "junk"}]
<1>1. /\ stage = "put" /\ k = 6 /\ L \in Nat /\ L <= MaxEnv /\ EnvShape /\ n = L + 5
      /\ Positions /\ Elements(L + 6) /\ new_env \in [1..(L + 6) -> SlotSet]
  <2>1. stage = "put" /\ k = 6 /\ EnvShape /\ Counters /\ Positions /\ Elements(L + 6)
    BY DEF EnvInv, Terminate
  <2>2. L \in Nat /\ L <= MaxEnv
    BY <2>1 DEF EnvShape
  <2>3. n = L + 5
    BY <2>1, <2>2 DEF Counters
  <2>4. new_env \in [1..(L + 6) -> SlotSet]
    BY <2>1 DEF Elements
  <2> QED BY <2>1, <2>2, <2>3, <2>4
<1>2. /\ new_env' = [s \in 1..(L + 7) |-> IF s = L + 7 THEN Null ELSE new_env[s]]
      /\ stage' = "exec" /\ UNCHANGED <<env, pos, n, k, made, freed, got>>
  BY <1>1 DEF Terminate
<1>3. Null \in SlotSet /\ Null.mem # "heap"
  BY DEF Null, Slot
<1>4. /\ new_env' \in [1..(L + 7) -> SlotSet] /\ new_env'[L + 7] = Null
      /\ \A s \in 1..(L + 6) : new_env'[s] = new_env[s]
  BY <1>1, <1>2, <1>3
<1>5. HeapAt' = HeapAt
  <2>1. HeapAt' = {s \in 1..(L + 7) : new_env'[s].mem = "heap"}
    BY <1>4 DEF HeapAt
  <2>2. HeapAt = {s \in 1..(L + 6) : new_env[s].mem = "heap"}
    BY <1>1 DEF HeapAt
  <2> QED
    BY <1>1, <1>3, <1>4, <2>1, <2>2
<1>6. Elements(L + 7)'
  <2>1. \A s \in 1..L : new_env'[s] = Slot(env[s].var, "program")
    BY <1>1, <1>4 DEF Elements
  <2>2. \A j \in 1..5 : pos[Five[j]] # None => new_env'[L + j + 1].mem \in {"heap", "null"}
    <3>1. \A j \in 1..5 : pos[Five[j]] # None => new_env[L + j + 1].mem \in {"heap", "null"}
      BY <1>1 DEF Elements, Added
    <3>2. \A j \in 1..5 : L + j + 1 \in 1..(L + 6)
      BY <1>1
    <3>3. \A j \in 1..5 : new_env'[L + j + 1] = new_env[L + j + 1]
      BY <1>4, <3>2
    <3> QED
      BY <3>1, <3>3
  <2>3. /\ \A s \in HeapAt : \E j \in 1..5 : pos[Five[j]] = s
        /\ IsFiniteSet(HeapAt) /\ made = Cardinality(HeapAt)
    BY <1>1 DEF Elements
  <2> QED
    BY <1>2, <1>4, <1>5, <2>1, <2>2, <2>3, ZenonT(30) DEF Elements, Added, Slot, None
<1>7. Positions' /\ EnvShape'
  BY <1>1, <1>2 DEF Positions, Added, EnvShape
<1> QED
  BY <1>1, <1>2, <1>6, <1>7 DEF EnvInv, MemoryReturned, KeepsVariables

\* Whatever junk looks like, execve sees no null pointer among the strings of
\* the program.
LEMMA ExecveEnvInv == EnvInv /\ Execve => EnvInv'
<1> SUFFICES ASSUME EnvInv, Execve PROVE EnvInv'
  OBVIOUS
<1> USE Constants
<1>1. stage = "exec" /\ stage' = "executed" /\ UNCHANGED env /\ EnvShape
  BY DEF Execve, EnvInv
<1>2. Elements(Len(env) + 7) /\ Len(env) \in Nat
  BY <1>1 DEF EnvInv, EnvShape
<1>3. PICK e \in DOMAIN new_env : ExecveReads(e)
  BY DEF Execve
<1>4. e \in 1..(Len(env) + 7)
  BY <1>2, <1>3 DEF Elements
<1>5. ASSUME NEW s \in 1..Len(env) PROVE env[s].var \in got'
  <2>0. \A r \in 1..Len(env) : new_env[r] = Slot(env[r].var, "program")
    BY <1>2 DEF Elements
  <2>1. new_env[s].var = env[s].var
    BY <1>1, <2>0, SlotFields DEF EnvShape
  <2>2. ASSUME NEW r \in 1..Len(env) PROVE new_env[r].mem = "program"
    <3>1. \E v : new_env[r] = Slot(v, "program")
      BY <2>0
    <3> QED
      BY <3>1, SlotFields
  <2>3. s \in 1..(e - 1)
    BY <1>2, <1>3, <1>4, <2>2 DEF ExecveReads, Ends
  <2>4. env[s] \in Entry
    BY <1>1 DEF EnvShape
  <2>5. env[s].var # NoName
    BY <2>4 DEF Entry
  <2> QED
    BY <1>3, <2>1, <2>3, <2>5 DEF ExecveReads
<1>6. KeepsVariables' /\ EnvShape'
  BY <1>1, <1>5 DEF KeepsVariables, EnvShape
<1> QED
  BY <1>1, <1>6 DEF EnvInv, MemoryReturned

\* free_env gives back what pos tells, which is all that is on the heap.
LEMMA FreeEnvInv == EnvInv /\ FreeEnv => EnvInv'
<1> SUFFICES ASSUME EnvInv, FreeEnv PROVE EnvInv'
  OBVIOUS
<1> USE Constants, FiveDistinct
<1> DEFINE L == Len(env)
           at == {pos[v] : v \in FiveSet} \ {None}
<1>1. /\ stage \in {"exec", "undo"} /\ EnvShape /\ Positions /\ L \in Nat
      /\ stage' = "returned" /\ UNCHANGED <<env, new_env, pos, made>>
      /\ freed' = [s \in at |-> new_env[s].mem]
  BY DEF EnvInv, FreeEnv, EnvShape
<1>2. PICK len \in {L + 6, L + 7} : Elements(len)
  BY <1>1 DEF EnvInv
<1>3. \A s \in at : \E j \in 1..5 : s = pos[Five[j]] /\ s = L + j + 1 /\ pos[Five[j]] # None
  <2> SUFFICES ASSUME NEW s \in at
               PROVE  \E j \in 1..5 : s = pos[Five[j]] /\ s = L + j + 1 /\ pos[Five[j]] # None
    OBVIOUS
  <2>1. PICK j \in 1..5 : s = pos[Five[j]] /\ s # None
    OBVIOUS
  <2>2. pos[Five[j]] \in {None, L + j + 1}
    BY <1>1 DEF Positions, Added
  <2> QED
    BY <2>1, <2>2
<1>4. \A s \in at : s \in 1..len /\ new_env[s].mem \in {"heap", "null"}
  <2> SUFFICES ASSUME NEW s \in at PROVE s \in 1..len /\ new_env[s].mem \in {"heap", "null"}
    OBVIOUS
  <2>1. PICK j \in 1..5 : s = L + j + 1 /\ pos[Five[j]] # None
    BY <1>3
  <2>2. new_env[L + j + 1].mem \in {"heap", "null"}
    BY <1>2, <2>1 DEF Elements, Added
  <2> QED
    BY <1>1, <1>2, <2>1, <2>2
<1>5. HeapAt = {s \in 1..len : new_env[s].mem = "heap"}
  BY <1>2 DEF Elements, HeapAt
<1>6. HeapAt \subseteq at
  <2> SUFFICES ASSUME NEW s \in HeapAt PROVE s \in at
    OBVIOUS
  <2>1. PICK j \in 1..5 : pos[Five[j]] = s
    BY <1>2 DEF Elements
  <2>2. s \in 1..(L + 7) /\ L <= MaxEnv
    BY <1>1, <1>2, <1>5 DEF EnvShape
  <2>3. s # None
    BY <1>1, <2>2
  <2> QED
    BY <2>1, <2>3
<1>7. {s \in DOMAIN freed' : freed'[s] = "heap"} = HeapAt
  BY <1>1, <1>4, <1>5, <1>6
<1>8. \A s \in DOMAIN freed' : freed'[s] \in {"heap", "null"}
  BY <1>1, <1>4
<1>9. MemoryReturned'
  BY <1>1, <1>2, <1>7, <1>8 DEF Elements, MemoryReturned
<1>10. EnvShape'
  BY <1>1 DEF EnvShape
<1> QED
  BY <1>1, <1>9, <1>10 DEF EnvInv, KeepsVariables

\* The invariant of clone_env and free_env always holds.
LEMMA EnvInvAlways == EnvSpec => []EnvInv
<1>1. EnvInv /\ UNCHANGED evars => EnvInv'
  BY DEF EnvInv, evars, EnvShape, NotCloned, Counters, Positions, Elements, HeapAt, Added,
         Slot, None, MemoryReturned, KeepsVariables
<1>2. EnvInv /\ [EnvNext]_evars => EnvInv'
  BY <1>1, CloneEnvInv, ReplaceEnvInv, TerminateEnvInv, ExecveEnvInv, FreeEnvInv DEF EnvNext
<1> QED
  BY InitEnvInv, <1>2, PTL DEF EnvSpec

\* clone_env's error path and free_env: if execve returns, everything clone_env
\* has allocated is freed, and no string of the program and no static one.
THEOREM MemoryIsReturned == EnvSpec => []MemoryReturned
<1>1. EnvInv => MemoryReturned
  BY DEF EnvInv
<1> QED
  BY <1>1, EnvInvAlways, PTL

\* clone_env: the variables of the program reach the new one, although an
\* element of the array is left uninitialized.
THEOREM VariablesAreKept == EnvSpec => []KeepsVariables
<1>1. EnvInv => KeepsVariables
  BY DEF EnvInv
<1> QED
  BY <1>1, EnvInvAlways, PTL
=============================================================================
