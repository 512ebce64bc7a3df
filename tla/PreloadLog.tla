----------------------------- MODULE PreloadLog -----------------------------
(***************************************************************************)
(* How the preload library (etc/preload.c) writes its log.  Every process  *)
(* of a traced program has the library; the wrapper of a libc function     *)
(* calls the original and then appends a line to the common log file, in   *)
(* several writes, while it holds a POSIX lock on the file.  Such a lock   *)
(* belongs to a process: the kernel does not make the threads of a process *)
(* wait for each other, it takes the lock away when the process ends, but  *)
(* not when the process executes another program.  The descriptor of the   *)
(* log file is shared with the program, which may close it or make it      *)
(* stand for something else.                                               *)
(***************************************************************************)
EXTENDS Naturals, Sequences, FiniteSets

CONSTANTS
    Proc, Thread,
    NoProc,   \* stands for no process
    Owner,    \* the process a thread belongs to
    Pieces,   \* number of writes a line takes, the last one ends the line
    MaxCalls, \* bound on the number of calls a thread makes
    Kills,    \* processes may be killed
    Closes,   \* programs may close or replace descriptors they do not know
    Fails     \* open, fcntl and write may fail for the library

ASSUME LogAssumption ==
    /\ Owner \in [Thread -> Proc] /\ NoProc \notin Proc
    /\ Pieces \in Nat \ {0} /\ MaxCalls \in Nat
    /\ Kills \in BOOLEAN /\ Closes \in BOOLEAN /\ Fails \in BOOLEAN

VARIABLES
    pc,      \* where a thread is in a wrapper
    calls,   \* number of calls a thread has made
    written, \* number of pieces a thread has written of its line
    log_fd,  \* per process: "none" (-1), or what the descriptor stands for
    lock,    \* the process that has locked the log file, or NoProc
    log,     \* the pieces in the log file
    ended,   \* processes that have been killed
    closed,  \* history: processes that have closed or replaced log_fd
    dropped, \* history: calls that were given up by open_log_file or my_lock
    failed   \* history: has a write to the log file failed?

vars == <<pc, calls, written, log_fd, lock, log, ended, closed, dropped, failed>>

Piece == [thread : Thread, call : 1..MaxCalls, part : 1..Pieces]

\* Any of the threads may be one that its process does not have.
Init ==
    /\ pc \in [Thread -> {"program", "gone"}]
    /\ calls = [t \in Thread |-> 0]
    /\ written = [t \in Thread |-> 0]
    /\ log_fd = [p \in Proc |-> "none"]
    /\ lock = NoProc /\ log = <<>> /\ ended = {} /\ closed = {}
    /\ dropped = {} /\ failed = FALSE

Alive(t) == Owner[t] \notin ended
At(t, l) == pc[t] = l /\ Alive(t)
Goto(t, l) == pc' = [pc EXCEPT ![t] = l]

\* A wrapped function has been called and has succeeded.
Call(t) ==
    /\ At(t, "program") /\ calls[t] < MaxCalls
    /\ calls' = [calls EXCEPT ![t] = @ + 1]
    /\ written' = [written EXCEPT ![t] = 0]
    /\ Goto(t, "open")
    /\ UNCHANGED <<log_fd, lock, log, ended, closed, dropped, failed>>

\* The call of t is not logged.
Drop(t) == dropped' = dropped \cup {<<t, calls[t]>>} /\ Goto(t, "program")

\* open_log_file: opens the file unless log_fd is set.
OpenLogFile(t) ==
    /\ At(t, "open")
    /\ log_fd' = [log_fd EXCEPT ![Owner[t]] = IF @ = "none" THEN "log" ELSE @]
    /\ Goto(t, "lock")
    /\ UNCHANGED <<calls, written, lock, log, ended, closed, dropped, failed>>

\* Variant: no lock is taken.
LockNone(t) ==
    /\ At(t, "lock") /\ Goto(t, "write")
    /\ UNCHANGED <<calls, written, log_fd, lock, log, ended, closed, dropped, failed>>

\* my_lock waits until no other process has the lock.  It fails if log_fd is
\* no descriptor any more, and then nothing is logged.
Lock(t) ==
    /\ At(t, "lock")
    /\ \/ /\ log_fd[Owner[t]] = "log" /\ lock \in {NoProc, Owner[t]}
          /\ lock' = Owner[t] /\ Goto(t, "write") /\ UNCHANGED dropped
       \/ log_fd[Owner[t]] = "other" /\ Goto(t, "write") /\ UNCHANGED <<lock, dropped>>
       \/ log_fd[Owner[t]] \in {"none", "closed"} /\ Drop(t) /\ UNCHANGED lock
    /\ UNCHANGED <<calls, written, log_fd, log, ended, closed, failed>>

\* The other ways for the two to fail: open_log_file cannot open the file
\* (log_fd stays -1, and the next call tries again), or my_lock gets no lock
\* from the kernel (ENOLCK).
Refused(t) ==
    /\ Fails
    /\ (At(t, "open") /\ log_fd[Owner[t]] = "none") \/ At(t, "lock")
    /\ Drop(t)
    /\ UNCHANGED <<calls, written, log_fd, lock, log, ended, closed, failed>>

\* write_int, write_literal and write_name append to the file log_fd is; the
\* wrappers do not look whether they could.
Write(t) ==
    /\ At(t, "write") /\ written[t] < Pieces
    /\ written' = [written EXCEPT ![t] = @ + 1]
    /\ IF log_fd[Owner[t]] # "log" THEN UNCHANGED <<log, failed>>
       ELSE \/ /\ log' = Append(log, [thread |-> t, call |-> calls[t], part |-> written[t] + 1])
               /\ UNCHANGED failed
            \/ Fails /\ failed' = TRUE /\ UNCHANGED log
    /\ UNCHANGED <<pc, calls, log_fd, lock, ended, closed, dropped>>

Release(p) == lock' = IF lock = p THEN NoProc ELSE lock

\* Variant: the lock is kept.
UnlockForgotten(t) ==
    /\ At(t, "write") /\ written[t] = Pieces
    /\ Goto(t, "program")
    /\ UNCHANGED <<calls, written, log_fd, lock, log, ended, closed, dropped, failed>>

\* my_unlock gives up the lock of the process.
Unlock(t) ==
    /\ At(t, "write") /\ written[t] = Pieces
    /\ IF log_fd[Owner[t]] = "log" THEN Release(Owner[t]) ELSE UNCHANGED lock
    /\ Goto(t, "program")
    /\ UNCHANGED <<calls, written, log_fd, log, ended, closed, dropped, failed>>

\* A thread that is in the program again: a destroyed one does not come back.
AfterExec(t) == CASE pc[t] = "program" -> "program"
                  [] pc[t] \in {"write", "cut"} -> "cut"
                  [] OTHER -> "gone"

\* The process executes another program, which starts with log_fd = -1; the
\* log file stays open and locked.  Threads that are in a wrapper are
\* destroyed there; the others stand for the ones the new program will have.
Exec(p) ==
    /\ p \notin ended
    /\ \E t \in Thread : Owner[t] = p /\ pc[t] = "program"
    /\ pc' = [t \in Thread |-> IF Owner[t] = p THEN AfterExec(t) ELSE pc[t]]
    /\ log_fd' = [log_fd EXCEPT ![p] = "none"]
    /\ UNCHANGED <<calls, written, lock, log, ended, closed, dropped, failed>>

\* The program closes all descriptors, puts a file of its own in place of one
\* (dup2), or closes one that was left open by exec.  With any of these the
\* process also loses its lock.
Close(p) ==
    /\ Closes /\ p \notin ended
    /\ \E t \in Thread : Owner[t] = p /\ pc[t] = "program"
    /\ \/ /\ log_fd[p] = "log"
          /\ \E f \in {"closed", "other"} : log_fd' = [log_fd EXCEPT ![p] = f]
          /\ closed' = closed \cup {p}
       \/ UNCHANGED <<log_fd, closed>>
    /\ Release(p)
    /\ UNCHANGED <<pc, calls, written, log, ended, dropped, failed>>

Kill(p) ==
    /\ Kills /\ p \notin ended
    /\ ended' = ended \cup {p}
    /\ Release(p)
    /\ UNCHANGED <<pc, calls, written, log_fd, log, closed, dropped, failed>>

Report(t) == OpenLogFile(t) \/ Lock(t) \/ Write(t) \/ Unlock(t)

Next ==
    \/ \E t \in Thread : Call(t) \/ Report(t) \/ Refused(t)
    \/ \E p \in Proc : Exec(p) \/ Close(p) \/ Kill(p)

Spec == Init /\ [][Next]_vars /\ \A t \in Thread : WF_vars(Report(t))

-----------------------------------------------------------------------------
TypeOK ==
    /\ pc \in [Thread -> {"program", "open", "lock", "write", "cut", "gone"}]
    /\ calls \in [Thread -> 0..MaxCalls] /\ written \in [Thread -> 0..Pieces]
    /\ log_fd \in [Proc -> {"none", "log", "closed", "other"}]
    /\ lock \in Proc \cup {NoProc}
    /\ log \in Seq(Piece)
    /\ ended \subseteq Proc /\ closed \subseteq Proc
    /\ dropped \subseteq Thread \X (0..MaxCalls) /\ failed \in BOOLEAN

\* preload.lua finds the call of a line that has all of its pieces and no
\* others: syscall_re and the patterns of the handlers match nothing else.
LineAt(s, t, c) ==
    /\ s + Pieces <= Len(log)
    /\ s = 0 \/ log[s].part = Pieces
    /\ \A k \in 1..Pieces : log[s + k] = [thread |-> t, call |-> c, part |-> k]
Logged(t, c) == \E s \in 0..Len(log) : LineAt(s, t, c)

\* Calls that have returned to the program.
Returned(t) == 1..(IF pc[t] = "program" THEN calls[t] ELSE calls[t] - 1)
Lost == {tc \in Thread \X (1..MaxCalls) : tc[2] \in Returned(tc[1]) /\ ~Logged(tc[1], tc[2])}

\* No process has more than one thread.
Absent(t) == pc[t] = "gone" /\ calls[t] = 0
OneThreadEach ==
    \A t, u \in Thread : t # u /\ Owner[t] = Owner[u] => Absent(t) \/ Absent(u)

\* Without threads, and as long as no write fails, a process that is killed
\* while it writes costs at most one other call: the one whose line is appended
\* to the unfinished one.  Otherwise no call is lost but those whose log file
\* could not be opened or locked, and those of processes that have closed
\* log_fd (my_lock, my_unlock).
LossBounded ==
    OneThreadEach /\ ~failed =>
      Cardinality({tc \in Lost : Owner[tc[1]] \notin closed /\ tc \notin dropped})
        <= Cardinality(ended)

\* A process keeps the lock over exec.
Inherited == \E t \in Thread : Owner[t] = lock /\ At(t, "cut")

\* The lock is free whenever no wrapper is between my_lock and my_unlock, so
\* neither a killed process nor one that has closed log_fd keeps it.  Only a
\* living process that has executed another program while one of its threads
\* was there may have it for longer.
LockReleased ==
    lock # NoProc => Inherited \/ \E t \in Thread : Owner[t] = lock /\ At(t, "write")

\* Every wrapper returns to the program (nobody waits for a lock forever),
\* unless its process is killed or another of its threads executes a program;
\* and unless a process has kept the lock over exec, which gives it up when the
\* new program is in a wrapper, closes a descriptor of the file or ends.
WrappersReturn ==
    \A t \in Thread :
      pc[t] # "program" ~> \/ pc[t] \in {"program", "cut", "gone"}
                           \/ Owner[t] \in ended \/ Inherited

\* README.md: system call tracing is used "to automatically identify input
\* files and output files during the first build".  So no call is missing in
\* the log.
LogComplete == Lost = {}
=============================================================================
