----------------------------- MODULE TraceLogs ------------------------------
(***************************************************************************)
(* How strace.lua, ktrace.lua and tracker.lua get system calls back from   *)
(* the logs of several processes.                                          *)
(*                                                                         *)
(* strace writes a line per call, with the result at its end; if another   *)
(* process gets in between it breaks the line off and goes on with it      *)
(* later.  kdump shows three kinds of lines: CALL, the names the kernel    *)
(* looks up (NAMI; one for each call here), and RET.  A process has one    *)
(* thread; it can be killed in a call, and its id used again.  tracker.exe *)
(* writes one log of the files written, one of those deleted and one of    *)
(* those read.                                                             *)
(***************************************************************************)
EXTENDS Naturals, Sequences, SequencesExt

CONSTANTS Procs, Names,        \* process ids, names of system calls
          ExeFiles,            \* files that tracker.exe sees
          MaxLogged            \* bound: calls made

Nobody == "nobody"
ASSUME TraceAssumption == MaxLogged \in Nat /\ Nobody \notin Procs

VARIABLES
    running,   \* the call a process is in (id 0: none); the id stands for the arguments
    broken,    \* strace: the process whose line has only been begun
    pend,      \* parser: what it has seen of a process's calls, in order
    handed,    \* parser: the calls given to their handlers
    made,      \* history: the calls that succeeded, in the order they returned
    nth,       \* history: number of calls
    exe        \* tracker.exe: there, wrote, deleted, read; again: written after a deletion

lvars == <<running, broken, pend, handed, made, nth, exe>>

Nowhere == [name |-> "none", id |-> 0, named |-> FALSE]
Outside(p) == running[p] = Nowhere
CanCall(p) == Outside(p) /\ nth < MaxLogged

LogsInit ==
    /\ running = [p \in Procs |-> Nowhere] /\ broken = Nobody
    /\ pend = [p \in Procs |-> <<>>] /\ handed = <<>> /\ made = <<>> /\ nth = 0
    /\ \E S \in SUBSET ExeFiles : exe = [there |-> S, wrote |-> {}, deleted |-> {}, read |-> {}, again |-> {}]

Enter(p, c) == running' = [running EXCEPT ![p] = c] /\ nth' = nth + 1
Leave(p, ok) ==
    /\ running' = [running EXCEPT ![p] = Nowhere]
    /\ made' = IF ok THEN Append(made, [p |-> p, name |-> running[p].name, args |-> <<running[p].id, running[p].id>>])
               ELSE made

\* The place of the last call of that name that is waiting, or 0.
LastOf(q, name) == LET at == {i \in DOMAIN q : q[i].name = name}
                   IN  IF at = {} THEN 0 ELSE CHOOSE i \in at : \A j \in at : j <= i
-----------------------------------------------------------------------------
\* strace: push_unfinished for the line that is broken off.
push_unfinished == IF broken = Nobody THEN pend
                   ELSE [pend EXCEPT ![broken] = Append(@, running[broken])]

\* pop_unfinished that takes the oldest call of that name.
pop_unfinishedOldest(p, name, id, ok) ==
    LET at == {i \in DOMAIN pend[p] : pend[p][i].name = name}
        i  == IF at = {} THEN 0 ELSE CHOOSE j \in at : \A l \in at : j <= l
    IN  /\ pend' = [push_unfinished EXCEPT ![p] = IF i = 0 THEN @ ELSE RemoveAt(@, i)]
        /\ handed' = IF i = 0 \/ ~ok THEN handed
                     ELSE Append(handed, [p |-> p, name |-> name, args |-> <<pend[p][i].id, id>>])

\* pop_unfinished: the halves are put together, unless the call has failed.
pop_unfinished(p, name, id, ok) ==
    LET i == LastOf(pend[p], name)
    IN  /\ pend' = [push_unfinished EXCEPT ![p] = IF i = 0 THEN @ ELSE RemoveAt(@, i)]
        /\ handed' = IF i = 0 \/ ~ok THEN handed
                     ELSE Append(handed, [p |-> p, name |-> name, args |-> <<pend[p][i].id, id>>])

StraceEnter(p) ==
    /\ CanCall(p)
    /\ \E name \in Names : Enter(p, [name |-> name, id |-> nth + 1, named |-> FALSE])
    /\ pend' = push_unfinished /\ broken' = p
    /\ UNCHANGED <<handed, made, exe>>

\* A whole line matches syscall_re if the result is a number without a sign.
StraceReturn(p, ok) ==
    /\ ~Outside(p)
    /\ Leave(p, ok) /\ broken' = Nobody
    /\ IF broken = p
       THEN /\ handed' = IF ok THEN Append(handed, [p |-> p, name |-> running[p].name,
                                                    args |-> <<running[p].id, running[p].id>>]) ELSE handed
            /\ pend' = pend
       ELSE pop_unfinished(p, running[p].name, running[p].id, ok)
    /\ UNCHANGED <<nth, exe>>

\* The line of a process that is killed is left unfinished; if it was already, the
\* result of the resumed one is a question mark.
StraceKilled(p) ==
    /\ ~Outside(p)
    /\ running' = [running EXCEPT ![p] = Nowhere]
    /\ pend' = push_unfinished /\ broken' = Nobody
    /\ UNCHANGED <<handed, made, nth, exe>>

StraceNext == \E p \in Procs : StraceEnter(p) \/ StraceKilled(p) \/ \E ok \in BOOLEAN : StraceReturn(p, ok)
-----------------------------------------------------------------------------
\* kdump: push_syscall
KdumpCall(p) ==
    /\ CanCall(p)
    /\ \E name \in Names :
         /\ Enter(p, [name |-> name, id |-> nth + 1, named |-> FALSE])
         /\ pend' = [pend EXCEPT ![p] = Append(@, [name |-> name, id |-> nth + 1, nami |-> 0])]
    /\ UNCHANGED <<broken, handed, made, exe>>

\* set_syscall_arg: the name belongs to the last call.
KdumpNami(p) ==
    /\ ~Outside(p) /\ ~running[p].named
    /\ running' = [running EXCEPT ![p].named = TRUE]
    /\ pend' = IF pend[p] = <<>> THEN pend ELSE [pend EXCEPT ![p][Len(pend[p])].nami = running[p].id]
    /\ UNCHANGED <<broken, handed, made, nth, exe>>

\* pop_syscall, and the handler that gets the arguments and the name.
KdumpRet(p, ok) ==
    LET i == LastOf(pend[p], running[p].name)
    IN  /\ running[p].named
        /\ Leave(p, ok)
        /\ pend' = [pend EXCEPT ![p] = IF i = 0 THEN @ ELSE RemoveAt(@, i)]
        /\ handed' = IF i = 0 \/ ~ok THEN handed
                     ELSE Append(handed, [p |-> p, name |-> running[p].name,
                                          args |-> <<pend[p][i].id, pend[p][i].nami>>])
        /\ UNCHANGED <<broken, nth, exe>>

KdumpKilled(p) ==
    /\ ~Outside(p)
    /\ running' = [running EXCEPT ![p] = Nowhere]
    /\ UNCHANGED <<broken, pend, handed, made, nth, exe>>

KdumpNext == \E p \in Procs : KdumpCall(p) \/ KdumpNami(p) \/ KdumpKilled(p) \/ \E ok \in BOOLEAN : KdumpRet(p, ok)
-----------------------------------------------------------------------------
ExeWrite(f) == exe' = [exe EXCEPT !.there = @ \cup {f}, !.wrote = @ \cup {f},
                                  !.again = IF f \in exe.deleted THEN @ \cup {f} ELSE @]
ExeRead(f)   == f \in exe.there /\ exe' = [exe EXCEPT !.read = @ \cup {f}]
ExeDelete(f) == f \in exe.there /\ exe' = [exe EXCEPT !.there = @ \ {f}, !.deleted = @ \cup {f}]
ExeNext == /\ \E f \in ExeFiles : ExeWrite(f) \/ ExeRead(f) \/ ExeDelete(f)
           /\ UNCHANGED <<running, broken, pend, handed, made, nth>>

\* post_process that reads the log of the deletions before that of the writes.
PostProcessDeletesFirst == [output |-> exe.wrote, input |-> exe.read \ exe.wrote]

\* post_process of tracker.lua: handle_write for all files, handle_delete, handle_read
PostProcess == LET output == exe.wrote \ exe.deleted IN [output |-> output, input |-> exe.read \ output]
-----------------------------------------------------------------------------
\* Each of the logs by itself
StraceSpec == LogsInit /\ [][StraceNext]_lvars
KdumpSpec  == LogsInit /\ [][KdumpNext]_lvars
ExeSpec    == LogsInit /\ [][ExeNext]_lvars
-----------------------------------------------------------------------------
\* The handlers get the calls that have succeeded, each once, in the order in which
\* they returned and with their own arguments, however the lines of the processes are
\* mixed, calls fail or processes are killed in a call and their ids used again
\* (pop_unfinished, strace.lua:141; pop_syscall, ktrace.lua).
HandedOn == handed = made

\* What tracker.lua takes for outputs, which autoclean will delete, has been written by
\* the program and is there at the end; of these files it misses the ones written after
\* they had been deleted, and nothing that was read is missing (tracker.lua:125).
ExeOutputs ==
    LET r == PostProcess
        left == exe.wrote \cap exe.there
    IN  /\ r.output \subseteq left /\ left \ exe.again \subseteq r.output
        /\ exe.read \subseteq r.input \cup r.output
=============================================================================
