------------------------------ MODULE MCPreload ------------------------------
(***************************************************************************)
(* The two parts of the preload library that keep state.  A behaviour is   *)
(* about one call of execve with an environment of up to three variables,  *)
(* any of the five among them, or about the log.  The log is that of two   *)
(* processes of one thread each, of which one makes two calls and the      *)
(* other one; or of one process with two threads and one with one, where   *)
(* each thread makes one call and no process is killed.                    *)
(***************************************************************************)
EXTENDS MCPreloadLog, PreloadEnv

VARIABLE part

MCOther == {"PATH"}

Threads(p) == IF p = "log" THEN {t1, t3} ELSE Thread
LogBound == calls[t3] <= 1
ThreadsBound == ended = {} /\ \A t \in Thread : calls[t] <= 1

MCInit == /\ Init /\ EnvInit /\ part \in {"log", "threads", "environment"}
          /\ part # "environment" => env = <<>>
          /\ \A t \in Thread : pc[t] = "program" <=> t \in Threads(part)
LogNext == Next /\ IF part = "log" THEN LogBound' ELSE ThreadsBound'
MCNext == /\ \/ part # "environment" /\ LogNext /\ UNCHANGED evars
             \/ part = "environment" /\ EnvNext /\ UNCHANGED vars
          /\ UNCHANGED part
LogReport(t) == part # "environment" /\ Report(t) /\ UNCHANGED <<evars, part>>

\* As in PreloadLog, a wrapper that has been entered goes on.
MCSpec == /\ MCInit /\ [][MCNext]_<<vars, evars, part>>
          /\ \A t \in Thread : WF_<<vars, evars, part>>(LogReport(t))
=============================================================================
