---------------------------- MODULE MCPreloadLog ----------------------------
(***************************************************************************)
(* One process of two threads, and one of two beside one of one thread.    *)
(***************************************************************************)
EXTENDS PreloadLog, TLC

CONSTANTS p1, p2, t1, t2, t3

TwoThreads == t1 :> p1 @@ t2 :> p1
TwoAndOne == t1 :> p1 @@ t2 :> p1 @@ t3 :> p2
=============================================================================
