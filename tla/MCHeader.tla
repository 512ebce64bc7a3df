------------------------------ MODULE MCHeader ------------------------------
(***************************************************************************)
(* A project with a source file a, a header h and an object file o in the  *)
(* directory d.  mk is `mkdir -p d'; cc compiles a, which includes h if it *)
(* holds 1, to o.                                                          *)
(***************************************************************************)
EXTENDS IncrementalBuild

MCFile == {"a", "d", "d/o", "h"}
MCValue == {1, 2}
MCParent(f) == IF f = "d/o" THEN "d" ELSE f
MCRank(f) == CASE f = "a" -> 1 [] f = "d" -> 2 [] f = "d/o" -> 3 [] f = "h" -> 4

Includes(s) == s["a"] = 1

MCSucceeds(c, s) ==
    IF c = "mk" THEN s["d"] \in {Absent, Dir}
    ELSE s["a"] \in Value /\ s["d"] = Dir /\ s["d/o"] # Dir
         /\ (Includes(s) => s["h"] \in Value)

\* mkdir -p makes no traced call that succeeds if the directory is there.
MCReads(c, s) == IF c = "mk" THEN {} ELSE IF Includes(s) THEN {"a", "h"} ELSE {"a"}
MCWrites(c, s) == IF c = "mk" THEN IF s["d"] = Absent THEN {"d"} ELSE {} ELSE {"d/o"}

MCOut(c, s, f) ==
    IF c = "mk" THEN Dir ELSE IF Includes(s) THEN s["h"] ELSE 2

MCInitTrees == {[f \in File |-> CASE f = "a" -> 1 [] f = "h" -> 1 [] OTHER -> Absent]}

MCJobs == {<<"mk", "cc">>, <<"clean">>, <<"clean", "mk", "cc">>}
MCUserEdits == {<<"a", 1>>, <<"a", 2>>, <<"h", 1>>, <<"h", 2>>, <<"d/o", 2>>, <<"d/o", Absent>>}

AllStages == Stages
=============================================================================
