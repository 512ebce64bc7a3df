------------------------------- MODULE MCChain -------------------------------
(***************************************************************************)
(* Three commands, each working on the result of the other: mk is `mkdir -p *)
(* d', cc compiles a to o in the directory d (it rejects the contents 3),  *)
(* ld links o to p.  A change of a must go through o to p, an object file  *)
(* replaced by hand must be rebuilt, and cleaning must empty d before it   *)
(* deletes it.                                                             *)
(***************************************************************************)
EXTENDS IncrementalBuild

MCFile == {"a", "d", "d/o", "p"}
MCValue == {1, 2, 3}
MCParent(f) == IF f = "d/o" THEN "d" ELSE f
MCRank(f) == CASE f = "a" -> 1 [] f = "d" -> 2 [] f = "d/o" -> 3 [] f = "p" -> 4

Source(c) == IF c = "cc" THEN "a" ELSE "d/o"
Target(c) == IF c = "cc" THEN "d/o" ELSE "p"

MCSucceeds(c, s) ==
    IF c = "mk" THEN s["d"] \in {Absent, Dir}
    ELSE /\ s[Source(c)] \in (IF c = "cc" THEN {1, 2} ELSE Value) /\ s[Target(c)] # Dir
         /\ s[MCParent(Target(c))] = Dir \/ c = "ld"

\* mkdir -p makes no traced call that succeeds if the directory is there.
MCReads(c, s) == IF c = "mk" THEN {} ELSE {Source(c)}
MCWrites(c, s) == IF c = "mk" THEN IF s["d"] = Absent THEN {"d"} ELSE {} ELSE {Target(c)}
MCOut(c, s, f) == IF c = "mk" THEN Dir ELSE s[Source(c)]

MCInitTrees == {[f \in File |-> IF f = "a" THEN 1 ELSE Absent]}

MCJobs == {<<"mk", "cc", "ld">>, <<"ld">>, <<"clean">>, <<"clean", "mk", "cc", "ld">>}
MCUserEdits == {<<"a", 2>>, <<"a", 3>>, <<"d/o", 3>>, <<"p", 1>>}

QuietStages == {"idle", "ready", "exit"}
=============================================================================
