------------------------------ MODULE MCDriver ------------------------------
(***************************************************************************)
(* Up to three make files and targets; two SIGINTs are enough for one      *)
(* that is turned into an error and one that kills.                        *)
(***************************************************************************)
EXTENDS Driver

MCTarget == {"build", "list", "clean"}
=============================================================================
