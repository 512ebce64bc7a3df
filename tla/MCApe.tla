------------------------------- MODULE MCApe --------------------------------
(* The APR binding with a few objects, resources and children. *)
EXTENDS Ape

Program(u, o, n, k) == [uses |-> u, objects |-> o, natives |-> n, kids |-> k]
MCPrograms == {Program({"pools", "dup", "files", "dirs"}, 5, 5, 0), Program({"pools", "dup", "files", "values"}, 6, 5, 0),
               Program({"pools", "dup", "waits", "procs"}, 6, 4, 1), Program({"procs"}, 8, 4, 2),
               Program({"waits", "procs", "collect"}, 5, 4, 2)}
=============================================================================
