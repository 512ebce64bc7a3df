------------------------------ MODULE Programs ------------------------------
(***************************************************************************)
(* The world around buildsh: the files of the build tree and the programs  *)
(* a build script runs.  buildsh never looks inside a program; it sees     *)
(* which files the program opened and whether it exited with status 0, so  *)
(* a program is given here by four operators of the tree it starts from.   *)
(***************************************************************************)
CONSTANTS
    File,           \* paths below the directory buildsh was started in
    Value,          \* contents of regular files
    Absent, Dir,    \* "there is no such file" and "it is a directory"
    Parent(_),      \* the directory a path lies in; the path itself at top level
    Cmd,            \* command lines, i.e. keys of .deps.lua
    Succeeds(_, _), \* Succeeds(c, s): c may exit with status 0 from tree s
    Reads(_, _),    \* files c opens for reading before it writes them
    Writes(_, _),   \* files c opens for writing, creates or renames into place
    Out(_, _, _)    \* Out(c, s, f): what f holds after c has run from s

Node == Value \cup {Absent, Dir}

\* Every existing file lies in an existing directory.
WellFormed(s) ==
    \A f \in File : s[f] # Absent => Parent(f) = f \/ s[Parent(f)] = Dir

FS == {s \in [File -> Node] : WellFormed(s)}

\* The tree a successful run of c leaves behind.
Effect(c, s) == [f \in File |-> IF f \in Writes(c, s) THEN Out(c, s, f) ELSE s[f]]

\* The trees a failing run of c may leave behind: each of the files it writes
\* may be untouched, missing, complete or have any contents in between.
Partial(c, s) ==
    {t \in FS : \A f \in File :
       \/ t[f] = s[f]
       \/ f \in Writes(c, s) /\ IF Out(c, s, f) = Dir THEN t[f] = Dir
                                                     ELSE t[f] \in Value \cup {Absent}}

Agree(s, t, S) == \A f \in S : s[f] = t[f]

\* c touches no file of the tree that a system call trace would show.
Untraceable(c, s) == Reads(c, s) = {} /\ Writes(c, s) = {}

(***************************************************************************)
(* What an incremental build has to assume of the programs: none updates   *)
(* one of its inputs in place, and running it again from a tree that has   *)
(* the same inputs and its outputs in place succeeds and changes nothing.  *)
(* A program that is a function of the files it opens satisfies it.        *)
(* Nothing is assumed of a run that touches no file of the tree.           *)
(***************************************************************************)
ASSUME FileAssumption ==
    /\ Absent \notin Value /\ Dir \notin Value /\ Absent # Dir
    /\ \A f \in File : Parent(f) \in File

ASSUME ProgramAssumption ==
    \A c \in Cmd, s \in FS : Succeeds(c, s) =>
      /\ Reads(c, s) \subseteq File
      /\ Writes(c, s) \subseteq File
      /\ Reads(c, s) \cap Writes(c, s) = {}
      /\ Effect(c, s) \in FS
      /\ ~Untraceable(c, s) =>
           \A t \in FS :
             Agree(s, t, Reads(c, s)) /\ Agree(Effect(c, s), t, Writes(c, s))
               => Succeeds(c, t) /\ Effect(c, t) = t
=============================================================================
