----------------------------- MODULE LuaRequire -----------------------------
(***************************************************************************)
(* require of loadlib.c: package.loaded, the loaders, the sentinel that    *)
(* stands for a module that is being loaded, and the shared libraries that *)
(* the registry keeps open.  What the body of a module does is the         *)
(* program's: it requires others, sets its entry in package.loaded (as     *)
(* module() does), returns a value or raises an error; the error may be    *)
(* caught by a caller further down.                                        *)
(***************************************************************************)
EXTENDS Integers, Sequences, SequencesExt, FiniteSets

CONSTANTS Modules,             \* names of modules
          HasPreload, HasFile, HasLib, HasRoot,  \* which loader finds a module
          Library,             \* the shared library of a module
          MaxRequires          \* bound: nested calls of require
ASSUME RequireAssumption == {HasPreload, HasFile, HasLib, HasRoot} \subseteq SUBSET Modules /\ MaxRequires \in Nat

VARIABLES loaded,   \* package.loaded
          calls,    \* the calls of require, outermost first
          libs,     \* the libraries that are open, each with how often it was opened
          failed    \* history: the bodies that have raised an error
qvars == <<loaded, calls, libs, failed>>

NoValue  == "nil"
Sentinel == "sentinel"
Loaders  == <<"preload", "Lua", "C", "Croot">>
Frame(m, i) == [m |-> m, i |-> i, at |-> "search"]
TopCall  == Last(calls)
Body     == calls # <<>> /\ TopCall.at = "body"

RequireInit ==
    /\ loaded = [m \in Modules |-> NoValue]
    /\ calls = <<>> /\ libs = [l \in {Library[m] : m \in Modules} |-> 0]
    /\ failed = {}

\* An error leaves every call down to the one of the caller that catches it; the
\* entries of package.loaded stay as they are.
Raise(k) ==
    /\ calls' = SubSeq(calls, 1, k)
    /\ failed' = failed \cup {calls[j].m : j \in {x \in (k + 1)..Len(calls) : calls[x].at = "body"}}
Catches == {0} \cup {k \in DOMAIN calls : calls[k].at = "body"}

\* ll_require without the test for the sentinel.
RequireLoops(m) ==
    /\ calls = <<>> \/ Body
    /\ Len(calls) < MaxRequires
    /\ IF loaded[m] \notin {NoValue, Sentinel} THEN UNCHANGED <<calls, failed>>
       ELSE calls' = Append(calls, Frame(m, 1)) /\ UNCHANGED failed
    /\ UNCHANGED <<loaded, libs>>

\* ll_require up to the first loader
Require(m) ==
    /\ calls = <<>> \/ Body
    /\ Len(calls) < MaxRequires
    /\ \/ loaded[m] = Sentinel /\ \E k \in Catches : Raise(k)
       \/ loaded[m] = NoValue /\ calls' = Append(calls, Frame(m, 1)) /\ UNCHANGED failed
    /\ UNCHANGED <<loaded, libs>>

\* ll_loadfunc of the library: it is opened at most once, and kept even if it lacks
\* the function.
LoadFunc(l) == libs' = [libs EXCEPT ![l] = IF @ = 0 THEN 1 ELSE @]

\* One loader: it gives a function, or a message, or raises an error because what
\* it has found cannot be loaded.
Finds(m, i) ==
    CASE Loaders[i] = "preload" -> m \in HasPreload
      [] Loaders[i] = "Lua"     -> m \in HasFile
      [] Loaders[i] = "C"       -> m \in HasLib
      [] Loaders[i] = "Croot"   -> m \in HasRoot
RunsBody(m) == /\ loaded' = [loaded EXCEPT ![m] = Sentinel]
               /\ calls' = [calls EXCEPT ![Len(calls)].at = "body"]

TryLoader ==
    /\ calls # <<>> /\ TopCall.at = "search"
    /\ LET m == TopCall.m
           i == TopCall.i
       IN  IF i > Len(Loaders)
           THEN (\E k \in Catches : Raise(k)) /\ UNCHANGED <<loaded, libs>>   \* not found
           ELSE /\ IF Finds(m, i) /\ Loaders[i] \in {"C", "Croot"} THEN LoadFunc(Library[m]) ELSE UNCHANGED libs
                /\ \/ Finds(m, i) /\ RunsBody(m) /\ UNCHANGED failed
                   \/ /\ Finds(m, i) /\ Loaders[i] # "preload"
                      /\ \E k \in Catches : Raise(k)
                      /\ UNCHANGED loaded
                   \/ /\ ~Finds(m, i) \/ Loaders[i] = "Croot"
                      /\ calls' = [calls EXCEPT ![Len(calls)].i = i + 1]
                      /\ UNCHANGED <<loaded, failed>>

\* The body of a module sets its own entry.
SetsLoaded ==
    /\ Body
    /\ loaded' = [loaded EXCEPT ![TopCall.m] = "table"]
    /\ UNCHANGED <<calls, libs, failed>>

\* ll_require after the body has returned
Returns ==
    /\ Body
    /\ \E v \in {NoValue, "value"} :
         loaded' = [loaded EXCEPT ![TopCall.m] = IF v # NoValue THEN v ELSE IF @ = Sentinel THEN "true" ELSE @]
    /\ calls' = Front(calls)
    /\ UNCHANGED <<libs, failed>>

BodyError == Body /\ (\E k \in Catches : k < Len(calls) /\ Raise(k)) /\ UNCHANGED <<loaded, libs>>

RequireNext == (\E m \in Modules : Require(m)) \/ TryLoader \/ SetsLoaded \/ Returns \/ BodyError

RequireSpec == RequireInit /\ [][RequireNext]_qvars
-----------------------------------------------------------------------------
\* No module is loaded while it is being loaded, however modules require each other:
\* the sentinel ends the loop with an error.
NoLoop == \A j, k \in DOMAIN calls : j # k => calls[j].m # calls[k].m

\* When require meets the sentinel, the module is being loaded or its body has raised
\* an error ("loop or previous error loading module", loadlib.c:459).
SentinelIsRight ==
    \A m \in Modules : loaded[m] = Sentinel => m \in failed \/ \E k \in DOMAIN calls : calls[k].m = m

\* However modules require each other, fail and are required again, none is loaded
\* twice at a time, and errors about loops are right.
RequireSound == NoLoop /\ SentinelIsRight
=============================================================================
