-------------------------- MODULE LuaLibraryProofs ---------------------------
(***************************************************************************)
(* Proofs about the parts of the Lua library that keep state.              *)
(*                                                                         *)
(* require is sound for any modules, loaders and libraries, and however    *)
(* deep the calls are nested.  The argument: only the innermost call can   *)
(* be one that is still searching, and its module has no entry in          *)
(* package.loaded; the modules of all calls around it have one.            *)
(*                                                                         *)
(* Buffers and references keep what is put into them, for any sizes.  The  *)
(* argument: to join pieces does not change the text they make up, and the *)
(* free slots of a table of references are a list without branches.        *)
(*                                                                         *)
(* Calls unwind, for any limits and coroutines.  The argument: each record *)
(* of the C stack is in a place where it may be, what a setjmp has saved   *)
(* is right for the records below it, and a thread fits the records up to  *)
(* its last one; nobody else's records are above those but after a resume. *)
(***************************************************************************)
EXTENDS LuaRequire, LuaAuxLib, LuaCalls, SequenceFacts, TLAPS

(* require *)

RequireFrames == [m : Modules, i : Nat, at : {"search", "body"}]
Entries       == {NoValue, Sentinel, "table", "value", "true"}
Libs          == {Library[m] : m \in Modules}

RequireType ==
    /\ loaded \in [Modules -> Entries] /\ calls \in Seq(RequireFrames)
    /\ libs \in [Libs -> {0, 1}] /\ failed \subseteq Modules

\* Of the calls of require only the last one has not found its module yet.
Nesting ==
    \A k \in 1..Len(calls) :
      /\ calls[k].at = "body" => loaded[calls[k].m] # NoValue
      /\ calls[k].at = "search" => k = Len(calls) /\ loaded[calls[k].m] = NoValue

\* The sentinel is there because of a body that is running or has failed.
SentinelInv ==
    \A m \in Modules : loaded[m] = Sentinel =>
      m \in failed \/ \E k \in 1..Len(calls) : calls[k].m = m /\ calls[k].at = "body"

RequireInv == RequireType /\ Nesting /\ NoLoop /\ SentinelInv

-----------------------------------------------------------------------------
\* The nested calls of require, one by one.
LEMMA CallsShape ==
    ASSUME RequireInv
    PROVE  /\ Len(calls) \in Nat /\ DOMAIN calls = 1..Len(calls)
           /\ \A k \in 1..Len(calls) :
                /\ calls[k] \in RequireFrames /\ calls[k].m \in Modules
                /\ calls[k].i \in Nat /\ calls[k].at \in {"search", "body"}
<1>1. calls \in Seq(RequireFrames)
  BY DEF RequireInv, RequireType
<1>2. Len(calls) \in Nat /\ DOMAIN calls = 1..Len(calls) /\ \A k \in 1..Len(calls) : calls[k] \in RequireFrames
  BY <1>1
<1> QED
  BY <1>2 DEF RequireFrames

\* The invariant holds before anything is required.
LEMMA InitRequireInv == RequireInit => RequireInv
<1> SUFFICES ASSUME RequireInit PROVE RequireInv
  OBVIOUS
<1>1. calls = <<>> /\ Len(calls) = 0 /\ DOMAIN calls = {} /\ calls \in Seq(RequireFrames)
  BY DEF RequireInit
<1>2. RequireType
  BY <1>1 DEF RequireInit, RequireType, Entries, Libs
<1> QED
  BY <1>1, <1>2 DEF RequireInit, RequireInv, Nesting, NoLoop, SentinelInv, NoValue, Sentinel

\* An error: the calls that are left are bodies, and the other bodies have failed.
LEMMA RaiseRequireInv ==
    ASSUME RequireInv, NEW k \in Catches, Raise(k), UNCHANGED loaded, libs' \in [Libs -> {0, 1}]
    PROVE  RequireInv'
<1>1. k \in 0..Len(calls)
  BY CallsShape DEF Catches
<1>2. calls \in Seq(RequireFrames)
  BY DEF RequireInv, RequireType
<1>3. /\ calls' \in Seq(RequireFrames) /\ Len(calls') = k
      /\ \A j \in 1..k : calls'[j] = calls[j]
  <2>1. calls' = SubSeq(calls, 1, k)
    BY DEF Raise
  <2>2. \A j \in 1..k : calls[j] \in RequireFrames
    BY <1>1, CallsShape
  <2> QED
    BY <1>1, <2>1, <2>2, SubSeqProperties
<1> DEFINE lost == {calls[j].m : j \in {x \in (k + 1)..Len(calls) : calls[x].at = "body"}}
<1>4. failed' = failed \cup lost
  BY DEF Raise
<1>5. lost \subseteq Modules
  BY <1>1, CallsShape
<1>6. RequireType'
  BY <1>3, <1>4, <1>5 DEF RequireInv, RequireType
<1>7. \A j \in 1..k : calls[j].at = "body"
  <2> SUFFICES ASSUME NEW j \in 1..k PROVE calls[j].at = "body"
    OBVIOUS
  <2>1. k \in 1..Len(calls) /\ calls[k].at = "body" /\ j \in 1..Len(calls)
    BY <1>1, CallsShape DEF Catches
  <2>2. j < k => calls[j].at # "search"
    BY <1>1, <2>1, CallsShape DEF RequireInv, Nesting
  <2>3. calls[j].at \in {"search", "body"}
    BY <2>1, CallsShape
  <2> QED
    BY <1>1, <2>1, <2>2, <2>3
<1>8. Nesting'
  <2>1. \A j \in 1..k : j \in 1..Len(calls)
    BY <1>1, CallsShape
  <2> QED
    BY <1>3, <1>7, <2>1 DEF RequireInv, Nesting
<1>9. NoLoop'
  <2>1. DOMAIN calls' = 1..k /\ 1..k \subseteq DOMAIN calls
    BY <1>1, <1>3, CallsShape
  <2> QED
    BY <1>3, <2>1 DEF RequireInv, NoLoop
<1>10. SentinelInv'
  <2> SUFFICES ASSUME NEW m \in Modules, loaded[m] = Sentinel, m \notin failed'
               PROVE  \E j \in 1..k : calls'[j].m = m /\ calls'[j].at = "body"
    BY <1>3 DEF SentinelInv
  <2>1. PICK j \in 1..Len(calls) : calls[j].m = m /\ calls[j].at = "body"
    BY <1>4 DEF RequireInv, SentinelInv
  <2>2. j \notin (k + 1)..Len(calls)
    BY <1>4, <2>1
  <2>3. j \in 1..k
    BY <1>1, <2>2, CallsShape
  <2> QED
    BY <1>3, <2>1, <2>3
<1> QED
  BY <1>6, <1>8, <1>9, <1>10 DEF RequireInv

\* A module without an entry is in none of the calls, so that it may be searched for.
LEMMA SearchRequireInv ==
    ASSUME RequireInv, calls = <<>> \/ Body, NEW m \in Modules, loaded[m] = NoValue,
           calls' = Append(calls, Frame(m, 1)), UNCHANGED <<loaded, libs, failed>>
    PROVE  RequireInv'
<1> DEFINE l == Len(calls)
<1>1. l \in Nat /\ DOMAIN calls = 1..l /\ calls \in Seq(RequireFrames)
  BY CallsShape DEF RequireInv, RequireType
<1>2. Frame(m, 1) \in RequireFrames /\ Frame(m, 1).m = m /\ Frame(m, 1).at = "search"
  BY DEF Frame, RequireFrames
<1>3. /\ calls' \in Seq(RequireFrames) /\ Len(calls') = l + 1 /\ DOMAIN calls' = 1..(l + 1)
      /\ calls'[l + 1] = Frame(m, 1) /\ \A j \in 1..l : calls'[j] = calls[j]
  BY <1>1, <1>2
<1>4. \A j \in 1..l : calls[j].at = "body" /\ calls[j].m # m
  <2> SUFFICES ASSUME NEW j \in 1..l PROVE calls[j].at = "body" /\ calls[j].m # m
    OBVIOUS
  <2>1. l \in 1..l /\ calls[l].at = "body"
    BY <1>1 DEF Body, TopCall, Last
  <2>2. calls[j].at = "body"
    BY <2>1, CallsShape DEF RequireInv, Nesting
  <2> QED
    BY <2>2 DEF RequireInv, Nesting
<1>5. RequireType'
  BY <1>3 DEF RequireInv, RequireType
<1>6. Nesting'
  <2> SUFFICES ASSUME NEW j \in 1..(l + 1)
               PROVE  /\ calls'[j].at = "body" => loaded[calls'[j].m] # NoValue
                      /\ calls'[j].at = "search" => j = l + 1 /\ loaded[calls'[j].m] = NoValue
    BY <1>3 DEF Nesting
  <2>1. CASE j = l + 1
    BY <1>2, <1>3, <2>1
  <2>2. CASE j \in 1..l
    BY <1>3, <1>4, <2>2 DEF RequireInv, Nesting
  <2> QED
    BY <1>1, <2>1, <2>2
<1>7. NoLoop'
  <2> SUFFICES ASSUME NEW i \in 1..(l + 1), NEW j \in 1..(l + 1), i # j
               PROVE  calls'[i].m # calls'[j].m
    BY <1>3 DEF NoLoop
  <2>1. CASE i \in 1..l /\ j \in 1..l
    BY <1>1, <1>3, <2>1 DEF RequireInv, NoLoop
  <2>2. CASE i = l + 1 \/ j = l + 1
    BY <1>1, <1>2, <1>3, <1>4, <2>2
  <2> QED
    BY <1>1, <2>1, <2>2
<1>8. SentinelInv'
  <2> SUFFICES ASSUME NEW x \in Modules, loaded[x] = Sentinel, x \notin failed
               PROVE  \E j \in 1..(l + 1) : calls'[j].m = x /\ calls'[j].at = "body"
    BY <1>3 DEF SentinelInv
  <2>1. PICK j \in 1..l : calls[j].m = x /\ calls[j].at = "body"
    BY DEF RequireInv, SentinelInv
  <2> QED
    BY <1>1, <1>3, <2>1
<1> QED
  BY <1>5, <1>6, <1>7, <1>8 DEF RequireInv

\* The loader has found the module, and its body runs.
LEMMA BodyRequireInv ==
    ASSUME RequireInv, calls # <<>>, TopCall.at = "search", RunsBody(TopCall.m),
           libs' \in [Libs -> {0, 1}], UNCHANGED failed
    PROVE  RequireInv'
<1> DEFINE l == Len(calls)
           m == calls[l].m
<1>1. /\ l \in Nat /\ l \in 1..l /\ DOMAIN calls = 1..l /\ calls \in Seq(RequireFrames)
      /\ calls[l] \in RequireFrames /\ m \in Modules /\ calls[l].at = "search"
      /\ loaded \in [Modules -> Entries]
  BY CallsShape DEF RequireInv, RequireType, TopCall, Last
<1>2. /\ loaded' = [loaded EXCEPT ![m] = Sentinel]
      /\ calls' = [calls EXCEPT ![l] = [calls[l] EXCEPT !.at = "body"]]
  BY DEF RunsBody, TopCall, Last
<1>3. [calls[l] EXCEPT !.at = "body"] \in RequireFrames
  BY <1>1 DEF RequireFrames
<1>4. /\ calls' \in Seq(RequireFrames) /\ Len(calls') = l /\ DOMAIN calls' = 1..l
      /\ calls'[l] = [calls[l] EXCEPT !.at = "body"] /\ \A j \in 1..l : j # l => calls'[j] = calls[j]
  BY <1>1, <1>2, <1>3
<1>5. \A j \in 1..l : calls'[j].at = "body" /\ calls'[j].m = calls[j].m
  <2> SUFFICES ASSUME NEW j \in 1..l PROVE calls'[j].at = "body" /\ calls'[j].m = calls[j].m
    OBVIOUS
  <2>1. CASE j = l
    BY <1>1, <1>4, <2>1 DEF RequireFrames
  <2>2. CASE j # l
    BY <1>4, <2>2, CallsShape DEF RequireInv, Nesting
  <2> QED
    BY <2>1, <2>2
<1>6. RequireType'
  <2>1. loaded' \in [Modules -> Entries]
    BY <1>1, <1>2 DEF Entries
  <2> QED
    BY <1>4, <2>1 DEF RequireInv, RequireType
<1>7. Nesting'
  <2> SUFFICES ASSUME NEW j \in 1..l PROVE loaded'[calls'[j].m] # NoValue
    BY <1>4, <1>5 DEF Nesting
  <2>1. CASE j = l
    BY <1>1, <1>2, <1>5, <2>1 DEF NoValue, Sentinel
  <2>2. CASE j # l
    <3>1. calls[j].at = "body" /\ calls[j].m \in Modules
      BY <2>2, CallsShape DEF RequireInv, Nesting
    <3>2. loaded[calls[j].m] # NoValue
      BY <3>1 DEF RequireInv, Nesting
    <3> QED
      BY <1>1, <1>2, <1>5, <3>1, <3>2 DEF NoValue, Sentinel
  <2> QED
    BY <2>1, <2>2
<1>8. NoLoop'
  BY <1>1, <1>4, <1>5 DEF RequireInv, NoLoop
<1>9. SentinelInv'
  <2> SUFFICES ASSUME NEW x \in Modules, loaded'[x] = Sentinel, x \notin failed
               PROVE  \E j \in 1..l : calls'[j].m = x
    BY <1>4, <1>5 DEF SentinelInv
  <2>1. CASE x = m
    BY <1>1, <1>5, <2>1
  <2>2. CASE x # m
    <3>1. loaded[x] = Sentinel
      BY <1>1, <1>2, <2>2
    <3> QED
      BY <1>5, <3>1 DEF RequireInv, SentinelInv
  <2> QED
    BY <2>1, <2>2
<1> QED
  BY <1>6, <1>7, <1>8, <1>9 DEF RequireInv

\* The search goes on with the next loader.
LEMMA NextLoaderRequireInv ==
    ASSUME RequireInv, calls # <<>>, calls' = [calls EXCEPT ![Len(calls)].i = TopCall.i + 1],
           libs' \in [Libs -> {0, 1}], UNCHANGED <<loaded, failed>>
    PROVE  RequireInv'
<1> DEFINE l == Len(calls)
<1>1. /\ l \in Nat /\ l \in 1..l /\ DOMAIN calls = 1..l /\ calls \in Seq(RequireFrames)
      /\ calls[l] \in RequireFrames /\ calls[l].i \in Nat /\ TopCall.i = calls[l].i
  BY CallsShape DEF RequireInv, RequireType, TopCall, Last
<1>2. calls' = [calls EXCEPT ![l] = [calls[l] EXCEPT !.i = calls[l].i + 1]]
  BY <1>1
<1>3. [calls[l] EXCEPT !.i = calls[l].i + 1] \in RequireFrames
  <2>1. calls[l].i + 1 \in Nat
    BY <1>1
  <2> QED
    BY <1>1, <2>1 DEF RequireFrames
<1>4. /\ calls' \in Seq(RequireFrames) /\ Len(calls') = l /\ DOMAIN calls' = 1..l
      /\ \A j \in 1..l : calls'[j].at = calls[j].at /\ calls'[j].m = calls[j].m
  <2>1. /\ calls' \in Seq(RequireFrames) /\ Len(calls') = l /\ DOMAIN calls' = 1..l
        /\ calls'[l] = [calls[l] EXCEPT !.i = calls[l].i + 1]
        /\ \A j \in 1..l : j # l => calls'[j] = calls[j]
    BY <1>1, <1>2, <1>3
  <2>2. calls'[l].at = calls[l].at /\ calls'[l].m = calls[l].m
    BY <1>1, <2>1 DEF RequireFrames
  <2> QED
    BY <2>1, <2>2
<1>5. RequireType'
  BY <1>4 DEF RequireInv, RequireType
<1>6. Nesting' /\ SentinelInv'
  BY <1>4 DEF RequireInv, Nesting, SentinelInv
<1>7. NoLoop'
  BY <1>1, <1>4 DEF RequireInv, NoLoop
<1> QED
  BY <1>5, <1>6, <1>7 DEF RequireInv

\* The loop over package.loaders keeps it.
LEMMA TryLoaderRequireInv == RequireInv /\ TryLoader => RequireInv'
<1> SUFFICES ASSUME RequireInv, TryLoader PROVE RequireInv'
  OBVIOUS
<1> DEFINE m == TopCall.m
           i == TopCall.i
<1>1. calls # <<>> /\ TopCall.at = "search" /\ m \in Modules
  BY CallsShape DEF TryLoader, TopCall, Last, RequireInv, RequireType
<1>2. libs' \in [Libs -> {0, 1}]
  <2>1. libs \in [Libs -> {0, 1}] /\ Library[m] \in Libs
    BY <1>1 DEF RequireInv, RequireType, Libs
  <2>2. LoadFunc(Library[m]) => libs' \in [Libs -> {0, 1}]
    BY <2>1 DEF LoadFunc
  <2>3. LoadFunc(Library[m]) \/ UNCHANGED libs
    BY DEF TryLoader
  <2> QED
    BY <2>1, <2>2, <2>3
<1>3. \/ (\E k \in Catches : Raise(k)) /\ UNCHANGED loaded
      \/ RunsBody(m) /\ UNCHANGED failed
      \/ calls' = [calls EXCEPT ![Len(calls)].i = i + 1] /\ UNCHANGED <<loaded, failed>>
  BY DEF TryLoader
<1>4. CASE (\E k \in Catches : Raise(k)) /\ UNCHANGED loaded
  BY <1>2, <1>4, RaiseRequireInv
<1>5. CASE RunsBody(m) /\ UNCHANGED failed
  BY <1>1, <1>2, <1>5, BodyRequireInv
<1>6. CASE calls' = [calls EXCEPT ![Len(calls)].i = i + 1] /\ UNCHANGED <<loaded, failed>>
  BY <1>1, <1>2, <1>6, NextLoaderRequireInv
<1> QED
  BY <1>3, <1>4, <1>5, <1>6

\* A body gives its module an entry that is neither nil nor the sentinel.
LEMMA EntryRequireInv ==
    ASSUME RequireInv, Body, NEW v \in Entries \ {NoValue, Sentinel},
           loaded' = [loaded EXCEPT ![TopCall.m] = v], UNCHANGED <<calls, libs, failed>>
    PROVE  RequireInv'
<1> DEFINE m == TopCall.m
<1>1. /\ m \in Modules /\ loaded \in [Modules -> Entries]
      /\ \A k \in 1..Len(calls) : calls[k].at = "body" /\ calls[k].m \in Modules
  BY CallsShape DEF Body, TopCall, Last, RequireInv, RequireType, Nesting
<1>2. RequireType'
  BY <1>1 DEF RequireInv, RequireType
<1>3. Nesting'
  BY <1>1 DEF RequireInv, Nesting
<1>4. NoLoop' /\ SentinelInv'
  BY <1>1 DEF RequireInv, NoLoop, SentinelInv
<1> QED
  BY <1>2, <1>3, <1>4 DEF RequireInv

\* The return of a chunk or of an error keeps it.
LEMMA ReturnsRequireInv == RequireInv /\ Returns => RequireInv'
<1> SUFFICES ASSUME RequireInv, Returns PROVE RequireInv'
  OBVIOUS
<1> DEFINE l == Len(calls)
           m == calls[l].m
<1>1. /\ l \in Nat /\ l \in 1..l /\ DOMAIN calls = 1..l /\ calls \in Seq(RequireFrames)
      /\ m \in Modules /\ calls[l].at = "body" /\ TopCall = calls[l]
      /\ loaded \in [Modules -> Entries]
  BY CallsShape DEF Returns, Body, TopCall, Last, RequireInv, RequireType
<1>2. loaded[m] # NoValue
  BY <1>1 DEF RequireInv, Nesting
<1>3. PICK v \in Entries \ {NoValue, Sentinel} : loaded' = [loaded EXCEPT ![m] = v]
  <2>1. PICK w \in {NoValue, "value"} :
          loaded' = [loaded EXCEPT ![m] = IF w # NoValue THEN w ELSE IF @ = Sentinel THEN "true" ELSE @]
    BY <1>1 DEF Returns
  <2> DEFINE v == IF w # NoValue THEN w ELSE IF loaded[m] = Sentinel THEN "true" ELSE loaded[m]
  <2>2. v \in Entries \ {NoValue, Sentinel}
    BY <1>1, <1>2 DEF Entries, NoValue, Sentinel
  <2> QED
    BY <2>1, <2>2
<1>4. /\ calls' \in Seq(RequireFrames) /\ Len(calls') = l - 1 /\ DOMAIN calls' = 1..(l - 1)
      /\ \A j \in 1..(l - 1) : calls'[j] = calls[j]
  <2>1. calls' = SubSeq(calls, 1, l - 1)
    BY DEF Returns, Front
  <2>2. \A j \in 1..(l - 1) : calls[j] \in RequireFrames
    BY <1>1, CallsShape
  <2> QED
    BY <1>1, <2>1, <2>2, SubSeqProperties
<1>5. \A j \in 1..(l - 1) : j \in 1..l /\ calls[j].at = "body" /\ calls[j].m \in Modules
  <2> SUFFICES ASSUME NEW j \in 1..(l - 1)
               PROVE  j \in 1..l /\ calls[j].at = "body" /\ calls[j].m \in Modules
    OBVIOUS
  <2>0. l \in Nat
    BY <1>1
  <2> HIDE DEF l
  <2>1. j \in 1..l /\ j # l
    BY <2>0
  <2>2. calls[j].at # "search"
    BY <2>1 DEF RequireInv, Nesting, l
  <2>3. calls[j].at \in {"search", "body"} /\ calls[j].m \in Modules
    BY <2>1, CallsShape DEF l
  <2> QED
    BY <2>1, <2>2, <2>3
<1>6. RequireType'
  BY <1>1, <1>3, <1>4 DEF RequireInv, RequireType, Returns
<1>7. Nesting'
  <2> SUFFICES ASSUME NEW j \in 1..(l - 1) PROVE loaded'[calls[j].m] # NoValue
    BY <1>4, <1>5 DEF Nesting
  <2>1. loaded[calls[j].m] # NoValue
    BY <1>5 DEF RequireInv, Nesting
  <2> QED
    BY <1>1, <1>3, <1>5, <2>1
<1>8. NoLoop'
  BY <1>1, <1>4, <1>5 DEF RequireInv, NoLoop
<1>9. SentinelInv'
  <2> SUFFICES ASSUME NEW x \in Modules, loaded'[x] = Sentinel, x \notin failed
               PROVE  \E j \in 1..(l - 1) : calls'[j].m = x /\ calls'[j].at = "body"
    BY <1>4 DEF SentinelInv, Returns
  <2>1. x # m /\ loaded[x] = Sentinel
    BY <1>1, <1>3
  <2>2. PICK j \in 1..l : calls[j].m = x /\ calls[j].at = "body"
    BY <2>1 DEF RequireInv, SentinelInv
  <2>3. j \in 1..(l - 1)
    BY <1>1, <2>1, <2>2
  <2> QED
    BY <1>4, <2>2, <2>3
<1> QED
  BY <1>6, <1>7, <1>8, <1>9 DEF RequireInv

\* Every step of ll_require keeps it.
LEMMA NextRequireInv == RequireInv /\ [RequireNext]_qvars => RequireInv'
<1> SUFFICES ASSUME RequireInv, [RequireNext]_qvars PROVE RequireInv'
  OBVIOUS
<1>0. libs \in [Libs -> {0, 1}]
  BY DEF RequireInv, RequireType
<1>1. ASSUME NEW m \in Modules, Require(m) PROVE RequireInv'
  <2>1. CASE \E k \in Catches : Raise(k)
    BY <1>0, <1>1, <2>1, RaiseRequireInv DEF Require
  <2>2. CASE loaded[m] = NoValue /\ calls' = Append(calls, Frame(m, 1)) /\ UNCHANGED failed
    BY <1>1, <2>2, SearchRequireInv DEF Require
  <2> QED
    BY <1>1, <2>1, <2>2 DEF Require
<1>2. CASE SetsLoaded
  <2>1. "table" \in Entries \ {NoValue, Sentinel}
    BY DEF Entries, NoValue, Sentinel
  <2> QED
    BY <1>2, <2>1, EntryRequireInv DEF SetsLoaded
<1>3. CASE BodyError
  BY <1>0, <1>3, RaiseRequireInv DEF BodyError
<1>4. CASE UNCHANGED qvars
  BY <1>4 DEF qvars, RequireInv, RequireType, Nesting, NoLoop, SentinelInv
<1> QED
  BY <1>1, <1>2, <1>3, <1>4, TryLoaderRequireInv, ReturnsRequireInv DEF RequireNext

\* ll_require: no module is loaded while it is being loaded, and the error about a loop
\* or an earlier error is raised only when there is one, whatever modules require of
\* each other.
THEOREM RequireIsSound == RequireSpec => []RequireSound
<1>1. RequireInv => RequireSound
  <2> SUFFICES ASSUME RequireInv PROVE RequireSound
    OBVIOUS
  <2>1. SentinelIsRight
    BY CallsShape DEF RequireInv, SentinelInv, SentinelIsRight
  <2> QED
    BY <2>1 DEF RequireInv, RequireSound
<1> QED
  BY InitRequireInv, NextRequireInv, <1>1, PTL DEF RequireSpec

-----------------------------------------------------------------------------
(* Buffers *)

Texts == Seq(Seq(Nat))
BufferInv == pieces \in Texts /\ block \in Seq(Nat) /\ BufferInOrder /\ BufferFewSlots
Counted(s) == s = [k \in 1..Len(s) |-> k]

\* adjuststack joins pieces from the top, without a change to the text, and leaves at
\* most LIMIT of them.
LEMMA JoinedIs ==
    ASSUME NEW ps \in Texts, Len(ps) > 1
    PROVE  /\ Joined(ps) \in 1..Len(ps)
           /\ Joined(ps) < Len(ps) => Len(ps) - Joined(ps) + 1 < Limit
<1> DEFINE T == {n \in 1..Len(ps) : ~JoinsMore(ps, n)}
<1>0. Len(ps) \in Nat /\ Limit \in Nat
  BY AuxAssumption DEF Texts
<1>1. Len(ps) \in T
  BY <1>0 DEF JoinsMore
<1>2. PICK x \in T : \A y \in T : x <= y
  <2>1. T \subseteq Nat /\ T # {}
    BY <1>0, <1>1
  <2> HIDE DEF T
  <2> QED BY <2>1, LeastNumber
<1>3. x \in 1..Len(ps) /\ ~JoinsMore(ps, x) /\ \A n \in 1..(x - 1) : JoinsMore(ps, n)
  <2>1. x \in 1..Len(ps) /\ ~JoinsMore(ps, x)
    OBVIOUS
  <2>2. ASSUME NEW n \in 1..(x - 1) PROVE JoinsMore(ps, n)
    BY <1>0, <1>2, <2>1
  <2> QED BY <2>1, <2>2
<1>4. Joined(ps) \in 1..Len(ps) /\ ~JoinsMore(ps, Joined(ps))
  BY <1>3 DEF Joined
<1> QED
  BY <1>0, <1>4 DEF JoinsMore

LEMMA AdjustKeeps ==
    ASSUME NEW ps \in Texts
    PROVE  /\ adjuststack(ps) \in Texts
           /\ FlattenSeq(adjuststack(ps)) = FlattenSeq(ps)
           /\ Len(adjuststack(ps)) <= Limit
<1>0. Len(ps) \in Nat /\ Limit \in Nat \ {0} /\ ps \in Seq(Seq(Nat))
  BY AuxAssumption DEF Texts
<1>1. CASE Len(ps) <= 1
  BY <1>0, <1>1 DEF adjuststack
<1>2. CASE Len(ps) > 1
  <2> DEFINE n == Joined(ps)
             k == Len(ps) - n
             low == SubSeq(ps, 1, k)
             top == FlattenSeq(SubSeq(ps, k + 1, Len(ps)))
  <2>1. n \in 1..Len(ps) /\ (n < Len(ps) => k + 1 < Limit)
    BY <1>2, JoinedIs
  <2>2. k \in 0..Len(ps) /\ k \in Nat /\ k <= Len(ps)
    BY <1>0, <2>1
  <2>3. adjuststack(ps) = Append(low, top)
    <3>1. ~(Len(ps) <= 1)
      BY <1>0, <1>2
    <3> QED BY <3>1, Zenon DEF adjuststack
  <2>4. low \in Seq(Seq(Nat)) /\ Len(low) = k /\ SubSeq(ps, k + 1, Len(ps)) \in Seq(Seq(Nat))
    <3> HIDE DEF n
    <3> QED BY <1>0, <2>2
  <2> HIDE DEF k
  <2>5. top \in Seq(Nat)
    <3> DEFINE qs == SubSeq(ps, k + 1, Len(ps))
    <3>1. qs \in Seq(Seq(Nat)) /\ 0 \in 0..Len(qs)
      BY <2>4
    <3> HIDE DEF qs
    <3>2. FlattenSeq(qs) \in Seq(Nat)
      BY <3>1, FlattenSplit
    <3> QED BY <3>2 DEF qs
  <2>6. FlattenSeq(ps) = FlattenSeq(low) \o top
    BY <1>0, <2>2, FlattenSplit
  <2> HIDE DEF low, top
  <2>7. FlattenSeq(Append(low, top)) = FlattenSeq(low) \o top
    BY <2>4, <2>5, FlattenAppend
  <2>8. Append(low, top) \in Texts /\ Len(Append(low, top)) = k + 1
    BY <2>4, <2>5 DEF Texts
  <2>9. k + 1 <= Limit
    <3>1. n < Len(ps) \/ k = 0
      BY <1>0, <2>1 DEF k
    <3> QED BY <3>1, <2>1, <2>2, <1>0
  <2> QED BY <2>3, <2>6, <2>7, <2>8, <2>9
<1> QED
  BY <1>0, <1>1, <1>2

LEMMA CountedOn ==
    ASSUME NEW s \in Seq(Nat), Counted(s), NEW n \in Nat
    PROVE  Counted(s \o [k \in 1..n |-> Len(s) + k])
<1> DEFINE u == [k \in 1..n |-> Len(s) + k]
<1>1. u \in Seq(Nat) /\ Len(u) = n /\ Len(s) \in Nat
  OBVIOUS
<1> HIDE DEF u
<1>2. s \o u \in Seq(Nat) /\ Len(s \o u) = Len(s) + n
  BY <1>1
<1>3. ASSUME NEW k \in 1..(Len(s) + n) PROVE (s \o u)[k] = k
  <2>1. k <= Len(s) => s[k] = k
    BY <1>1 DEF Counted
  <2>2. k > Len(s) => u[k - Len(s)] = k
    BY <1>1 DEF u
  <2>3. (s \o u)[k] = IF k <= Len(s) THEN s[k] ELSE u[k - Len(s)]
    BY <1>1, ConcatProperties
  <2> QED BY <1>1, <2>1, <2>2, <2>3
<1>4. s \o u = [k \in 1..(Len(s) + n) |-> k]
  <2> DEFINE w == s \o u
  <2>1. w \in Seq(Nat) /\ Len(w) = Len(s) + n /\ \A k \in 1..(Len(s) + n) : w[k] = k
    BY <1>2, <1>3
  <2> HIDE DEF w
  <2>2. w = [k \in 1..(Len(s) + n) |-> k]
    BY <2>1
  <2> QED BY <2>2 DEF w
<1> QED
  BY <1>2, <1>4 DEF Counted, u

LEMMA BufferStep ==
    ASSUME BufferInv, BufferNext
    PROVE  BufferInv'
<1> DEFINE text == BufferText
           ft == FlattenSeq(pieces)
           ep == emptybuffer(pieces)
<1>0. /\ pieces \in Texts /\ block \in Seq(Nat) /\ Counted(text) /\ Len(pieces) <= Limit
      /\ Len(block) \in Nat /\ BufferSize \in Nat /\ MaxText \in Nat /\ Limit \in Nat \ {0}
  BY AuxAssumption DEF BufferInv, BufferInOrder, BufferFewSlots, Counted
<1>1. ft \in Seq(Nat) /\ text = ft \o block /\ text \in Seq(Nat) /\ Len(text) \in Nat
  <2>1. pieces \in Seq(Seq(Nat)) /\ 0 \in 0..Len(pieces)
    BY <1>0 DEF Texts
  <2>2. ft \in Seq(Nat)
    BY <2>1, FlattenSplit
  <2> HIDE DEF ft
  <2>3. ft \o block \in Seq(Nat)
    BY <2>2, <1>0
  <2>4. text = ft \o block
    BY DEF BufferText, ft
  <2> QED BY <2>2, <2>3, <2>4
<1>2. ASSUME NEW n \in Nat
      PROVE  /\ NextChars(n) = [k \in 1..n |-> Len(text) + k]
             /\ NextChars(n) \in Seq(Nat) /\ Counted(text \o NextChars(n))
             /\ text \o NextChars(n) = ft \o (block \o NextChars(n))
             /\ block \o NextChars(n) \in Seq(Nat)
  <2> HIDE DEF text, ft
  <2>1. NextChars(n) = [k \in 1..n |-> Len(text) + k]
    BY DEF NextChars, text
  <2>2. NextChars(n) \in Seq(Nat)
    BY <2>1, <1>1
  <2>3. Counted(text \o NextChars(n))
    BY <1>0, <1>1, <2>1, CountedOn
  <2>4. text \o NextChars(n) = ft \o (block \o NextChars(n))
    <3>1. \A x, y, z \in Seq(Nat) : (x \o y) \o z = x \o (y \o z)
      OBVIOUS
    <3>2. text = ft \o block /\ ft \in Seq(Nat) /\ block \in Seq(Nat) /\ NextChars(n) \in Seq(Nat)
      BY <1>0, <1>1, <2>2
    <3> HIDE DEF NextChars
    <3> QED BY <3>1, <3>2
  <2>5. block \o NextChars(n) \in Seq(Nat)
    BY <1>0, <2>2
  <2> QED BY <2>1, <2>2, <2>3, <2>4, <2>5
<1>3. ep \in Texts /\ FlattenSeq(ep) = text
  <2>1. CASE block = <<>>
    BY <2>1, <1>0, <1>1 DEF emptybuffer
  <2>2. CASE block # <<>>
    <3>1. ep = Append(pieces, block)
      BY <2>2 DEF emptybuffer
    <3>2. FlattenSeq(Append(pieces, block)) = ft \o block
      BY <1>0, FlattenAppend DEF Texts
    <3> QED BY <3>1, <3>2, <1>0, <1>1 DEF Texts
  <2> QED BY <2>1, <2>2
<1>4. adjuststack(ep) \in Texts /\ FlattenSeq(adjuststack(ep)) = text /\ Len(adjuststack(ep)) <= Limit
  <2> HIDE DEF ep, text
  <2> QED BY <1>3, AdjustKeeps
<1>5. ASSUME NEW ps \in Texts, NEW b \in Seq(Nat), pieces' = ps, block' = b, Len(ps) <= Limit,
             Counted(FlattenSeq(ps) \o b)
      PROVE  BufferInv'
  BY <1>5 DEF BufferInv, BufferInOrder, BufferFewSlots, Counted, BufferText
<1>6. CASE AddChar
  <2>1. CASE Len(block) < BufferSize
    <3>1. block' = block \o NextChars(1) /\ pieces' = pieces
      BY <1>6, <2>1 DEF AddChar
    <3> HIDE DEF text, ft
    <3>2. Counted(FlattenSeq(pieces) \o (block \o NextChars(1)))
      BY <1>2 DEF ft
    <3> QED BY <3>1, <3>2, <1>0, <1>2, <1>5
  <2>2. CASE ~(Len(block) < BufferSize)
    <3>1. block' = NextChars(1) /\ pieces' = adjuststack(ep)
      BY <1>6, <2>2 DEF AddChar
    <3> HIDE DEF text, ft, ep
    <3>2. Counted(FlattenSeq(adjuststack(ep)) \o NextChars(1))
      BY <1>2, <1>4
    <3> QED BY <3>1, <3>2, <1>2, <1>4, <1>5
  <2> QED BY <2>1, <2>2
<1>7. CASE AddSize
  <2>1. PICK n \in 0..BufferSize : block' = NextChars(n)
    BY <1>7 DEF AddSize
  <2>2. n \in Nat
    BY <1>0
  <2>3. CASE block = <<>>
    <3>1. pieces' = pieces /\ ft \o block = ft
      BY <1>7, <2>3, <1>1 DEF AddSize
    <3> HIDE DEF text, ft
    <3>2. Counted(FlattenSeq(pieces) \o NextChars(n))
      BY <1>1, <1>2, <2>2, <3>1 DEF ft
    <3> QED BY <3>1, <3>2, <2>1, <2>2, <1>0, <1>2, <1>5
  <2>4. CASE block # <<>>
    <3>1. pieces' = adjuststack(ep)
      BY <1>7, <2>4 DEF AddSize
    <3> HIDE DEF text, ft, ep
    <3>2. Counted(FlattenSeq(adjuststack(ep)) \o NextChars(n))
      BY <1>2, <1>4, <2>2
    <3> QED BY <3>1, <3>2, <2>1, <2>2, <1>2, <1>4, <1>5
  <2> QED BY <2>3, <2>4
<1>8. CASE AddValue
  <2>1. PICK n \in 0..(MaxText - Len(BufferText)) :
          IF n <= BufferSize - Len(block) THEN block' = block \o NextChars(n) /\ pieces' = pieces
          ELSE pieces' = adjuststack(Append(emptybuffer(pieces), NextChars(n))) /\ block' = <<>>
    BY <1>8 DEF AddValue
  <2>2. n \in Nat
    BY <1>0, <1>1
  <2>3. CASE n <= BufferSize - Len(block)
    <3>1. block' = block \o NextChars(n) /\ pieces' = pieces
      BY <2>1, <2>3
    <3> HIDE DEF text, ft
    <3>2. Counted(FlattenSeq(pieces) \o (block \o NextChars(n)))
      BY <1>2, <2>2 DEF ft
    <3> QED BY <3>1, <3>2, <2>2, <1>0, <1>2, <1>5
  <2>4. CASE ~(n <= BufferSize - Len(block))
    <3> DEFINE nc == NextChars(n)
               aq == adjuststack(Append(ep, nc))
    <3>1. pieces' = aq /\ block' = <<>>
      BY <2>1, <2>4
    <3>2. nc \in Seq(Nat) /\ Counted(text \o nc)
      BY <1>2, <2>2
    <3> HIDE DEF text, ft, ep, nc
    <3>3. Append(ep, nc) \in Texts /\ FlattenSeq(Append(ep, nc)) = text \o nc
      <4>1. ep \in Seq(Seq(Nat)) /\ nc \in Seq(Nat)
        BY <1>3, <3>2 DEF Texts
      <4>2. FlattenSeq(Append(ep, nc)) = FlattenSeq(ep) \o nc
        BY <4>1, FlattenAppend
      <4> QED BY <4>1, <4>2, <1>3 DEF Texts
    <3>4. aq \in Texts /\ FlattenSeq(aq) = text \o nc /\ Len(aq) <= Limit
      BY <3>3, AdjustKeeps
    <3>5. text \o nc \in Seq(Nat) /\ (text \o nc) \o <<>> = text \o nc
      BY <1>1, <3>2
    <3> HIDE DEF aq
    <3>6. Counted(FlattenSeq(aq) \o <<>>) /\ <<>> \in Seq(Nat)
      BY <3>2, <3>4, <3>5
    <3> QED BY <3>1, <3>4, <3>6, <1>5
  <2> QED BY <2>3, <2>4
<1>9. CASE PushResult
  <2> DEFINE ps == <<text>>
  <2>1. pieces' = ps /\ block' = <<>>
    BY <1>9 DEF PushResult
  <2>2. ps = Append(<<>>, text) /\ <<>> \in Seq(Seq(Nat))
    OBVIOUS
  <2> HIDE DEF text, ft
  <2>3. FlattenSeq(Append(<<>>, text)) = FlattenSeq(<<>>) \o text
    BY <2>2, <1>1, FlattenAppend
  <2>4. <<>> \o text = text /\ text \o <<>> = text /\ <<>> \in Seq(Nat)
    BY <1>1
  <2>5. FlattenSeq(ps) = text
    BY <2>2, <2>3, <2>4, FlattenEmpty
  <2>6. ps \in Texts /\ Len(ps) = 1
    BY <1>1 DEF Texts
  <2>7. Counted(FlattenSeq(ps) \o <<>>) /\ Len(ps) <= Limit
    BY <1>0, <2>4, <2>5, <2>6
  <2> HIDE DEF ps
  <2> QED BY <2>1, <2>4, <2>6, <2>7, <1>5
<1> QED
  BY <1>6, <1>7, <1>8, <1>9 DEF BufferNext

-----------------------------------------------------------------------------
(* References *)

Look(t, r) == IF r \in DOMAIN t THEN t[r] ELSE NilValue

\* The free slots F are a list that begins in slot 0: each of them is the next one of
\* at most one other, and none of them is given out.
FreeList(F) ==
    /\ F \subseteq 1..MaxRef /\ \A h \in held : h[1] \notin F
    /\ \A a \in F \cup {0} : Slot(a) = NilValue \/ Slot(a) \in F
    /\ \A a, b \in F \cup {0} : Slot(a) = Slot(b) /\ Slot(a) # NilValue => a = b

RefInv == held \subseteq (1..MaxRef) \X Values /\ RefsKept /\ \E F : FreeList(F)

LEMMA StoreLook ==
    ASSUME NEW t, NEW r, NEW v, NEW k
    PROVE  Look(Store(t, r, v), k) = IF k = r THEN v ELSE Look(t, k)
<1>1. CASE v = NilValue
  BY <1>1 DEF Look, Store
<1>2. CASE v # NilValue
  BY <1>2 DEF Look, Store
<1> QED
  BY <1>1, <1>2

LEMMA RefStep ==
    ASSUME RefInv, RefNext
    PROVE  RefInv'
<1>0. /\ held \subseteq (1..MaxRef) \X Values /\ MaxRef \in Nat /\ NilValue \notin Values /\ NilValue \notin 1..MaxRef
      /\ FREELIST_REF = 0 /\ \A h \in held : h[1] \in 1..MaxRef /\ h[2] \in Values /\ Slot(h[1]) = h[2]
                                           /\ h = <<h[1], h[2]>>
  BY AuxAssumption DEF RefInv, RefsKept, FREELIST_REF
<1>1. PICK F : FreeList(F)
  BY DEF RefInv
<1>2. /\ F \subseteq 1..MaxRef /\ \A h \in held : h[1] \notin F
      /\ \A a \in F \cup {0} : Slot(a) = NilValue \/ Slot(a) \in F
      /\ \A a, b \in F \cup {0} : Slot(a) = Slot(b) /\ Slot(a) # NilValue => a = b
  BY <1>1 DEF FreeList
<1>3. 0 \notin F /\ \A h \in held : h[1] # 0
  BY <1>0, <1>2
<1>4. \A a : Slot(a) = Look(ref, a) /\ Slot(a)' = Look(ref', a)
  BY DEF Slot, Look
<1>5. ASSUME NEW v \in Values, luaL_ref(v) PROVE RefInv'
  <2>1. PICK r \in 1..MaxRef :
          /\ \/ r = Slot(0) /\ ref' = Store(Store(ref, 0, Slot(r)), r, v)
             \/ Slot(0) = NilValue /\ RefBorder(r - 1) /\ ref' = Store(ref, r, v)
          /\ held' = held \cup {<<r, v>>}
    BY <1>0, <1>5 DEF luaL_ref
  <2>2. held' \subseteq (1..MaxRef) \X Values
    BY <1>0, <2>1
  <2>3. CASE r = Slot(0) /\ ref' = Store(Store(ref, 0, Slot(r)), r, v)
    <3>1. r \in F /\ r # 0
      BY <1>0, <1>2, <1>3, <2>3
    <3>2. \A a : Slot(a)' = IF a = r THEN v ELSE IF a = 0 THEN Slot(r) ELSE Slot(a)
      BY <1>4, <2>3, StoreLook
    <3>3. RefsKept'
      <4>1. ASSUME NEW h \in held' PROVE Slot(h[1])' = h[2]
        <5>1. CASE h \in held
          BY <5>1, <1>0, <1>2, <1>3, <3>1, <3>2
        <5>2. CASE h = <<r, v>>
          BY <5>2, <3>2
        <5> QED BY <5>1, <5>2, <2>1
      <4> QED BY <4>1 DEF RefsKept
    <3> DEFINE G == F \ {r}
    <3>4. G \subseteq 1..MaxRef /\ \A h \in held' : h[1] \notin G
      BY <1>2, <2>1
    <3>5. \A a \in G \cup {0} : Slot(a)' = NilValue \/ Slot(a)' \in G
      BY <1>2, <1>3, <2>3, <3>1, <3>2
    <3>6. \A a, b \in G \cup {0} : Slot(a)' = Slot(b)' /\ Slot(a)' # NilValue => a = b
      BY <1>2, <1>3, <3>1, <3>2
    <3>7. FreeList(G)'
      BY <3>4, <3>5, <3>6 DEF FreeList
    <3> QED BY <2>2, <3>3, <3>7 DEF RefInv
  <2>4. CASE Slot(0) = NilValue /\ RefBorder(r - 1) /\ ref' = Store(ref, r, v)
    <3>1. r \notin DOMAIN ref /\ r # 0
      <4>1. r - 1 + 1 = r
        BY <1>0
      <4> QED BY <4>1, <2>4, <1>0 DEF RefBorder
    <3>2. \A a : Slot(a)' = IF a = r THEN v ELSE Slot(a)
      BY <1>4, <2>4, StoreLook
    <3>3. \A h \in held : h[1] # r
      <4>1. Slot(r) = NilValue
        BY <3>1 DEF Slot
      <4> QED BY <4>1, <1>0
    <3>4. RefsKept'
      <4>1. ASSUME NEW h \in held' PROVE Slot(h[1])' = h[2]
        <5>1. CASE h \in held
          BY <5>1, <1>0, <3>2, <3>3
        <5>2. CASE h = <<r, v>>
          BY <5>2, <3>2
        <5> QED BY <5>1, <5>2, <2>1
      <4> QED BY <4>1 DEF RefsKept
    <3>5. FreeList({})'
      BY <2>4, <3>1, <3>2 DEF FreeList
    <3> QED BY <2>2, <3>4, <3>5 DEF RefInv
  <2> QED BY <2>1, <2>3, <2>4
<1>6. ASSUME NEW h \in held, luaL_unref(h) PROVE RefInv'
  <2> DEFINE r == h[1]
  <2>1. ref' = Store(Store(ref, r, Slot(0)), 0, r) /\ held' = held \ {h}
    BY <1>0, <1>6 DEF luaL_unref
  <2>2. r \in 1..MaxRef /\ r # 0 /\ r \notin F /\ r # NilValue
    BY <1>0, <1>2, <1>3
  <2>3. \A g \in held' : g \in held /\ g[1] # r
    BY <1>0, <2>1
  <2>4. \A a : Slot(a)' = IF a = 0 THEN r ELSE IF a = r THEN Slot(0) ELSE Slot(a)
    BY <1>4, <2>1, <2>2, StoreLook
  <2> HIDE DEF r
  <2>5. RefsKept'
    BY <1>0, <1>3, <2>3, <2>4 DEF RefsKept
  <2> DEFINE G == F \cup {r}
  <2>6. G \subseteq 1..MaxRef /\ \A g \in held' : g[1] \notin G
    BY <1>2, <2>2, <2>3
  <2>7. \A a \in G \cup {0} : Slot(a)' = NilValue \/ Slot(a)' \in G
    BY <1>2, <1>3, <2>2, <2>4
  <2>8. \A a, b \in G \cup {0} : Slot(a)' = Slot(b)' /\ Slot(a)' # NilValue => a = b
    BY <1>2, <1>3, <2>2, <2>4
  <2>9. FreeList(G)'
    BY <2>6, <2>7, <2>8 DEF FreeList
  <2> QED BY <1>0, <2>1, <2>5, <2>9 DEF RefInv
<1> QED
  BY <1>5, <1>6 DEF RefNext

-----------------------------------------------------------------------------
\* What C code puts into a luaL_Buffer stays in order and in few pieces, and
\* luaL_ref and luaL_unref lose no value and give no reference out twice, whatever the
\* sizes and the order of the calls.
THEOREM StorageAlwaysKept == AuxSpec => []StorageKept
<1> DEFINE Inv == BufferInv /\ RefInv
<1>1. AuxInit => Inv
  <2> SUFFICES ASSUME AuxInit PROVE Inv
    OBVIOUS
  <2>1. pieces = <<>> /\ block = <<>> /\ ref = <<>> /\ held = {} /\ Limit \in Nat
    BY AuxAssumption DEF AuxInit, BufferInit, RefInit
  <2>2. BufferText = <<>>
    BY <2>1, FlattenEmpty DEF BufferText
  <2>3. BufferInv
    <3>1. BufferInOrder
      BY <2>2 DEF BufferInOrder
    <3> QED BY <2>1, <3>1 DEF BufferInv, BufferFewSlots, Texts
  <2>4. RefInv
    <3>1. Slot(0) = NilValue
      BY <2>1 DEF Slot
    <3>2. FreeList({})
      BY <2>1, <3>1 DEF FreeList
    <3> QED BY <2>1, <3>2 DEF RefInv, RefsKept
  <2> QED BY <2>3, <2>4
<1>2. Inv /\ [AuxNext]_<<bvars, rvars>> => Inv'
  <2> SUFFICES ASSUME Inv, [AuxNext]_<<bvars, rvars>> PROVE Inv'
    OBVIOUS
  <2>1. BufferInv /\ UNCHANGED bvars => BufferInv'
    BY DEF BufferInv, bvars, BufferInOrder, BufferFewSlots, BufferText
  <2>2. RefInv /\ UNCHANGED rvars => RefInv'
    BY DEF RefInv, rvars, RefsKept, FreeList, Slot
  <2>3. CASE BufferNext /\ UNCHANGED rvars
    BY <2>3, <2>2, BufferStep
  <2>4. CASE RefNext /\ UNCHANGED bvars
    BY <2>4, <2>1, RefStep
  <2>5. CASE UNCHANGED <<bvars, rvars>>
    BY <2>5, <2>1, <2>2
  <2> QED BY <2>3, <2>4, <2>5 DEF AuxNext
<1>3. Inv => StorageKept
  BY DEF BufferInv, RefInv, StorageKept
<1> QED
  BY <1>1, <1>2, <1>3, PTL DEF AuxSpec
-----------------------------------------------------------------------------
(* calls, errors and coroutines *)

\* g sums up the first n of the numbers f.
SumsUp(g, f, n) == g = [k \in 0..n |-> IF k = 0 THEN 0 ELSE g[k - 1] + f[k]]

\* The recursive function in the definition of Total is what it says.
LEMMA TotalIs ==
    ASSUME NEW f, NEW n \in Nat
    PROVE  \E g : SumsUp(g, f, n) /\ Total(f, n) = g[n]
<1> DEFINE Step(g, k) == IF k = 0 THEN 0 ELSE g[k - 1] + f[k]
           D(m, g) == g = [k \in 0..m |-> Step(g, k)]
           T == {m \in Nat : \E g : D(m, g)}
<1>1. 0 \in T
  <2> DEFINE g == [k \in 0..0 |-> 0]
  <2>1. \A k \in 0..0 : Step(g, k) = 0
    OBVIOUS
  <2>2. g = [k \in 0..0 |-> Step(g, k)]
    <3> HIDE DEF Step
    <3> QED BY <2>1
  <2>3. D(0, g)
    BY <2>2
  <2> HIDE DEF D, g
  <2> QED BY <2>3
<1>2. ASSUME NEW m \in Nat, m \in T PROVE m + 1 \in T
  <2>1. PICK g : D(m, g)
    BY <1>2
  <2> DEFINE h == [k \in 0..(m + 1) |-> Step(g, k)]
  <2>2. \A k \in 0..m : h[k] = g[k]
    <3> TAKE k \in 0..m
    <3>1. h[k] = Step(g, k)
      OBVIOUS
    <3>2. g[k] = [q \in 0..m |-> Step(g, q)][k]
      BY <2>1
    <3> QED BY <3>1, <3>2
  <2>3. \A k \in 0..(m + 1) : Step(h, k) = Step(g, k)
    <3> HIDE DEF h
    <3> TAKE k \in 0..(m + 1)
    <3>1. k # 0 => k - 1 \in 0..m
      OBVIOUS
    <3>2. k # 0 => h[k - 1] = g[k - 1]
      BY <2>2, <3>1
    <3> QED BY <3>2
  <2>4. h = [k \in 0..(m + 1) |-> Step(h, k)]
    <3> HIDE DEF Step
    <3> QED BY <2>3
  <2>5. D(m + 1, h)
    BY <2>4
  <2> HIDE DEF h, D
  <2> QED BY <2>5
<1>3. n \in T
  <2> HIDE DEF T
  <2> QED BY <1>1, <1>2, Induction
<1>4. PICK g : D(n, g)
  BY <1>3
<1> DEFINE s == CHOOSE z : D(n, z)
<1>6. D(n, s)
  BY <1>4
<1>7. Total(f, n) = s[n]
  BY DEF Total
<1> QED
  BY <1>6, <1>7 DEF SumsUp

\* One step of that function.
LEMMA SumsUpStep ==
    ASSUME NEW g, NEW f, NEW n, SumsUp(g, f, n), NEW k \in 0..n
    PROVE  g[k] = IF k = 0 THEN 0 ELSE g[k - 1] + f[k]
  BY DEF SumsUp

\* Numbers that begin alike sum up alike so far.
LEMMA SumsUpAlike ==
    ASSUME NEW f, NEW f2, NEW g, NEW g2, NEW k \in Nat, NEW n \in Nat, SumsUp(g, f, k), SumsUp(g2, f2, n), k <= n,
           \A i \in 1..k : f[i] = f2[i]
    PROVE  \A i \in 0..k : g[i] = g2[i]
<1> DEFINE T == {i \in Nat : i \in 0..k => g[i] = g2[i]}
<1>1. 0 \in T
  <2>1. g[0] = 0 /\ g2[0] = 0
    BY SumsUpStep
  <2> QED BY <2>1
<1>2. ASSUME NEW i \in Nat, i \in T PROVE i + 1 \in T
  <2> SUFFICES ASSUME i + 1 \in 0..k PROVE g[i + 1] = g2[i + 1]
    OBVIOUS
  <2> DEFINE j == i + 1
  <2>1. j \in 0..k /\ j \in 0..n /\ j # 0 /\ f[j] = f2[j] /\ j - 1 = i /\ g[i] = g2[i]
    BY <1>2
  <2> HIDE DEF j
  <2>2. g[j] = g[j - 1] + f[j]
    BY <2>1, SumsUpStep
  <2>3. g2[j] = g2[j - 1] + f2[j]
    BY <2>1, SumsUpStep
  <2>5. g[j] = g2[j]
    BY <2>1, <2>2, <2>3
  <2> QED BY <2>5 DEF j
<1> HIDE DEF T
<1>3. \A i \in Nat : i \in T
  BY <1>1, <1>2, Induction
<1> QED
  BY <1>3 DEF T

\* A sum, one number more at a time.
LEMMA TotalStep == 
    /\ \A f : Total(f, 0) = 0
    /\ \A f : \A n \in Nat : Total(f, n + 1) = Total(f, n) + f[n + 1]
<1>1. ASSUME NEW f PROVE Total(f, 0) = 0
  <2>1. PICK g : SumsUp(g, f, 0) /\ Total(f, 0) = g[0]
    BY TotalIs
  <2>2. g[0] = 0
    BY <2>1, SumsUpStep
  <2> QED BY <2>1, <2>2
<1>2. ASSUME NEW f, NEW n \in Nat PROVE Total(f, n + 1) = Total(f, n) + f[n + 1]
  <2>1. PICK g : SumsUp(g, f, n) /\ Total(f, n) = g[n]
    BY TotalIs
  <2> DEFINE m == n + 1
  <2>0. m \in Nat /\ m # 0 /\ m \in 0..m /\ m - 1 = n /\ n <= m /\ n \in 0..n
    OBVIOUS
  <2> HIDE DEF m
  <2>2. PICK h : SumsUp(h, f, m) /\ Total(f, m) = h[m]
    BY <2>0, TotalIs
  <2>3. h[m] = h[m - 1] + f[m]
    BY <2>0, <2>2, SumsUpStep
  <2>4. g[n] = h[n]
    <3>1. \A i \in 0..n : g[i] = h[i]
      <4>1. \A i \in 1..n : f[i] = f[i]
        OBVIOUS
      <4>2. SumsUp(g, f, n) /\ SumsUp(h, f, m) /\ n <= n
        BY <2>1, <2>2
      <4> QED BY <4>1, <4>2, <2>0, SumsUpAlike
    <3> QED BY <3>1, <2>0
  <2>5. Total(f, m) = Total(f, n) + f[m]
    BY <2>0, <2>1, <2>2, <2>3, <2>4
  <2> QED BY <2>5 DEF m
<1> QED BY <1>1, <1>2

\* The same numbers have the same sum.
LEMMA TotalAlike ==
    ASSUME NEW f, NEW f2, NEW n \in Nat, \A i \in 1..n : f[i] = f2[i]
    PROVE  Total(f, n) = Total(f2, n)
<1>1. PICK g : SumsUp(g, f, n) /\ Total(f, n) = g[n]
  BY TotalIs
<1>2. PICK h : SumsUp(h, f2, n) /\ Total(f2, n) = h[n]
  BY TotalIs
<1>3. g[n] = h[n]
  <2>1. n <= n /\ n \in 0..n
    OBVIOUS
  <2>2. \A i \in 0..n : g[i] = h[i]
    BY <1>1, <1>2, <2>1, SumsUpAlike
  <2> QED BY <2>1, <2>2
<1> QED BY <1>1, <1>2, <1>3

\* The sums of natural numbers.
LEMMA TotalSums ==
    ASSUME NEW f, NEW n \in Nat, \A i \in 1..n : f[i] \in Nat
    PROVE  /\ Total(f, 0) = 0
           /\ \A i \in 1..n : Total(f, i) = Total(f, i - 1) + f[i]
           /\ \A i \in 0..n : Total(f, i) \in Nat
           /\ \A i, j \in 0..n : i <= j => Total(f, i) <= Total(f, j)
<1> DEFINE V(i) == Total(f, i)
<1>3. V(0) = 0
  BY TotalStep
<1>4. \A i \in 1..n : V(i) = V(i - 1) + f[i]
  <2> TAKE i \in 1..n
  <2> DEFINE m == i - 1
  <2>1. m \in Nat /\ i = m + 1
    OBVIOUS
  <2> HIDE DEF m
  <2>2. V(m + 1) = V(m) + f[m + 1]
    BY <2>1, TotalStep
  <2> QED BY <2>1, <2>2 DEF m
<1> HIDE DEF V
<1> DEFINE T == {i \in Nat : i \in 0..n => V(i) \in Nat /\ \A j \in 0..i : V(j) \in Nat /\ V(j) <= V(i)}
<1>5. 0 \in T
  BY <1>3
<1>6. ASSUME NEW i \in Nat, i \in T PROVE i + 1 \in T
  <2> SUFFICES ASSUME i + 1 \in 0..n PROVE V(i + 1) \in Nat /\ \A j \in 0..(i + 1) : V(j) \in Nat /\ V(j) <= V(i + 1)
    OBVIOUS
  <2> DEFINE k == i + 1
  <2>1. k \in 1..n /\ k - 1 = i /\ V(i) \in Nat /\ f[k] \in Nat
    BY <1>6
  <2>2. \A j \in 0..k : j = k \/ (V(j) \in Nat /\ V(j) <= V(i))
    <3>1. \A j \in 0..i : V(j) \in Nat /\ V(j) <= V(i)
      BY <1>6
    <3>2. \A j \in 0..k : j = k \/ j \in 0..i
      OBVIOUS
    <3> QED BY <3>1, <3>2, Zenon
  <2> HIDE DEF k
  <2>3. V(k) = V(i) + f[k]
    BY <2>1, <1>4
  <2>4. V(k) \in Nat /\ V(k) >= V(i)
    BY <2>1, <2>3
  <2>5. \A j \in 0..k : V(j) \in Nat /\ V(j) <= V(k)
    BY <2>1, <2>2, <2>4
  <2> QED BY <2>4, <2>5 DEF k
<1> HIDE DEF T
<1>7. \A i \in Nat : i \in T
  BY <1>5, <1>6, Induction
<1>8. \A i \in 0..n : V(i) \in Nat
  BY <1>7 DEF T
<1>9. \A i, j \in 0..n : i <= j => V(i) <= V(j)
  BY <1>7 DEF T
<1> QED
  BY <1>3, <1>4, <1>8, <1>9 DEF V

-----------------------------------------------------------------------------
Kinds == {"pcall", "resume", "exec", "cfun", "parser", "hook", "call"}
Handlers == {"none", "L", "C"}
Saves == [n : Int, ci : Nat, errfunc : Handlers, allowhook : BOOLEAN, jmp : Nat]
CRecords == [k : Kinds, th : Threads, call : BOOLEAN, handler : BOOLEAN, n : Nat, save : Saves]
Statuses == {"ok", "yield", "run", "errerr", "syntax"}
CallInfos == Seq({"base", "L", "C"})
ThreadStates ==
    [ci : CallInfos, size : Nat, nCcalls : Int, baseCcalls : Int, status : Statuses,
     errfunc : Handlers, jmp : Nat, allowhook : BOOLEAN, fresh : BOOLEAN]
CStacks == Seq(CRecords)
CallStates == [cs : CStacks, th : [Threads -> ThreadStates], hook : BOOLEAN, lost : BOOLEAN]

\* r is a setjmp of L, a protected call of L, the hook of L.
CatchesOf(r, L) == r.k \in {"pcall", "resume"} /\ r.th = L
Protects(r, L) == r.k = "pcall" /\ r.th = L
Hooks(r, L) == r.k = "hook" /\ r.th = L
\* j is the innermost setjmp of L in the first i records.
Innermost(cs, L, i, j) ==
    j \in 0..i /\ (j # 0 => CatchesOf(cs[j], L)) /\ \A m \in 1..i : m > j => ~CatchesOf(cs[m], L)

\* What may be where on the C stack.
PlacedAt(cs, i) ==
    LET r == cs[i]
        b == cs[i - 1]
    IN  /\ i = 1 => r.k = "pcall" /\ r.th = Main
        /\ i = 2 => r.call
        /\ i > 1 /\ r.k # "resume" => r.th = b.th
        /\ r.k = "resume" => i > 1 /\ b.k = "cfun" /\ r.th \in Coroutines /\ \A j \in 1..(i - 1) : cs[j].th # r.th
        /\ r.k = "exec" => r.n >= 1 /\ (~r.call => b.k = "resume")
        /\ r.k = "cfun" /\ ~r.call => b.k = "exec"
        /\ r.k = "parser" => b.k = "pcall"
        /\ r.k \in {"pcall", "resume", "parser", "hook"} => ~r.call
\* What a protected call and a resume have saved.
SavedAt(cs, i) ==
    LET r == cs[i]
        s == r.save
    IN  /\ CatchesOf(r, r.th) => Innermost(cs, r.th, i - 1, s.jmp)
        /\ r.k = "pcall" =>
             /\ s.n = Levels(cs, i - 1) /\ s.ci = 1 + Frames(cs, r.th, i - 1)
             /\ ~s.allowhook => r.th = Main /\ \E m \in 1..(i - 1) : Hooks(cs[m], r.th)
             /\ (\A m \in 1..(i - 1) : ~Protects(cs[m], r.th)) => s.errfunc = "none"
StackOK(cs) == \A i \in 1..Len(cs) : PlacedAt(cs, i) /\ SavedAt(cs, i)

\* The last record of L is the h-th; L is not on the C stack if h is 0.
Height(cs, L, h) == h \in 0..Len(cs) /\ (h # 0 => cs[h].th = L) /\ \A m \in 1..Len(cs) : m > h => cs[m].th # L
\* What the counters and the frames of a thread on the C stack are,
Counts(cs, t, L, h) ==
    /\ h # 0 => t.nCcalls = Levels(cs, h) /\ Len(t.ci) = 1 + Frames(cs, L, h)
    /\ \A i \in 1..h : cs[i].k = "resume" /\ cs[i].th = L => t.baseCcalls = Levels(cs, i)
    /\ L = Main => t.baseCcalls = 0
\* what a thread can be,
Lives(t, L, h) ==
    /\ h # 0 => t.status = "ok" /\ (L # Main => ~t.fresh)
    /\ h = 0 /\ L # Main => /\ t.status = "ok" => Len(t.ci) = 1
                            /\ t.status = "yield" => Len(t.ci) >= 3 /\ ~t.fresh
                            /\ t.status # "syntax"
\* and where its errors go.
Guards(cs, t, L, h) ==
    /\ Innermost(cs, L, h, t.jmp)
    /\ ~t.allowhook => L = Main /\ \E i \in 1..h : Hooks(cs[i], L)
    /\ (\A i \in 1..h : ~Protects(cs[i], L)) => t.errfunc = "none"
Fits(cs, t, L, h) == Height(cs, L, h) /\ Counts(cs, t, L, h) /\ Lives(t, L, h) /\ Guards(cs, t, L, h)

Unwound(st) ==
    /\ st \in CallStates /\ StackOK(st.cs) /\ ~st.lost
    /\ \A L \in Threads : \E h \in Nat : Fits(st.cs, st.th[L], L, h)
\* The limit, for the first n records.
Within(cs, n) == \A i \in 0..n : Levels(cs, i) <= MAXCCALLS + Margin
CallsGood(st) == Unwound(st) /\ Within(st.cs, Len(st.cs))
CallsInv == CallsGood(state)
-----------------------------------------------------------------------------
\* The fields of a record of the C stack.
LEMMA RecordFacts ==
    ASSUME NEW r \in CRecords
    PROVE  /\ r.k \in Kinds /\ r.th \in Threads /\ r.n \in Nat /\ r.save \in Saves
           /\ r.save.n \in Int /\ r.save.ci \in Nat /\ r.save.errfunc \in Handlers /\ r.save.jmp \in Nat
  BY DEF CRecords, Saves

\* How many C calls a record counts for.
LEMMA LevelOfIs ==
    ASSUME NEW r \in CRecords
    PROVE  /\ LevelOf(r) \in Nat
           /\ r.k = "resume" /\ ~r.call => LevelOf(r) = 1
           /\ r.k = "parser" /\ ~r.call => LevelOf(r) = r.n
           /\ r.k \notin {"resume", "parser"} => LevelOf(r) = IF r.call THEN 1 ELSE 0
  BY DEF CRecords, LevelOf

\* How many frames of a thread a record counts for.
LEMMA FrameOfIs ==
    ASSUME NEW r \in CRecords, NEW L
    PROVE  /\ FrameOf(r, L) \in Nat
           /\ r.th # L => FrameOf(r, L) = 0
           /\ r.th = L /\ r.k = "exec" => FrameOf(r, L) = r.n
           /\ r.th = L /\ r.k = "cfun" => FrameOf(r, L) = 1
           /\ r.k \notin {"exec", "cfun"} => FrameOf(r, L) = 0
  BY DEF CRecords, FrameOf

\* The C stack is a sequence of records.
LEMMA StackFacts ==
    ASSUME NEW cs \in CStacks
    PROVE  Len(cs) \in Nat /\ \A i \in 1..Len(cs) : cs[i] \in CRecords
  BY DEF CStacks

\* The C calls below, one record more at a time.
LEMMA LevelsStep ==
    ASSUME NEW cs \in CStacks
    PROVE  /\ Levels(cs, 0) = 0
           /\ \A i \in 1..Len(cs) : Levels(cs, i) = Levels(cs, i - 1) + LevelOf(cs[i])
           /\ \A i \in 0..Len(cs) : Levels(cs, i) \in Nat
           /\ \A i, j \in 0..Len(cs) : i <= j => Levels(cs, i) <= Levels(cs, j)
<1> DEFINE f == [j \in 1..Len(cs) |-> LevelOf(cs[j])]
<1>1. \A i : Levels(cs, i) = Total(f, i)
  BY DEF Levels
<1>2. Len(cs) \in Nat /\ \A i \in 1..Len(cs) : f[i] = LevelOf(cs[i]) /\ f[i] \in Nat
  BY StackFacts, LevelOfIs
<1> HIDE DEF f
<1> QED
  BY <1>1, <1>2, TotalSums

\* The frames of a thread, one record more at a time.
LEMMA FramesStep ==
    ASSUME NEW cs \in CStacks, NEW L
    PROVE  /\ Frames(cs, L, 0) = 0
           /\ \A i \in 1..Len(cs) : Frames(cs, L, i) = Frames(cs, L, i - 1) + FrameOf(cs[i], L)
           /\ \A i \in 0..Len(cs) : Frames(cs, L, i) \in Nat
           /\ \A i, j \in 0..Len(cs) : i <= j => Frames(cs, L, i) <= Frames(cs, L, j)
<1> DEFINE f == [j \in 1..Len(cs) |-> FrameOf(cs[j], L)]
<1>1. \A i : Frames(cs, L, i) = Total(f, i)
  BY DEF Frames
<1>2. Len(cs) \in Nat /\ \A i \in 1..Len(cs) : f[i] = FrameOf(cs[i], L) /\ f[i] \in Nat
  BY StackFacts, FrameOfIs
<1> HIDE DEF f
<1> QED
  BY <1>1, <1>2, TotalSums

\* Records of other threads hold no frames of L.
LEMMA FramesOfOthers ==
    ASSUME NEW cs \in CStacks, NEW L, NEW h \in 0..Len(cs), NEW n \in 0..Len(cs), h <= n,
           \A m \in 1..n : m > h => cs[m].th # L
    PROVE  Frames(cs, L, n) = Frames(cs, L, h)
<1> DEFINE T == {i \in Nat : h + i <= n => Frames(cs, L, h + i) = Frames(cs, L, h)}
<1>0. Len(cs) \in Nat /\ h \in Nat /\ n \in Nat
  BY StackFacts
<1>1. 0 \in T
  BY <1>0
<1>2. ASSUME NEW i \in Nat, i \in T PROVE i + 1 \in T
  <2> SUFFICES ASSUME h + (i + 1) <= n PROVE Frames(cs, L, h + (i + 1)) = Frames(cs, L, h)
    OBVIOUS
  <2> DEFINE j == h + (i + 1)
  <2>1. j \in 1..Len(cs) /\ j \in 1..n /\ j > h /\ j - 1 = h + i /\ j - 1 \in 0..Len(cs) /\ Frames(cs, L, j - 1) = Frames(cs, L, h)
    <3>1. j \in 1..Len(cs) /\ j \in 1..n /\ j > h /\ j - 1 = h + i /\ j - 1 \in 0..Len(cs) /\ h + i <= n
      BY <1>0
    <3>2. Frames(cs, L, h + i) = Frames(cs, L, h)
      BY <1>2, <3>1
    <3> QED BY <3>1, <3>2
  <2> HIDE DEF j
  <2>2. FrameOf(cs[j], L) = 0
    BY <2>1, StackFacts, FrameOfIs
  <2>3. Frames(cs, L, j) = Frames(cs, L, j - 1) + FrameOf(cs[j], L) /\ Frames(cs, L, j - 1) \in Nat
    BY <2>1, FramesStep
  <2>4. Frames(cs, L, j) = Frames(cs, L, h)
    BY <2>1, <2>2, <2>3
  <2> QED BY <2>4 DEF j
<1> HIDE DEF T
<1>3. \A i \in Nat : i \in T
  BY <1>1, <1>2, Induction
<1>4. n - h \in Nat /\ h + (n - h) = n
  BY <1>0
<1>5. n - h \in T
  BY <1>3, <1>4
<1> QED
  BY <1>0, <1>4, <1>5 DEF T

\* cs and cs2 are the same in the first m records.
Same(cs, cs2, m) == m \in Nat /\ m <= Len(cs) /\ m <= Len(cs2) /\ \A j \in 1..m : cs2[j] = cs[j]

\* Two C stacks that begin alike count alike so far,
LEMMA SameSums ==
    ASSUME NEW cs \in CStacks, NEW cs2 \in CStacks, NEW m, Same(cs, cs2, m), NEW i \in 0..m
    PROVE  Levels(cs2, i) = Levels(cs, i) /\ \A L : Frames(cs2, L, i) = Frames(cs, L, i)
<1>0. i \in Nat /\ m \in Nat /\ m <= Len(cs) /\ m <= Len(cs2) /\ Len(cs) \in Nat /\ Len(cs2) \in Nat
      /\ \A j \in 1..i : cs2[j] = cs[j] /\ j \in 1..Len(cs) /\ j \in 1..Len(cs2)
  BY StackFacts DEF Same
<1>1. Levels(cs2, i) = Levels(cs, i)
  <2> DEFINE f == [j \in 1..Len(cs) |-> LevelOf(cs[j])]
             g == [j \in 1..Len(cs2) |-> LevelOf(cs2[j])]
  <2>1. \A j \in 1..i : g[j] = f[j]
    BY <1>0
  <2> HIDE DEF f, g
  <2>2. Total(g, i) = Total(f, i)
    BY <1>0, <2>1, TotalAlike
  <2> QED BY <2>2 DEF f, g, Levels
<1>2. ASSUME NEW L PROVE Frames(cs2, L, i) = Frames(cs, L, i)
  <2> DEFINE f == [j \in 1..Len(cs) |-> FrameOf(cs[j], L)]
             g == [j \in 1..Len(cs2) |-> FrameOf(cs2[j], L)]
  <2>1. \A j \in 1..i : g[j] = f[j]
    BY <1>0
  <2> HIDE DEF f, g
  <2>2. Total(g, i) = Total(f, i)
    BY <1>0, <2>1, TotalAlike
  <2> QED BY <2>2 DEF f, g, Frames
<1> QED BY <1>1, <1>2

\* they have the same setjmp,
LEMMA SameInnermost ==
    ASSUME NEW cs \in CStacks, NEW cs2 \in CStacks, NEW m, Same(cs, cs2, m), NEW i \in 0..m, NEW L, NEW j,
           Innermost(cs, L, i, j)
    PROVE  Innermost(cs2, L, i, j)
  BY DEF Same, Innermost

\* the same records in place,
LEMMA SamePlaced ==
    ASSUME NEW cs \in CStacks, NEW cs2 \in CStacks, NEW m, Same(cs, cs2, m), NEW i \in 1..m, PlacedAt(cs, i)
    PROVE  PlacedAt(cs2, i)
<1>1. cs2[i] = cs[i] /\ (i > 1 => cs2[i - 1] = cs[i - 1]) /\ \A j \in 1..(i - 1) : cs2[j] = cs[j]
  BY DEF Same
<1>2. CASE i = 1
  BY <1>1, <1>2 DEF PlacedAt
<1>3. CASE i > 1
  BY <1>1, <1>3 DEF PlacedAt
<1> QED BY <1>2, <1>3 DEF Same

\* what these have saved is right for both,
LEMMA SameSaved ==
    ASSUME NEW cs \in CStacks, NEW cs2 \in CStacks, NEW m, Same(cs, cs2, m), NEW i \in 1..m, SavedAt(cs, i)
    PROVE  SavedAt(cs2, i)
<1> DEFINE r == cs[i]
           s == r.save
<1>1. cs2[i] = r /\ i - 1 \in 0..m /\ \A j \in 1..(i - 1) : cs2[j] = cs[j]
  BY DEF Same
<1>2. Levels(cs2, i - 1) = Levels(cs, i - 1) /\ Frames(cs2, r.th, i - 1) = Frames(cs, r.th, i - 1)
  BY <1>1, SameSums
<1>3. CatchesOf(r, r.th) => Innermost(cs2, r.th, i - 1, s.jmp)
  <2>1. CatchesOf(r, r.th) => Innermost(cs, r.th, i - 1, s.jmp)
    BY DEF SavedAt
  <2> HIDE DEF r, s
  <2> QED BY <1>1, <2>1, SameInnermost
<1>4. ASSUME r.k = "pcall"
      PROVE  /\ s.n = Levels(cs2, i - 1) /\ s.ci = 1 + Frames(cs2, r.th, i - 1)
             /\ ~s.allowhook => r.th = Main /\ \E q \in 1..(i - 1) : Hooks(cs2[q], r.th)
             /\ (\A q \in 1..(i - 1) : ~Protects(cs2[q], r.th)) => s.errfunc = "none"
  <2>1. /\ s.n = Levels(cs, i - 1) /\ s.ci = 1 + Frames(cs, r.th, i - 1)
        /\ ~s.allowhook => r.th = Main /\ \E q \in 1..(i - 1) : Hooks(cs[q], r.th)
        /\ (\A q \in 1..(i - 1) : ~Protects(cs[q], r.th)) => s.errfunc = "none"
    BY <1>4 DEF SavedAt
  <2> HIDE DEF r, s
  <2>2. ~s.allowhook => r.th = Main /\ \E q \in 1..(i - 1) : Hooks(cs2[q], r.th)
    BY <1>1, <2>1
  <2>3. (\A q \in 1..(i - 1) : ~Protects(cs2[q], r.th)) => s.errfunc = "none"
    BY <1>1, <2>1
  <2> QED BY <1>2, <2>1, <2>2, <2>3
<1> QED
  BY <1>1, <1>3, <1>4 DEF SavedAt

\* and a thread that has no records further up fits both.
LEMMA SameFits ==
    ASSUME NEW cs \in CStacks, NEW cs2 \in CStacks, NEW h, Same(cs, cs2, h), NEW t, NEW L, Fits(cs, t, L, h),
           \A m \in 1..Len(cs2) : m > h => cs2[m].th # L
    PROVE  Fits(cs2, t, L, h)
<1>0. h \in Nat /\ h <= Len(cs2) /\ h \in 0..h /\ Len(cs2) \in Nat /\ \A i \in 1..h : cs2[i] = cs[i]
  BY StackFacts DEF Same
<1>1. Height(cs2, L, h)
  BY <1>0 DEF Fits, Height
<1>2. Counts(cs2, t, L, h)
  <2>1. /\ Levels(cs2, h) = Levels(cs, h) /\ Frames(cs2, L, h) = Frames(cs, L, h)
        /\ \A i \in 1..h : Levels(cs2, i) = Levels(cs, i)
    BY <1>0, SameSums
  <2> QED BY <1>0, <2>1 DEF Fits, Counts
<1>3. Guards(cs2, t, L, h)
  <2>1. Innermost(cs2, L, h, t.jmp)
    BY <1>0, SameInnermost DEF Fits, Guards
  <2>2. ~t.allowhook => L = Main /\ \E i \in 1..h : Hooks(cs2[i], L)
    BY <1>0 DEF Fits, Guards
  <2>3. (\A i \in 1..h : ~Protects(cs2[i], L)) => t.errfunc = "none"
    BY <1>0 DEF Fits, Guards
  <2> QED BY <2>1, <2>2, <2>3 DEF Guards
<1> QED BY <1>1, <1>2, <1>3 DEF Fits

\* The fields of the state after With.
LEMMA WithFacts ==
    ASSUME NEW st \in CallStates, NEW cs \in CStacks, NEW L \in Threads, NEW t \in ThreadStates,
           NEW g, g = With(st, cs, L, t)
    PROVE  /\ g \in CallStates /\ g.cs = cs /\ g.th[L] = t /\ g.lost = st.lost /\ g.hook = st.hook
           /\ \A M \in Threads : M # L => g.th[M] = st.th[M]
<1> DEFINE u == [st.th EXCEPT ![L] = t]
<1>1. st.th \in [Threads -> ThreadStates]
  BY DEF CallStates
<1>2. u \in [Threads -> ThreadStates] /\ u[L] = t /\ \A M \in Threads : M # L => u[M] = st.th[M]
  BY <1>1
<1>3. g = [st EXCEPT !.cs = cs, !.th = u]
  BY DEF With
<1> HIDE DEF u
<1>4. g \in CallStates /\ g.cs = cs /\ g.th = u /\ g.lost = st.lost /\ g.hook = st.hook
  BY <1>2, <1>3 DEF CallStates
<1>5. g.th[L] = t /\ \A M \in Threads : M # L => g.th[M] = st.th[M]
  BY <1>2, <1>4
<1> QED BY <1>4, <1>5

\* What is above the m-th record is of L; it is as it should be.
Owns(cs, L, m) == \A i \in 1..Len(cs) : i > m => cs[i].th = L
RestOK(cs, m) == \A i \in 1..Len(cs) : i > m => PlacedAt(cs, i) /\ SavedAt(cs, i)

\* One thread has changed, and only what is above the m-th record, which was its own and is.
LEMMA Moved ==
    ASSUME NEW st, Unwound(st), NEW L \in Threads, NEW cs \in CStacks, NEW t \in ThreadStates, NEW m,
           Same(st.cs, cs, m),
           Owns(st.cs, L, m), Owns(cs, L, m), RestOK(cs, m), NEW h \in Nat, Fits(cs, t, L, h), NEW g, g = With(st, cs, L, t)
    PROVE  Unwound(g) /\ g.cs = cs /\ g.th[L] = t
<1> DEFINE a == st.cs
<1>1. st \in CallStates /\ StackOK(a) /\ ~st.lost /\ a \in CStacks /\ \A M \in Threads : \E q \in Nat : Fits(a, st.th[M], M, q)
  BY DEF Unwound, CallStates
<1>2. /\ g \in CallStates /\ g.cs = cs /\ g.th[L] = t /\ g.lost = st.lost
      /\ \A M \in Threads : M # L => g.th[M] = st.th[M]
  <2>1. st \in CallStates
    BY <1>1
  <2> QED BY <2>1, WithFacts
<1>0. Same(a, cs, m) /\ Len(a) \in Nat /\ Len(cs) \in Nat
  BY <1>1, StackFacts
<1> HIDE DEF a
<1>3. StackOK(cs)
  <2> SUFFICES ASSUME NEW i \in 1..Len(cs) PROVE PlacedAt(cs, i) /\ SavedAt(cs, i)
    BY DEF StackOK
  <2>1. CASE i > m
    BY <2>1 DEF RestOK
  <2>2. CASE ~(i > m)
    <3>1. i \in 1..m /\ i \in 1..Len(a)
      BY <1>0, <2>2 DEF Same
    <3>2. PlacedAt(a, i) /\ SavedAt(a, i)
      BY <1>1, <3>1 DEF StackOK
    <3> QED BY <1>0, <1>1, <3>1, <3>2, SamePlaced, SameSaved
  <2> QED BY <2>1, <2>2
<1>4. ASSUME NEW M \in Threads PROVE \E q \in Nat : Fits(cs, g.th[M], M, q)
  <2>1. CASE M = L
    BY <1>2, <2>1
  <2>2. CASE M # L
    <3>1. PICK q \in Nat : Fits(a, st.th[M], M, q)
      BY <1>1
    <3>2. q <= m
      <4>1. q # 0 => q \in 1..Len(a) /\ a[q].th = M
        BY <3>1, <1>0 DEF Fits, Height
      <4>2. m \in Nat
        BY <1>0 DEF Same
      <4> QED BY <4>1, <4>2, <2>2 DEF a, Owns
    <3>3. Same(a, cs, q)
      BY <1>0, <3>2 DEF Same
    <3>4. \A i \in 1..Len(cs) : i > q => cs[i].th # M
      <4> SUFFICES ASSUME NEW i \in 1..Len(cs), i > q PROVE cs[i].th # M
        OBVIOUS
      <4>1. CASE i > m
        BY <4>1, <2>2 DEF Owns
      <4>2. CASE ~(i > m)
        <5>1. cs[i] = a[i] /\ i \in 1..Len(a)
          BY <4>2, <1>0 DEF Same
        <5> QED BY <5>1, <3>1 DEF Fits, Height
      <4> QED BY <4>1, <4>2
    <3>5. Fits(cs, st.th[M], M, q)
      BY <1>1, <3>1, <3>3, <3>4, SameFits
    <3> QED BY <3>5, <1>2, <2>2
  <2> QED BY <2>1, <2>2
<1>5. Unwound(g)
  BY <1>1, <1>2, <1>3, <1>4 DEF Unwound
<1> QED BY <1>5, <1>2

\* A thread is on the C stack in one piece: below a record of L that is not a
\* resume is another one.
NoResume(cs, L, a, b) == \A m \in 1..b : m > a /\ cs[m].th = L => cs[m].k # "resume"

\* From a record of L down to the next resume of L there are only records of L.
LEMMA OneThread ==
    ASSUME NEW cs \in CStacks, StackOK(cs), NEW L, NEW a \in 1..Len(cs), NEW b \in 1..Len(cs), a <= b,
           cs[b].th = L, NoResume(cs, L, a, b)
    PROVE  \A m \in a..b : cs[m].th = L
<1>0. Len(cs) \in Nat /\ b \in Nat /\ a \in Nat /\ 1 <= a
  BY StackFacts
<1> DEFINE T == {i \in Nat : b - i >= a => cs[b - i].th = L}
<1>1. 0 \in T
  BY <1>0
<1>2. ASSUME NEW i \in Nat, i \in T PROVE i + 1 \in T
  <2> SUFFICES ASSUME b - (i + 1) >= a PROVE cs[b - (i + 1)].th = L
    OBVIOUS
  <2> DEFINE j == b - i
  <2>1. j \in 1..b /\ j > a /\ j > 1 /\ j \in 1..Len(cs) /\ j - 1 = b - (i + 1) /\ cs[j].th = L
    <3>1. j \in 1..b /\ j > a /\ j > 1 /\ j \in 1..Len(cs) /\ j - 1 = b - (i + 1) /\ b - i >= a
      BY <1>0
    <3> QED BY <3>1, <1>2
  <2> HIDE DEF j
  <2>2. cs[j - 1].th = L
    BY <2>1 DEF StackOK, PlacedAt, NoResume
  <2> QED BY <2>1, <2>2
<1> HIDE DEF T
<1>3. \A i \in Nat : i \in T
  BY <1>1, <1>2, Induction
<1>4. ASSUME NEW m \in a..b PROVE cs[m].th = L
  <2>1. b - m \in Nat /\ b - (b - m) = m /\ m >= a
    BY <1>0
  <2>2. b - m \in T
    BY <2>1, <1>3
  <2> QED BY <2>1, <2>2 DEF T
<1> QED BY <1>4

\* The thread on top of the C stack.
LEMMA TopFits ==
    ASSUME NEW st, Unwound(st), st.cs # <<>>, NEW L, L = Last(st.cs).th
    PROVE  /\ L \in Threads /\ st.cs \in CStacks /\ Len(st.cs) \in Nat /\ Len(st.cs) # 0 /\ st.th[L] \in ThreadStates
           /\ Last(st.cs) = st.cs[Len(st.cs)] /\ Last(st.cs) \in CRecords /\ st.cs[Len(st.cs)].th = L
           /\ Fits(st.cs, st.th[L], L, Len(st.cs)) /\ StackOK(st.cs) /\ st \in CallStates /\ ~st.lost
<1> DEFINE a == st.cs
<1>1. st \in CallStates /\ StackOK(a) /\ ~st.lost /\ a \in CStacks /\ (\A M \in Threads : \E q \in Nat : Fits(a, st.th[M], M, q))
      /\ st.th \in [Threads -> ThreadStates]
  BY DEF Unwound, CallStates
<1>2. Len(a) \in Nat /\ Len(a) # 0 /\ Last(a) = a[Len(a)]
  BY <1>1 DEF Last, CStacks
<1>3. Last(a) \in CRecords /\ L \in Threads
  BY <1>1, <1>2, StackFacts, RecordFacts
<1>4. PICK q \in Nat : Fits(a, st.th[L], L, q)
  BY <1>1, <1>3
<1>5. q = Len(a)
  BY <1>2, <1>4 DEF Fits, Height
<1> QED BY <1>1, <1>2, <1>3, <1>4, <1>5

\* Where an error of the running thread goes to.
LEMMA Target ==
    ASSUME NEW st, Unwound(st), st.cs # <<>>, NEW L, L = Last(st.cs).th, NEW j, j = st.th[L].jmp
    PROVE  /\ j \in 1..Len(st.cs) /\ CatchesOf(st.cs[j], L) /\ \A m \in j..Len(st.cs) : st.cs[m].th = L
           /\ \A m \in 1..Len(st.cs) : m > j => ~CatchesOf(st.cs[m], L)
           /\ st.cs[j].k = "pcall" /\ j # 1 => st.cs[j - 1].th = L
           /\ j = 1 => L = Main
<1> DEFINE a == st.cs
           n == Len(a)
<1>1. a \in CStacks /\ n \in Nat /\ n # 0 /\ a[n].th = L /\ StackOK(a) /\ Fits(a, st.th[L], L, n)
  BY TopFits
<1>2. j \in 0..n /\ (j # 0 => CatchesOf(a[j], L)) /\ \A m \in 1..n : m > j => ~CatchesOf(a[m], L)
  BY <1>1 DEF Fits, Guards, Innermost
<1> HIDE DEF a, n
<1>3. j # 0
  <2> SUFFICES ASSUME j = 0 PROVE FALSE
    OBVIOUS
  <2>1. NoResume(a, L, 1, n)
    BY <1>1, <1>2 DEF CatchesOf, NoResume
  <2>2. 1 \in 1..Len(a) /\ n \in 1..Len(a) /\ 1 <= n /\ 1 \in 1..n
    BY <1>1 DEF n
  <2>3. a[1].th = L
    <3>1. \A m \in 1..n : a[m].th = L
      BY <1>1, <2>1, <2>2, OneThread
    <3> QED BY <3>1, <2>2
  <2>4. a[1].k = "pcall"
    BY <1>1, <2>2 DEF StackOK, PlacedAt, n
  <2> QED BY <1>2, <1>1, <2>2, <2>3, <2>4 DEF CatchesOf
<1>4. \A m \in j..n : a[m].th = L
  <2>1. NoResume(a, L, j, n)
    BY <1>1, <1>2 DEF CatchesOf, NoResume
  <2>2. j \in 1..Len(a) /\ n \in 1..Len(a) /\ j <= n
    BY <1>1, <1>2, <1>3 DEF n
  <2> QED BY <1>1, <2>1, <2>2, OneThread
<1>5. a[j].k = "pcall" /\ j # 1 => a[j - 1].th = L
  <2>1. j \in 1..Len(a) /\ a[j].th = L /\ (j # 1 => j > 1)
    BY <1>1, <1>2, <1>3, <1>4 DEF n
  <2> QED BY <2>1, <1>1 DEF StackOK, PlacedAt
<1>6. j = 1 => L = Main
  <2>1. j \in 1..Len(a) /\ a[j].th = L
    BY <1>1, <1>2, <1>3, <1>4 DEF n
  <2> QED BY <2>1, <1>1 DEF StackOK, PlacedAt
<1> QED BY <1>1, <1>2, <1>3, <1>4, <1>5, <1>6 DEF a, n

\* The lower part of a C stack.
LEMMA Cut ==
    ASSUME NEW cs \in CStacks, NEW n \in 0..Len(cs), NEW cs2, cs2 = SubSeq(cs, 1, n)
    PROVE  cs2 \in CStacks /\ Len(cs2) = n /\ Same(cs, cs2, n)
  BY DEF CStacks, Same

\* The fields of a thread.
LEMMA ThreadFacts ==
    ASSUME NEW t \in ThreadStates
    PROVE  /\ t.ci \in CallInfos /\ Len(t.ci) \in Nat /\ t.size \in Nat /\ t.nCcalls \in Int /\ t.baseCcalls \in Int
           /\ t.status \in Statuses /\ t.errfunc \in Handlers /\ t.jmp \in Nat
  BY DEF ThreadStates, CallInfos

\* The size of the CallInfo array is of no importance to where a thread is.
LEMMA Resized ==
    ASSUME NEW t \in ThreadStates, NEW n \in Nat, NEW u, u = [t EXCEPT !.size = n]
    PROVE  u \in ThreadStates /\ u.ci = t.ci /\ \A cs, L, h : Fits(cs, t, L, h) => Fits(cs, u, L, h)
<1>1. /\ u \in ThreadStates /\ u.ci = t.ci /\ u.nCcalls = t.nCcalls /\ u.baseCcalls = t.baseCcalls /\ u.status = t.status
      /\ u.errfunc = t.errfunc /\ u.jmp = t.jmp /\ u.allowhook = t.allowhook /\ u.fresh = t.fresh
  BY DEF ThreadStates
<1>2. ASSUME NEW cs, NEW L, NEW h, Fits(cs, t, L, h) PROVE Fits(cs, u, L, h)
  <2>1. Height(cs, L, h)
    BY <1>2 DEF Fits
  <2>2. Counts(cs, u, L, h)
    BY <1>1, <1>2 DEF Fits, Counts
  <2>3. Lives(u, L, h)
    BY <1>1, <1>2 DEF Fits, Lives
  <2>4. Guards(cs, u, L, h)
    BY <1>1, <1>2 DEF Fits, Guards
  <2> QED BY <2>1, <2>2, <2>3, <2>4 DEF Fits
<1> QED BY <1>1, <1>2

\* A coroutine leaves the C stack with its resume.
LEMMA OffStack ==
    ASSUME NEW a \in CStacks, StackOK(a), NEW L \in Threads, NEW t, NEW n \in Nat, n = Len(a), Fits(a, t, L, n),
           NEW j \in 1..n, t.jmp = j, a[j].k = "resume",
           NEW cs \in CStacks, Len(cs) = j - 1, Same(a, cs, j - 1),
           NEW u, u.jmp = a[j].save.jmp, u.allowhook = t.allowhook, u.errfunc = t.errfunc, Lives(u, L, 0)
    PROVE  Fits(cs, u, L, 0)
<1>1. Guards(a, t, L, n) /\ a[j].th = L /\ \A m \in 1..n : m > j => ~CatchesOf(a[m], L)
  BY DEF Fits, Guards, Innermost, CatchesOf
<1>2. PlacedAt(a, j) /\ SavedAt(a, j)
  BY <1>1 DEF StackOK
<1>3. L \in Coroutines /\ L # Main /\ \A i \in 1..(j - 1) : a[i].th # L
  BY <1>1, <1>2, LimitsAssumption DEF PlacedAt
<1>4. \A i \in 1..(j - 1) : cs[i] = a[i]
  BY DEF Same
<1>5. Height(cs, L, 0)
  BY <1>1, <1>3, <1>4 DEF Height
<1>6. Counts(cs, u, L, 0)
  BY <1>3 DEF Counts
<1>7. Guards(cs, u, L, 0)
  <2>1. u.jmp = 0
    <3>1. Innermost(a, L, j - 1, u.jmp)
      BY <1>1, <1>2 DEF SavedAt, CatchesOf
    <3> QED BY <3>1, <1>1, <1>3 DEF Innermost, CatchesOf
  <2>2. Innermost(cs, L, 0, u.jmp)
    BY <2>1 DEF Innermost
  <2>3. ~u.allowhook => FALSE
    BY <1>1, <1>3 DEF Guards
  <2>4. \A i \in 1..n : ~Protects(a[i], L)
    BY <1>1, <1>3 DEF Protects, CatchesOf
  <2>5. u.errfunc = "none"
    BY <2>4, <1>1 DEF Guards
  <2> QED BY <2>2, <2>3, <2>5 DEF Guards
<1> QED BY <1>5, <1>6, <1>7 DEF Fits

\* A protected call ends: the thread is as it was before.
LEMMA Restored ==
    ASSUME NEW a \in CStacks, StackOK(a), NEW L \in Threads, NEW t, NEW n \in Nat, n = Len(a), Fits(a, t, L, n),
           NEW j \in 1..n, t.jmp = j, a[j].k = "pcall",
           NEW cs \in CStacks, Len(cs) = j - 1, Same(a, cs, j - 1),
           NEW u, u.jmp = a[j].save.jmp, u.errfunc = a[j].save.errfunc, u.nCcalls = a[j].save.n,
           Len(u.ci) = a[j].save.ci, u.baseCcalls = t.baseCcalls, u.status = t.status, u.fresh = t.fresh,
           ~u.allowhook => L = Main /\ \E m \in 1..(j - 1) : Hooks(a[m], L)
    PROVE  Fits(cs, u, L, j - 1)
<1> DEFINE s == a[j].save
<1>1. Counts(a, t, L, n) /\ Lives(t, L, n) /\ a[j].th = L /\ n # 0
  BY DEF Fits, Guards, Innermost, CatchesOf
<1>2. SavedAt(a, j) /\ PlacedAt(a, j)
  BY DEF StackOK
<1>3. (j # 1 => a[j - 1].th = L) /\ (j = 1 => L = Main) /\ j - 1 \in Nat
  BY <1>1, <1>2 DEF PlacedAt
<1>4. /\ s.n = Levels(a, j - 1) /\ s.ci = 1 + Frames(a, L, j - 1) /\ Innermost(a, L, j - 1, s.jmp)
      /\ (\A m \in 1..(j - 1) : ~Protects(a[m], L)) => s.errfunc = "none"
  BY <1>1, <1>2 DEF SavedAt, CatchesOf
<1>8. Height(cs, L, j - 1)
  <2>1. j # 1 => cs[j - 1] = a[j - 1]
    BY <1>3 DEF Same
  <2> QED BY <1>3, <2>1 DEF Height
<1>9. Counts(cs, u, L, j - 1)
  <2>0. j - 1 \in 0..(j - 1)
    BY <1>3
  <2>1. Levels(cs, j - 1) = Levels(a, j - 1) /\ Frames(cs, L, j - 1) = Frames(a, L, j - 1)
    BY <2>0, SameSums
  <2>2. u.nCcalls = Levels(cs, j - 1) /\ Len(u.ci) = 1 + Frames(cs, L, j - 1)
    BY <2>1, <1>4
  <2>3. ASSUME NEW i \in 1..(j - 1), cs[i].k = "resume", cs[i].th = L PROVE u.baseCcalls = Levels(cs, i)
    <3>1. i \in 0..(j - 1) /\ i \in 1..n /\ cs[i] = a[i]
      BY DEF Same
    <3>2. Levels(cs, i) = Levels(a, i)
      BY <3>1, SameSums
    <3>3. t.baseCcalls = Levels(a, i)
      BY <1>1, <2>3, <3>1 DEF Counts
    <3> QED BY <3>2, <3>3
  <2>4. L = Main => u.baseCcalls = 0
    BY <1>1 DEF Counts
  <2> QED BY <2>2, <2>3, <2>4 DEF Counts
<1>10. Lives(u, L, j - 1)
  <2>1. j - 1 = 0 => L = Main
    BY <1>3
  <2>2. t.status = "ok" /\ (L # Main => ~t.fresh)
    BY <1>1 DEF Lives
  <2> QED BY <2>1, <2>2 DEF Lives
<1>11. Guards(cs, u, L, j - 1)
  <2>1. Innermost(cs, L, j - 1, u.jmp)
    <3>1. j - 1 \in 0..(j - 1)
      BY <1>3
    <3> QED BY <1>4, <3>1, SameInnermost
  <2>2. ~u.allowhook => L = Main /\ \E m \in 1..(j - 1) : Hooks(cs[m], L)
    BY DEF Same
  <2>3. (\A m \in 1..(j - 1) : ~Protects(cs[m], L)) => u.errfunc = "none"
    BY <1>4 DEF Same
  <2> QED BY <2>1, <2>2, <2>3 DEF Guards
<1> QED BY <1>8, <1>9, <1>10, <1>11 DEF Fits

\* The limit, for the records that are new.
LEMMA Limited ==
    ASSUME NEW cs \in CStacks, NEW cs2 \in CStacks, NEW m, Same(cs, cs2, m), Within(cs, m),
           \A i \in 1..Len(cs2) : i > m => Levels(cs2, i) <= MAXCCALLS + Margin
    PROVE  Within(cs2, Len(cs2))
<1>1. m \in Nat /\ Len(cs2) \in Nat
  BY StackFacts DEF Same
<1> SUFFICES ASSUME NEW i \in 0..Len(cs2) PROVE Levels(cs2, i) <= MAXCCALLS + Margin
  BY DEF Within
<1>2. CASE i \in 0..m
  <2>1. Levels(cs2, i) = Levels(cs, i)
    BY <1>2, SameSums
  <2>2. Levels(cs, i) <= MAXCCALLS + Margin
    BY <1>2 DEF Within
  <2> QED BY <2>1, <2>2
<1>3. CASE i \in 1..Len(cs2) /\ i > m
  BY <1>3
<1> QED BY <1>1, <1>2, <1>3

\* The thread records that luaD_throw makes.
Recovered(t, s) ==
    [t EXCEPT !.nCcalls = s.n, !.ci = SubSeq(@, 1, s.ci), !.errfunc = s.errfunc, !.jmp = s.jmp, !.allowhook = s.allowhook]
Failed(t, code, j) == [t EXCEPT !.status = code, !.jmp = j, !.nCcalls = @ - 1]

\* The fields of a thread after luaD_pcall has caught an error,
LEMMA RecoveredRecord ==
    ASSUME NEW t \in ThreadStates, NEW s \in Saves, s.ci <= Len(t.ci), NEW u, u = Recovered(t, s)
    PROVE  /\ u \in ThreadStates /\ Len(u.ci) = s.ci /\ u.nCcalls = s.n /\ u.errfunc = s.errfunc /\ u.jmp = s.jmp
           /\ u.baseCcalls = t.baseCcalls /\ u.status = t.status
           /\ u.allowhook = s.allowhook /\ u.fresh = t.fresh
<1> DEFINE ci == SubSeq(t.ci, 1, s.ci)
<1>1. ci \in CallInfos /\ Len(ci) = s.ci
  <2>1. t.ci \in CallInfos /\ s.ci \in Nat
    BY DEF ThreadStates, Saves
  <2> QED BY <2>1 DEF CallInfos
<1>2. s.n \in Int /\ s.errfunc \in Handlers /\ s.jmp \in Nat /\ s.allowhook \in BOOLEAN
  BY DEF Saves
<1>3. u = [t EXCEPT !.nCcalls = s.n, !.ci = ci, !.errfunc = s.errfunc, !.jmp = s.jmp, !.allowhook = s.allowhook]
  BY DEF Recovered
<1> HIDE DEF ci
<1> QED BY <1>1, <1>2, <1>3 DEF ThreadStates

\* and after lua_resume has, or lua_yield has returned.
LEMMA FailedRecord ==
    ASSUME NEW t \in ThreadStates, NEW j \in Nat, NEW code \in Statuses, NEW u, u = Failed(t, code, j)
    PROVE  /\ u \in ThreadStates /\ u.ci = t.ci /\ u.status = code /\ u.errfunc = t.errfunc /\ u.jmp = j
           /\ u.allowhook = t.allowhook /\ u.fresh = t.fresh
<1>1. t.nCcalls \in Int /\ t.nCcalls - 1 \in Int
  BY DEF ThreadStates
<1> DEFINE k == t.nCcalls - 1
<1>2. u = [t EXCEPT !.status = code, !.jmp = j, !.nCcalls = k]
  BY DEF Failed
<1> HIDE DEF k
<1> QED BY <1>1, <1>2 DEF ThreadStates, k

\* restore_stack_limit changes the size only.
LEMMA LimitRestored ==
    ASSUME NEW t \in ThreadStates, NEW u, u = RestoreStackLimit(t)
    PROVE  u \in ThreadStates /\ \A cs, L, h : Fits(cs, t, L, h) => Fits(cs, u, L, h)
<1>1. MAXCALLS \in Nat
  BY LimitsAssumption
<1>2. CASE u = t
  BY <1>2
<1>3. CASE u = [t EXCEPT !.size = MAXCALLS]
  BY <1>1, <1>3, Resized
<1> QED BY <1>2, <1>3 DEF RestoreStackLimit

\* luaD_throw: the C stack is cut at the setjmp of the thread that runs, and what is left is as it was.
LEMMA ThrowGood ==
    ASSUME NEW st, Unwound(st), st.cs # <<>>, NEW L, L = Last(st.cs).th, Within(st.cs, Len(st.cs) - 1),
           NEW code \in {"run", "errerr", "syntax"}, code = "syntax" => st.cs[st.th[L].jmp].k = "pcall"
    PROVE  CallsGood(Throw(st, L, code))
<1> DEFINE a == st.cs
           n == Len(a)
           t == st.th[L]
           j == t.jmp
           r == a[j]
           s == r.save
           cs == SubSeq(a, 1, j - 1)
           u1 == Failed(t, code, s.jmp)
           u2 == Recovered(t, s)
           u3 == RestoreStackLimit(u2)
           u == IF r.k = "resume" THEN u1 ELSE u3
<1>1. /\ a \in CStacks /\ n \in Nat /\ n # 0 /\ StackOK(a) /\ L \in Threads /\ t \in ThreadStates
      /\ Fits(a, t, L, n) /\ Counts(a, t, L, n)
  BY TopFits DEF Fits
<1>2. j \in 1..n /\ CatchesOf(r, L) /\ \A m \in j..n : a[m].th = L
  BY Target
<1>3. Throw(st, L, code) = With(st, cs, L, u)
  <2>1. j # 0
    BY <1>1, <1>2
  <2> QED BY <2>1 DEF Throw, Failed, Recovered
<1>w. Within(a, n - 1)
  OBVIOUS
<1>q. (code = "syntax" => r.k = "pcall") /\ n = Len(a)
  OBVIOUS
<1>r. (r.k = "resume" => u = u1) /\ (r.k # "resume" => u = u3)
  OBVIOUS
<1>4. a = st.cs /\ s = a[j].save /\ t.jmp = j /\ r = a[j]
  OBVIOUS
<1>c. cs = SubSeq(a, 1, j - 1)
  OBVIOUS
<1>d. u1 = Failed(t, code, s.jmp) /\ u2 = Recovered(t, s)
  OBVIOUS
<1>g. u3 = RestoreStackLimit(u2)
  OBVIOUS
<1> HIDE DEF a, n, t, j, r, s, cs, u1, u2, u3, u
<1>5. r \in CRecords /\ s \in Saves /\ s.jmp \in Nat /\ r.th = L
  BY <1>1, <1>2, <1>4, <1>q, StackFacts, RecordFacts DEF CatchesOf
<1>6. cs \in CStacks /\ Len(cs) = j - 1 /\ Same(a, cs, j - 1) /\ j - 1 \in Nat
  <2>1. j - 1 \in 0..Len(a)
    BY <1>1, <1>2, <1>q
  <2>2. j - 1 \in Nat
    BY <1>2
  <2> QED BY <1>1, <1>c, <2>1, <2>2, Cut
<1>7. \E h \in Nat : u \in ThreadStates /\ Fits(cs, u, L, h)
  <2>1. CASE r.k = "resume"
    <3>1. code \in Statuses /\ code \notin {"ok", "yield", "syntax"}
      BY <1>q, <2>1 DEF Statuses
    <3>2. /\ u1 \in ThreadStates /\ u1.ci = t.ci /\ u1.status = code /\ u1.errfunc = t.errfunc /\ u1.jmp = s.jmp
          /\ u1.allowhook = t.allowhook
      <4>1. t \in ThreadStates /\ s.jmp \in Nat /\ code \in Statuses
        BY <1>1, <1>5, <3>1
      <4>2. u1 = Failed(t, code, s.jmp)
        BY <1>d
      <4> QED BY <4>1, <4>2, FailedRecord
    <3>3. Lives(u1, L, 0)
      BY <3>1, <3>2 DEF Lives
    <3>4. Fits(cs, u1, L, 0)
      BY <1>1, <1>2, <1>4, <1>6, <1>q, <2>1, <3>2, <3>3, OffStack
    <3> QED BY <3>2, <3>4, <1>r, <2>1
  <2>2. CASE r.k # "resume"
    <3>1. r.k = "pcall" /\ SavedAt(a, j) /\ j - 1 \in 0..Len(a) /\ n \in 0..Len(a) /\ j - 1 <= n
      BY <1>1, <1>2, <1>q, <2>2 DEF CatchesOf, StackOK
    <3>2. s.ci <= Len(t.ci)
      <4>1. Frames(a, L, j - 1) <= Frames(a, L, n)
        BY <1>1, <3>1, FramesStep
      <4>2. Frames(a, L, j - 1) \in Nat /\ Frames(a, L, n) \in Nat
        BY <1>1, <3>1, FramesStep
      <4>3. s.ci = 1 + Frames(a, L, j - 1)
        BY <3>1, <1>4, <1>5 DEF SavedAt
      <4>4. Len(t.ci) = 1 + Frames(a, L, n)
        BY <1>1 DEF Counts
      <4> QED BY <4>1, <4>2, <4>3, <4>4
    <3>3. /\ u2 \in ThreadStates /\ Len(u2.ci) = s.ci /\ u2.nCcalls = s.n /\ u2.errfunc = s.errfunc /\ u2.jmp = s.jmp
          /\ u2.baseCcalls = t.baseCcalls /\ u2.status = t.status
          /\ u2.allowhook = s.allowhook /\ u2.fresh = t.fresh
      BY <1>1, <1>d, <1>5, <3>2, RecoveredRecord
    <3>4. ~u2.allowhook => L = Main /\ \E m \in 1..(j - 1) : Hooks(a[m], L)
      BY <3>1, <3>3, <1>4, <1>5 DEF SavedAt
    <3>5. Fits(cs, u2, L, j - 1)
      BY <1>1, <1>2, <1>4, <1>6, <1>q, <3>1, <3>3, <3>4, Restored
    <3>6. u3 \in ThreadStates /\ Fits(cs, u3, L, j - 1)
      BY <3>3, <3>5, <1>g, LimitRestored
    <3> QED BY <3>6, <1>6, <1>r, <2>2
  <2> QED BY <2>1, <2>2
<1>8. Unwound(With(st, cs, L, u)) /\ With(st, cs, L, u).cs = cs
  <2>1. Owns(st.cs, L, j - 1)
    BY <1>1, <1>2, <1>4, <1>q DEF Owns
  <2>2. Owns(cs, L, j - 1) /\ RestOK(cs, j - 1)
    BY <1>6 DEF Owns, RestOK
  <2>3. Same(st.cs, cs, j - 1)
    BY <1>4, <1>6
  <2>4. PICK h \in Nat : u \in ThreadStates /\ Fits(cs, u, L, h)
    BY <1>7
  <2> QED BY <1>1, <1>6, <2>1, <2>2, <2>3, <2>4, Moved
<1>9. Within(cs, Len(cs))
  <2>1. Within(a, j - 1)
    BY <1>1, <1>2, <1>w DEF Within
  <2>2. \A i \in 1..Len(cs) : i > j - 1 => Levels(cs, i) <= MAXCCALLS + Margin
    BY <1>6
  <2> QED BY <1>1, <1>6, <2>1, <2>2, Limited
<1> QED BY <1>3, <1>8, <1>9 DEF CallsGood

\* What becomes of a thread L with its record r: t without it, u with it.
Pushed(t, u, L, r, n) ==
    /\ u.nCcalls = t.nCcalls + LevelOf(r) /\ Len(u.ci) = Len(t.ci) + FrameOf(r, L)
    /\ u.baseCcalls = t.baseCcalls /\ u.status = t.status /\ u.fresh = t.fresh
    /\ r.k = "pcall" => u.jmp = n + 1
    /\ r.k # "pcall" => u.jmp = t.jmp /\ u.errfunc = t.errfunc
    /\ ~u.allowhook => ~t.allowhook \/ (r.k = "hook" /\ L = Main)
Unchanged(t, u) ==
    /\ u.baseCcalls = t.baseCcalls /\ u.status = t.status /\ u.fresh = t.fresh
    /\ u.jmp = t.jmp /\ u.errfunc = t.errfunc /\ u.allowhook = t.allowhook
Popped(t, u, L, r) ==
    u.nCcalls = t.nCcalls - LevelOf(r) /\ Len(u.ci) = Len(t.ci) - FrameOf(r, L) /\ Unchanged(t, u)
Changed(t, u, L, r, q) ==
    /\ u.nCcalls = t.nCcalls - LevelOf(r) + LevelOf(q) /\ Len(u.ci) = Len(t.ci) - FrameOf(r, L) + FrameOf(q, L)
    /\ Unchanged(t, u)

\* The running thread has one record more.
LEMMA PushFits ==
    ASSUME NEW a \in CStacks, NEW L \in Threads, NEW t, NEW n \in Nat, n = Len(a), n # 0, Fits(a, t, L, n),
           NEW r \in CRecords, r.th = L, r.k # "resume",
           NEW cs \in CStacks, Len(cs) = n + 1, Same(a, cs, n), cs[n + 1] = r,
           NEW u, Pushed(t, u, L, r, n)
    PROVE  Fits(cs, u, L, n + 1)
<1> USE DEF Pushed
<1>0. n + 1 \in Nat /\ n + 1 \in 1..Len(cs) /\ (n + 1) - 1 = n /\ n \in 0..n /\ n + 1 # 0
  OBVIOUS
<1>1. Height(cs, L, n + 1)
  BY <1>0 DEF Height
<1>2. Counts(cs, u, L, n + 1)
  <2>1. Levels(cs, n) = Levels(a, n) /\ Frames(cs, L, n) = Frames(a, L, n)
    BY <1>0, SameSums
  <2>2. t.nCcalls = Levels(a, n) /\ Len(t.ci) = 1 + Frames(a, L, n)
    BY DEF Fits, Counts
  <2>3. Levels(cs, n + 1) = Levels(cs, n) + LevelOf(r)
    BY <1>0, LevelsStep
  <2>4. Frames(cs, L, n + 1) = Frames(cs, L, n) + FrameOf(r, L) /\ Frames(cs, L, n) \in Nat /\ FrameOf(r, L) \in Nat
    <3>1. n \in 0..Len(cs)
      OBVIOUS
    <3> QED BY <1>0, <3>1, FramesStep, FrameOfIs
  <2>5. u.nCcalls = Levels(cs, n + 1)
    BY <2>1, <2>2, <2>3
  <2>6. Len(u.ci) = 1 + Frames(cs, L, n + 1)
    BY <2>1, <2>2, <2>4
  <2>7. ASSUME NEW i \in 1..(n + 1), cs[i].k = "resume", cs[i].th = L PROVE u.baseCcalls = Levels(cs, i)
    <3>1. i \in 1..n /\ i \in 0..n /\ cs[i] = a[i]
      BY <2>7 DEF Same
    <3>2. Levels(cs, i) = Levels(a, i)
      BY <3>1, SameSums
    <3> QED BY <2>7, <3>1, <3>2 DEF Fits, Counts
  <2>8. L = Main => u.baseCcalls = 0
    BY DEF Fits, Counts
  <2> QED BY <2>5, <2>6, <2>7, <2>8 DEF Counts
<1>3. Lives(u, L, n + 1)
  BY <1>0 DEF Fits, Lives
<1>4. Guards(cs, u, L, n + 1)
  <2>0. \A i \in 1..n : cs[i] = a[i]
    BY DEF Same
  <2>1. Innermost(cs, L, n + 1, u.jmp)
    <3>1. CASE r.k = "pcall"
      BY <3>1, <1>0 DEF Innermost, CatchesOf
    <3>2. CASE r.k # "pcall"
      <4>1. Innermost(a, L, n, t.jmp) /\ u.jmp = t.jmp
        BY <3>2 DEF Fits, Guards
      <4>2. ~CatchesOf(r, L)
        BY <3>2 DEF CatchesOf
      <4> QED BY <4>1, <4>2, <2>0 DEF Innermost
    <3> QED BY <3>1, <3>2
  <2>2. ~u.allowhook => L = Main /\ \E i \in 1..(n + 1) : Hooks(cs[i], L)
    <3>1. ~t.allowhook => L = Main /\ \E i \in 1..n : Hooks(a[i], L)
      BY DEF Fits, Guards
    <3>2. r.k = "hook" => Hooks(cs[n + 1], L)
      BY DEF Hooks
    <3>3. (\E i \in 1..n : Hooks(a[i], L)) => \E i \in 1..(n + 1) : Hooks(cs[i], L)
      BY <2>0
    <3>4. n + 1 \in 1..(n + 1)
      BY <1>0
    <3> QED BY <3>1, <3>2, <3>3, <3>4
  <2>3. (\A i \in 1..(n + 1) : ~Protects(cs[i], L)) => u.errfunc = "none"
    <3> SUFFICES ASSUME \A i \in 1..(n + 1) : ~Protects(cs[i], L) PROVE u.errfunc = "none"
      OBVIOUS
    <3>1. ~Protects(r, L) /\ \A i \in 1..n : ~Protects(a[i], L)
      BY <2>0, <1>0
    <3>2. r.k # "pcall"
      BY <3>1 DEF Protects
    <3> QED BY <3>1, <3>2 DEF Fits, Guards
  <2> QED BY <2>1, <2>2, <2>3 DEF Guards
<1> QED BY <1>1, <1>2, <1>3, <1>4 DEF Fits

\* The running thread has one record less.
LEMMA PopFits ==
    ASSUME NEW a \in CStacks, StackOK(a), NEW L \in Threads, NEW t, NEW n \in Nat, n = Len(a), n # 0, Fits(a, t, L, n),
           NEW r, r = a[n], r.k \notin {"pcall", "resume", "hook"},
           NEW cs \in CStacks, Len(cs) = n - 1, Same(a, cs, n - 1),
           NEW u, Popped(t, u, L, r)
    PROVE  n > 1 /\ cs[n - 1].th = L /\ Fits(cs, u, L, n - 1)
<1> USE DEF Popped, Unchanged
<1>0. n \in 1..Len(a) /\ PlacedAt(a, n) /\ r \in CRecords /\ r.th = L
  BY StackFacts DEF StackOK, Fits, Height
<1>1. n > 1 /\ a[n - 1].th = L
  BY <1>0 DEF PlacedAt
<1>2. n - 1 \in 1..(n - 1) /\ n - 1 \in 0..(n - 1) /\ n - 1 # 0 /\ n - 1 \in 0..Len(a) /\ cs[n - 1] = a[n - 1]
  BY <1>1 DEF Same
<1>3. Height(cs, L, n - 1)
  BY <1>1, <1>2 DEF Height
<1>4. Counts(cs, u, L, n - 1)
  <2>1. Levels(cs, n - 1) = Levels(a, n - 1) /\ Frames(cs, L, n - 1) = Frames(a, L, n - 1)
    BY <1>2, SameSums
  <2>2. t.nCcalls = Levels(a, n) /\ Len(t.ci) = 1 + Frames(a, L, n)
    BY DEF Fits, Counts
  <2>3. Levels(a, n) = Levels(a, n - 1) + LevelOf(r) /\ Levels(a, n - 1) \in Nat /\ LevelOf(r) \in Nat
    BY <1>0, <1>2, LevelsStep, LevelOfIs
  <2>4. Frames(a, L, n) = Frames(a, L, n - 1) + FrameOf(r, L) /\ Frames(a, L, n - 1) \in Nat /\ FrameOf(r, L) \in Nat
    BY <1>0, <1>2, FramesStep, FrameOfIs
  <2>5. u.nCcalls = Levels(cs, n - 1)
    BY <2>1, <2>2, <2>3
  <2>6. Len(u.ci) = 1 + Frames(cs, L, n - 1)
    BY <2>1, <2>2, <2>4
  <2>7. ASSUME NEW i \in 1..(n - 1), cs[i].k = "resume", cs[i].th = L PROVE u.baseCcalls = Levels(cs, i)
    <3>1. i \in 1..n /\ i \in 0..(n - 1) /\ cs[i] = a[i]
      BY <2>7 DEF Same
    <3>2. Levels(cs, i) = Levels(a, i)
      BY <3>1, SameSums
    <3> QED BY <2>7, <3>1, <3>2 DEF Fits, Counts
  <2>8. L = Main => u.baseCcalls = 0
    BY DEF Fits, Counts
  <2> QED BY <2>5, <2>6, <2>7, <2>8 DEF Counts
<1>5. Lives(u, L, n - 1)
  BY <1>2 DEF Fits, Lives
<1>6. Guards(cs, u, L, n - 1)
  <2>0. (\A i \in 1..(n - 1) : cs[i] = a[i]) /\ ~CatchesOf(r, L) /\ ~Hooks(r, L) /\ ~Protects(r, L)
    BY DEF Same, CatchesOf, Hooks, Protects
  <2>1. Innermost(cs, L, n - 1, u.jmp)
    BY <2>0 DEF Innermost, Fits, Guards
  <2>2. ~u.allowhook => L = Main /\ \E i \in 1..(n - 1) : Hooks(cs[i], L)
    <3> SUFFICES ASSUME ~t.allowhook PROVE L = Main /\ \E i \in 1..(n - 1) : Hooks(cs[i], L)
      OBVIOUS
    <3>1. L = Main
      BY DEF Fits, Guards
    <3>2. PICK i \in 1..n : Hooks(a[i], L)
      BY DEF Fits, Guards
    <3>3. i # n
      BY <3>2, <2>0
    <3> QED BY <3>1, <3>2, <3>3, <2>0
  <2>3. (\A i \in 1..(n - 1) : ~Protects(cs[i], L)) => u.errfunc = "none"
    <3> SUFFICES ASSUME \A i \in 1..(n - 1) : ~Protects(cs[i], L) PROVE u.errfunc = "none"
      OBVIOUS
    <3>1. \A i \in 1..n : ~Protects(a[i], L)
      BY <2>0
    <3> QED BY <3>1 DEF Fits, Guards
  <2> QED BY <2>1, <2>2, <2>3 DEF Guards
<1> QED BY <1>1, <1>2, <1>3, <1>4, <1>5, <1>6 DEF Fits

Runs(st, L) == st.cs # <<>> /\ Last(st.cs).th = L

Grown(a, r, cs) == cs = Append(a, r)

\* A C stack with a record more.
LEMMA Appended ==
    ASSUME NEW a \in CStacks, NEW r \in CRecords, NEW cs, Grown(a, r, cs)
    PROVE  /\ cs \in CStacks /\ Len(cs) = Len(a) + 1 /\ Same(a, cs, Len(a)) /\ cs[Len(a) + 1] = r
           /\ Last(cs) = r /\ cs # <<>>
<1>1. cs \in CStacks /\ Len(cs) = Len(a) + 1 /\ cs[Len(a) + 1] = r /\ Len(a) \in Nat /\ \A i \in 1..Len(a) : cs[i] = a[i]
  BY DEF CStacks, Grown
<1>2. Last(cs) = r /\ cs # <<>>
  BY LastIs DEF CStacks, Grown
<1> QED BY <1>1, <1>2 DEF Same

\* A record more on top of the C stack.
LEMMA PushGood ==
    ASSUME NEW st, CallsGood(st), NEW L, Runs(st, L), NEW t, t = st.th[L],
           NEW r \in CRecords, r.th = L, r.k # "resume", NEW cs, Grown(st.cs, r, cs),
           PlacedAt(cs, Len(cs)), SavedAt(cs, Len(cs)),
           NEW u \in ThreadStates, Pushed(t, u, L, r, Len(st.cs)), NEW g, g = With(st, cs, L, u)
    PROVE  /\ Unwound(g) /\ g.cs = cs /\ g.th[L] = u /\ Runs(g, L) /\ Within(g.cs, Len(g.cs) - 1)
           /\ u.nCcalls <= MAXCCALLS + Margin => CallsGood(g)
<1> DEFINE a == st.cs
           n == Len(a)
<1>1. /\ a \in CStacks /\ n \in Nat /\ n # 0 /\ L \in Threads /\ Fits(a, t, L, n) /\ Within(a, n) /\ st \in CallStates
      /\ Unwound(st)
  BY TopFits DEF Runs, CallsGood
<1>2. cs \in CStacks /\ Len(cs) = n + 1 /\ Same(a, cs, n) /\ cs[n + 1] = r /\ Last(cs) = r /\ cs # <<>>
  BY <1>1, Appended
<1>3. n = Len(a) /\ Pushed(t, u, L, r, n) /\ a = st.cs
  OBVIOUS
<1> HIDE DEF a, n
<1>4. Fits(cs, u, L, n + 1)
  BY <1>1, <1>2, <1>3, PushFits
<1>5. Unwound(g) /\ g.cs = cs /\ g.th[L] = u
  <2>1. Owns(st.cs, L, n)
    BY <1>1, <1>3 DEF Owns
  <2>2. Owns(cs, L, n) /\ RestOK(cs, n)
    <3> SUFFICES ASSUME NEW i \in 1..Len(cs), i > n PROVE cs[i].th = L /\ PlacedAt(cs, i) /\ SavedAt(cs, i)
      BY DEF Owns, RestOK
    <3>1. i = n + 1 /\ i = Len(cs)
      BY <1>1, <1>2
    <3> QED BY <3>1, <1>2
  <2>3. Same(st.cs, cs, n) /\ n + 1 \in Nat
    BY <1>1, <1>2, <1>3
  <2> QED BY <1>1, <1>2, <1>4, <2>1, <2>2, <2>3, Moved
<1>7. Within(cs, Len(cs) - 1)
  <2>1. Len(cs) - 1 = n
    BY <1>1, <1>2
  <2>2. \A i \in 0..n : Levels(cs, i) = Levels(a, i)
    BY <1>1, <1>2, SameSums
  <2> QED BY <1>1, <2>1, <2>2 DEF Within
<1>8. ASSUME u.nCcalls <= MAXCCALLS + Margin PROVE Within(cs, Len(cs))
  <2>1. u.nCcalls = Levels(cs, n + 1)
    <3>1. n + 1 # 0
      BY <1>1
    <3> QED BY <1>4, <3>1 DEF Fits, Counts
  <2>2. \A i \in 1..Len(cs) : i > n => Levels(cs, i) <= MAXCCALLS + Margin
    <3> SUFFICES ASSUME NEW i \in 1..Len(cs), i > n PROVE Levels(cs, i) <= MAXCCALLS + Margin
      OBVIOUS
    <3>1. i = n + 1
      BY <1>1, <1>2
    <3> QED BY <3>1, <2>1, <1>8
  <2> QED BY <1>1, <1>2, <2>2, Limited
<1>9. Runs(g, L)
  BY <1>2, <1>5 DEF Runs
<1>10. u.nCcalls <= MAXCCALLS + Margin => CallsGood(g)
  BY <1>5, <1>8 DEF CallsGood
<1> QED BY <1>5, <1>7, <1>9, <1>10

\* A loop or a parser on top of the C stack that counts something else.
LEMMA ChangeFits ==
    ASSUME NEW a \in CStacks, StackOK(a), NEW L \in Threads, NEW t \in ThreadStates, NEW n \in Nat, n = Len(a), n # 0,
           Fits(a, t, L, n), NEW r, r = a[n], r.k \notin {"pcall", "resume", "hook"},
           NEW q \in CRecords, q.th = L, q.k = r.k,
           NEW cs \in CStacks, Len(cs) = n, Same(a, cs, n - 1), cs[n] = q,
           NEW u, Changed(t, u, L, r, q)
    PROVE  Fits(cs, u, L, n)
<1>0. n \in 1..Len(a) /\ r \in CRecords /\ n - 1 \in 0..Len(a) /\ n - 1 \in Nat
  BY StackFacts
<1> DEFINE b == SubSeq(a, 1, n - 1)
           k == Len(t.ci) - FrameOf(r, L)
           ci == SubSeq(t.ci, 1, k)
           c == t.nCcalls - LevelOf(r)
           v == [t EXCEPT !.ci = ci, !.nCcalls = c]
<1>1. b \in CStacks /\ Len(b) = n - 1 /\ Same(a, b, n - 1)
  BY <1>0, Cut
<1>2. Len(ci) = k /\ k \in Nat /\ ci \in CallInfos
  <2>1. Len(t.ci) = 1 + Frames(a, L, n)
    BY DEF Fits, Counts
  <2>2. Frames(a, L, n) = Frames(a, L, n - 1) + FrameOf(r, L) /\ Frames(a, L, n - 1) \in Nat /\ FrameOf(r, L) \in Nat
    BY <1>0, FramesStep, FrameOfIs
  <2>3. k \in Nat /\ k <= Len(t.ci)
    BY <2>1, <2>2
  <2>4. t.ci \in CallInfos
    BY ThreadFacts
  <2> HIDE DEF k
  <2> QED BY <2>3, <2>4 DEF CallInfos
<1>3. c \in Int /\ LevelOf(r) \in Nat /\ LevelOf(q) \in Nat /\ FrameOf(q, L) \in Nat
  BY <1>0, ThreadFacts, LevelOfIs, FrameOfIs
<1>4. v.ci = ci /\ v.nCcalls = c /\ Unchanged(t, v)
  <2> HIDE DEF ci, c
  <2> QED BY DEF ThreadStates, Unchanged
<1>5. Popped(t, v, L, r)
  BY <1>2, <1>4 DEF Popped
<1>6. u.nCcalls = v.nCcalls + LevelOf(q) /\ Len(u.ci) = Len(v.ci) + FrameOf(q, L)
  BY <1>5 DEF Popped, Changed
<1> HIDE DEF b, k, ci, c, v
<1>7. n > 1 /\ Fits(b, v, L, n - 1)
  BY <1>1, <1>5, PopFits
<1>8. Same(b, cs, n - 1)
  BY <1>1 DEF Same
<1>9. Pushed(v, u, L, q, n - 1)
  <2>1. q.k # "pcall"
    OBVIOUS
  <2>2. Unchanged(t, u) /\ Unchanged(t, v)
    BY <1>4 DEF Changed
  <2> QED BY <1>6, <2>1, <2>2 DEF Pushed, Unchanged
<1>10. PICK m : m = n - 1 /\ m \in Nat /\ m # 0 /\ n = m + 1
  BY <1>7
<1>11. Fits(cs, u, L, m + 1)
  <2>1. b \in CStacks /\ m = Len(b) /\ Fits(b, v, L, m) /\ Same(b, cs, m) /\ Len(cs) = m + 1 /\ cs[m + 1] = q
        /\ Pushed(v, u, L, q, m)
    BY <1>1, <1>7, <1>8, <1>9, <1>10
  <2>2. q.k # "resume"
    OBVIOUS
  <2> QED BY <1>10, <2>1, <2>2, PushFits
<1> QED BY <1>10, <1>11

\* luaD_reallocCI
LEMMA ResizeGood ==
    ASSUME NEW st, Unwound(st), NEW L \in Threads, NEW n \in Nat, NEW u, u = [st.th[L] EXCEPT !.size = n],
           NEW g, g = With(st, st.cs, L, u)
    PROVE  Unwound(g) /\ g.cs = st.cs /\ g.th[L] = u /\ u \in ThreadStates /\ u.ci = st.th[L].ci
<1> DEFINE a == st.cs
           t == st.th[L]
<1>1. a \in CStacks /\ t \in ThreadStates /\ (\E h \in Nat : Fits(a, t, L, h)) /\ StackOK(a)
  BY DEF Unwound, CallStates
<1>2. u \in ThreadStates /\ u.ci = t.ci /\ \A h : Fits(a, t, L, h) => Fits(a, u, L, h)
  BY <1>1, Resized
<1>3. PICK h \in Nat : Fits(a, u, L, h)
  BY <1>1, <1>2
<1>4. Same(a, a, Len(a)) /\ Owns(a, L, Len(a)) /\ RestOK(a, Len(a))
  BY <1>1, StackFacts DEF Same, Owns, RestOK
<1>5. Unwound(g) /\ g.cs = a /\ g.th[L] = u
  <2>1. u \in ThreadStates
    BY <1>2
  <2> QED BY <1>1, <1>3, <1>4, <2>1, Moved
<1> QED BY <1>2, <1>5

Shrunk(a, cs) == cs = PopC(a)

\* The record on top has returned.
LEMMA PopGood ==
    ASSUME NEW st, CallsGood(st), NEW L, Runs(st, L), NEW t, t = st.th[L],
           NEW r, r = Last(st.cs), r.k \notin {"pcall", "resume", "hook"}, NEW cs, Shrunk(st.cs, cs),
           NEW u \in ThreadStates, Popped(t, u, L, r), NEW g, g = With(st, cs, L, u)
    PROVE  CallsGood(g) /\ g.cs = cs /\ g.th[L] = u /\ Runs(g, L)
<1> DEFINE a == st.cs
           n == Len(a)
<1>1. /\ a \in CStacks /\ n \in Nat /\ n # 0 /\ L \in Threads /\ Fits(a, t, L, n) /\ Within(a, n) /\ st \in CallStates
      /\ Unwound(st) /\ r = a[n] /\ r.th = L /\ StackOK(a)
  BY TopFits DEF Runs, CallsGood
<1>2. cs = SubSeq(a, 1, n - 1)
  BY DEF Shrunk, PopC
<1>3. n = Len(a) /\ a = st.cs
  OBVIOUS
<1> HIDE DEF a, n
<1>4. cs \in CStacks /\ Len(cs) = n - 1 /\ Same(a, cs, n - 1)
  <2>1. n - 1 \in 0..Len(a) /\ a \in CStacks
    BY <1>1, <1>3
  <2> QED BY <1>2, <2>1, Cut
<1>5. n > 1 /\ cs[n - 1].th = L /\ Fits(cs, u, L, n - 1)
  <2>1. a \in CStacks /\ StackOK(a) /\ L \in Threads /\ n \in Nat /\ n = Len(a) /\ n # 0 /\ Fits(a, t, L, n)
    BY <1>1, <1>3
  <2>2. r = a[n] /\ r.k \notin {"pcall", "resume", "hook"}
    BY <1>1
  <2> QED BY <2>1, <2>2, <1>4, PopFits
<1>6. Unwound(g) /\ g.cs = cs /\ g.th[L] = u
  <2>1. Owns(st.cs, L, n - 1)
    BY <1>1, <1>3 DEF Owns
  <2>2. Owns(cs, L, n - 1) /\ RestOK(cs, n - 1)
    BY <1>1, <1>4 DEF Owns, RestOK
  <2>3. Same(st.cs, cs, n - 1) /\ n - 1 \in Nat
    BY <1>1, <1>3, <1>4, <1>5
  <2>4. Unwound(st) /\ L \in Threads /\ cs \in CStacks /\ Fits(cs, u, L, n - 1)
    BY <1>1, <1>4, <1>5
  <2> QED BY <2>1, <2>2, <2>3, <2>4, Moved
<1>7. Within(cs, Len(cs))
  <2>1. \A i \in 0..(n - 1) : Levels(cs, i) = Levels(a, i)
    BY <1>1, <1>4, SameSums
  <2> QED BY <1>1, <1>4, <2>1 DEF Within
<1>8. Runs(g, L)
  <2>1. cs # <<>> /\ Last(cs) = cs[n - 1]
    <3>1. Len(cs) = n - 1 /\ n - 1 # 0
      BY <1>4, <1>5
    <3>2. cs # <<>>
      BY <3>1
    <3> QED BY <3>1, <3>2 DEF Last
  <2> QED BY <2>1, <1>5, <1>6 DEF Runs
<1> QED BY <1>6, <1>7, <1>8 DEF CallsGood

Retopped(a, q, cs) == cs = Append(PopC(a), q)

\* The same function goes on.
Continues(r, q) ==
    r.k \in {"exec", "parser"} /\ q.k = r.k /\ q.th = r.th /\ q.call = r.call /\ (q.k = "exec" => q.n >= 1)

WentOn(st, cs, L, u, g) ==
    /\ Unwound(g) /\ g.cs = cs /\ g.th[L] = u /\ Runs(g, L) /\ Within(g.cs, Len(g.cs) - 1)
    /\ Len(cs) = Len(st.cs) /\ Same(st.cs, cs, Len(cs) - 1)
    /\ u.nCcalls <= MAXCCALLS + Margin => CallsGood(g)

\* The record on top of the C stack counts something else.
LEMMA ChangeGood ==
    ASSUME NEW st, CallsGood(st), NEW L, Runs(st, L), NEW t, t = st.th[L],
           NEW r, r = Last(st.cs), NEW q \in CRecords, Continues(r, q),
           NEW cs, Retopped(st.cs, q, cs),
           NEW u \in ThreadStates, Changed(t, u, L, r, q), NEW g, g = With(st, cs, L, u)
    PROVE  WentOn(st, cs, L, u, g)
<1> USE DEF Continues
<1> DEFINE a == st.cs
           n == Len(a)
<1>1. /\ a \in CStacks /\ n \in Nat /\ n # 0 /\ L \in Threads /\ Fits(a, t, L, n) /\ Within(a, n) /\ st \in CallStates
      /\ Unwound(st) /\ r = a[n] /\ r.th = L /\ StackOK(a) /\ t \in ThreadStates
  BY TopFits DEF Runs, CallsGood
<1>3. n = Len(a) /\ a = st.cs
  OBVIOUS
<1>b. PICK b : b = SubSeq(a, 1, n - 1)
  OBVIOUS
<1>c. Grown(b, q, cs)
  BY <1>b DEF Retopped, PopC, Grown
<1> HIDE DEF a, n
<1>2. b \in CStacks /\ Len(b) = n - 1 /\ Same(a, b, n - 1)
  <2>1. n - 1 \in 0..Len(a)
    BY <1>1, <1>3
  <2> QED BY <1>1, <1>b, <2>1, Cut
<1>4. cs \in CStacks /\ Len(cs) = n /\ Same(a, cs, n - 1) /\ cs[n] = q /\ Last(cs) = q /\ cs # <<>>
  <2>1. cs \in CStacks /\ Len(cs) = (n - 1) + 1 /\ Same(b, cs, n - 1) /\ cs[(n - 1) + 1] = q /\ Last(cs) = q /\ cs # <<>>
    BY <1>2, <1>c, Appended
  <2>2. (n - 1) + 1 = n
    BY <1>1
  <2> QED BY <1>2, <2>1, <2>2 DEF Same
<1>5. Fits(cs, u, L, n)
  <2>1. r.k \notin {"pcall", "resume", "hook"} /\ q.th = L
    BY <1>1
  <2> QED BY <1>1, <1>3, <1>4, <2>1, ChangeFits
<1>6. PlacedAt(cs, n) /\ SavedAt(cs, n)
  <2>1. PlacedAt(a, n) /\ n > 1
    BY <1>1, <1>3 DEF StackOK, PlacedAt
  <2>2. cs[n - 1] = a[n - 1] /\ n \in Nat
    BY <1>1, <1>4, <2>1 DEF Same
  <2>3. PlacedAt(cs, n)
    BY <1>1, <1>4, <2>1, <2>2 DEF PlacedAt
  <2>4. SavedAt(cs, n)
    BY <1>4 DEF SavedAt, CatchesOf
  <2> QED BY <2>3, <2>4
<1>7. Unwound(g) /\ g.cs = cs /\ g.th[L] = u
  <2>1. Owns(st.cs, L, n - 1)
    BY <1>1, <1>3 DEF Owns
  <2>2. Owns(cs, L, n - 1) /\ RestOK(cs, n - 1)
    BY <1>1, <1>4, <1>6 DEF Owns, RestOK
  <2>3. Same(st.cs, cs, n - 1)
    BY <1>3, <1>4
  <2> QED BY <1>1, <1>4, <1>5, <2>1, <2>2, <2>3, Moved
<1>8. Within(cs, Len(cs) - 1)
  <2>1. \A i \in 0..(n - 1) : Levels(cs, i) = Levels(a, i)
    BY <1>1, <1>4, SameSums
  <2> QED BY <1>1, <1>4, <2>1 DEF Within
<1>9. ASSUME u.nCcalls <= MAXCCALLS + Margin PROVE Within(cs, Len(cs))
  <2>1. u.nCcalls = Levels(cs, n)
    BY <1>1, <1>5 DEF Fits, Counts
  <2> QED BY <1>1, <1>4, <1>8, <1>9, <2>1 DEF Within
<1>10. Runs(g, L)
  BY <1>1, <1>4, <1>7 DEF Runs
<1>11. u.nCcalls <= MAXCCALLS + Margin => CallsGood(g)
  BY <1>7, <1>9 DEF CallsGood
<1> QED BY <1>3, <1>4, <1>7, <1>8, <1>10, <1>11 DEF WentOn

\* Two changes to the C stack and to one thread are one.
LEMMA WithWith ==
    ASSUME NEW st \in CallStates, NEW a \in CStacks, NEW cs \in CStacks, NEW L \in Threads,
           NEW t \in ThreadStates, NEW u \in ThreadStates
    PROVE  With(With(st, a, L, t), cs, L, u) = With(st, cs, L, u)
<1> DEFINE f == [st.th EXCEPT ![L] = t]
           g == [st.th EXCEPT ![L] = u]
           x == [st EXCEPT !.cs = a, !.th = f]
<1>1. st.th \in [Threads -> ThreadStates] /\ f \in [Threads -> ThreadStates] /\ g \in [Threads -> ThreadStates]
  BY DEF CallStates
<1>2. [f EXCEPT ![L] = u] = g
  BY <1>1
<1>3. With(st, a, L, t) = x
  BY DEF With
<1>4. x.th = f
  <2> HIDE DEF f
  <2> QED BY <1>1 DEF CallStates
<1>5. With(x, cs, L, u) = [x EXCEPT !.cs = cs, !.th = g]
  <2>1. With(x, cs, L, u) = [x EXCEPT !.cs = cs, !.th = [x.th EXCEPT ![L] = u]]
    BY DEF With
  <2>2. [x.th EXCEPT ![L] = u] = g
    BY <1>2, <1>4
  <2> HIDE DEF x, g
  <2> QED BY <2>1, <2>2
<1>6. [x EXCEPT !.cs = cs, !.th = g] = [st EXCEPT !.cs = cs, !.th = g]
  <2> HIDE DEF f, g
  <2> QED BY <1>1 DEF CallStates
<1>7. With(st, cs, L, u) = [st EXCEPT !.cs = cs, !.th = g]
  BY DEF With
<1> HIDE DEF f, g, x
<1> QED BY <1>3, <1>5, <1>6, <1>7

\* What a record that is no setjmp has saved.
LEMMA NoSaveIs == NoSave \in Saves /\ NoSave.jmp = 0
  BY DEF NoSave, Saves, Handlers

\* luaD_call before it has entered the function.
LEMMA CallRecord ==
    ASSUME NEW L \in Threads, NEW r, r = CRecord("call", L, TRUE, FALSE)
    PROVE  r \in CRecords /\ r.k = "call" /\ r.th = L /\ r.call /\ LevelOf(r) = 1 /\ FrameOf(r, L) = 0
<1>1. "call" \in Kinds /\ TRUE \in BOOLEAN /\ FALSE \in BOOLEAN
  BY DEF Kinds
<1>2. r \in CRecords /\ r.k = "call" /\ r.th = L /\ r.call = TRUE
  BY <1>1, NoSaveIs DEF CRecord, CRecords
<1>3. r.call
  BY <1>2, Zenon
<1>4. LevelOf(r) = 1
  BY <1>2, <1>3, LevelOfIs
<1>5. FrameOf(r, L) = 0
  BY <1>2, FrameOfIs
<1> QED BY <1>2, <1>3, <1>4, <1>5

AttemptGood(a, L) == CallsGood(a.st) /\ (a.again => Runs(a.st, L))

\* An error that can only be one of the running thread.
LEMMA ErrorGood ==
    ASSUME NEW st, CallsGood(st), NEW L, Runs(st, L), NEW code \in {"run", "errerr"}
    PROVE  CallsGood(Throw(st, L, code)) /\ AttemptGood(Attempt(Throw(st, L, code), FALSE), L)
<1>1. Unwound(st) /\ st.cs # <<>> /\ L = Last(st.cs).th /\ Within(st.cs, Len(st.cs))
  BY DEF CallsGood, Runs
<1>2. Len(st.cs) \in Nat
  BY <1>1, TopFits
<1>3. Within(st.cs, Len(st.cs) - 1)
  BY <1>1, <1>2 DEF Within
<1>4. CallsGood(Throw(st, L, code))
  <2>1. code \in {"run", "errerr", "syntax"} /\ code # "syntax"
    OBVIOUS
  <2> QED BY <1>1, <1>3, <2>1, ThrowGood
<1>5. PICK x : x = Throw(st, L, code)
  OBVIOUS
<1>6. AttemptGood(Attempt(x, FALSE), L)
  BY <1>4, <1>5 DEF AttemptGood, Attempt
<1> QED BY <1>4, <1>5, <1>6

\* growCI
LEMMA GrowGood ==
    ASSUME NEW st, CallsGood(st), NEW L, Runs(st, L)
    PROVE  AttemptGood(GrowCI(st, L), L)
<1> DEFINE t == st.th[L]
<1>1. Unwound(st) /\ L \in Threads /\ t \in ThreadStates /\ t.size \in Nat /\ MAXCALLS \in Nat
  BY TopFits, ThreadFacts, LimitsAssumption DEF CallsGood, Runs
<1>2. CASE t.size > MAXCALLS
  <2>1. GrowCI(st, L) = Attempt(Throw(st, L, "errerr"), FALSE)
    BY <1>2 DEF GrowCI
  <2> QED BY <2>1, ErrorGood
<1>3. CASE ~(t.size > MAXCALLS)
  <2> DEFINE u == [t EXCEPT !.size = 2 * @]
             g == With(st, st.cs, L, u)
  <2>1. u = [t EXCEPT !.size = 2 * t.size] /\ 2 * t.size \in Nat
    BY <1>1
  <2>2. GrowCI(st, L) = Attempt(g, 2 * t.size > MAXCALLS)
    BY <1>3 DEF GrowCI
  <2> HIDE DEF u
  <2>3. Unwound(g) /\ g.cs = st.cs
    BY <1>1, <2>1, ResizeGood
  <2> HIDE DEF g
  <2>4. CallsGood(g) /\ Runs(g, L)
    BY <2>3 DEF CallsGood, Runs
  <2> QED BY <2>2, <2>4 DEF AttemptGood, Attempt
<1> QED BY <1>2, <1>3

\* luaD_precall, if what it enters is right.
LEMMA PrecallGood ==
    ASSUME NEW st, CallsGood(st), NEW L, Runs(st, L), NEW ci \in CallInfos, NEW cs \in CStacks,
           CallsGood(Entered(st, L, ci, cs))
    PROVE  AttemptGood(Precall(st, L, ci, cs), L)
<1> DEFINE t == st.th[L]
<1>1. Unwound(st) /\ L \in Threads /\ t \in ThreadStates /\ t.size \in Nat /\ MAXCALLS \in Nat /\ st \in CallStates /\ st.cs \in CStacks
  BY TopFits, ThreadFacts, LimitsAssumption DEF CallsGood, Runs
<1>2. CASE Len(t.ci) # t.size
  <2>1. Precall(st, L, ci, cs) = Attempt(Entered(st, L, ci, cs), FALSE)
    BY <1>2 DEF Precall
  <2> QED BY <2>1 DEF AttemptGood, Attempt
<1>3. CASE Len(t.ci) = t.size /\ 2 * t.size > MAXCALLS
  <2>1. Precall(st, L, ci, cs) = GrowCI(st, L)
    BY <1>3 DEF Precall
  <2> QED BY <2>1, GrowGood
<1>4. CASE Len(t.ci) = t.size /\ ~(2 * t.size > MAXCALLS)
  <2> DEFINE k == 2 * t.size
             u == [t EXCEPT !.size = k]
             g == With(st, st.cs, L, u)
             v == [t EXCEPT !.ci = ci]
             e == With(st, cs, L, v)
             w == [v EXCEPT !.size = k]
             x == With(st, cs, L, w)
  <2>1. Precall(st, L, ci, cs) = Attempt(Entered(GrowCI(st, L).st, L, ci, cs), FALSE)
    BY <1>4 DEF Precall
  <2>2. GrowCI(st, L) = Attempt(g, 2 * t.size > MAXCALLS)
    <3>1. ~(t.size > MAXCALLS)
      BY <1>1, <1>4
    <3> QED BY <3>1 DEF GrowCI
  <2>k. k \in Nat
    BY <1>1
  <2>e. CallsGood(e)
    BY DEF Entered
  <2>3. v \in ThreadStates /\ u \in ThreadStates /\ w \in ThreadStates /\ [u EXCEPT !.ci = ci] = w
    <3> HIDE DEF k
    <3> QED BY <1>1, <2>k DEF ThreadStates
  <2>4. w = [v EXCEPT !.size = k] /\ e = With(st, cs, L, v) /\ g = With(st, st.cs, L, u) /\ x = With(st, cs, L, w)
    OBVIOUS
  <2>5. GrowCI(st, L).st = g
    <3> HIDE DEF g
    <3> QED BY <2>2 DEF Attempt
  <2> HIDE DEF t, k, u, g, v, e, w, x
  <2>6. g.th[L] = u
    BY <1>1, <2>3, <2>4, WithFacts
  <2>7. Entered(g, L, ci, cs) = x
    <3>1. Entered(g, L, ci, cs) = With(g, cs, L, w)
      BY <2>3, <2>6 DEF Entered
    <3>2. With(g, cs, L, w) = x
      BY <1>1, <2>3, <2>4, WithWith
    <3> QED BY <3>1, <3>2
  <2>8. e.th[L] = v /\ e.cs = cs /\ e \in CallStates
    BY <1>1, <2>3, <2>4, WithFacts
  <2>9. x = With(e, e.cs, L, [e.th[L] EXCEPT !.size = k])
    <3>1. With(e, cs, L, w) = x
      BY <1>1, <2>3, <2>4, WithWith
    <3> QED BY <3>1, <2>4, <2>8
  <2>10. Unwound(x) /\ x.cs = e.cs
    <3>1. Unwound(e)
      BY <2>e DEF CallsGood
    <3> QED BY <1>1, <2>k, <2>9, <3>1, ResizeGood
  <2>11. CallsGood(x)
    BY <2>10, <2>e DEF CallsGood
  <2> QED BY <2>1, <2>5, <2>7, <2>11 DEF AttemptGood, Attempt
<1> QED BY <1>1, <1>2, <1>3, <1>4

\* A function that luaD_call runs is above a record of the same thread.
LEMMA PlacedCall ==
    ASSUME NEW a \in CStacks, NEW n \in Nat, n = Len(a), n # 0, NEW L, a[n].th = L,
           NEW r \in CRecords, r.th = L, r.call, r.k \in {"call", "exec", "cfun"}, r.k = "exec" => r.n >= 1,
           NEW cs \in CStacks, Len(cs) = n + 1, Same(a, cs, n), cs[n + 1] = r
    PROVE  PlacedAt(cs, Len(cs)) /\ SavedAt(cs, Len(cs))
<1>1. cs[Len(cs)] = r /\ cs[Len(cs) - 1] = a[n] /\ Len(cs) > 1
  BY DEF Same
<1>2. PlacedAt(cs, Len(cs))
  BY <1>1 DEF PlacedAt
<1>3. SavedAt(cs, Len(cs))
  BY <1>1 DEF SavedAt, CatchesOf
<1> QED BY <1>2, <1>3

\* The call is on the C stack.
LEMMA CallPushed ==
    ASSUME NEW st, CallsGood(st), NEW L, Runs(st, L), NEW t, t = st.th[L],
           NEW r \in CRecords, r.th = L, r.call, r.k \in {"call", "exec", "cfun"}, r.k = "exec" => r.n >= 1,
           NEW cs, Grown(st.cs, r, cs),
           NEW u \in ThreadStates, Pushed(t, u, L, r, Len(st.cs)), NEW g, g = With(st, cs, L, u)
    PROVE  /\ Unwound(g) /\ g.cs = cs /\ g.th[L] = u /\ Runs(g, L) /\ Within(g.cs, Len(g.cs) - 1)
           /\ u.nCcalls <= MAXCCALLS + Margin => CallsGood(g)
<1>1. st.cs \in CStacks /\ Len(st.cs) \in Nat /\ Len(st.cs) # 0 /\ st.cs[Len(st.cs)].th = L
  BY TopFits DEF CallsGood, Runs
<1>2. cs \in CStacks /\ Len(cs) = Len(st.cs) + 1 /\ Same(st.cs, cs, Len(st.cs)) /\ cs[Len(st.cs) + 1] = r
  BY <1>1, Appended
<1>3. PlacedAt(cs, Len(cs)) /\ SavedAt(cs, Len(cs))
  BY <1>1, <1>2, PlacedCall
<1>4. r.k # "resume"
  OBVIOUS
<1> QED BY <1>3, <1>4, PushGood

\* A thread with another counter of C calls,
LEMMA CountedThread ==
    ASSUME NEW t \in ThreadStates, NEW n \in Int, NEW u, u = [t EXCEPT !.nCcalls = n]
    PROVE  u \in ThreadStates /\ u.ci = t.ci /\ u.nCcalls = n /\ Unchanged(t, u)
  BY DEF ThreadStates, Unchanged

\* and with other frames.
LEMMA FramedThread ==
    ASSUME NEW t \in ThreadStates, NEW ci \in CallInfos, NEW u, u = [t EXCEPT !.ci = ci]
    PROVE  u \in ThreadStates /\ u.ci = ci /\ u.nCcalls = t.nCcalls /\ Unchanged(t, u)
  BY DEF ThreadStates, Unchanged

\* The rest of a thread is the same after two changes.
LEMMA UnchangedTwice ==
    ASSUME NEW t, NEW u, NEW v, Unchanged(t, u), Unchanged(u, v)
    PROVE  Unchanged(t, v)
  BY DEF Unchanged

\* What a record that is no protected call does to its thread.
LEMMA UnchangedPushed ==
    ASSUME NEW t, NEW u, Unchanged(t, u), NEW L, NEW r, r.k # "pcall", NEW n,
           u.nCcalls = t.nCcalls + LevelOf(r), Len(u.ci) = Len(t.ci) + FrameOf(r, L)
    PROVE  Pushed(t, u, L, r, n)
  BY DEF Unchanged, Pushed

\* inc_ci
LEMMA OneFrameMore ==
    ASSUME NEW ci \in CallInfos, NEW kind \in {"base", "L", "C"}
    PROVE  Append(ci, kind) \in CallInfos /\ Len(Append(ci, kind)) = Len(ci) + 1
  BY DEF CallInfos

\* luaD_call, up to the next error.
LEMMA TryCallGood ==
    ASSUME NEW st, CallsGood(st), NEW L, Runs(st, L), NEW kind \in {"L", "C"}, NEW handler \in BOOLEAN
    PROVE  AttemptGood(TryCall(st, L, kind, handler), L)
<1> DEFINE t == st.th[L]
           n == t.nCcalls + 1
           r == CRecord("call", L, TRUE, FALSE)
           a == Append(st.cs, r)
           u == [t EXCEPT !.nCcalls = n]
           g == With(st, a, L, u)
           b == CRecord(BodyOf(kind), L, TRUE, handler)
           cs == Append(st.cs, b)
           ci == Append(t.ci, kind)
           v == [u EXCEPT !.ci = ci]
           e == With(st, cs, L, v)
<1>1. st \in CallStates /\ L \in Threads /\ t \in ThreadStates /\ st.cs \in CStacks
  BY TopFits DEF CallsGood, Runs
<1>2. n \in Int /\ t.nCcalls \in Int /\ t.ci \in CallInfos /\ Len(t.ci) \in Nat
  BY <1>1, ThreadFacts
<1>3. r \in CRecords /\ r.k = "call" /\ r.th = L /\ r.call /\ LevelOf(r) = 1 /\ FrameOf(r, L) = 0
  BY <1>1, CallRecord
<1>4. BodyOf(kind) \in {"exec", "cfun"}
  BY DEF BodyOf
<1>5. b \in CRecords /\ b.k \in {"exec", "cfun"} /\ b.th = L /\ b.n = 1 /\ b.call /\ LevelOf(b) = 1 /\ FrameOf(b, L) = 1
  <2>1. BodyOf(kind) \in Kinds
    BY <1>4 DEF Kinds
  <2>2. b \in CRecords /\ b.k = BodyOf(kind) /\ b.th = L /\ b.n = 1 /\ b.call = TRUE
    BY <1>1, <2>1, NoSaveIs DEF CRecord, CRecords
  <2> HIDE DEF b
  <2>3. b.call
    BY <2>2, Zenon
  <2>4. LevelOf(b) = 1 /\ FrameOf(b, L) = 1
    BY <1>4, <2>2, <2>3, LevelOfIs, FrameOfIs
  <2> QED BY <1>4, <2>2, <2>3, <2>4
<1>6. ci \in CallInfos /\ Len(ci) = Len(t.ci) + 1
  BY <1>2, OneFrameMore
<1>7. Grown(st.cs, r, a) /\ Grown(st.cs, b, cs)
  BY DEF Grown
<1>8. a \in CStacks /\ cs \in CStacks
  BY <1>1, <1>3, <1>5, <1>7, Appended
<1>9. TryCall(st, L, kind, handler) =
        IF n = MAXCCALLS THEN Attempt(g, TRUE)
        ELSE IF n >= MAXCCALLS + Margin THEN Attempt(Throw(g, L, "errerr"), FALSE)
        ELSE Precall(g, L, ci, cs)
  BY DEF TryCall
<1>10. t = st.th[L] /\ u = [t EXCEPT !.nCcalls = n] /\ v = [u EXCEPT !.ci = ci] /\ g = With(st, a, L, u) /\ e = With(st, cs, L, v)
  OBVIOUS
<1>n. n = t.nCcalls + 1
  OBVIOUS
<1> HIDE DEF t, n, r, a, u, g, b, cs, ci, v, e
<1>11. u \in ThreadStates /\ u.ci = t.ci /\ u.nCcalls = n /\ Unchanged(t, u)
  BY <1>1, <1>2, <1>10, CountedThread
<1>12. v \in ThreadStates /\ v.ci = ci /\ v.nCcalls = n /\ Unchanged(t, v)
  <2>1. v \in ThreadStates /\ v.ci = ci /\ v.nCcalls = u.nCcalls /\ Unchanged(u, v)
    <3>1. v = [u EXCEPT !.ci = ci] /\ u \in ThreadStates /\ ci \in CallInfos
      BY <1>6, <1>10, <1>11
    <3> QED BY <3>1, FramedThread
  <2> QED BY <1>11, <2>1, UnchangedTwice
<1>13. Pushed(t, u, L, r, Len(st.cs))
  <2>1. u.nCcalls = t.nCcalls + LevelOf(r) /\ Len(u.ci) = Len(t.ci) + FrameOf(r, L) /\ r.k # "pcall"
    BY <1>2, <1>3, <1>11, <1>n
  <2> QED BY <1>11, <2>1, UnchangedPushed
<1>14. Pushed(t, v, L, b, Len(st.cs))
  <2>1. v.nCcalls = t.nCcalls + LevelOf(b) /\ Len(v.ci) = Len(t.ci) + FrameOf(b, L) /\ b.k # "pcall"
    BY <1>2, <1>5, <1>6, <1>12, <1>n
  <2> QED BY <1>12, <2>1, UnchangedPushed
<1>15. /\ Unwound(g) /\ g.cs = a /\ g.th[L] = u /\ Runs(g, L) /\ Within(g.cs, Len(g.cs) - 1)
       /\ u.nCcalls <= MAXCCALLS + Margin => CallsGood(g)
  <2>1. r.k \in {"call", "exec", "cfun"} /\ (r.k = "exec" => r.n >= 1)
    BY <1>3
  <2>2. u \in ThreadStates /\ g = With(st, a, L, u) /\ t = st.th[L] /\ Grown(st.cs, r, a)
    BY <1>7, <1>10, <1>11
  <2> QED BY <1>3, <1>13, <2>1, <2>2, CallPushed
<1>16. v.nCcalls <= MAXCCALLS + Margin => CallsGood(e)
  <2>1. b.k \in {"call", "exec", "cfun"} /\ (b.k = "exec" => b.n >= 1)
    BY <1>5
  <2>2. v \in ThreadStates /\ e = With(st, cs, L, v) /\ t = st.th[L] /\ Grown(st.cs, b, cs)
    BY <1>7, <1>10, <1>12
  <2> QED BY <1>5, <1>14, <2>1, <2>2, CallPushed
<1>17. CASE n = MAXCCALLS
  <2>1. CallsGood(g)
    BY <1>11, <1>15, <1>17, LimitsAssumption
  <2> QED BY <1>9, <1>15, <1>17, <2>1 DEF AttemptGood, Attempt
<1>18. CASE n # MAXCCALLS /\ n >= MAXCCALLS + Margin
  <2>1. CallsGood(Throw(g, L, "errerr"))
    <3>1. g.cs # <<>> /\ L = Last(g.cs).th
      BY <1>15 DEF Runs
    <3>2. "errerr" \in {"run", "errerr", "syntax"} /\ "errerr" # "syntax"
      OBVIOUS
    <3> QED BY <1>15, <3>1, <3>2, ThrowGood
  <2>2. PICK x : x = Throw(g, L, "errerr")
    OBVIOUS
  <2>3. AttemptGood(Attempt(x, FALSE), L)
    BY <2>1, <2>2 DEF AttemptGood, Attempt
  <2> QED BY <1>9, <1>18, <2>2, <2>3
<1>19. CASE n # MAXCCALLS /\ ~(n >= MAXCCALLS + Margin)
  <2>1. n <= MAXCCALLS + Margin
    BY <1>2, <1>19, LimitsAssumption
  <2>2. CallsGood(g) /\ CallsGood(e)
    BY <1>11, <1>12, <1>15, <1>16, <2>1
  <2>3. Entered(g, L, ci, cs) = With(g, cs, L, v)
    BY <1>10, <1>15 DEF Entered
  <2>4. With(g, cs, L, v) = e
    BY <1>1, <1>8, <1>10, <1>11, <1>12, WithWith
  <2>5. AttemptGood(Precall(g, L, ci, cs), L)
    <3>1. CallsGood(Entered(g, L, ci, cs))
      BY <2>2, <2>3, <2>4
    <3> QED BY <1>6, <1>8, <1>15, <2>2, <3>1, PrecallGood
  <2> QED BY <1>9, <1>19, <2>5
<1> QED BY <1>17, <1>18, <1>19

\* The same, for a handler and for another function.
LEMMA PlainCallGood ==
    ASSUME NEW st, CallsGood(st), NEW L, Runs(st, L), NEW kind \in {"L", "C"}
    PROVE  AttemptGood(TryCall(st, L, kind, FALSE), L) /\ AttemptGood(TryCall(st, L, kind, TRUE), L)
<1>1. \A handler \in BOOLEAN : AttemptGood(TryCall(st, L, kind, handler), L)
  BY TryCallGood
<1>2. TRUE \in BOOLEAN /\ FALSE \in BOOLEAN
  OBVIOUS
<1> QED BY <1>1, <1>2, Zenon

\* luaG_errormsg, up to the next error.
LEMMA TryHandlerGood ==
    ASSUME NEW st, CallsGood(st), NEW L, Runs(st, L)
    PROVE  AttemptGood(TryHandler(st, L), L)
<1> DEFINE e == st.th[L].errfunc
<1>1. e \in Handlers
  BY TopFits, ThreadFacts DEF CallsGood, Runs
<1>2. CASE e = "none"
  <2>1. TryHandler(st, L) = Attempt(Throw(st, L, "run"), FALSE)
    BY <1>2 DEF TryHandler
  <2> QED BY <2>1, ErrorGood
<1>3. CASE e # "none"
  <2>1. TryHandler(st, L) = TryCall(st, L, e, TRUE)
    BY <1>3 DEF TryHandler
  <2>2. e \in {"L", "C"}
    BY <1>1, <1>3 DEF Handlers
  <2>3. AttemptGood(TryCall(st, L, e, TRUE), L)
    BY <2>2, PlainCallGood
  <2> QED BY <2>1, <2>3
<1> QED BY <1>2, <1>3

\* An error while a function is called, and its handler.
LEMMA HandledGood ==
    ASSUME NEW a, NEW L, AttemptGood(a, L)
    PROVE  AttemptGood(Handled(a, L), L)
<1>1. CASE a.again
  <2>1. CallsGood(a.st) /\ Runs(a.st, L)
    BY <1>1 DEF AttemptGood
  <2>2. AttemptGood(TryHandler(a.st, L), L)
    BY <2>1, TryHandlerGood
  <2> QED BY <1>1, <2>2 DEF Handled
<1>2. CASE ~a.again
  BY <1>2 DEF Handled
<1> QED BY <1>1, <1>2

\* As often as it takes.
LEMMA SettledGood ==
    ASSUME NEW a, NEW L, AttemptGood(a, L)
    PROVE  CallsGood(Settled(a, L))
<1>1. PICK b : b = Handled(a, L)
  OBVIOUS
<1>2. PICK c : c = Handled(b, L)
  OBVIOUS
<1>3. PICK d : d = Handled(c, L)
  OBVIOUS
<1>4. AttemptGood(b, L)
  BY <1>1, HandledGood
<1>5. AttemptGood(c, L)
  BY <1>2, <1>4, HandledGood
<1>6. AttemptGood(d, L)
  BY <1>3, <1>5, HandledGood
<1>7. Settled(a, L) = d.st
  BY <1>1, <1>2, <1>3 DEF Settled
<1> QED BY <1>6, <1>7 DEF AttemptGood

\* An error message, and a call, of the running thread.
LEMMA ErrorMsgGood ==
    ASSUME NEW st, CallsGood(st), NEW L, Runs(st, L)
    PROVE  CallsGood(ErrorMsg(st, L))
<1>1. AttemptGood(Attempt(st, TRUE), L)
  BY DEF AttemptGood, Attempt
<1>2. CallsGood(Settled(Attempt(st, TRUE), L))
  BY <1>1, SettledGood
<1> QED BY <1>2 DEF ErrorMsg

\* luaD_call
LEMMA CallDGood ==
    ASSUME NEW st, CallsGood(st), NEW L, Runs(st, L), NEW kind \in {"L", "C"}
    PROVE  CallsGood(CallD(st, L, kind, FALSE))
<1>1. AttemptGood(TryCall(st, L, kind, FALSE), L)
  BY PlainCallGood
<1>2. CallsGood(Settled(TryCall(st, L, kind, FALSE), L))
  BY <1>1, SettledGood, Zenon
<1> QED BY <1>2 DEF CallD

\* A call of luaV_execute that needs no luaD_call.
LEMMA SettledPrecallGood ==
    ASSUME NEW st, CallsGood(st), NEW L, Runs(st, L), NEW ci \in CallInfos, NEW cs \in CStacks,
           CallsGood(Entered(st, L, ci, cs))
    PROVE  CallsGood(Settled(Precall(st, L, ci, cs), L))
<1>1. AttemptGood(Precall(st, L, ci, cs), L)
  BY PrecallGood
<1> QED BY <1>1, SettledGood

\* A protected call: what luaD_pcall saves is what there is.
ProtectedThread(t, errfunc, j) == [t EXCEPT !.errfunc = errfunc, !.jmp = j]
SavedOf(t) == [n |-> t.nCcalls, ci |-> Len(t.ci), errfunc |-> t.errfunc, allowhook |-> t.allowhook, jmp |-> t.jmp]

\* The fields of a thread in luaD_pcall.
LEMMA ProtectedRecord ==
    ASSUME NEW t \in ThreadStates, NEW errfunc \in Handlers, NEW j \in Nat, NEW u, u = ProtectedThread(t, errfunc, j)
    PROVE  /\ u \in ThreadStates /\ u.ci = t.ci /\ u.nCcalls = t.nCcalls /\ u.baseCcalls = t.baseCcalls
           /\ u.status = t.status /\ u.fresh = t.fresh /\ u.allowhook = t.allowhook /\ u.jmp = j /\ u.errfunc = errfunc
  BY DEF ThreadStates, ProtectedThread

\* What luaD_pcall saves.
LEMMA SavedRecord ==
    ASSUME NEW t \in ThreadStates, NEW s, s = SavedOf(t)
    PROVE  /\ s \in Saves /\ s.n = t.nCcalls /\ s.ci = Len(t.ci) /\ s.errfunc = t.errfunc /\ s.allowhook = t.allowhook
           /\ s.jmp = t.jmp
<1>1. /\ t.nCcalls \in Int /\ Len(t.ci) \in Nat /\ t.errfunc \in Handlers /\ t.jmp \in Nat /\ t.allowhook \in BOOLEAN
  BY DEF ThreadStates, CallInfos
<1> QED BY <1>1 DEF SavedOf, Saves

Saving(L, s) == [CRecord("pcall", L, FALSE, FALSE) EXCEPT !.save = s]

\* The record of luaD_pcall.
LEMMA PcallRecord ==
    ASSUME NEW L \in Threads, NEW s \in Saves, NEW r, r = Saving(L, s)
    PROVE  r \in CRecords /\ r.k = "pcall" /\ r.th = L /\ ~r.call /\ r.save = s /\ LevelOf(r) = 0 /\ FrameOf(r, L) = 0
<1>1. PICK q : q = CRecord("pcall", L, FALSE, FALSE)
  OBVIOUS
<1>2. q \in CRecords /\ q.k = "pcall" /\ q.th = L /\ q.call = FALSE
  <2>1. "pcall" \in Kinds /\ FALSE \in BOOLEAN
    BY DEF Kinds
  <2> QED BY <1>1, <2>1, NoSaveIs DEF CRecord, CRecords
<1>3. r = [q EXCEPT !.save = s]
  BY <1>1 DEF Saving
<1>4. r \in CRecords /\ r.k = q.k /\ r.th = L /\ r.call = q.call /\ r.save = s
  BY <1>2, <1>3 DEF CRecords
<1>5. ~r.call
  BY <1>2, <1>4, Zenon
<1>6. r.k = "pcall"
  BY <1>2, <1>4
<1>7. LevelOf(r) = 0 /\ FrameOf(r, L) = 0
  BY <1>4, <1>5, <1>6, LevelOfIs, FrameOfIs
<1> QED BY <1>4, <1>5, <1>6, <1>7

\* It may be on top of any other record,
LEMMA PlacedPcall ==
    ASSUME NEW a \in CStacks, NEW t \in ThreadStates, NEW L, NEW n \in Nat, n = Len(a), n > 1, Fits(a, t, L, n),
           NEW s, s = SavedOf(t), NEW r, r.k = "pcall", r.th = L, ~r.call, r.save = s,
           NEW cs \in CStacks, Len(cs) = n + 1, Same(a, cs, n), cs[n + 1] = r
    PROVE  PlacedAt(cs, Len(cs)) /\ SavedAt(cs, Len(cs))
<1>1. cs[Len(cs)] = r /\ cs[Len(cs) - 1] = a[n] /\ Len(cs) > 2 /\ a[n].th = L /\ Len(cs) - 1 = n
      /\ \A i \in 1..n : cs[i] = a[i]
  BY DEF Same, Fits, Height
<1>2. PlacedAt(cs, Len(cs))
  BY <1>1 DEF PlacedAt
<1>3. s.n = t.nCcalls /\ s.ci = Len(t.ci) /\ s.errfunc = t.errfunc /\ s.allowhook = t.allowhook /\ s.jmp = t.jmp
  BY SavedRecord
<1>4. Innermost(cs, L, n, s.jmp)
  <2>1. n \in 0..n
    OBVIOUS
  <2>2. Innermost(a, L, n, t.jmp)
    BY DEF Fits, Guards
  <2> QED BY <1>3, <2>1, <2>2, SameInnermost
<1>5. s.n = Levels(cs, n) /\ s.ci = 1 + Frames(cs, L, n)
  <2>1. n \in 0..n
    OBVIOUS
  <2>2. Levels(cs, n) = Levels(a, n) /\ Frames(cs, L, n) = Frames(a, L, n)
    BY <2>1, SameSums
  <2>3. t.nCcalls = Levels(a, n) /\ Len(t.ci) = 1 + Frames(a, L, n)
    BY DEF Fits, Counts
  <2> QED BY <1>3, <2>2, <2>3
<1>6. ~s.allowhook => L = Main /\ \E m \in 1..n : Hooks(cs[m], L)
  <2>1. ~t.allowhook => L = Main /\ \E m \in 1..n : Hooks(a[m], L)
    BY DEF Fits, Guards
  <2> QED BY <1>1, <1>3, <2>1
<1>7. (\A m \in 1..n : ~Protects(cs[m], L)) => s.errfunc = "none"
  <2>1. (\A m \in 1..n : ~Protects(a[m], L)) => t.errfunc = "none"
    BY DEF Fits, Guards
  <2> QED BY <1>1, <1>3, <2>1
<1>8. SavedAt(cs, Len(cs))
  BY <1>1, <1>4, <1>5, <1>6, <1>7 DEF SavedAt
<1> QED BY <1>2, <1>8

\* and it is a setjmp of the thread that runs.
LEMMA ProtectGood ==
    ASSUME NEW st, CallsGood(st), NEW L, Runs(st, L), Last(st.cs).k = "cfun", NEW errfunc \in Handlers,
           NEW g, g = Protect(st, L, errfunc)
    PROVE  /\ CallsGood(g) /\ Runs(g, L) /\ Last(g.cs).k = "pcall" /\ Len(g.cs) > 1
           /\ g.th[L].nCcalls = st.th[L].nCcalls
<1> DEFINE t == st.th[L]
           a == st.cs
           n == Len(a)
           s == SavedOf(t)
           r == Saving(L, s)
           cs == Append(a, r)
           u == ProtectedThread(t, errfunc, n + 1)
<1>1. /\ st \in CallStates /\ L \in Threads /\ t \in ThreadStates /\ a \in CStacks /\ n \in Nat /\ n # 0 /\ Fits(a, t, L, n)
      /\ StackOK(a) /\ a[n].k = "cfun" /\ Unwound(st) /\ Within(a, n)
  BY TopFits DEF CallsGood, Runs
<1>2. g = With(st, cs, L, u)
  BY DEF Protect, ProtectedThread, SavedOf, Saving
<1>3. a = st.cs /\ n = Len(a) /\ s = SavedOf(t) /\ r = Saving(L, s) /\ t = st.th[L]
  OBVIOUS
<1>4. Grown(a, r, cs) /\ u = ProtectedThread(t, errfunc, n + 1)
  BY DEF Grown
<1> HIDE DEF t, a, n, s, r, cs, u
<1>5. n > 1
  <2>1. n # 1
    <3> SUFFICES ASSUME n = 1 PROVE FALSE
      OBVIOUS
    <3>1. PlacedAt(a, 1)
      BY <1>1, <1>3 DEF StackOK
    <3> QED BY <1>1, <3>1 DEF PlacedAt
  <2> QED BY <1>1, <2>1
<1>6. s \in Saves
  BY <1>1, <1>3, SavedRecord
<1>7. r \in CRecords /\ r.k = "pcall" /\ r.th = L /\ ~r.call /\ r.save = s /\ LevelOf(r) = 0 /\ FrameOf(r, L) = 0
  <2>1. L \in Threads /\ r = Saving(L, s)
    BY <1>1, <1>3
  <2> QED BY <1>6, <2>1, PcallRecord
<1>8. cs \in CStacks /\ Len(cs) = n + 1 /\ Same(a, cs, n) /\ cs[n + 1] = r /\ Last(cs) = r
  <2>1. a \in CStacks /\ r \in CRecords /\ Grown(a, r, cs) /\ n = Len(a)
    BY <1>1, <1>3, <1>4, <1>7
  <2> QED BY <2>1, Appended
<1>9. PlacedAt(cs, Len(cs)) /\ SavedAt(cs, Len(cs))
  <2>1. a \in CStacks /\ t \in ThreadStates /\ n \in Nat /\ n = Len(a) /\ n > 1 /\ Fits(a, t, L, n)
    BY <1>1, <1>3, <1>5
  <2>2. s = SavedOf(t) /\ r.k = "pcall" /\ r.th = L /\ ~r.call /\ r.save = s
    BY <1>3, <1>7
  <2> QED BY <1>8, <2>1, <2>2, PlacedPcall
<1>10. /\ u \in ThreadStates /\ u.ci = t.ci /\ u.nCcalls = t.nCcalls /\ u.baseCcalls = t.baseCcalls
       /\ u.status = t.status /\ u.fresh = t.fresh /\ u.allowhook = t.allowhook /\ u.jmp = n + 1
  <2>1. n + 1 \in Nat
    BY <1>1
  <2> QED BY <1>1, <1>4, <2>1, ProtectedRecord
<1>11. Pushed(t, u, L, r, Len(st.cs))
  <2>1. t.nCcalls + LevelOf(r) = t.nCcalls /\ Len(t.ci) + FrameOf(r, L) = Len(t.ci)
    BY <1>1, <1>7, ThreadFacts
  <2> QED BY <1>3, <1>7, <1>10, <2>1 DEF Pushed
<1>12. /\ Unwound(g) /\ g.cs = cs /\ g.th[L] = u /\ Runs(g, L)
       /\ u.nCcalls <= MAXCCALLS + Margin => CallsGood(g)
  <2>1. r.k # "resume" /\ Grown(st.cs, r, cs) /\ r \in CRecords /\ r.th = L
    BY <1>3, <1>4, <1>7
  <2>2. u \in ThreadStates /\ t = st.th[L]
    BY <1>3, <1>10
  <2> QED BY <1>2, <1>9, <1>11, <2>1, <2>2, PushGood
<1>13. u.nCcalls <= MAXCCALLS + Margin
  <2>1. t.nCcalls = Levels(a, n)
    BY <1>1 DEF Fits, Counts
  <2> QED BY <1>1, <1>10, <2>1 DEF Within
<1>14. Last(g.cs).k = "pcall" /\ Len(g.cs) > 1
  BY <1>1, <1>7, <1>8, <1>12
<1>15. g.th[L].nCcalls = st.th[L].nCcalls
  BY <1>3, <1>10, <1>12
<1> QED BY <1>12, <1>13, <1>14, <1>15

\* The record on top is gone.
LEMMA EndGood ==
    ASSUME NEW st, CallsGood(st), NEW L, Runs(st, L), NEW cs, Shrunk(st.cs, cs), NEW u \in ThreadStates,
           NEW h \in Nat, Fits(cs, u, L, h), NEW g, g = With(st, cs, L, u)
    PROVE  CallsGood(g)
<1> DEFINE a == st.cs
           n == Len(a)
<1>1. a \in CStacks /\ n \in Nat /\ n # 0 /\ L \in Threads /\ Within(a, n) /\ Unwound(st) /\ a[n].th = L
  BY TopFits DEF Runs, CallsGood
<1>2. cs = SubSeq(a, 1, n - 1)
  BY DEF Shrunk, PopC
<1>3. n = Len(a) /\ a = st.cs
  OBVIOUS
<1> HIDE DEF a, n
<1>4. cs \in CStacks /\ Len(cs) = n - 1 /\ Same(a, cs, n - 1)
  <2>1. n - 1 \in 0..Len(a) /\ a \in CStacks
    BY <1>1, <1>3
  <2> QED BY <1>2, <2>1, Cut
<1>5. Unwound(g) /\ g.cs = cs
  <2>1. Owns(st.cs, L, n - 1)
    BY <1>1, <1>3 DEF Owns
  <2>2. Owns(cs, L, n - 1) /\ RestOK(cs, n - 1)
    BY <1>1, <1>4 DEF Owns, RestOK
  <2>3. Same(st.cs, cs, n - 1)
    BY <1>3, <1>4
  <2>4. Unwound(st) /\ L \in Threads /\ cs \in CStacks
    BY <1>1, <1>4
  <2> QED BY <2>1, <2>2, <2>3, <2>4, Moved
<1>6. Within(cs, Len(cs))
  <2>1. \A i \in 0..(n - 1) : Levels(cs, i) = Levels(a, i)
    BY <1>1, <1>4, SameSums
  <2> QED BY <1>1, <1>4, <2>1 DEF Within
<1> QED BY <1>5, <1>6 DEF CallsGood

\* A setjmp on top of the C stack is where errors go to.
LEMMA TopCatches ==
    ASSUME NEW a, NEW t, NEW L, NEW n \in Nat, n # 0, Fits(a, t, L, n), CatchesOf(a[n], L)
    PROVE  t.jmp = n
  BY DEF Fits, Guards, Innermost

\* luaD_pcall after its function has returned.
PcallEnded(t, s) == [t EXCEPT !.errfunc = s.errfunc, !.jmp = s.jmp]

\* The fields of a thread after luaD_pcall.
LEMMA PcallEndedRecord ==
    ASSUME NEW t \in ThreadStates, NEW s \in Saves, NEW u, u = PcallEnded(t, s)
    PROVE  /\ u \in ThreadStates /\ u.ci = t.ci /\ u.nCcalls = t.nCcalls /\ u.baseCcalls = t.baseCcalls
           /\ u.status = t.status /\ u.fresh = t.fresh /\ u.allowhook = t.allowhook /\ u.jmp = s.jmp /\ u.errfunc = s.errfunc
<1>1. s.errfunc \in Handlers /\ s.jmp \in Nat
  BY DEF Saves
<1> QED BY <1>1 DEF ThreadStates, PcallEnded

\* A protected call is over.
LEMMA PcallEndFits ==
    ASSUME NEW a \in CStacks, StackOK(a), NEW L \in Threads, NEW t \in ThreadStates, NEW n \in Nat, n = Len(a), n # 0,
           Fits(a, t, L, n), a[n].k = "pcall",
           NEW cs \in CStacks, Len(cs) = n - 1, Same(a, cs, n - 1), NEW u, u = PcallEnded(t, a[n].save)
    PROVE  u \in ThreadStates /\ Fits(cs, u, L, n - 1)
<1>1. n \in 1..n /\ n - 1 \in 0..Len(a) /\ n \in 1..Len(a) /\ a[n] \in CRecords /\ a[n].save \in Saves /\ a[n].th = L
  BY StackFacts, RecordFacts DEF Fits, Height
<1>2. PlacedAt(a, n) /\ SavedAt(a, n)
  BY <1>1 DEF StackOK
<1>3. t.jmp = n
  BY <1>1, TopCatches DEF CatchesOf
<1>4. /\ u \in ThreadStates /\ u.ci = t.ci /\ u.nCcalls = t.nCcalls /\ u.baseCcalls = t.baseCcalls
      /\ u.status = t.status /\ u.fresh = t.fresh /\ u.allowhook = t.allowhook /\ u.jmp = a[n].save.jmp
      /\ u.errfunc = a[n].save.errfunc
  BY <1>1, PcallEndedRecord
<1>5. ~a[n].call
  BY <1>2 DEF PlacedAt
<1>6. LevelOf(a[n]) = 0 /\ FrameOf(a[n], L) = 0
  BY <1>1, <1>5, LevelOfIs, FrameOfIs
<1>7. Levels(a, n) = Levels(a, n - 1) /\ Frames(a, L, n) = Frames(a, L, n - 1)
  <2>1. Levels(a, n) = Levels(a, n - 1) + LevelOf(a[n]) /\ Levels(a, n - 1) \in Nat
    BY <1>1, LevelsStep
  <2>2. Frames(a, L, n) = Frames(a, L, n - 1) + FrameOf(a[n], L) /\ Frames(a, L, n - 1) \in Nat
    BY <1>1, FramesStep
  <2> QED BY <1>6, <2>1, <2>2
<1>8. u.nCcalls = a[n].save.n /\ Len(u.ci) = a[n].save.ci
  <2>1. t.nCcalls = Levels(a, n) /\ Len(t.ci) = 1 + Frames(a, L, n)
    BY DEF Fits, Counts
  <2>2. a[n].save.n = Levels(a, n - 1) /\ a[n].save.ci = 1 + Frames(a, L, n - 1)
    BY <1>1, <1>2 DEF SavedAt
  <2> QED BY <1>4, <1>7, <2>1, <2>2
<1>9. ~u.allowhook => L = Main /\ \E m \in 1..(n - 1) : Hooks(a[m], L)
  <2>1. ~t.allowhook => L = Main /\ \E m \in 1..n : Hooks(a[m], L)
    BY DEF Fits, Guards
  <2>2. ~Hooks(a[n], L)
    BY DEF Hooks
  <2>3. \A m \in 1..n : Hooks(a[m], L) => m \in 1..(n - 1)
    BY <2>2
  <2> QED BY <1>4, <2>1, <2>3
<1>10. Fits(cs, u, L, n - 1)
  BY <1>1, <1>3, <1>4, <1>8, <1>9, Restored
<1> QED BY <1>4, <1>10

\* lua_resume after its function has returned.
ResumeEnded(t, j) == [t EXCEPT !.jmp = j, !.nCcalls = @ - 1]
EndedAs(t, u, j) ==
    u.ci = t.ci /\ u.status = t.status /\ u.allowhook = t.allowhook /\ u.jmp = j /\ u.errfunc = t.errfunc

\* The fields of a coroutine after lua_resume.
LEMMA ResumeEndedRecord ==
    ASSUME NEW t \in ThreadStates, NEW j \in Nat, NEW u, u = ResumeEnded(t, j)
    PROVE  u \in ThreadStates /\ EndedAs(t, u, j)
<1> DEFINE k == t.nCcalls - 1
<1>1. k \in Int
  BY DEF ThreadStates
<1>2. u = [t EXCEPT !.jmp = j, !.nCcalls = k]
  BY DEF ResumeEnded
<1> HIDE DEF k
<1> QED BY <1>1, <1>2 DEF ThreadStates, EndedAs

\* The body of a coroutine is over.
LEMMA ResumeEndFits ==
    ASSUME NEW a \in CStacks, StackOK(a), NEW L \in Threads, NEW t \in ThreadStates, NEW n \in Nat, n = Len(a), n # 0,
           Fits(a, t, L, n), a[n].k = "resume",
           NEW cs \in CStacks, Len(cs) = n - 1, Same(a, cs, n - 1), NEW u, u = ResumeEnded(t, a[n].save.jmp)
    PROVE  u \in ThreadStates /\ Fits(cs, u, L, 0)
<1>1. n \in 1..n /\ n - 1 \in 0..Len(a) /\ n \in 1..Len(a) /\ a[n] \in CRecords /\ a[n].save.jmp \in Nat /\ a[n].th = L
  BY StackFacts, RecordFacts DEF Fits, Height
<1>2. PlacedAt(a, n)
  BY <1>1 DEF StackOK
<1>3. t.jmp = n
  BY <1>1, TopCatches DEF CatchesOf
<1>4. /\ u \in ThreadStates /\ u.ci = t.ci /\ u.status = t.status /\ u.allowhook = t.allowhook /\ u.jmp = a[n].save.jmp
      /\ u.errfunc = t.errfunc
  <2>1. PICK j : j = a[n].save.jmp
    OBVIOUS
  <2>2. j \in Nat /\ u = ResumeEnded(t, j)
    BY <1>1, <2>1
  <2>3. u \in ThreadStates /\ EndedAs(t, u, j)
    BY <2>2, ResumeEndedRecord
  <2> QED BY <2>1, <2>3 DEF EndedAs
<1>5. Len(t.ci) = 1
  <2>1. FrameOf(a[n], L) = 0
    BY <1>1, FrameOfIs
  <2>2. Frames(a, L, n) = Frames(a, L, n - 1) + FrameOf(a[n], L) /\ Frames(a, L, 0) = 0
    BY <1>1, FramesStep
  <2>3. Frames(a, L, n - 1) = Frames(a, L, 0)
    <3>1. \A m \in 1..(n - 1) : m > 0 => a[m].th # L
      BY <1>1, <1>2 DEF PlacedAt
    <3>2. 0 \in 0..Len(a) /\ 0 <= n - 1
      OBVIOUS
    <3> QED BY <1>1, <3>1, <3>2, FramesOfOthers
  <2>4. Len(t.ci) = 1 + Frames(a, L, n)
    BY DEF Fits, Counts
  <2> QED BY <2>1, <2>2, <2>3, <2>4
<1>6. Lives(u, L, 0)
  <2>1. u.status = "ok" /\ Len(u.ci) = 1
    <3>1. t.status = "ok"
      BY DEF Fits, Lives
    <3> QED BY <1>4, <1>5, <3>1
  <2> QED BY <2>1 DEF Lives
<1>7. Fits(cs, u, L, 0)
  BY <1>1, <1>3, <1>4, <1>6, OffStack
<1> QED BY <1>4, <1>7

\* The function on top of the C stack returns.
Left(t, ci, r) == [t EXCEPT !.ci = ci, !.nCcalls = IF r.call THEN @ - 1 ELSE @]

LeftAs(t, u, ci, r) == u.ci = ci /\ u.nCcalls = (IF r.call THEN t.nCcalls - 1 ELSE t.nCcalls) /\ Unchanged(t, u)

\* The fields of a thread after luaD_poscall.
LEMMA LeftRecord ==
    ASSUME NEW t \in ThreadStates, NEW ci \in CallInfos, NEW r, NEW u, u = Left(t, ci, r)
    PROVE  u \in ThreadStates /\ LeftAs(t, u, ci, r)
<1> DEFINE k == IF r.call THEN t.nCcalls - 1 ELSE t.nCcalls
<1>1. k \in Int
  BY DEF ThreadStates
<1>2. u = [t EXCEPT !.ci = ci, !.nCcalls = k]
  BY DEF Left
<1>3. u \in ThreadStates /\ u.ci = ci /\ u.nCcalls = k /\ Unchanged(t, u)
  <2> HIDE DEF k
  <2> QED BY <1>1, <1>2 DEF ThreadStates, Unchanged
<1> QED BY <1>3 DEF LeftAs

\* A function has returned, and what has called it goes on.
LEMMA ReturnedGood ==
    ASSUME NEW st, CallsGood(st), NEW L, Runs(st, L), NEW r, r = Last(st.cs), r.k \in {"exec", "cfun", "parser"},
           r.k = "parser" => r.n = 0, NEW ci \in CallInfos, Len(ci) = Len(st.th[L].ci) - FrameOf(r, L)
    PROVE  CallsGood(Returned(st, ci))
<1> DEFINE t == st.th[L]
           a == PopC(st.cs)
           u == Left(t, ci, r)
           g == With(st, a, L, u)
           b == Last(g.cs)
           v == g.th[b.th]
           cs == PopC(g.cs)
           p == PcallEnded(v, b.save)
           q == ResumeEnded(v, b.save.jmp)
<1>1. L = r.th /\ t \in ThreadStates /\ r \in CRecords /\ StackOK(st.cs) /\ Len(st.cs) \in 1..Len(st.cs) /\ r = st.cs[Len(st.cs)]
  BY TopFits DEF CallsGood, Runs
<1>2. Returned(st, ci) =
        IF r.handler THEN Throw(g, L, "run")
        ELSE IF b.k = "pcall" THEN With(g, cs, b.th, p)
        ELSE IF b.k = "resume" THEN With(g, cs, b.th, q)
        ELSE g
  BY <1>1 DEF Returned, Left, PcallEnded, ResumeEnded
<1>3. Shrunk(st.cs, a) /\ Shrunk(g.cs, cs) /\ u = Left(t, ci, r) /\ g = With(st, a, L, u) /\ t = st.th[L]
  BY DEF Shrunk
<1>b. b = Last(g.cs) /\ v = g.th[b.th]
  OBVIOUS
<1>p. p = PcallEnded(v, b.save) /\ q = ResumeEnded(v, b.save.jmp)
  OBVIOUS
<1> HIDE DEF t, a, u, g, b, v, cs, p, q
<1>4. u \in ThreadStates /\ u.ci = ci /\ u.nCcalls = (IF r.call THEN t.nCcalls - 1 ELSE t.nCcalls) /\ Unchanged(t, u)
  <2>1. t \in ThreadStates /\ u = Left(t, ci, r)
    BY <1>1, <1>3
  <2>2. u \in ThreadStates /\ LeftAs(t, u, ci, r)
    BY <2>1, LeftRecord
  <2> QED BY <2>2 DEF LeftAs
<1>5. LevelOf(r) = IF r.call THEN 1 ELSE 0
  <2>1. r.k = "parser" => ~r.call
    BY <1>1 DEF StackOK, PlacedAt
  <2> QED BY <1>1, <2>1, LevelOfIs
<1>6. Popped(t, u, L, r)
  <2>1. u.nCcalls = t.nCcalls - LevelOf(r)
    BY <1>1, <1>4, <1>5, ThreadFacts
  <2>2. Len(u.ci) = Len(t.ci) - FrameOf(r, L)
    BY <1>3, <1>4
  <2> QED BY <1>4, <2>1, <2>2 DEF Popped
<1>7. CallsGood(g) /\ Runs(g, L)
  <2>1. r.k \notin {"pcall", "resume", "hook"}
    OBVIOUS
  <2>2. t = st.th[L] /\ Shrunk(st.cs, a) /\ u \in ThreadStates /\ g = With(st, a, L, u)
    BY <1>3, <1>4
  <2> QED BY <1>6, <2>1, <2>2, PopGood
<1>c. PICK d : d = g.cs
  OBVIOUS
<1>m. PICK n : n = Len(d)
  OBVIOUS
<1>8. /\ b.th = L /\ b = d[n] /\ v \in ThreadStates /\ Fits(d, v, L, n) /\ StackOK(d) /\ d \in CStacks /\ n \in Nat /\ n # 0
      /\ L \in Threads
  <2>1. Unwound(g) /\ g.cs # <<>> /\ L = Last(g.cs).th
    BY <1>7 DEF CallsGood, Runs
  <2>2. b.th = L /\ v = g.th[L]
    BY <2>1, <1>b
  <2> QED BY <2>1, <2>2, <1>b, <1>c, <1>m, TopFits
<1>9. cs \in CStacks /\ Len(cs) = n - 1 /\ Same(d, cs, n - 1)
  <2>1. cs = SubSeq(d, 1, n - 1)
    BY <1>3, <1>c, <1>m DEF Shrunk, PopC
  <2>2. n - 1 \in 0..Len(d) /\ d \in CStacks
    BY <1>8, <1>m
  <2> QED BY <2>1, <2>2, Cut
<1>d. n = Len(d) /\ Shrunk(g.cs, cs)
  BY <1>3, <1>m
<1>10. CASE r.handler
  <2>1. CallsGood(Throw(g, L, "run"))
    BY <1>7, ErrorGood
  <2> QED BY <1>2, <1>10, <2>1
<1>11. CASE ~r.handler /\ b.k = "pcall"
  <2>1. p \in ThreadStates /\ Fits(cs, p, L, n - 1) /\ n - 1 \in Nat
    <3>1. d[n].k = "pcall" /\ p = PcallEnded(v, d[n].save) /\ n - 1 \in Nat
      BY <1>8, <1>11, <1>p
    <3> QED BY <1>8, <1>9, <1>d, <3>1, PcallEndFits
  <2>2. CallsGood(With(g, cs, L, p))
    BY <1>7, <1>d, <2>1, EndGood
  <2> QED BY <1>2, <1>8, <1>11, <2>2
<1>12. CASE ~r.handler /\ b.k = "resume"
  <2>1. q \in ThreadStates /\ Fits(cs, q, L, 0)
    <3>1. d[n].k = "resume" /\ q = ResumeEnded(v, d[n].save.jmp)
      BY <1>8, <1>12, <1>p
    <3> QED BY <1>8, <1>9, <1>d, <3>1, ResumeEndFits
  <2>2. CallsGood(With(g, cs, L, q))
    BY <1>7, <1>d, <2>1, EndGood
  <2> QED BY <1>2, <1>8, <1>12, <2>2
<1>13. CASE ~r.handler /\ b.k # "pcall" /\ b.k # "resume"
  BY <1>2, <1>7, <1>13
<1> QED BY <1>10, <1>11, <1>12, <1>13

\* The thread that runs, and the record on top.
LEMMA Running ==
    ASSUME NEW st, CallsGood(st), NEW L, Runs(st, L), NEW r, r = Last(st.cs)
    PROVE  /\ st \in CallStates /\ L \in Threads /\ st.cs \in CStacks /\ st.th[L] \in ThreadStates /\ r \in CRecords /\ r.th = L
           /\ st.th[L].nCcalls <= MAXCCALLS + Margin
           /\ r.k \in {"exec", "cfun"} => FrameOf(r, L) <= Len(st.th[L].ci) - 1
           /\ PlacedAt(st.cs, Len(st.cs)) /\ r = st.cs[Len(st.cs)]
<1> DEFINE a == st.cs
           n == Len(a)
           t == st.th[L]
<1>1. /\ st \in CallStates /\ L \in Threads /\ a \in CStacks /\ t \in ThreadStates /\ r \in CRecords /\ r.th = L
      /\ Fits(a, t, L, n) /\ n \in Nat /\ n # 0 /\ r = a[n] /\ StackOK(a) /\ Within(a, n)
  BY TopFits DEF CallsGood, Runs
<1>2. n = Len(a)
  OBVIOUS
<1>3. /\ st \in CallStates /\ L \in Threads /\ st.cs \in CStacks /\ st.th[L] \in ThreadStates /\ r \in CRecords /\ r.th = L
      /\ r = st.cs[Len(st.cs)]
  BY <1>1
<1>4. PlacedAt(a, n)
  BY <1>1 DEF StackOK
<1>5. t.nCcalls = Levels(a, n) /\ Len(t.ci) = 1 + Frames(a, L, n)
  BY <1>1 DEF Fits, Counts
<1>6. t.nCcalls <= MAXCCALLS + Margin
  BY <1>1, <1>5 DEF Within
<1>7. n \in 1..Len(a) /\ n - 1 \in 0..Len(a)
  BY <1>1
<1> HIDE DEF a, n, t
<1>8. Frames(a, L, n) = Frames(a, L, n - 1) + FrameOf(r, L) /\ Frames(a, L, n - 1) \in Nat /\ FrameOf(r, L) \in Nat
  BY <1>1, <1>7, FramesStep, FrameOfIs
<1>9. FrameOf(r, L) <= Len(t.ci) - 1
  BY <1>5, <1>8
<1> QED BY <1>3, <1>4, <1>6, <1>9 DEF a, n, t

\* Each limit on the calls of a thread is met once: nCcalls is past the one, or the
\* CallInfo array is larger than the other, from then on.
Spent(t, u) ==
    /\ u.nCcalls = t.nCcalls + 1
    /\ \/ u.nCcalls = MAXCCALLS /\ u.size = t.size
       \/ t.size <= MAXCALLS /\ u.size > MAXCALLS
LEMMA HandlerFails ==
    ASSUME NEW st \in CallStates, NEW L \in Threads, NEW b, b = TryHandler(st, L), b.again
    PROVE  Spent(st.th[L], b.st.th[L])
<1>1. PICK t, n, r, kind : /\ t = st.th[L] /\ n = t.nCcalls + 1 /\ r = CRecord("call", L, TRUE, FALSE) /\ kind = t.errfunc
  OBVIOUS
<1>2. PICK cs, u : cs = Append(st.cs, r) /\ u = [t EXCEPT !.nCcalls = n]
  OBVIOUS
<1>3. PICK g : g = With(st, cs, L, u)
  OBVIOUS
<1>4. t \in ThreadStates /\ st.cs \in CStacks
  BY <1>1 DEF CallStates
<1>5. t.size \in Nat /\ t.nCcalls \in Int /\ n \in Int
  BY <1>1, <1>4, ThreadFacts
<1>6. u \in ThreadStates /\ u.nCcalls = n /\ u.size = t.size
  BY <1>2, <1>4, <1>5 DEF ThreadStates
<1>7. cs \in CStacks
  <2>1. r \in CRecords
    BY <1>1, CallRecord
  <2> QED BY <1>2, <1>4, <2>1, Appended DEF Grown
<1>8. g \in CallStates /\ g.cs = cs /\ g.th[L] = u
  BY <1>3, <1>6, <1>7, WithFacts
<1>9. \A x, y : Attempt(x, y).st = x /\ Attempt(x, y).again = y
  BY DEF Attempt
<1>10. PICK no : no \in BOOLEAN /\ no = FALSE
  OBVIOUS
<1>11. ~no
  BY <1>10, Zenon
<1>12. \A x : b # Attempt(x, no)
  BY <1>9, <1>11
<1>13. \A x : b # Attempt(x, FALSE)
  BY <1>10, <1>12, Zenon
<1>14. b = TryCall(st, L, kind, TRUE)
  BY <1>1, <1>13 DEF TryHandler
<1>15. PICK ci, cs2 : ci = Append(t.ci, kind) /\ cs2 = Append(st.cs, CRecord(BodyOf(kind), L, TRUE, TRUE))
  OBVIOUS
<1>16. (b = Attempt(g, TRUE) /\ n = MAXCCALLS) \/ b = Precall(g, L, ci, cs2)
  BY <1>1, <1>2, <1>3, <1>13, <1>14, <1>15 DEF TryCall
<1>17. CASE b = Attempt(g, TRUE) /\ n = MAXCCALLS
  <2>1. b.st = g
    BY <1>9, <1>17
  <2> QED BY <1>1, <1>6, <1>8, <1>17, <2>1 DEF Spent
<1>18. CASE b = Precall(g, L, ci, cs2)
  <2>1. b = GrowCI(g, L) /\ 2 * u.size > MAXCALLS
    BY <1>8, <1>13, <1>18 DEF Precall
  <2>2. PICK v : v = [u EXCEPT !.size = 2 * u.size]
    OBVIOUS
  <2>3. ~(u.size > MAXCALLS) /\ b = Attempt(With(g, g.cs, L, v), 2 * u.size > MAXCALLS)
    BY <1>8, <1>13, <2>1, <2>2 DEF GrowCI
  <2>4. u.size \in Nat /\ 2 * u.size \in Nat
    BY <1>5, <1>6
  <2>5. v \in ThreadStates /\ v.nCcalls = u.nCcalls /\ v.size = 2 * u.size
    BY <1>6, <2>2, <2>4 DEF ThreadStates
  <2>6. PICK x : x = With(g, g.cs, L, v)
    OBVIOUS
  <2>7. x.th[L] = v
    BY <1>7, <1>8, <2>5, <2>6, WithFacts
  <2>8. b.st = x
    BY <1>9, <2>3, <2>6
  <2>9. b.st.th[L].nCcalls = t.nCcalls + 1 /\ t.size <= MAXCALLS /\ b.st.th[L].size > MAXCALLS
    <3>1. v.size > MAXCALLS
      BY <2>1, <2>5
    <3>2. t.size <= MAXCALLS
      BY <1>5, <1>6, <2>3, LimitsAssumption
    <3> QED BY <1>1, <1>6, <2>5, <2>7, <2>8, <3>1, <3>2
  <2> QED BY <1>1, <2>9 DEF Spent
<1> QED BY <1>16, <1>17, <1>18

\* So three handlers are enough: there is no error left after Settled.
LEMMA SettledEnds ==
    ASSUME NEW a, NEW L, AttemptGood(a, L)
    PROVE  ~Handled(Handled(Handled(a, L), L), L).again
<1> SUFFICES ASSUME Handled(Handled(Handled(a, L), L), L).again PROVE FALSE
  OBVIOUS
<1>1. PICK b, c, d : b = Handled(a, L) /\ c = Handled(b, L) /\ d = Handled(c, L)
  OBVIOUS
<1>2. d.again
  BY <1>1
<1>3. c.again /\ d = TryHandler(c.st, L)
  BY <1>1, <1>2 DEF Handled
<1>4. b.again /\ c = TryHandler(b.st, L)
  BY <1>1, <1>3 DEF Handled
<1>5. a.again /\ b = TryHandler(a.st, L)
  BY <1>1, <1>4 DEF Handled
<1>6. AttemptGood(b, L) /\ AttemptGood(c, L)
  BY <1>1, HandledGood
<1>7. ASSUME NEW x, AttemptGood(x, L), x.again
      PROVE  x.st \in CallStates /\ L \in Threads /\ x.st.th[L].size \in Nat /\ x.st.th[L].nCcalls \in Int
  <2>1. CallsGood(x.st) /\ Runs(x.st, L)
    BY <1>7 DEF AttemptGood
  <2>2. x.st \in CallStates /\ L \in Threads /\ x.st.th[L] \in ThreadStates
    BY <2>1, Running
  <2> QED BY <2>2, ThreadFacts
<1>8. PICK t, u, v, w : t = a.st.th[L] /\ u = b.st.th[L] /\ v = c.st.th[L] /\ w = d.st.th[L]
  OBVIOUS
<1>9. Spent(t, u) /\ Spent(u, v) /\ Spent(v, w)
  BY <1>2, <1>3, <1>4, <1>5, <1>6, <1>7, <1>8, HandlerFails
<1>10. t.size \in Nat /\ t.nCcalls \in Int /\ u.size \in Nat /\ v.size \in Nat
  BY <1>3, <1>4, <1>5, <1>6, <1>7, <1>8
<1> QED BY <1>9, <1>10, LimitsAssumption DEF Spent

\* A record that counts something else.
LEMMA RetopRecord ==
    ASSUME NEW r \in CRecords, NEW m \in Nat, NEW q, q = [r EXCEPT !.n = m]
    PROVE  q \in CRecords /\ q.k = r.k /\ q.th = r.th /\ q.call = r.call /\ q.n = m
  BY DEF CRecords

\* luaV_execute has m frames now.
LEMMA ExecGood ==
    ASSUME NEW st, CallsGood(st), NEW L, Runs(st, L), NEW r, r = Last(st.cs), r.k = "exec", NEW m \in Nat, m >= 1,
           NEW ci \in CallInfos, Len(ci) = Len(st.th[L].ci) - r.n + m
    PROVE  TopN(st.cs, m) \in CStacks /\ CallsGood(Entered(st, L, ci, TopN(st.cs, m)))
<1>1. PICK t : t = st.th[L]
  OBVIOUS
<1>2. PICK q : q = [r EXCEPT !.n = m]
  OBVIOUS
<1>3. PICK cs : cs = TopN(st.cs, m)
  OBVIOUS
<1>4. PICK u : u = [t EXCEPT !.ci = ci]
  OBVIOUS
<1>5. PICK g : g = With(st, cs, L, u)
  OBVIOUS
<1>6. /\ L \in Threads /\ t \in ThreadStates /\ r \in CRecords /\ r.th = L /\ t.nCcalls <= MAXCCALLS + Margin
      /\ st.cs \in CStacks
  BY <1>1, Running
<1>7. q \in CRecords /\ q.k = r.k /\ q.th = r.th /\ q.call = r.call /\ q.n = m
  BY <1>2, <1>6, RetopRecord
<1>8. u \in ThreadStates /\ u.ci = ci /\ u.nCcalls = t.nCcalls /\ Unchanged(t, u)
  BY <1>4, <1>6, FramedThread
<1>9. Retopped(st.cs, q, cs)
  BY <1>2, <1>3 DEF Retopped, TopN
<1>10. Changed(t, u, L, r, q)
  <2>1. LevelOf(q) = LevelOf(r) /\ LevelOf(r) \in Nat
    BY <1>6, <1>7, LevelOfIs
  <2>2. FrameOf(r, L) = r.n /\ FrameOf(q, L) = m /\ r.n \in Nat
    BY <1>6, <1>7, FrameOfIs, RecordFacts
  <2>3. u.nCcalls = t.nCcalls - LevelOf(r) + LevelOf(q)
    BY <1>6, <1>8, <2>1, ThreadFacts
  <2>4. Len(u.ci) = Len(t.ci) - FrameOf(r, L) + FrameOf(q, L)
    BY <1>1, <1>8, <2>2
  <2> QED BY <1>8, <2>3, <2>4 DEF Changed
<1>11. g.cs = cs /\ (u.nCcalls <= MAXCCALLS + Margin => CallsGood(g))
  <2>1. Continues(r, q)
    BY <1>7 DEF Continues
  <2>2. q \in CRecords /\ u \in ThreadStates
    BY <1>7, <1>8
  <2>3. WentOn(st, cs, L, u, g)
    BY <1>1, <1>5, <1>9, <1>10, <2>1, <2>2, ChangeGood
  <2> QED BY <2>3 DEF WentOn
<1>12. CallsGood(g)
  BY <1>6, <1>8, <1>11
<1>13. Entered(st, L, ci, cs) = g
  BY <1>1, <1>4, <1>5 DEF Entered
<1>14. cs \in CStacks
  BY <1>11, <1>12 DEF CallsGood, Unwound, CallStates
<1> QED BY <1>3, <1>12, <1>13, <1>14

\* A tail call: as many frames as before.
LEMMA SameFramesFit ==
    ASSUME NEW t, NEW u, Unchanged(t, u), u.nCcalls = t.nCcalls, Len(u.ci) = Len(t.ci), NEW cs, NEW L, NEW h,
           Fits(cs, t, L, h)
    PROVE  Fits(cs, u, L, h)
<1>1. Height(cs, L, h)
  BY DEF Fits
<1>2. Counts(cs, u, L, h)
  BY DEF Fits, Counts, Unchanged
<1>3. Lives(u, L, h)
  BY DEF Fits, Lives, Unchanged
<1>4. Guards(cs, u, L, h)
  BY DEF Fits, Guards, Unchanged
<1> QED BY <1>1, <1>2, <1>3, <1>4 DEF Fits

\* A thread has changed, but nothing that the C stack accounts for.
LEMMA SameStackGood ==
    ASSUME NEW st, CallsGood(st), NEW L \in Threads, NEW u \in ThreadStates,
           \A h \in Nat : Fits(st.cs, st.th[L], L, h) => Fits(st.cs, u, L, h), NEW g, g = With(st, st.cs, L, u)
    PROVE  CallsGood(g) /\ g.cs = st.cs /\ g.th[L] = u
<1> DEFINE a == st.cs
<1>1. a \in CStacks /\ (\E h \in Nat : Fits(a, st.th[L], L, h)) /\ StackOK(a) /\ Unwound(st)
  BY DEF Unwound, CallStates, CallsGood
<1>2. PICK h \in Nat : Fits(a, u, L, h)
  BY <1>1
<1>3. Same(a, a, Len(a)) /\ Owns(a, L, Len(a)) /\ RestOK(a, Len(a))
  BY <1>1, StackFacts DEF Same, Owns, RestOK
<1>4. Unwound(g) /\ g.cs = a /\ g.th[L] = u
  BY <1>1, <1>2, <1>3, Moved
<1> QED BY <1>4 DEF CallsGood

\* OP_TAILCALL: as many frames as before.
LEMMA TailGood ==
    ASSUME NEW st, CallsGood(st), NEW L, Runs(st, L), NEW ci \in CallInfos, Len(ci) = Len(st.th[L].ci)
    PROVE  CallsGood(Entered(st, L, ci, st.cs))
<1>1. PICK t : t = st.th[L]
  OBVIOUS
<1>2. PICK u : u = [t EXCEPT !.ci = ci]
  OBVIOUS
<1>3. L \in Threads /\ t \in ThreadStates
  BY <1>1, Running
<1>4. u \in ThreadStates /\ u.ci = ci /\ u.nCcalls = t.nCcalls /\ Unchanged(t, u)
  BY <1>2, <1>3, FramedThread
<1>5. \A h \in Nat : Fits(st.cs, st.th[L], L, h) => Fits(st.cs, u, L, h)
  <2>1. Len(u.ci) = Len(t.ci)
    BY <1>1, <1>4
  <2> QED BY <1>1, <1>4, <2>1, SameFramesFit
<1>6. CallsGood(With(st, st.cs, L, u))
  BY <1>3, <1>4, <1>5, SameStackGood
<1> QED BY <1>1, <1>2, <1>6 DEF Entered

\* A frame has been left.
LEMMA OneFrameLess ==
    ASSUME NEW ci \in CallInfos, Len(ci) # 0
    PROVE  PopC(ci) \in CallInfos /\ Len(PopC(ci)) = Len(ci) - 1
<1>1. PICK n : n = Len(ci) - 1
  OBVIOUS
<1>2. n \in Nat /\ n <= Len(ci) /\ ci \in Seq({"base", "L", "C"})
  BY <1>1 DEF CallInfos
<1>3. SubSeq(ci, 1, n) \in Seq({"base", "L", "C"}) /\ Len(SubSeq(ci, 1, n)) = n
  BY <1>2
<1> QED BY <1>1, <1>3 DEF CallInfos, PopC

\* luaV_execute calls a C function.
LEMMA PlacedCFun ==
    ASSUME NEW a \in CStacks, NEW n \in Nat, n = Len(a), n # 0, NEW L, a[n].th = L, a[n].k = "exec", PlacedAt(a, n),
           NEW r \in CRecords, r.th = L, r.k = "cfun",
           NEW cs \in CStacks, Len(cs) = n + 1, Same(a, cs, n), cs[n + 1] = r
    PROVE  PlacedAt(cs, Len(cs)) /\ SavedAt(cs, Len(cs))
<1>0. n # 1
  BY DEF PlacedAt
<1>1. cs[Len(cs)] = r /\ cs[Len(cs) - 1] = a[n] /\ Len(cs) > 2
  BY <1>0 DEF Same
<1>2. PlacedAt(cs, Len(cs))
  BY <1>1 DEF PlacedAt
<1>3. SavedAt(cs, Len(cs))
  BY <1>1 DEF SavedAt, CatchesOf
<1> QED BY <1>2, <1>3

\* A C function that luaV_execute calls itself.
LEMMA CFunRecord ==
    ASSUME NEW L \in Threads, NEW r, r = CRecord("cfun", L, FALSE, FALSE)
    PROVE  r \in CRecords /\ r.k = "cfun" /\ r.th = L /\ LevelOf(r) = 0 /\ FrameOf(r, L) = 1
<1>1. "cfun" \in Kinds /\ FALSE \in BOOLEAN
  BY DEF Kinds
<1>2. r \in CRecords /\ r.k = "cfun" /\ r.th = L /\ r.call = FALSE
  BY <1>1, NoSaveIs DEF CRecord, CRecords
<1>3. ~r.call
  BY <1>2, Zenon
<1>4. LevelOf(r) = 0
  BY <1>2, <1>3, LevelOfIs
<1>5. FrameOf(r, L) = 1
  BY <1>2, FrameOfIs
<1> QED BY <1>2, <1>3, <1>4, <1>5

\* It is on top of the loop.
LEMMA CFunGood ==
    ASSUME NEW st, CallsGood(st), NEW L, Runs(st, L), Last(st.cs).k = "exec",
           NEW ci \in CallInfos, Len(ci) = Len(st.th[L].ci) + 1,
           NEW r \in CRecords, r.k = "cfun", r.th = L, LevelOf(r) = 0, FrameOf(r, L) = 1, NEW cs, Grown(st.cs, r, cs)
    PROVE  cs \in CStacks /\ CallsGood(Entered(st, L, ci, cs))
<1>1. PICK t : t = st.th[L]
  OBVIOUS
<1>2. PICK n : n = Len(st.cs)
  OBVIOUS
<1>4. PICK u : u = [t EXCEPT !.ci = ci]
  OBVIOUS
<1>5. PICK g : g = With(st, cs, L, u)
  OBVIOUS
<1>6. /\ L \in Threads /\ t \in ThreadStates /\ t.nCcalls <= MAXCCALLS + Margin /\ st.cs \in CStacks
      /\ n \in Nat /\ n # 0 /\ st.cs[n].th = L /\ st.cs[n].k = "exec" /\ PlacedAt(st.cs, n)
  <2>1. n \in Nat /\ n # 0
    BY <1>2, TopFits DEF CallsGood, Runs
  <2> QED BY <1>1, <1>2, <2>1, Running
<1>8. u \in ThreadStates /\ u.ci = ci /\ u.nCcalls = t.nCcalls /\ Unchanged(t, u)
  BY <1>4, <1>6, FramedThread
<1>10. cs \in CStacks /\ Len(cs) = n + 1 /\ Same(st.cs, cs, n) /\ cs[n + 1] = r
  BY <1>2, <1>6, Appended
<1>11. PlacedAt(cs, Len(cs)) /\ SavedAt(cs, Len(cs))
  BY <1>2, <1>6, <1>10, PlacedCFun
<1>12. Pushed(t, u, L, r, Len(st.cs))
  <2>1. u.nCcalls = t.nCcalls + LevelOf(r) /\ Len(u.ci) = Len(t.ci) + FrameOf(r, L) /\ r.k # "pcall"
    BY <1>1, <1>6, <1>8, ThreadFacts
  <2> QED BY <1>8, <2>1, UnchangedPushed
<1>13. u.nCcalls <= MAXCCALLS + Margin => CallsGood(g)
  <2>1. r.k # "resume" /\ u \in ThreadStates
    BY <1>8
  <2> QED BY <1>1, <1>5, <1>11, <1>12, <2>1, PushGood
<1>14. Entered(st, L, ci, cs) = g
  BY <1>1, <1>4, <1>5 DEF Entered
<1> QED BY <1>6, <1>8, <1>10, <1>13, <1>14

-----------------------------------------------------------------------------
(***************************************************************************)
(* The actions                                                             *)
(***************************************************************************)

\* The function that runs.
LEMMA NowRuns ==
    ASSUME CallsInv, state.cs # <<>>
    PROVE  /\ CallsGood(state) /\ Runs(state, cur) /\ CTop = Last(state.cs) /\ cur \in Threads /\ me \in ThreadStates
           /\ CTop \in CRecords /\ CTop.th = cur /\ me.ci \in CallInfos /\ me = state.th[cur] /\ CTop.n \in Nat
           /\ FrameOf(CTop, cur) \in Nat /\ (CTop.k \in {"exec", "cfun"} => FrameOf(CTop, cur) <= Len(me.ci) - 1)
<1>1. CallsGood(state) /\ Runs(state, cur) /\ CTop = Last(state.cs) /\ me = state.th[cur]
  BY DEF CallsInv, Runs, cur, CTop, me
<1>2. PICK L : L = cur
  OBVIOUS
<1>3. PICK r : r = CTop
  OBVIOUS
<1>4. CallsGood(state) /\ Runs(state, L) /\ r = Last(state.cs)
  BY <1>1, <1>2, <1>3
<1>5. /\ L \in Threads /\ state.th[L] \in ThreadStates /\ r \in CRecords /\ r.th = L
      /\ r.k \in {"exec", "cfun"} => FrameOf(r, L) <= Len(state.th[L].ci) - 1
  BY <1>4, Running
<1>6. FrameOf(r, L) \in Nat /\ r.n \in Nat /\ state.th[L].ci \in CallInfos
  BY <1>5, FrameOfIs, RecordFacts, ThreadFacts
<1> QED BY <1>1, <1>2, <1>3, <1>5, <1>6

\* OP_CALL of a Lua function
LEMMA VMCallLuaKeeps == ASSUME CallsInv, VMCallLua PROVE CallsInv'
<1> DEFINE ci == Append(me.ci, "L")
           cs == TopN(state.cs, CTop.n + 1)
<1>1. state.cs # <<>> /\ CTop.k = "exec" /\ state' = Settled(Precall(state, cur, ci, cs), cur)
  BY DEF VMCallLua, CRuns
<1>2. PICK L, r, t : L = cur /\ r = CTop /\ t = me
  OBVIOUS
<1>3. /\ CallsGood(state) /\ Runs(state, L) /\ r = Last(state.cs) /\ t.ci \in CallInfos /\ t = state.th[L] /\ r.n \in Nat
      /\ r.k = "exec"
  BY <1>1, <1>2, NowRuns
<1>4. PICK m : m = r.n + 1
  OBVIOUS
<1>5. ci \in CallInfos /\ Len(ci) = Len(t.ci) + 1
  <2>1. "L" \in {"base", "L", "C"} /\ ci = Append(t.ci, "L")
    BY <1>2
  <2> QED BY <1>3, <2>1, OneFrameMore
<1>6. cs = TopN(state.cs, m)
  BY <1>2, <1>4
<1>7. Len(ci) = Len(state.th[L].ci) - r.n + m /\ m \in Nat /\ m >= 1
  <2>1. Len(t.ci) \in Nat
    BY <1>3 DEF CallInfos
  <2> HIDE DEF ci
  <2> QED BY <1>3, <1>4, <1>5, <2>1
<1> HIDE DEF ci, cs
<1>8. cs \in CStacks /\ CallsGood(Entered(state, L, ci, cs))
  BY <1>3, <1>5, <1>6, <1>7, ExecGood
<1>9. CallsGood(Settled(Precall(state, L, ci, cs), L))
  BY <1>3, <1>5, <1>8, SettledPrecallGood
<1> QED BY <1>1, <1>2, <1>9 DEF CallsInv

\* OP_CALL of a C function
LEMMA VMCallCKeeps == ASSUME CallsInv, VMCallC PROVE CallsInv'
<1> DEFINE ci == Append(me.ci, "C")
           b == CRecord("cfun", cur, FALSE, FALSE)
           cs == Append(state.cs, b)
<1>1. state.cs # <<>> /\ CTop.k = "exec" /\ state' = Settled(Precall(state, cur, ci, cs), cur)
  BY DEF VMCallC, CRuns
<1>2. PICK L, t : L = cur /\ t = me
  OBVIOUS
<1>3. /\ CallsGood(state) /\ Runs(state, L) /\ Last(state.cs).k = "exec" /\ t.ci \in CallInfos /\ t = state.th[L]
  BY <1>1, <1>2, NowRuns
<1>5. ci \in CallInfos /\ Len(ci) = Len(t.ci) + 1
  <2>1. "C" \in {"base", "L", "C"} /\ ci = Append(t.ci, "C")
    BY <1>2
  <2> QED BY <1>3, <2>1, OneFrameMore
<1>6. Grown(state.cs, b, cs) /\ L \in Threads
  BY <1>1, <1>2, NowRuns DEF Grown
<1>7. b \in CRecords /\ b.k = "cfun" /\ b.th = L /\ LevelOf(b) = 0 /\ FrameOf(b, L) = 1
  BY <1>2, <1>6, CFunRecord
<1> HIDE DEF ci, cs, b
<1>8. cs \in CStacks /\ CallsGood(Entered(state, L, ci, cs))
  <2>1. Len(ci) = Len(state.th[L].ci) + 1
    BY <1>3, <1>5
  <2> QED BY <1>3, <1>5, <1>6, <1>7, <2>1, CFunGood
<1>9. CallsGood(Settled(Precall(state, L, ci, cs), L))
  BY <1>3, <1>5, <1>8, SettledPrecallGood
<1> QED BY <1>1, <1>2, <1>9 DEF CallsInv

\* OP_TAILCALL
LEMMA VMTailCallKeeps == ASSUME CallsInv, VMTailCall PROVE CallsInv'
<1> DEFINE ci == Append(PopC(me.ci), "L")
<1>1. state.cs # <<>> /\ CTop.k = "exec" /\ state' = Settled(Precall(state, cur, ci, state.cs), cur)
  BY DEF VMTailCall, CRuns
<1>2. PICK L, t : L = cur /\ t = me
  OBVIOUS
<1>3. /\ CallsGood(state) /\ Runs(state, L) /\ t.ci \in CallInfos /\ t = state.th[L] /\ Len(t.ci) \in Nat /\ Len(t.ci) # 0
  <2>1. /\ CallsGood(state) /\ Runs(state, L) /\ t.ci \in CallInfos /\ t = state.th[L]
        /\ FrameOf(CTop, cur) \in Nat /\ FrameOf(CTop, cur) <= Len(t.ci) - 1
    BY <1>1, <1>2, NowRuns
  <2>2. Len(t.ci) \in Nat
    BY <2>1 DEF CallInfos
  <2>3. Len(t.ci) # 0
    BY <2>1, <2>2
  <2> QED BY <2>1, <2>2, <2>3
<1>4. PopC(t.ci) \in CallInfos /\ Len(PopC(t.ci)) = Len(t.ci) - 1
  BY <1>3, OneFrameLess
<1>5. ci \in CallInfos /\ Len(ci) = Len(t.ci)
  <2>1. "L" \in {"base", "L", "C"} /\ ci = Append(PopC(t.ci), "L")
    BY <1>2
  <2>2. ci \in CallInfos /\ Len(ci) = Len(PopC(t.ci)) + 1
    BY <1>4, <2>1, OneFrameMore
  <2> QED BY <1>3, <1>4, <2>2
<1> HIDE DEF ci
<1>8. state.cs \in CStacks /\ CallsGood(Entered(state, L, ci, state.cs))
  <2>1. Len(ci) = Len(state.th[L].ci)
    BY <1>3, <1>5
  <2>2. CallsGood(Entered(state, L, ci, state.cs))
    BY <1>3, <1>5, <2>1, TailGood
  <2> QED BY <1>3, <2>2, Running
<1>9. CallsGood(Settled(Precall(state, L, ci, state.cs), L))
  BY <1>3, <1>5, <1>8, SettledPrecallGood
<1> QED BY <1>1, <1>2, <1>9 DEF CallsInv

\* callTMres, callTM
LEMMA VMCallMetaKeeps == ASSUME CallsInv, NEW kind \in {"L", "C"}, VMCallMeta(kind) PROVE CallsInv'
<1>1. state.cs # <<>> /\ state' = CallD(state, cur, kind, FALSE)
  BY DEF VMCallMeta, CRuns
<1>2. CallsGood(state) /\ Runs(state, cur)
  BY <1>1, NowRuns
<1>3. CallsGood(CallD(state, cur, kind, FALSE))
  BY <1>2, CallDGood
<1> QED BY <1>1, <1>3 DEF CallsInv

\* OP_RETURN
LEMMA VMReturnKeeps == ASSUME CallsInv, VMReturn PROVE CallsInv'
<1> DEFINE ci == PopC(me.ci)
           cs == TopN(state.cs, CTop.n - 1)
<1>1. /\ state.cs # <<>> /\ CTop.k = "exec"
      /\ state' = IF CTop.n > 1 THEN Entered(state, cur, ci, cs) ELSE Returned(state, ci)
  BY DEF VMReturn
<1>2. PICK L, r, t : L = cur /\ r = CTop /\ t = me
  OBVIOUS
<1>3. /\ CallsGood(state) /\ Runs(state, L) /\ r = Last(state.cs) /\ t.ci \in CallInfos /\ t = state.th[L] /\ r.n \in Nat
      /\ r.k = "exec" /\ FrameOf(r, L) <= Len(t.ci) - 1 /\ r \in CRecords /\ r.th = L
  BY <1>1, <1>2, NowRuns
<1>4. FrameOf(r, L) = r.n /\ r.n >= 1
  <2>1. PlacedAt(state.cs, Len(state.cs)) /\ r = state.cs[Len(state.cs)]
    BY <1>3, Running
  <2>2. r.n >= 1
    BY <1>3, <2>1 DEF PlacedAt
  <2> QED BY <1>3, <2>2, FrameOfIs
<1>5. Len(t.ci) \in Nat
  BY <1>3 DEF CallInfos
<1>6. ci \in CallInfos /\ Len(ci) = Len(t.ci) - 1
  <2>1. Len(t.ci) # 0 /\ ci = PopC(t.ci)
    BY <1>2, <1>3, <1>4, <1>5
  <2> QED BY <1>3, <2>1, OneFrameLess
<1>7. PICK m : m = r.n - 1
  OBVIOUS
<1>8. cs = TopN(state.cs, m)
  BY <1>2, <1>7
<1> HIDE DEF ci, cs
<1>9. CASE r.n > 1
  <2>1. Len(ci) = Len(state.th[L].ci) - r.n + m /\ m \in Nat /\ m >= 1
    <3>1. r.n \in Nat /\ t = state.th[L]
      BY <1>3
    <3>2. m \in Nat /\ m >= 1 /\ m = r.n - 1
      BY <1>7, <1>9, <3>1
    <3>3. \A x, y, z \in Nat : z = y - 1 => x - 1 = x - y + z
      OBVIOUS
    <3>4. Len(ci) = Len(t.ci) - r.n + m
      BY <1>5, <1>6, <3>1, <3>2, <3>3
    <3> QED BY <3>1, <3>2, <3>4
  <2>2. CallsGood(Entered(state, L, ci, TopN(state.cs, m)))
    BY <1>3, <1>6, <2>1, ExecGood
  <2> QED BY <1>1, <1>2, <1>8, <1>9, <2>2 DEF CallsInv
<1>10. CASE ~(r.n > 1)
  <2>1. Len(ci) = Len(state.th[L].ci) - FrameOf(r, L)
    BY <1>3, <1>4, <1>5, <1>6, <1>10
  <2>2. r.k \in {"exec", "cfun", "parser"} /\ (r.k = "parser" => r.n = 0)
    BY <1>3
  <2>3. CallsGood(Returned(state, ci))
    BY <1>3, <1>6, <2>1, <2>2, ReturnedGood
  <2> QED BY <1>1, <1>2, <1>10, <2>3 DEF CallsInv
<1> QED BY <1>9, <1>10

\* A C function returns.
LEMMA CReturnKeeps == ASSUME CallsInv, CReturn PROVE CallsInv'
<1> DEFINE ci == PopC(me.ci)
<1>1. state.cs # <<>> /\ CTop.k = "cfun" /\ state' = Returned(state, ci)
  BY DEF CReturn
<1>2. PICK L, r, t : L = cur /\ r = CTop /\ t = me
  OBVIOUS
<1>3. /\ CallsGood(state) /\ Runs(state, L) /\ r = Last(state.cs) /\ t.ci \in CallInfos /\ t = state.th[L]
      /\ r.k = "cfun" /\ FrameOf(r, L) <= Len(t.ci) - 1 /\ r \in CRecords /\ r.th = L
  BY <1>1, <1>2, NowRuns
<1>4. FrameOf(r, L) = 1
  BY <1>3, FrameOfIs
<1>5. Len(t.ci) \in Nat
  BY <1>3 DEF CallInfos
<1>6. ci \in CallInfos /\ Len(ci) = Len(t.ci) - 1
  <2>1. Len(t.ci) # 0 /\ ci = PopC(t.ci)
    BY <1>2, <1>3, <1>4, <1>5
  <2> QED BY <1>3, <2>1, OneFrameLess
<1> HIDE DEF ci
<1>7. Len(ci) = Len(state.th[L].ci) - FrameOf(r, L)
  BY <1>3, <1>4, <1>6
<1>8. r.k \in {"exec", "cfun", "parser"} /\ (r.k = "parser" => r.n = 0)
  BY <1>3
<1>9. CallsGood(Returned(state, ci))
  BY <1>3, <1>6, <1>7, <1>8, ReturnedGood
<1> QED BY <1>1, <1>9 DEF CallsInv

\* luaG_runerror, lua_error
LEMMA ErrorKeeps == ASSUME CallsInv, VMError \/ CError PROVE CallsInv'
<1>1. state.cs # <<>> /\ state' = ErrorMsg(state, cur)
  BY DEF VMError, CError, CRuns
<1>2. CallsGood(state) /\ Runs(state, cur)
  BY <1>1, NowRuns
<1>3. CallsGood(ErrorMsg(state, cur))
  BY <1>2, ErrorMsgGood
<1> QED BY <1>1, <1>3 DEF CallsInv

\* checkstacksizes
LEMMA ShrinkCIKeeps == ASSUME CallsInv, NEW L \in Threads, ShrinkCI(L) PROVE CallsInv'
<1>1. PICK t, n : t = state.th[L] /\ n = t.size \div 2
  OBVIOUS
<1>2. state' = With(state, state.cs, L, [t EXCEPT !.size = n])
  BY <1>1 DEF ShrinkCI
<1>3. Unwound(state) /\ t \in ThreadStates /\ n \in Nat
  <2>1. Unwound(state) /\ t \in ThreadStates
    BY <1>1 DEF CallsInv, CallsGood, Unwound, CallStates
  <2>2. t.size \in Nat
    BY <2>1, ThreadFacts
  <2> QED BY <1>1, <2>1, <2>2
<1>4. PICK g : g = With(state, state.cs, L, [t EXCEPT !.size = n])
  OBVIOUS
<1>5. Unwound(g) /\ g.cs = state.cs
  BY <1>1, <1>3, <1>4, ResizeGood
<1>6. CallsGood(g)
  BY <1>5 DEF CallsInv, CallsGood
<1> QED BY <1>2, <1>4, <1>6 DEF CallsInv

\* lua_call
LEMMA CCallKeeps == ASSUME CallsInv, NEW kind \in {"L", "C"}, CCall(kind) PROVE CallsInv'
<1>1. state.cs # <<>> /\ state' = CallD(state, cur, kind, FALSE)
  BY DEF CCall, CRuns
<1>2. CallsGood(state) /\ Runs(state, cur)
  BY <1>1, NowRuns
<1>3. CallsGood(CallD(state, cur, kind, FALSE))
  BY <1>2, CallDGood
<1> QED BY <1>1, <1>3 DEF CallsInv

\* generic_reader
LEMMA ParserReadKeeps == ASSUME CallsInv, ParserRead PROVE CallsInv'
<1>1. state.cs # <<>> /\ state' = CallD(state, cur, "L", FALSE)
  BY DEF ParserRead, CRuns
<1>2. CallsGood(state) /\ Runs(state, cur)
  BY <1>1, NowRuns
<1>3. CallsGood(CallD(state, cur, "L", FALSE))
  BY <1>2, CallDGood
<1> QED BY <1>1, <1>3 DEF CallsInv

\* luaD_pcall and the call in it.
LEMMA PcallGood ==
    ASSUME NEW st, CallsGood(st), NEW L, Runs(st, L), Last(st.cs).k = "cfun", NEW errfunc \in Handlers, NEW kind \in {"L", "C"}
    PROVE  CallsGood(CallD(Protect(st, L, errfunc), L, kind, FALSE))
<1>1. PICK g : g = Protect(st, L, errfunc)
  OBVIOUS
<1>2. CallsGood(g) /\ Runs(g, L)
  BY <1>1, ProtectGood
<1>3. CallsGood(CallD(g, L, kind, FALSE))
  BY <1>2, CallDGood
<1> QED BY <1>1, <1>3

\* lua_pcall, docall
LEMMA PcallKeeps == ASSUME CallsInv, DoCall \/ \E kind \in {"L", "C"}, errfunc \in {"none", "L"} : CPcall(kind, errfunc) PROVE CallsInv'
<1>1. \E kind \in {"L", "C"}, errfunc \in Handlers : state' = CallD(Protect(state, cur, errfunc), cur, kind, FALSE)
  BY DEF DoCall, CPcall, Handlers
<1>2. PICK kind \in {"L", "C"}, errfunc \in Handlers : state' = CallD(Protect(state, cur, errfunc), cur, kind, FALSE)
  BY <1>1
<1>3. state.cs # <<>> /\ CTop.k = "cfun"
  BY DEF DoCall, CPcall, CRuns
<1>4. CallsGood(state) /\ Runs(state, cur) /\ Last(state.cs).k = "cfun"
  BY <1>3, NowRuns
<1>5. CallsGood(CallD(Protect(state, cur, errfunc), cur, kind, FALSE))
  BY <1>4, PcallGood
<1> QED BY <1>2, <1>5 DEF CallsInv

\* The hook of the main thread does not matter.
LEMMA HookedGood ==
    ASSUME NEW st, CallsGood(st), NEW b \in BOOLEAN, NEW g, g = [st EXCEPT !.hook = b]
    PROVE  CallsGood(g) /\ g.cs = st.cs /\ g.th = st.th
<1>1. st \in CallStates
  BY DEF CallsGood, Unwound
<1>2. g \in CallStates /\ g.cs = st.cs /\ g.th = st.th /\ g.lost = st.lost
  BY <1>1 DEF CallStates
<1> QED BY <1>2 DEF CallsGood, Unwound

\* laction
LEMMA SigintKeeps == ASSUME CallsInv, Sigint PROVE CallsInv'
<1>1. PICK b : b \in BOOLEAN /\ b = TRUE
  OBVIOUS
<1>2. state' = [state EXCEPT !.hook = b]
  BY <1>1 DEF Sigint
<1>3. CallsGood(state')
  BY <1>1, <1>2, HookedGood DEF CallsInv
<1> QED BY <1>3 DEF CallsInv

\* The hook of the main thread.
Stopped(t) == [t EXCEPT !.allowhook = FALSE]
StoppedAs(t, u) ==
    /\ u.ci = t.ci /\ u.nCcalls = t.nCcalls /\ u.baseCcalls = t.baseCcalls /\ u.status = t.status /\ u.fresh = t.fresh
    /\ u.jmp = t.jmp /\ u.errfunc = t.errfunc

\* The fields of a thread in a hook.
LEMMA StoppedRecord ==
    ASSUME NEW t \in ThreadStates, NEW u, u = Stopped(t)
    PROVE  u \in ThreadStates /\ StoppedAs(t, u)
<1>1. PICK b : b \in BOOLEAN /\ b = FALSE
  OBVIOUS
<1>2. u = [t EXCEPT !.allowhook = b]
  BY <1>1 DEF Stopped
<1> QED BY <1>1, <1>2 DEF ThreadStates, StoppedAs

\* The record of a hook.
LEMMA HookRecord ==
    ASSUME NEW L \in Threads, NEW r, r = CRecord("hook", L, FALSE, FALSE)
    PROVE  r \in CRecords /\ r.k = "hook" /\ r.th = L /\ ~r.call /\ LevelOf(r) = 0 /\ FrameOf(r, L) = 0
<1>1. "hook" \in Kinds /\ FALSE \in BOOLEAN
  BY DEF Kinds
<1>2. r \in CRecords /\ r.k = "hook" /\ r.th = L /\ r.call = FALSE
  BY <1>1, NoSaveIs DEF CRecord, CRecords
<1>3. ~r.call
  BY <1>2, Zenon
<1>4. LevelOf(r) = 0
  BY <1>2, <1>3, LevelOfIs
<1>5. FrameOf(r, L) = 0
  BY <1>2, FrameOfIs
<1> QED BY <1>2, <1>3, <1>4, <1>5

\* It is on top of the loop.
LEMMA PlacedHook ==
    ASSUME NEW a \in CStacks, NEW n \in Nat, n = Len(a), n # 0, NEW L, a[n].th = L, a[n].k = "exec", PlacedAt(a, n),
           NEW r \in CRecords, r.th = L, r.k = "hook", ~r.call,
           NEW cs \in CStacks, Len(cs) = n + 1, Same(a, cs, n), cs[n + 1] = r
    PROVE  PlacedAt(cs, Len(cs)) /\ SavedAt(cs, Len(cs))
<1>0. n # 1
  BY DEF PlacedAt
<1>1. cs[Len(cs)] = r /\ cs[Len(cs) - 1] = a[n] /\ Len(cs) > 2
  BY <1>0 DEF Same
<1>2. PlacedAt(cs, Len(cs))
  BY <1>1 DEF PlacedAt
<1>3. SavedAt(cs, Len(cs))
  BY <1>1 DEF SavedAt, CatchesOf
<1> QED BY <1>2, <1>3

\* Hooks are off while one runs.
LEMMA HookGood ==
    ASSUME NEW st, CallsGood(st), NEW L, L = Main, Runs(st, L), Last(st.cs).k = "exec",
           NEW r \in CRecords, r.k = "hook", r.th = L, ~r.call, LevelOf(r) = 0, FrameOf(r, L) = 0, NEW cs, Grown(st.cs, r, cs),
           NEW t, t = st.th[L], NEW u, u = Stopped(t), NEW g, g = With(st, cs, L, u)
    PROVE  CallsGood(g) /\ Runs(g, L)
<1>2. PICK n : n = Len(st.cs)
  OBVIOUS
<1>6. /\ L \in Threads /\ t \in ThreadStates /\ t.nCcalls <= MAXCCALLS + Margin /\ st.cs \in CStacks
      /\ n \in Nat /\ n # 0 /\ st.cs[n].th = L /\ st.cs[n].k = "exec" /\ PlacedAt(st.cs, n)
  <2>1. n \in Nat /\ n # 0
    BY <1>2, TopFits DEF CallsGood, Runs
  <2> QED BY <1>2, <2>1, Running
<1>8. u \in ThreadStates /\ StoppedAs(t, u)
  BY <1>6, StoppedRecord
<1>10. cs \in CStacks /\ Len(cs) = n + 1 /\ Same(st.cs, cs, n) /\ cs[n + 1] = r
  BY <1>2, <1>6, Appended
<1>11. PlacedAt(cs, Len(cs)) /\ SavedAt(cs, Len(cs))
  BY <1>2, <1>6, <1>10, PlacedHook
<1>12. Pushed(t, u, L, r, Len(st.cs))
  <2>1. t.nCcalls + LevelOf(r) = t.nCcalls /\ Len(t.ci) + FrameOf(r, L) = Len(t.ci)
    BY <1>6, ThreadFacts
  <2> QED BY <1>8, <2>1 DEF Pushed, StoppedAs
<1>13. Runs(g, L) /\ (u.nCcalls <= MAXCCALLS + Margin => CallsGood(g))
  <2>1. r.k # "resume" /\ u \in ThreadStates
    BY <1>8
  <2> QED BY <1>11, <1>12, <2>1, PushGood
<1>14. u.nCcalls <= MAXCCALLS + Margin
  BY <1>6, <1>8 DEF StoppedAs
<1> QED BY <1>13, <1>14

\* luaD_callhook, lstop
LEMMA InterruptedKeeps == ASSUME CallsInv, Interrupted PROVE CallsInv'
<1>1. PICK r : r = CRecord("hook", Main, FALSE, FALSE)
  OBVIOUS
<1>2. PICK cs : cs = Append(state.cs, r)
  OBVIOUS
<1>3. PICK u : u = Stopped(me)
  OBVIOUS
<1>4. PICK g : g = With(state, cs, Main, u)
  OBVIOUS
<1>5. PICK b : b \in BOOLEAN /\ b = FALSE
  OBVIOUS
<1>6. PICK h : h = [g EXCEPT !.hook = b]
  OBVIOUS
<1>7. state.cs # <<>> /\ CTop.k = "exec" /\ cur = Main /\ state' = ErrorMsg(h, Main)
  BY <1>1, <1>2, <1>3, <1>4, <1>5, <1>6 DEF Interrupted, CRuns, Stopped
<1>8. CallsGood(state) /\ Runs(state, Main) /\ Last(state.cs).k = "exec" /\ me = state.th[Main] /\ Main \in Threads
  BY <1>7, NowRuns
<1>9. Grown(state.cs, r, cs)
  BY <1>2 DEF Grown
<1>10. r \in CRecords /\ r.k = "hook" /\ r.th = Main /\ ~r.call /\ LevelOf(r) = 0 /\ FrameOf(r, Main) = 0
  BY <1>1, <1>8, HookRecord
<1>11. CallsGood(g) /\ Runs(g, Main)
  BY <1>3, <1>4, <1>8, <1>9, <1>10, HookGood
<1>12. CallsGood(h) /\ h.cs = g.cs
  BY <1>5, <1>6, <1>11, HookedGood
<1>13. Runs(h, Main)
  BY <1>11, <1>12 DEF Runs
<1>14. CallsGood(ErrorMsg(h, Main))
  BY <1>12, <1>13, ErrorMsgGood
<1> QED BY <1>7, <1>14 DEF CallsInv

\* A change to the C stack alone.
LEMMA OnlyStack ==
    ASSUME NEW st \in CallStates, NEW cs \in CStacks, NEW L \in Threads, NEW t, t = st.th[L]
    PROVE  [st EXCEPT !.cs = cs] = With(st, cs, L, t)
<1>1. st.th \in [Threads -> ThreadStates]
  BY DEF CallStates
<1>2. [st.th EXCEPT ![L] = t] = st.th
  BY <1>1
<1>3. With(st, cs, L, t) = [st EXCEPT !.cs = cs, !.th = [st.th EXCEPT ![L] = t]]
  BY DEF With
<1>4. With(st, cs, L, t) = [st EXCEPT !.cs = cs, !.th = st.th]
  BY <1>2, <1>3
<1>5. [st EXCEPT !.cs = cs, !.th = st.th] = [st EXCEPT !.cs = cs]
  BY DEF CallStates
<1> QED BY <1>4, <1>5

Parsing(L) == [CRecord("parser", L, FALSE, FALSE) EXCEPT !.n = 0]

\* The record of a parser.
LEMMA ParserRecord ==
    ASSUME NEW L \in Threads, NEW r, r = Parsing(L)
    PROVE  r \in CRecords /\ r.k = "parser" /\ r.th = L /\ ~r.call /\ LevelOf(r) = 0 /\ FrameOf(r, L) = 0
<1>1. PICK q : q = CRecord("parser", L, FALSE, FALSE)
  OBVIOUS
<1>2. q \in CRecords /\ q.k = "parser" /\ q.th = L /\ q.call = FALSE
  <2>1. "parser" \in Kinds /\ FALSE \in BOOLEAN
    BY DEF Kinds
  <2> QED BY <1>1, <2>1, NoSaveIs DEF CRecord, CRecords
<1>3. r = [q EXCEPT !.n = 0]
  BY <1>1 DEF Parsing
<1>4. r \in CRecords /\ r.k = q.k /\ r.th = L /\ r.call = q.call /\ r.n = 0
  BY <1>2, <1>3 DEF CRecords
<1>5. ~r.call
  BY <1>2, <1>4, Zenon
<1>6. r.k = "parser"
  BY <1>2, <1>4
<1>7. LevelOf(r) = 0 /\ FrameOf(r, L) = 0
  BY <1>4, <1>5, <1>6, LevelOfIs, FrameOfIs
<1> QED BY <1>4, <1>5, <1>6, <1>7

\* It is in a protected call,
LEMMA PlacedParser ==
    ASSUME NEW a \in CStacks, NEW n \in Nat, n = Len(a), n > 1, NEW L, a[n].th = L, a[n].k = "pcall",
           NEW r \in CRecords, r.th = L, r.k = "parser", ~r.call,
           NEW cs \in CStacks, Len(cs) = n + 1, Same(a, cs, n), cs[n + 1] = r
    PROVE  PlacedAt(cs, Len(cs)) /\ SavedAt(cs, Len(cs))
<1>1. cs[Len(cs)] = r /\ cs[Len(cs) - 1] = a[n] /\ Len(cs) > 2
  BY DEF Same
<1>2. PlacedAt(cs, Len(cs))
  BY <1>1 DEF PlacedAt
<1>3. SavedAt(cs, Len(cs))
  BY <1>1 DEF SavedAt, CatchesOf
<1> QED BY <1>2, <1>3

\* and it is at level 0 first.
LEMMA ParserGood ==
    ASSUME NEW st, CallsGood(st), NEW L, Runs(st, L), Last(st.cs).k = "pcall", Len(st.cs) > 1,
           NEW r \in CRecords, r.k = "parser", r.th = L, ~r.call, LevelOf(r) = 0, FrameOf(r, L) = 0, NEW cs, Grown(st.cs, r, cs),
           NEW g, g = [st EXCEPT !.cs = cs]
    PROVE  CallsGood(g)
<1>1. PICK n : n = Len(st.cs)
  OBVIOUS
<1>2. PICK t : t = st.th[L]
  OBVIOUS
<1>3. /\ L \in Threads /\ t \in ThreadStates /\ t.nCcalls <= MAXCCALLS + Margin /\ st.cs \in CStacks
      /\ n \in Nat /\ n > 1 /\ st.cs[n].th = L /\ st.cs[n].k = "pcall" /\ st \in CallStates
  <2>1. n \in Nat /\ n > 1
    BY <1>1, TopFits DEF CallsGood, Runs
  <2> QED BY <1>1, <1>2, <2>1, Running
<1>4. cs \in CStacks /\ Len(cs) = n + 1 /\ Same(st.cs, cs, n) /\ cs[n + 1] = r
  BY <1>1, <1>3, Appended
<1>5. PlacedAt(cs, Len(cs)) /\ SavedAt(cs, Len(cs))
  BY <1>1, <1>3, <1>4, PlacedParser
<1>6. Pushed(t, t, L, r, Len(st.cs))
  <2>1. t.nCcalls + LevelOf(r) = t.nCcalls /\ Len(t.ci) + FrameOf(r, L) = Len(t.ci)
    BY <1>3, ThreadFacts
  <2> QED BY <2>1 DEF Pushed
<1>7. g = With(st, cs, L, t)
  BY <1>2, <1>3, <1>4, OnlyStack
<1>8. t.nCcalls <= MAXCCALLS + Margin => CallsGood(g)
  <2>1. r.k # "resume"
    OBVIOUS
  <2> QED BY <1>2, <1>3, <1>5, <1>6, <1>7, <2>1, PushGood
<1> QED BY <1>3, <1>8

\* luaD_protectedparser
LEMMA CLoadKeeps == ASSUME CallsInv, CLoad PROVE CallsInv'
<1>1. PICK g : g = Protect(state, cur, me.errfunc)
  OBVIOUS
<1>2. PICK r : r = Parsing(cur)
  OBVIOUS
<1>3. PICK cs : cs = Append(g.cs, r)
  OBVIOUS
<1>4. state.cs # <<>> /\ CTop.k = "cfun" /\ state' = [g EXCEPT !.cs = cs]
  BY <1>1, <1>2, <1>3 DEF CLoad, CRuns, Parsing
<1>5. CallsGood(state) /\ Runs(state, cur) /\ Last(state.cs).k = "cfun" /\ cur \in Threads /\ me \in ThreadStates
  BY <1>4, NowRuns
<1>6. me.errfunc \in Handlers
  BY <1>5, ThreadFacts
<1>7. CallsGood(g) /\ Runs(g, cur) /\ Last(g.cs).k = "pcall" /\ Len(g.cs) > 1
  BY <1>1, <1>5, <1>6, ProtectGood
<1>8. r \in CRecords /\ r.k = "parser" /\ r.th = cur /\ ~r.call /\ LevelOf(r) = 0 /\ FrameOf(r, cur) = 0
  BY <1>2, <1>5, ParserRecord
<1>9. Grown(g.cs, r, cs)
  BY <1>3 DEF Grown
<1>10. CallsGood([g EXCEPT !.cs = cs])
  BY <1>7, <1>8, <1>9, ParserGood
<1> QED BY <1>4, <1>10 DEF CallsInv

\* The parser runs in the protected call below it.
LEMMA ParserTarget ==
    ASSUME NEW st, Unwound(st), NEW L, Runs(st, L), Last(st.cs).k = "parser"
    PROVE  st.cs[st.th[L].jmp].k = "pcall"
<1>1. PICK a, n, j : a = st.cs /\ n = Len(st.cs) /\ j = st.th[L].jmp
  OBVIOUS
<1>2. /\ a \in CStacks /\ n \in Nat /\ n # 0 /\ a[n].th = L /\ StackOK(a) /\ Fits(a, st.th[L], L, n) /\ a[n].k = "parser"
  BY <1>1, TopFits DEF Runs
<1>3. PlacedAt(a, n)
  BY <1>1, <1>2 DEF StackOK
<1>4. n > 1 /\ a[n - 1].k = "pcall" /\ a[n - 1].th = L
  BY <1>2, <1>3 DEF PlacedAt
<1>5. Innermost(a, L, n, j)
  BY <1>1, <1>2 DEF Fits, Guards
<1>6. ~CatchesOf(a[n], L) /\ CatchesOf(a[n - 1], L)
  BY <1>2, <1>4 DEF CatchesOf
<1>7. j = n - 1
  <2>1. j \in 0..n /\ (j # 0 => CatchesOf(a[j], L)) /\ \A m \in 1..n : m > j => ~CatchesOf(a[m], L)
    BY <1>5 DEF Innermost
  <2>2. n - 1 \in 1..n /\ ~(n - 1 > j)
    BY <1>2, <1>4, <1>6, <2>1
  <2>3. j # n
    BY <1>2, <1>6, <2>1
  <2> QED BY <1>2, <1>4, <2>1, <2>2, <2>3
<1> QED BY <1>1, <1>4, <1>7

\* enterlevel and leavelevel
LEMMA LevelGood ==
    ASSUME NEW st, CallsGood(st), NEW L, Runs(st, L), NEW r, r = Last(st.cs), r.k = "parser", NEW m \in Nat,
           NEW t, t = st.th[L], NEW k \in Int, k = t.nCcalls - r.n + m, NEW u, u = [t EXCEPT !.nCcalls = k],
           NEW g, g = With(st, TopN(st.cs, m), L, u)
    PROVE  /\ WentOn(st, TopN(st.cs, m), L, u, g) /\ u.nCcalls = k
           /\ Last(TopN(st.cs, m)).k = "parser"
<1>1. PICK q : q = [r EXCEPT !.n = m]
  OBVIOUS
<1>2. PICK cs : cs = TopN(st.cs, m)
  OBVIOUS
<1>3. L \in Threads /\ t \in ThreadStates /\ r \in CRecords /\ r.th = L /\ st.cs \in CStacks
  BY Running
<1>4. q \in CRecords /\ q.k = r.k /\ q.th = r.th /\ q.call = r.call /\ q.n = m
  BY <1>1, <1>3, RetopRecord
<1>5. r.n \in Nat /\ t.nCcalls \in Int
  BY <1>3, RecordFacts, ThreadFacts
<1>6. u \in ThreadStates /\ u.ci = t.ci /\ u.nCcalls = k /\ Unchanged(t, u)
  <2>1. t \in ThreadStates
    BY <1>3
  <2> QED BY <2>1, CountedThread
<1>7. Retopped(st.cs, q, cs)
  BY <1>1, <1>2 DEF Retopped, TopN
<1>8. ~r.call /\ PlacedAt(st.cs, Len(st.cs))
  <2>1. PlacedAt(st.cs, Len(st.cs)) /\ r = st.cs[Len(st.cs)]
    BY Running
  <2> QED BY <2>1 DEF PlacedAt
<1>9. Changed(t, u, L, r, q)
  <2>1. LevelOf(r) = r.n /\ LevelOf(q) = m /\ FrameOf(r, L) = 0 /\ FrameOf(q, L) = 0
    BY <1>3, <1>4, <1>8, LevelOfIs, FrameOfIs
  <2>2. u.nCcalls = t.nCcalls - LevelOf(r) + LevelOf(q)
    BY <1>6, <2>1
  <2>3. Len(u.ci) = Len(t.ci) - FrameOf(r, L) + FrameOf(q, L)
    <3>1. Len(t.ci) \in Nat
      BY <1>3, ThreadFacts
    <3> QED BY <1>6, <2>1, <3>1
  <2> QED BY <1>6, <2>2, <2>3 DEF Changed
<1>10. WentOn(st, cs, L, u, g)
  <2>1. Continues(r, q)
    BY <1>4 DEF Continues
  <2>2. q \in CRecords /\ u \in ThreadStates /\ g = With(st, cs, L, u)
    BY <1>2, <1>4, <1>6
  <2> QED BY <1>7, <1>9, <2>1, <2>2, ChangeGood
<1>11. Last(cs).k = "parser"
  <2>1. PICK b : b = PopC(st.cs)
    OBVIOUS
  <2>2. b \in Seq(CRecords)
    <3>1. st.cs \in Seq(CRecords) /\ Len(st.cs) \in Nat /\ Len(st.cs) # 0
      BY <1>3, TopFits DEF CStacks, CallsGood, Runs
    <3>2. PICK d : d = Len(st.cs) - 1
      OBVIOUS
    <3>3. b \in CStacks
      <4>1. d \in 0..Len(st.cs) /\ b = SubSeq(st.cs, 1, d) /\ st.cs \in CStacks
        BY <1>3, <2>1, <3>1, <3>2 DEF PopC
      <4> QED BY <4>1, Cut
    <3> QED BY <3>3 DEF CStacks
  <2>3. cs = Append(b, q)
    BY <1>7, <2>1 DEF Retopped
  <2>4. Last(cs) = q
    BY <1>4, <2>2, <2>3, LastIs
  <2> QED BY <1>4, <2>4
<1> QED BY <1>2, <1>6, <1>10, <1>11

\* enterlevel
LEMMA ParserEnterKeeps == ASSUME CallsInv, ParserEnter PROVE CallsInv'
<1>1. PICK L, r, t : L = cur /\ r = CTop /\ t = me
  OBVIOUS
<1>2. PICK m, k : m = r.n + 1 /\ k = t.nCcalls + 1
  OBVIOUS
<1>3. PICK u : u = [t EXCEPT !.nCcalls = k]
  OBVIOUS
<1>4. PICK g : g = With(state, TopN(state.cs, m), L, u)
  OBVIOUS
<1>5. state.cs # <<>> /\ r.k = "parser" /\ state' = IF k > MAXCCALLS THEN Throw(g, L, "syntax") ELSE g
  BY <1>1, <1>2, <1>3, <1>4 DEF ParserEnter, CRuns
<1>6. /\ CallsGood(state) /\ Runs(state, L) /\ r = Last(state.cs) /\ t = state.th[L] /\ t \in ThreadStates /\ r.n \in Nat
  BY <1>1, <1>5, NowRuns
<1>7. m \in Nat /\ k = t.nCcalls - r.n + m /\ k \in Int
  <2>1. t.nCcalls \in Int
    BY <1>6, ThreadFacts
  <2> QED BY <1>2, <1>6, <2>1
<1>8. WentOn(state, TopN(state.cs, m), L, u, g) /\ u.nCcalls = k /\ Last(TopN(state.cs, m)).k = "parser"
  BY <1>3, <1>4, <1>5, <1>6, <1>7, LevelGood
<1>9. Unwound(g) /\ g.th[L] = u /\ Runs(g, L) /\ Within(g.cs, Len(g.cs) - 1) /\ (k <= MAXCCALLS + Margin => CallsGood(g))
      /\ Last(g.cs).k = "parser"
  BY <1>8 DEF WentOn
<1>10. CASE k > MAXCCALLS
  <2>1. g.cs[g.th[L].jmp].k = "pcall"
    BY <1>9, ParserTarget
  <2>2. g.cs # <<>> /\ L = Last(g.cs).th
    BY <1>9 DEF Runs
  <2>3. "syntax" \in {"run", "errerr", "syntax"}
    OBVIOUS
  <2>4. CallsGood(Throw(g, L, "syntax"))
    BY <1>9, <2>1, <2>2, <2>3, ThrowGood
  <2> QED BY <1>5, <1>10, <2>4 DEF CallsInv
<1>11. CASE ~(k > MAXCCALLS)
  <2>1. k <= MAXCCALLS + Margin
    BY <1>7, <1>11, LimitsAssumption
  <2> QED BY <1>5, <1>9, <1>11, <2>1 DEF CallsInv
<1> QED BY <1>10, <1>11

\* leavelevel
LEMMA ParserLeaveKeeps == ASSUME CallsInv, ParserLeave PROVE CallsInv'
<1>1. PICK L, r, t : L = cur /\ r = CTop /\ t = me
  OBVIOUS
<1>2. PICK m, k : m = r.n - 1 /\ k = t.nCcalls - 1
  OBVIOUS
<1>3. PICK u : u = [t EXCEPT !.nCcalls = k]
  OBVIOUS
<1>4. PICK g : g = With(state, TopN(state.cs, m), L, u)
  OBVIOUS
<1>5. state.cs # <<>> /\ r.k = "parser" /\ r.n > 0 /\ state' = g
  BY <1>1, <1>2, <1>3, <1>4 DEF ParserLeave, CRuns
<1>6. /\ CallsGood(state) /\ Runs(state, L) /\ r = Last(state.cs) /\ t = state.th[L] /\ t \in ThreadStates /\ r.n \in Nat
  BY <1>1, <1>5, NowRuns
<1>7. m \in Nat /\ k = t.nCcalls - r.n + m /\ k \in Int /\ t.nCcalls \in Int
  <2>1. t.nCcalls \in Int
    BY <1>6, ThreadFacts
  <2> QED BY <1>2, <1>5, <1>6, <2>1
<1>8. WentOn(state, TopN(state.cs, m), L, u, g) /\ u.nCcalls = k
  BY <1>3, <1>4, <1>5, <1>6, <1>7, LevelGood
<1>9. k <= MAXCCALLS + Margin
  <2>1. t.nCcalls <= MAXCCALLS + Margin
    BY <1>6, Running
  <2> QED BY <1>2, <1>7, <2>1, LimitsAssumption
<1>10. CallsGood(g)
  BY <1>8, <1>9 DEF WentOn
<1> QED BY <1>5, <1>10 DEF CallsInv

\* The parser is done, or there is a syntax error.
LEMMA ParserEndKeeps == ASSUME CallsInv, \E ok \in BOOLEAN : ParserEnd(ok) PROVE CallsInv'
<1>1. PICK L, r, t : L = cur /\ r = CTop /\ t = me
  OBVIOUS
<1>2. state.cs # <<>> /\ r.k = "parser" /\ ((r.n = 0 /\ state' = Returned(state, t.ci)) \/ state' = Throw(state, L, "syntax"))
  BY <1>1 DEF ParserEnd, CRuns
<1>3. /\ CallsGood(state) /\ Runs(state, L) /\ r = Last(state.cs) /\ t = state.th[L] /\ t \in ThreadStates /\ r \in CRecords
  BY <1>1, <1>2, NowRuns
<1>4. CASE r.n = 0 /\ state' = Returned(state, t.ci)
  <2>1. t.ci \in CallInfos /\ Len(t.ci) \in Nat /\ FrameOf(r, L) = 0
    BY <1>2, <1>3, ThreadFacts, FrameOfIs
  <2>2. Len(t.ci) = Len(state.th[L].ci) - FrameOf(r, L)
    BY <1>3, <2>1
  <2>3. r.k \in {"exec", "cfun", "parser"} /\ (r.k = "parser" => r.n = 0)
    BY <1>2, <1>4
  <2>4. CallsGood(Returned(state, t.ci))
    BY <1>3, <2>1, <2>2, <2>3, ReturnedGood
  <2> QED BY <1>4, <2>4 DEF CallsInv
<1>5. CASE state' = Throw(state, L, "syntax")
  <2>1. Unwound(state) /\ state.cs # <<>> /\ L = Last(state.cs).th /\ Last(state.cs).k = "parser" /\ Within(state.cs, Len(state.cs))
    BY <1>2, <1>3 DEF CallsGood, Runs
  <2>2. Len(state.cs) \in Nat
    BY <2>1, TopFits
  <2>3. Within(state.cs, Len(state.cs) - 1)
    BY <2>1, <2>2 DEF Within
  <2>4. state.cs[state.th[L].jmp].k = "pcall"
    BY <1>3, <2>1, ParserTarget
  <2>5. CallsGood(Throw(state, L, "syntax"))
    BY <2>1, <2>3, <2>4, ThrowGood
  <2> QED BY <1>5, <2>5 DEF CallsInv
<1> QED BY <1>2, <1>4, <1>5

\* A coroutine on top of the C stack: it has been resumed.
ResumedAs(t, u, k, n) ==
    /\ u.nCcalls = k /\ u.baseCcalls = k /\ u.jmp = n /\ Len(u.ci) = 1 /\ u.status = "ok" /\ ~u.fresh
    /\ u.allowhook = t.allowhook /\ u.errfunc = t.errfunc
Resumes(r, co, j) == r.k = "resume" /\ r.th = co /\ ~r.call /\ r.save.jmp = j

\* A resume is on top of a C function of another thread.
LEMMA PlacedResume ==
    ASSUME NEW a \in CStacks, NEW n \in Nat, n = Len(a), n # 0, a[n].k = "cfun", PlacedAt(a, n),
           NEW co \in Coroutines, NEW t, Fits(a, t, co, 0), NEW r \in CRecords, Resumes(r, co, t.jmp),
           NEW cs \in CStacks, Len(cs) = n + 1, Same(a, cs, n), cs[n + 1] = r
    PROVE  PlacedAt(cs, n + 1) /\ SavedAt(cs, n + 1) /\ t.jmp = 0 /\ \A i \in 1..n : cs[i].th # co
<1>0. n # 1
  BY DEF PlacedAt
<1>1. /\ cs[n] = a[n] /\ n + 1 > 2 /\ (n + 1) - 1 = n /\ \A i \in 1..n : cs[i] = a[i]
  BY <1>0 DEF Same
<1>2. \A i \in 1..n : cs[i].th # co
  BY <1>1 DEF Fits, Height
<1>3. PlacedAt(cs, n + 1)
  BY <1>1, <1>2 DEF PlacedAt, Resumes
<1>4. t.jmp = 0
  BY DEF Fits, Guards, Innermost
<1>5. Innermost(cs, co, n, 0)
  BY <1>2 DEF Innermost, CatchesOf
<1>6. SavedAt(cs, n + 1)
  <2>1. r.k = "resume" /\ r.th = co /\ r.save.jmp = 0
    BY <1>4 DEF Resumes
  <2> QED BY <1>1, <1>5, <2>1 DEF SavedAt
<1> QED BY <1>2, <1>3, <1>4, <1>6

\* The coroutine counts on from there.
LEMMA ResumeFits ==
    ASSUME NEW a \in CStacks, NEW n \in Nat, n = Len(a), n # 0, NEW co \in Coroutines, NEW t, Fits(a, t, co, 0),
           NEW r \in CRecords, Resumes(r, co, t.jmp), NEW k, k = Levels(a, n) + 1,
           NEW cs \in CStacks, Len(cs) = n + 1, Same(a, cs, n), cs[n + 1] = r, \A i \in 1..n : cs[i].th # co,
           NEW u, ResumedAs(t, u, k, n + 1)
    PROVE  Fits(cs, u, co, n + 1) /\ k = Levels(cs, n + 1)
<1> USE DEF ResumedAs
<1>0. n + 1 \in Nat /\ n + 1 \in 1..Len(cs) /\ (n + 1) - 1 = n /\ n \in 0..n /\ n + 1 # 0 /\ n \in 0..Len(cs) /\ n + 1 \in 0..Len(cs)
  OBVIOUS
<1>r. r.k = "resume" /\ r.th = co /\ ~r.call
  BY DEF Resumes
<1>m. co # Main
  BY LimitsAssumption
<1>1. Height(cs, co, n + 1)
  BY <1>0, <1>r DEF Height
<1>2. k = Levels(cs, n + 1)
  <2>1. Levels(cs, n) = Levels(a, n)
    BY <1>0, SameSums
  <2>2. LevelOf(r) = 1
    BY <1>r, LevelOfIs
  <2>3. Levels(cs, n + 1) = Levels(cs, n) + LevelOf(r)
    BY <1>0, LevelsStep
  <2> QED BY <2>1, <2>2, <2>3
<1>3. Frames(cs, co, n + 1) = 0
  <2>1. FrameOf(r, co) = 0
    BY <1>r, FrameOfIs
  <2>2. Frames(cs, co, n + 1) = Frames(cs, co, n) + FrameOf(r, co) /\ Frames(cs, co, 0) = 0
    BY <1>0, FramesStep
  <2>3. Frames(cs, co, n) = Frames(cs, co, 0)
    <3>1. 0 \in 0..Len(cs) /\ 0 <= n /\ \A m \in 1..n : m > 0 => cs[m].th # co
      OBVIOUS
    <3> QED BY <1>0, <3>1, FramesOfOthers
  <2> QED BY <2>1, <2>2, <2>3
<1>4. Counts(cs, u, co, n + 1)
  <2>1. ASSUME NEW i \in 1..(n + 1), cs[i].k = "resume", cs[i].th = co PROVE u.baseCcalls = Levels(cs, i)
    <3>1. i = n + 1
      BY <2>1
    <3> QED BY <1>2, <3>1
  <2>2. u.nCcalls = Levels(cs, n + 1) /\ Len(u.ci) = 1 + Frames(cs, co, n + 1)
    BY <1>2, <1>3
  <2> QED BY <1>m, <2>1, <2>2 DEF Counts
<1>5. Lives(u, co, n + 1)
  BY <1>0 DEF Lives
<1>6. Guards(cs, u, co, n + 1)
  <2>1. Innermost(cs, co, n + 1, u.jmp)
    BY <1>0, <1>r DEF Innermost, CatchesOf
  <2>2. u.errfunc = "none" /\ ~(~u.allowhook)
    <3>1. \A i \in 1..0 : ~Protects(a[i], co)
      OBVIOUS
    <3>2. t.errfunc = "none" /\ ~(~t.allowhook)
      BY <1>m, <3>1 DEF Fits, Guards
    <3> QED BY <3>2
  <2> QED BY <2>1, <2>2 DEF Guards
<1> QED BY <1>1, <1>2, <1>4, <1>5, <1>6 DEF Fits

\* lua_resume, before the body goes on.
LEMMA ResumeGood ==
    ASSUME NEW st, CallsGood(st), NEW L, Runs(st, L), Last(st.cs).k = "cfun", NEW co \in Coroutines,
           NEW t, Fits(st.cs, t, co, 0), NEW r \in CRecords, Resumes(r, co, t.jmp), NEW k, k = st.th[L].nCcalls + 1, k <= MAXCCALLS,
           NEW cs, Grown(st.cs, r, cs), NEW u \in ThreadStates, ResumedAs(t, u, k, Len(st.cs) + 1), NEW g, g = With(st, cs, co, u)
    PROVE  CallsGood(g) /\ Runs(g, co) /\ g.cs = cs /\ g.th[co] = u
<1>1. PICK a, n : a = st.cs /\ n = Len(st.cs)
  OBVIOUS
<1>2. /\ a \in CStacks /\ n \in Nat /\ n # 0 /\ a[n].k = "cfun" /\ PlacedAt(a, n) /\ Unwound(st) /\ Within(a, n)
      /\ Fits(a, st.th[L], L, n) /\ n = Len(a) /\ Fits(a, t, co, 0) /\ Grown(a, r, cs)
  <2>1. Unwound(st) /\ Within(a, n) /\ a \in CStacks /\ n \in Nat /\ n # 0 /\ Fits(a, st.th[L], L, n) /\ StackOK(a) /\ a[n].k = "cfun"
    BY <1>1, TopFits DEF CallsGood, Runs
  <2>2. PlacedAt(a, n)
    BY <1>1, <2>1 DEF StackOK
  <2> QED BY <1>1, <2>1, <2>2
<1>3. cs \in CStacks /\ Len(cs) = n + 1 /\ Same(a, cs, n) /\ cs[n + 1] = r /\ Last(cs) = r /\ cs # <<>>
  BY <1>2, Appended
<1>4. PlacedAt(cs, n + 1) /\ SavedAt(cs, n + 1) /\ \A i \in 1..n : cs[i].th # co
  BY <1>2, <1>3, PlacedResume
<1>5. k = Levels(a, n) + 1
  <2>1. st.th[L].nCcalls = Levels(a, n)
    BY <1>2 DEF Fits, Counts
  <2> QED BY <2>1
<1>6. Fits(cs, u, co, n + 1) /\ k = Levels(cs, n + 1)
  <2>1. ResumedAs(t, u, k, n + 1)
    BY <1>1
  <2> QED BY <1>2, <1>3, <1>4, <1>5, <2>1, ResumeFits
<1>7. co \in Threads /\ r.th = co
  BY DEF Threads, Resumes
<1>8. Unwound(g) /\ g.cs = cs /\ g.th[co] = u
  <2>1. Owns(a, co, n) /\ Owns(cs, co, n) /\ RestOK(cs, n) /\ n + 1 \in Nat
    <3>1. \A i \in 1..Len(cs) : i > n => i = n + 1
      BY <1>2, <1>3
    <3>2. Owns(cs, co, n) /\ RestOK(cs, n)
      BY <1>3, <1>4, <1>7, <3>1 DEF Owns, RestOK
    <3>3. Owns(a, co, n)
      BY <1>2 DEF Owns
    <3> QED BY <1>2, <3>2, <3>3
  <2>2. Same(st.cs, cs, n) /\ Owns(st.cs, co, n)
    BY <1>1, <1>3, <2>1
  <2> QED BY <1>2, <1>3, <1>6, <1>7, <2>1, <2>2, Moved
<1>9. Within(cs, Len(cs))
  <2>1. \A i \in 1..Len(cs) : i > n => Levels(cs, i) <= MAXCCALLS + Margin
    <3> SUFFICES ASSUME NEW i \in 1..Len(cs), i > n PROVE Levels(cs, i) <= MAXCCALLS + Margin
      OBVIOUS
    <3>1. i = n + 1
      BY <1>2, <1>3
    <3>2. k \in Int
      <4>1. n + 1 \in 0..Len(cs)
        BY <1>2, <1>3
      <4> QED BY <1>3, <1>6, <4>1, LevelsStep
    <3> QED BY <1>6, <3>1, <3>2, LimitsAssumption
  <2> QED BY <1>2, <1>3, <2>1, Limited
<1>10. Runs(g, co)
  BY <1>3, <1>7, <1>8 DEF Runs
<1> QED BY <1>8, <1>9, <1>10 DEF CallsGood

\* The body is on top of it.
LEMMA PlacedExec ==
    ASSUME NEW a \in CStacks, NEW n \in Nat, n = Len(a), n # 0, NEW L, a[n].th = L, a[n].k = "resume", PlacedAt(a, n),
           NEW r \in CRecords, r.th = L, r.k = "exec", r.n >= 1,
           NEW cs \in CStacks, Len(cs) = n + 1, Same(a, cs, n), cs[n + 1] = r
    PROVE  PlacedAt(cs, Len(cs)) /\ SavedAt(cs, Len(cs))
<1>0. n # 1
  BY DEF PlacedAt
<1>1. cs[Len(cs)] = r /\ cs[Len(cs) - 1] = a[n] /\ Len(cs) > 2
  BY <1>0 DEF Same
<1>2. PlacedAt(cs, Len(cs))
  BY <1>1 DEF PlacedAt
<1>3. SavedAt(cs, Len(cs))
  BY <1>1 DEF SavedAt, CatchesOf
<1> QED BY <1>2, <1>3

\* luaV_execute runs the function of a coroutine.
LEMMA BodyGood ==
    ASSUME NEW st, CallsGood(st), NEW L, Runs(st, L), Last(st.cs).k = "resume",
           NEW r \in CRecords, r.k = "exec", r.th = L, LevelOf(r) = 0, r.n >= 1, NEW cs, Grown(st.cs, r, cs),
           NEW t, t = st.th[L], NEW u \in ThreadStates, Unchanged(t, u), u.nCcalls = t.nCcalls, Len(u.ci) = Len(t.ci) + r.n,
           NEW g, g = With(st, cs, L, u)
    PROVE  CallsGood(g)
<1>2. PICK n : n = Len(st.cs)
  OBVIOUS
<1>6. /\ L \in Threads /\ t \in ThreadStates /\ t.nCcalls <= MAXCCALLS + Margin /\ st.cs \in CStacks
      /\ n \in Nat /\ n # 0 /\ st.cs[n].th = L /\ st.cs[n].k = "resume" /\ PlacedAt(st.cs, n)
  <2>1. n \in Nat /\ n # 0
    BY <1>2, TopFits DEF CallsGood, Runs
  <2> QED BY <1>2, <2>1, Running
<1>10. cs \in CStacks /\ Len(cs) = n + 1 /\ Same(st.cs, cs, n) /\ cs[n + 1] = r
  BY <1>2, <1>6, Appended
<1>11. PlacedAt(cs, Len(cs)) /\ SavedAt(cs, Len(cs))
  BY <1>2, <1>6, <1>10, PlacedExec
<1>12. Pushed(t, u, L, r, Len(st.cs))
  <2>1. FrameOf(r, L) = r.n
    BY FrameOfIs
  <2>2. u.nCcalls = t.nCcalls + LevelOf(r) /\ Len(u.ci) = Len(t.ci) + FrameOf(r, L) /\ r.k # "pcall"
    BY <1>6, <2>1, ThreadFacts
  <2> QED BY <2>2, UnchangedPushed
<1>13. u.nCcalls <= MAXCCALLS + Margin => CallsGood(g)
  <2>1. r.k # "resume"
    OBVIOUS
  <2> QED BY <1>11, <1>12, <2>1, PushGood
<1> QED BY <1>6, <1>13

\* The loop for the body.
LEMMA ExecRecord ==
    ASSUME NEW L \in Threads, NEW r, r = CRecord("exec", L, FALSE, FALSE)
    PROVE  r \in CRecords /\ r.k = "exec" /\ r.th = L /\ r.n = 1 /\ ~r.call /\ LevelOf(r) = 0
<1>1. "exec" \in Kinds /\ FALSE \in BOOLEAN
  BY DEF Kinds
<1>2. r \in CRecords /\ r.k = "exec" /\ r.th = L /\ r.n = 1 /\ r.call = FALSE
  BY <1>1, NoSaveIs DEF CRecord, CRecords
<1>3. ~r.call
  BY <1>2, Zenon
<1>4. LevelOf(r) = 0
  BY <1>2, <1>3, LevelOfIs
<1> QED BY <1>2, <1>3, <1>4

Resuming(co, j) == [CRecord("resume", co, FALSE, FALSE) EXCEPT !.save = [NoSave EXCEPT !.jmp = j]]

\* The record of a resume.
LEMMA ResumingRecord ==
    ASSUME NEW co \in Threads, NEW j \in Nat, NEW r, r = Resuming(co, j)
    PROVE  r \in CRecords /\ Resumes(r, co, j)
<1>1. PICK q : q = CRecord("resume", co, FALSE, FALSE)
  OBVIOUS
<1>2. q \in CRecords /\ q.k = "resume" /\ q.th = co /\ q.call = FALSE
  <2>1. "resume" \in Kinds /\ FALSE \in BOOLEAN
    BY DEF Kinds
  <2> QED BY <1>1, <2>1, NoSaveIs DEF CRecord, CRecords
<1>3. PICK s : s = [NoSave EXCEPT !.jmp = j]
  OBVIOUS
<1>4. s \in Saves /\ s.jmp = j
  BY <1>3, NoSaveIs DEF Saves
<1>5. r = [q EXCEPT !.save = s]
  BY <1>1, <1>3 DEF Resuming
<1>6. r \in CRecords /\ r.k = q.k /\ r.th = q.th /\ r.call = q.call /\ r.save = s
  BY <1>2, <1>4, <1>5 DEF CRecords
<1>7. ~r.call
  BY <1>2, <1>6, Zenon
<1> QED BY <1>2, <1>4, <1>6, <1>7 DEF Resumes

\* The thread when its function starts, and when yield returns.
Started(t, k, j) == [[t EXCEPT !.nCcalls = k, !.baseCcalls = k, !.jmp = j] EXCEPT !.fresh = FALSE]
Continued(t, k, j) == [[t EXCEPT !.nCcalls = k, !.baseCcalls = k, !.jmp = j] EXCEPT !.status = "ok", !.ci = PopC(@)]

\* The fields of a coroutine that starts,
LEMMA StartedRecord ==
    ASSUME NEW t \in ThreadStates, NEW k \in Int, NEW j \in Nat, Len(t.ci) = 1, t.status = "ok", NEW u, u = Started(t, k, j)
    PROVE  u \in ThreadStates /\ ResumedAs(t, u, k, j) /\ u.ci = t.ci
<1>1. PICK b : b \in BOOLEAN /\ b = FALSE
  OBVIOUS
<1>2. u = [t EXCEPT !.nCcalls = k, !.baseCcalls = k, !.jmp = j, !.fresh = b]
  BY <1>1 DEF Started, ThreadStates
<1>3. /\ u \in ThreadStates /\ u.nCcalls = k /\ u.baseCcalls = k /\ u.jmp = j /\ u.ci = t.ci /\ u.status = t.status
      /\ u.fresh = b /\ u.allowhook = t.allowhook /\ u.errfunc = t.errfunc
  BY <1>1, <1>2 DEF ThreadStates
<1>4. ~u.fresh
  BY <1>1, <1>3, Zenon
<1> QED BY <1>3, <1>4 DEF ResumedAs

\* v: the thread when only its first frame is there, u: all of it.
WokenAs(t, u, v, k, j) ==
    /\ v \in ThreadStates /\ ResumedAs(t, v, k, j)
    /\ u \in ThreadStates /\ Unchanged(v, u) /\ u.nCcalls = v.nCcalls /\ Len(u.ci) = Len(v.ci) + (Len(t.ci) - 2)

\* and of one that goes on after a yield.
LEMMA ContinuedRecord ==
    ASSUME NEW t \in ThreadStates, NEW k \in Int, NEW j \in Nat, Len(t.ci) >= 3, ~t.fresh,
           NEW u, u = Continued(t, k, j), NEW v, v = [u EXCEPT !.ci = SubSeq(t.ci, 1, 1)]
    PROVE  WokenAs(t, u, v, k, j)
<1>1. PICK c, d : c = PopC(t.ci) /\ d = SubSeq(t.ci, 1, 1)
  OBVIOUS
<1>2. t.ci \in CallInfos /\ Len(t.ci) \in Nat
  BY ThreadFacts
<1>3. c \in CallInfos /\ Len(c) = Len(t.ci) - 1
  BY <1>1, <1>2, OneFrameLess
<1>4. d \in CallInfos /\ Len(d) = 1
  <2>1. 1 <= Len(t.ci) /\ t.ci \in Seq({"base", "L", "C"})
    BY <1>2 DEF CallInfos
  <2>2. SubSeq(t.ci, 1, 1) \in Seq({"base", "L", "C"}) /\ Len(SubSeq(t.ci, 1, 1)) = 1
    BY <1>2, <2>1
  <2> QED BY <1>1, <2>2 DEF CallInfos
<1>5. "ok" \in Statuses
  BY DEF Statuses
<1>6. u = [t EXCEPT !.nCcalls = k, !.baseCcalls = k, !.jmp = j, !.status = "ok", !.ci = c]
  BY <1>1 DEF Continued, ThreadStates
<1>7. /\ u \in ThreadStates /\ u.nCcalls = k /\ u.baseCcalls = k /\ u.jmp = j /\ u.ci = c /\ u.status = "ok"
      /\ u.fresh = t.fresh /\ u.allowhook = t.allowhook /\ u.errfunc = t.errfunc
  BY <1>3, <1>5, <1>6 DEF ThreadStates
<1>8. v = [u EXCEPT !.ci = d]
  BY <1>1
<1>9. v \in ThreadStates /\ v.ci = d /\ v.nCcalls = u.nCcalls /\ Unchanged(u, v)
  BY <1>4, <1>7, <1>8, FramedThread
<1>10. ResumedAs(t, v, k, j)
  BY <1>4, <1>7, <1>9 DEF Unchanged, ResumedAs
<1>11. Unchanged(v, u)
  BY <1>9 DEF Unchanged
<1>12. Len(u.ci) = Len(v.ci) + (Len(t.ci) - 2)
  BY <1>2, <1>3, <1>4, <1>7, <1>9
<1> QED BY <1>7, <1>9, <1>10, <1>11, <1>12 DEF WokenAs

\* A coroutine that is suspended is not on the C stack.
LEMMA Suspended ==
    ASSUME CallsInv, NEW co \in Coroutines, CoStatus(cur, co) = "suspended", NEW t, t = state.th[co]
    PROVE  /\ t \in ThreadStates /\ Fits(state.cs, t, co, 0) /\ co \in Threads
           /\ (t.status = "ok" /\ Len(t.ci) = 1) \/ (t.status = "yield" /\ Len(t.ci) >= 3 /\ ~t.fresh)
<1>1. co \in Threads /\ co # Main
  BY LimitsAssumption DEF Threads
<1>2. t \in ThreadStates /\ \E h \in Nat : Fits(state.cs, t, co, h)
  BY <1>1 DEF CallsInv, CallsGood, Unwound, CallStates
<1>3. PICK h \in Nat : Fits(state.cs, t, co, h)
  BY <1>2
<1>4. t.status = "yield" \/ (t.status = "ok" /\ ~(Len(t.ci) > 1) /\ t.fresh)
  <2>1. CASE t.status = "yield"
    BY <2>1
  <2>2. CASE t.status = "ok"
    <3>1. "suspended" = IF cur = co THEN "running" ELSE IF Len(t.ci) > 1 THEN "normal" ELSE IF t.fresh THEN "suspended" ELSE "dead"
      BY <2>2 DEF CoStatus
    <3> QED BY <2>2, <3>1
  <2>3. CASE t.status # "yield" /\ t.status # "ok"
    <3>1. "suspended" = IF cur = co THEN "running" ELSE "dead"
      BY <2>3 DEF CoStatus
    <3> QED BY <3>1
  <2> QED BY <2>1, <2>2, <2>3
<1>5. h = 0
  <2> SUFFICES ASSUME h # 0 PROVE FALSE
    OBVIOUS
  <2>1. t.status = "ok" /\ ~t.fresh
    BY <1>1, <1>3 DEF Fits, Lives
  <2> QED BY <1>4, <2>1
<1>6. Lives(t, co, 0)
  BY <1>3, <1>5 DEF Fits
<1> QED BY <1>1, <1>2, <1>3, <1>4, <1>5, <1>6 DEF Lives

\* A coroutine that is not on the C stack may have any counter.
LEMMA CountFits ==
    ASSUME NEW t, NEW u, Unchanged(t, u), u.ci = t.ci, NEW cs, NEW L, Fits(cs, t, L, 0)
    PROVE  Fits(cs, u, L, 0)
<1>1. Height(cs, L, 0)
  BY DEF Fits
<1>2. Counts(cs, u, L, 0)
  BY DEF Fits, Counts, Unchanged
<1>3. Lives(u, L, 0)
  BY DEF Fits, Lives, Unchanged
<1>4. Guards(cs, u, L, 0)
  BY DEF Fits, Guards, Unchanged
<1> QED BY <1>1, <1>2, <1>3, <1>4 DEF Fits

\* A resume that fails at once: the coroutine has no function to start with any more.
LEMMA RefusedFits ==
    ASSUME NEW cs, NEW L, NEW t \in ThreadStates, Fits(cs, t, L, 0), NEW n \in Int,
           NEW u, u = [t EXCEPT !.nCcalls = n, !.fresh = FALSE]
    PROVE  u \in ThreadStates /\ Fits(cs, u, L, 0)
<1>1. PICK b \in BOOLEAN : b = FALSE
  OBVIOUS
<1>2. PICK v : v = [t EXCEPT !.nCcalls = n]
  OBVIOUS
<1>3. v \in ThreadStates /\ v.ci = t.ci /\ Unchanged(t, v)
  BY <1>2, CountedThread
<1>4. Fits(cs, v, L, 0)
  BY <1>3, CountFits
<1>5. u = [v EXCEPT !.fresh = b]
  BY <1>1, <1>2 DEF ThreadStates
<1>6. /\ u \in ThreadStates /\ u.ci = v.ci /\ u.nCcalls = v.nCcalls /\ u.baseCcalls = v.baseCcalls /\ u.status = v.status
      /\ u.errfunc = v.errfunc /\ u.jmp = v.jmp /\ u.allowhook = v.allowhook /\ u.fresh = b
  BY <1>3, <1>5 DEF ThreadStates
<1>7. ~u.fresh
  BY <1>1, <1>6
<1>8. Height(cs, L, 0) /\ Counts(cs, u, L, 0)
  BY <1>4, <1>6 DEF Fits, Counts
<1>9. Lives(u, L, 0)
  BY <1>4, <1>6, <1>7 DEF Fits, Lives
<1>10. Guards(cs, u, L, 0)
  BY <1>4, <1>6 DEF Fits, Guards
<1> QED BY <1>6, <1>8, <1>9, <1>10 DEF Fits

LEMMA AwayGood ==
    ASSUME NEW st, CallsGood(st), NEW L \in Threads, NEW t, t = st.th[L], Fits(st.cs, t, L, 0),
           NEW u \in ThreadStates, Fits(st.cs, u, L, 0), NEW g, g = With(st, st.cs, L, u)
    PROVE  CallsGood(g)
<1>2. \A h \in Nat : Fits(st.cs, st.th[L], L, h) => h = 0
  <2> SUFFICES ASSUME NEW h \in Nat, Fits(st.cs, t, L, h), h # 0 PROVE FALSE
    OBVIOUS
  <2>1. h \in 1..Len(st.cs) /\ st.cs[h].th = L
    BY DEF Fits, Height
  <2>2. \A m \in 1..Len(st.cs) : m > 0 => st.cs[m].th # L
    BY DEF Fits, Height
  <2> QED BY <2>1, <2>2
<1>3. \A h \in Nat : Fits(st.cs, st.th[L], L, h) => Fits(st.cs, u, L, h)
  BY <1>2
<1> QED BY <1>3, SameStackGood

\* A coroutine starts.
LEMMA StartGood ==
    ASSUME NEW g, CallsGood(g), NEW co \in Threads, Runs(g, co), Last(g.cs).k = "resume", NEW t, g.th[co].ci = t.ci,
           NEW e \in CRecords, e.k = "exec", e.th = co, e.n = 1, LevelOf(e) = 0,
           NEW cs, cs = Append(g.cs, e), NEW ci, ci = Append(t.ci, "L")
    PROVE  CallsGood(Settled(Precall(g, co, ci, cs), co))
<1>1. PICK u : u = g.th[co]
  OBVIOUS
<1>2. u \in ThreadStates /\ g.cs \in CStacks
  BY <1>1, Running
<1>3. u.ci \in CallInfos /\ Len(u.ci) \in Nat /\ t.ci = u.ci
  BY <1>1, <1>2, ThreadFacts
<1>4. ci \in CallInfos /\ Len(ci) = Len(u.ci) + 1
  <2>1. "L" \in {"base", "L", "C"} /\ ci = Append(u.ci, "L")
    BY <1>3
  <2> QED BY <1>3, <2>1, OneFrameMore
<1>6. Grown(g.cs, e, cs)
  BY DEF Grown
<1>7. cs \in CStacks
  BY <1>2, <1>6, Appended
<1>8. PICK v : v = [u EXCEPT !.ci = ci]
  OBVIOUS
<1>9. v \in ThreadStates /\ v.ci = ci /\ v.nCcalls = u.nCcalls /\ Unchanged(u, v)
  BY <1>2, <1>4, <1>8, FramedThread
<1>10. PICK x : x = With(g, cs, co, v)
  OBVIOUS
<1>11. CallsGood(x)
  <2>1. Len(v.ci) = Len(u.ci) + e.n /\ e.n >= 1
    <3>1. Len(v.ci) = Len(u.ci) + 1
      BY <1>4, <1>9
    <3> QED BY <3>1
  <2> QED BY <1>1, <1>6, <1>9, <1>10, <2>1, BodyGood
<1>12. Entered(g, co, ci, cs) = x
  BY <1>1, <1>8, <1>10 DEF Entered
<1>13. CallsGood(Entered(g, co, ci, cs))
  BY <1>11, <1>12
<1> QED BY <1>4, <1>7, <1>13, SettledPrecallGood

\* A coroutine goes on after a yield.
LEMMA ContinueGood ==
    ASSUME NEW st \in CallStates, NEW cs \in CStacks, NEW co \in Threads, NEW v \in ThreadStates,
           NEW g, g = With(st, cs, co, v), CallsGood(g), Runs(g, co), Last(cs).k = "resume", g.cs = cs, g.th[co] = v,
           NEW e \in CRecords, e.k = "exec", e.th = co, ~e.call, NEW m \in Nat, m >= 1, NEW q, q = [e EXCEPT !.n = m],
           NEW cs2, cs2 = Append(cs, q), NEW u \in ThreadStates, Unchanged(v, u), u.nCcalls = v.nCcalls, Len(u.ci) = Len(v.ci) + m
    PROVE  CallsGood(With(st, cs2, co, u))
<1>2. q \in CRecords /\ q.k = e.k /\ q.th = e.th /\ q.call = e.call /\ q.n = m
  BY RetopRecord
<1>3. ~q.call /\ q.k = "exec" /\ q.th = co
  BY <1>2, Zenon
<1>4. LevelOf(q) = 0
  BY <1>2, <1>3, LevelOfIs
<1>5. Grown(g.cs, q, cs2)
  BY DEF Grown
<1>6. cs2 \in CStacks
  BY <1>2, <1>5, Appended
<1>7. PICK x : x = With(g, cs2, co, u)
  OBVIOUS
<1>8. CallsGood(x)
  <2>1. q.n >= 1 /\ Len(u.ci) = Len(v.ci) + q.n /\ Last(g.cs).k = "resume" /\ v = g.th[co]
    BY <1>2
  <2>2. q \in CRecords
    BY <1>2
  <2> QED BY <1>3, <1>4, <1>5, <1>7, <2>1, <2>2, BodyGood
<1>9. With(With(st, cs, co, v), cs2, co, u) = With(st, cs2, co, u)
  BY <1>6, WithWith
<1>10. x = With(st, cs2, co, u)
  BY <1>7, <1>9
<1> QED BY <1>8, <1>10

\* The three ways that lua_resume goes.
NewExec(co) == CRecord("exec", co, FALSE, FALSE)
Refused(co, t) == state' = With(state, state.cs, co, [t EXCEPT !.nCcalls = me.nCcalls, !.fresh = FALSE])
Begun(co, t, k, cs, e) ==
    state' = Settled(Precall(With(state, cs, co, Started(t, k, CDepth + 1)), co, Append(t.ci, "L"), Append(cs, e)), co)
WokenUp(co, t, k, cs, e) ==
    state' = With(state, Append(cs, [e EXCEPT !.n = Len(t.ci) - 2]), co, Continued(t, k, CDepth + 1))
\* What lua_resume comes to.
LEMMA ResumeWays ==
    ASSUME NEW co, CResume(co), NEW t, t = state.th[co], NEW k, k = me.nCcalls + 1,
           NEW r, r = Resuming(co, t.jmp), NEW e, e = NewExec(co), NEW cs, cs = Append(state.cs, r)
    PROVE  /\ CRuns("cfun") /\ CoStatus(cur, co) = "suspended"
           /\ k > MAXCCALLS => Refused(co, t)
           /\ ~(k > MAXCCALLS) /\ t.status = "ok" => Begun(co, t, k, cs, e)
           /\ ~(k > MAXCCALLS) /\ t.status # "ok" => WokenUp(co, t, k, cs, e)
  BY DEF CResume, Resuming, Started, Continued, NewExec, Refused, Begun, WokenUp

\* auxresume
LEMMA CResumeKeeps == ASSUME CallsInv, NEW co \in Coroutines, CResume(co) PROVE CallsInv'
<1>1. PICK t, k, r, e, cs : /\ t = state.th[co] /\ k = me.nCcalls + 1 /\ r = Resuming(co, t.jmp)
                            /\ e = NewExec(co) /\ cs = Append(state.cs, r)
  OBVIOUS
<1>2. /\ CRuns("cfun") /\ CoStatus(cur, co) = "suspended"
      /\ k > MAXCCALLS => Refused(co, t)
      /\ ~(k > MAXCCALLS) /\ t.status = "ok" => Begun(co, t, k, cs, e)
      /\ ~(k > MAXCCALLS) /\ t.status # "ok" => WokenUp(co, t, k, cs, e)
  BY <1>1, ResumeWays
<1>3. state.cs # <<>> /\ CTop.k = "cfun"
  BY <1>2 DEF CRuns
<1>4. /\ t \in ThreadStates /\ Fits(state.cs, t, co, 0) /\ co \in Threads
      /\ (t.status = "ok" /\ Len(t.ci) = 1) \/ (t.status = "yield" /\ Len(t.ci) >= 3 /\ ~t.fresh)
  BY <1>1, <1>2, Suspended
<1>5. /\ CallsGood(state) /\ Runs(state, cur) /\ Last(state.cs).k = "cfun" /\ me \in ThreadStates /\ me = state.th[cur]
      /\ cur \in Threads
  BY <1>3, NowRuns
<1>6. state \in CallStates /\ state.cs \in CStacks /\ CDepth = Len(state.cs) /\ CDepth \in Nat /\ me.nCcalls \in Int /\ k \in Int
  BY <1>1, <1>5, Running, StackFacts, ThreadFacts DEF CDepth
<1>7. t.jmp \in Nat
  BY <1>4, ThreadFacts
<1>8. r \in CRecords /\ Resumes(r, co, t.jmp)
  BY <1>1, <1>4, <1>7, ResumingRecord
<1>9. e \in CRecords /\ e.k = "exec" /\ e.th = co /\ e.n = 1 /\ ~e.call /\ LevelOf(e) = 0
  BY <1>1, <1>4, ExecRecord DEF NewExec
<1>10. Grown(state.cs, r, cs)
  BY <1>1 DEF Grown
<1>11. cs \in CStacks /\ Last(cs) = r
  BY <1>6, <1>8, <1>10, Appended
<1>12. Last(cs).k = "resume"
  BY <1>8, <1>11 DEF Resumes
<1>20. CASE k > MAXCCALLS
  <2>1. PICK u : u = [t EXCEPT !.nCcalls = me.nCcalls, !.fresh = FALSE]
    OBVIOUS
  <2>2. u \in ThreadStates /\ Fits(state.cs, u, co, 0)
    BY <1>4, <1>6, <2>1, RefusedFits
  <2>3. state' = With(state, state.cs, co, u)
    BY <1>2, <1>20, <2>1 DEF Refused
  <2>4. CallsGood(state')
    BY <1>1, <1>4, <1>5, <2>2, <2>3, AwayGood
  <2> QED BY <2>4 DEF CallsInv
<1>21. CASE ~(k > MAXCCALLS) /\ t.status = "ok"
  <2>1. PICK u, g : u = Started(t, k, CDepth + 1) /\ g = With(state, cs, co, u)
    OBVIOUS
  <2>2. Len(t.ci) = 1
    BY <1>4, <1>21
  <2>3. CDepth + 1 \in Nat
    BY <1>6
  <2>4. u \in ThreadStates /\ ResumedAs(t, u, k, CDepth + 1) /\ u.ci = t.ci
    BY <1>4, <1>6, <1>21, <2>1, <2>2, <2>3, StartedRecord
  <2>5. ResumedAs(t, u, k, Len(state.cs) + 1) /\ k <= MAXCCALLS /\ k = state.th[cur].nCcalls + 1
    BY <1>1, <1>5, <1>6, <1>21, <2>4, LimitsAssumption
  <2>6. CallsGood(g) /\ Runs(g, co) /\ g.cs = cs /\ g.th[co] = u
    BY <1>4, <1>5, <1>8, <1>10, <2>1, <2>4, <2>5, ResumeGood
  <2>7. state' = Settled(Precall(g, co, Append(t.ci, "L"), Append(cs, e)), co)
    BY <1>2, <1>21, <2>1 DEF Begun
  <2>8. PICK cs2, ci : cs2 = Append(cs, e) /\ ci = Append(t.ci, "L")
    OBVIOUS
  <2>9. Last(g.cs).k = "resume" /\ cs2 = Append(g.cs, e) /\ g.th[co].ci = t.ci
    BY <1>12, <2>4, <2>6, <2>8
  <2>10. CallsGood(Settled(Precall(g, co, ci, cs2), co))
    BY <1>4, <1>9, <2>6, <2>8, <2>9, StartGood
  <2>11. CallsGood(state')
    BY <2>7, <2>8, <2>10
  <2> QED BY <2>11 DEF CallsInv
<1>22. CASE ~(k > MAXCCALLS) /\ t.status # "ok"
  <2>1. PICK u : u = Continued(t, k, CDepth + 1)
    OBVIOUS
  <2>2. PICK v : v = [u EXCEPT !.ci = SubSeq(t.ci, 1, 1)]
    OBVIOUS
  <2>3. Len(t.ci) >= 3 /\ ~t.fresh
    BY <1>4, <1>22
  <2>4. CDepth + 1 \in Nat
    BY <1>6
  <2>5. /\ v \in ThreadStates /\ ResumedAs(t, v, k, CDepth + 1)
        /\ u \in ThreadStates /\ Unchanged(v, u) /\ u.nCcalls = v.nCcalls /\ Len(u.ci) = Len(v.ci) + (Len(t.ci) - 2)
    <3>1. WokenAs(t, u, v, k, CDepth + 1)
      BY <1>4, <1>6, <2>1, <2>2, <2>3, <2>4, ContinuedRecord
    <3> QED BY <3>1 DEF WokenAs
  <2>6. PICK g : g = With(state, cs, co, v)
    OBVIOUS
  <2>7. ResumedAs(t, v, k, Len(state.cs) + 1) /\ k <= MAXCCALLS /\ k = state.th[cur].nCcalls + 1
    BY <1>1, <1>5, <1>6, <1>22, <2>5, LimitsAssumption
  <2>8. CallsGood(g) /\ Runs(g, co) /\ g.cs = cs /\ g.th[co] = v
    BY <1>4, <1>5, <1>8, <1>10, <2>5, <2>6, <2>7, ResumeGood
  <2>9. PICK m : m = Len(t.ci) - 2
    OBVIOUS
  <2>10. m \in Nat /\ m >= 1
    BY <1>4, <2>3, <2>9, ThreadFacts
  <2>11. PICK q : q = [e EXCEPT !.n = m]
    OBVIOUS
  <2>12. PICK cs2 : cs2 = Append(cs, q)
    OBVIOUS
  <2>13. Len(u.ci) = Len(v.ci) + m
    BY <2>5, <2>9
  <2>14. CallsGood(With(state, cs2, co, u))
    BY <1>4, <1>6, <1>9, <1>11, <1>12, <2>5, <2>6, <2>8, <2>10, <2>11, <2>12, <2>13, ContinueGood
  <2>15. state' = With(state, cs2, co, u)
    BY <1>2, <1>22, <2>1, <2>9, <2>11, <2>12 DEF WokenUp
  <2>16. CallsGood(state')
    BY <2>14, <2>15
  <2> QED BY <2>16 DEF CallsInv
<1> QED BY <1>20, <1>21, <1>22

\* A coroutine that runs has been resumed.
LEMMA ResumeOf ==
    ASSUME NEW a \in CStacks, StackOK(a), NEW n \in Nat, n = Len(a), n # 0, NEW L, a[n].th = L, L # Main
    PROVE  \E i \in 1..n : a[i].k = "resume" /\ a[i].th = L
<1> SUFFICES ASSUME \A i \in 1..n : ~(a[i].k = "resume" /\ a[i].th = L) PROVE FALSE
  OBVIOUS
<1>1. NoResume(a, L, 1, n)
  BY DEF NoResume
<1>2. 1 \in 1..Len(a) /\ n \in 1..Len(a) /\ 1 <= n
  OBVIOUS
<1>3. \A m \in 1..n : a[m].th = L
  BY <1>1, <1>2, OneThread
<1>4. a[1].th = L
  BY <1>2, <1>3
<1>5. PlacedAt(a, 1)
  BY <1>2 DEF StackOK
<1>6. a[1].th = Main
  BY <1>5 DEF PlacedAt
<1> QED BY <1>4, <1>6

\* The first thread is in the call that main has made.
LEMMA MainIsCalled ==
    ASSUME NEW a \in CStacks, StackOK(a), NEW n \in Nat, n = Len(a), n # 0, a[n].k # "pcall"
    PROVE  Levels(a, n) >= 1
<1>1. 1 \in 1..Len(a) /\ PlacedAt(a, 1)
  BY DEF StackOK
<1>2. a[1].k = "pcall"
  BY <1>1 DEF PlacedAt
<1>3. n # 1
  BY <1>2
<1>4. 2 \in 1..Len(a) /\ PlacedAt(a, 2) /\ 2 \in 0..Len(a) /\ n \in 0..Len(a) /\ 2 <= n /\ 1 \in 0..Len(a)
  BY <1>3 DEF StackOK
<1>5. a[2].call
  BY <1>4 DEF PlacedAt
<1>6. a[2] \in CRecords
  BY <1>4, StackFacts
<1>7. a[2].k \notin {"resume", "parser"}
  BY <1>4, <1>5 DEF PlacedAt
<1>8. LevelOf(a[2]) = 1
  BY <1>5, <1>6, <1>7, LevelOfIs
<1>9. Levels(a, 2) = Levels(a, 2 - 1) + LevelOf(a[2])
  BY <1>4, LevelsStep
<1>10. Levels(a, 1) \in Nat /\ Levels(a, 2) <= Levels(a, n) /\ Levels(a, n) \in Nat /\ Levels(a, 2) \in Nat
  BY <1>4, LevelsStep
<1>11. 2 - 1 = 1
  OBVIOUS
<1>12. Levels(a, 2) = Levels(a, 1) + 1
  BY <1>8, <1>9, <1>11
<1> QED BY <1>10, <1>12

\* No record counts between two with the same number of C calls below.
LEMMA LevelFlat ==
    ASSUME NEW a \in CStacks, NEW n \in Nat, n = Len(a), NEW i \in 0..n, Levels(a, n) <= Levels(a, i), NEW m \in 1..n, m > i
    PROVE  LevelOf(a[m]) = 0
<1>1. m - 1 \in 0..Len(a) /\ m \in 0..Len(a) /\ i <= m - 1 /\ m <= n /\ n \in 0..Len(a) /\ i \in 0..Len(a) /\ m \in 1..Len(a)
  OBVIOUS
<1>2. Levels(a, i) <= Levels(a, m - 1) /\ Levels(a, m) <= Levels(a, n)
  BY <1>1, LevelsStep
<1>3. Levels(a, m) = Levels(a, m - 1) + LevelOf(a[m])
  BY <1>1, LevelsStep
<1>4. Levels(a, i) \in Nat /\ Levels(a, m - 1) \in Nat /\ Levels(a, m) \in Nat /\ Levels(a, n) \in Nat
  BY <1>1, LevelsStep
<1>5. a[m] \in CRecords
  BY <1>1, StackFacts
<1>6. LevelOf(a[m]) \in Nat
  BY <1>5, LevelOfIs
<1>7. \A w, x, y, z, l \in Nat : w <= x /\ y <= z /\ y = x + l /\ z <= w => l = 0
  OBVIOUS
<1> QED BY <1>2, <1>3, <1>4, <1>6, <1>7

\* A loop or C function that does not count is not in luaD_call.
LEMMA NoCall ==
    ASSUME NEW r \in CRecords, r.k \in {"exec", "cfun"}, LevelOf(r) = 0
    PROVE  ~r.call
<1>1. LevelOf(r) = IF r.call THEN 1 ELSE 0
  BY LevelOfIs
<1> QED BY <1>1

\* Where lua_yield is allowed there is nothing but the loop between the C function and the resume.
Yields(a, n, L) ==
    /\ n > 2 /\ a[n].k = "cfun" /\ a[n].th = L /\ a[n - 1].k = "exec" /\ a[n - 1].th = L
    /\ a[n - 2].k = "resume" /\ a[n - 2].th = L
\* So it is where the counter has its base value.
LEMMA YieldShape ==
    ASSUME NEW a \in CStacks, StackOK(a), NEW n \in Nat, n = Len(a), n # 0, NEW L, a[n].th = L, a[n].k = "cfun",
           NEW t, Fits(a, t, L, n), ~(t.nCcalls > t.baseCcalls)
    PROVE  Yields(a, n, L)
<1>1. Counts(a, t, L, n)
  BY DEF Fits
<1>2. t.nCcalls = Levels(a, n) /\ Levels(a, n) \in Nat
  <2>1. n \in 0..Len(a)
    OBVIOUS
  <2>2. t.nCcalls = Levels(a, n)
    BY <1>1 DEF Counts
  <2>3. Levels(a, n) \in Nat
    BY <2>1, LevelsStep
  <2> QED BY <2>2, <2>3
<1>3. L # Main
  <2> SUFFICES ASSUME L = Main PROVE FALSE
    OBVIOUS
  <2>1. t.baseCcalls = 0
    BY <1>1 DEF Counts
  <2>2. Levels(a, n) >= 1
    BY MainIsCalled
  <2> QED BY <1>2, <2>1, <2>2
<1>4. PICK i \in 1..n : a[i].k = "resume" /\ a[i].th = L
  BY <1>3, ResumeOf
<1>5. t.baseCcalls = Levels(a, i)
  BY <1>1, <1>4 DEF Counts
<1>6. i \in 0..n /\ Levels(a, i) \in Nat
  <2>1. i \in 0..Len(a) /\ i \in 0..n
    BY <1>4
  <2> QED BY <2>1, LevelsStep
<1>7. Levels(a, n) <= Levels(a, i)
  BY <1>2, <1>5, <1>6
<1>8. \A m \in 1..n : m > i => LevelOf(a[m]) = 0
  BY <1>6, <1>7, LevelFlat
<1>9. \A m \in 1..n : a[m] \in CRecords /\ PlacedAt(a, m)
  BY StackFacts DEF StackOK
<1>10. n > i /\ n \in 1..n
  BY <1>4
<1>11. ~a[n].call
  BY <1>8, <1>9, <1>10, NoCall
<1>12. a[n - 1].k = "exec" /\ n > 1
  <2>1. PlacedAt(a, n)
    BY <1>9, <1>10
  <2>2. n > 1
    BY <1>4, <1>10
  <2> QED BY <1>11, <2>1, <2>2 DEF PlacedAt
<1>13. a[n - 1].th = L
  BY <1>9, <1>10, <1>12 DEF PlacedAt
<1>14. PICK m : m = n - 1
  OBVIOUS
<1>15. m \in 1..n /\ m > i /\ a[m].k = "exec" /\ a[m].th = L
  <2>1. m \in 1..n /\ m >= i
    BY <1>4, <1>10, <1>12, <1>14
  <2>2. a[m].k = "exec"
    BY <1>12, <1>14
  <2>3. m # i
    BY <1>4, <2>2
  <2> QED BY <1>4, <1>13, <1>14, <2>1, <2>2, <2>3
<1>16. ~a[m].call
  BY <1>8, <1>9, <1>15, NoCall
<1>17. a[m - 1].k = "resume"
  <2>1. PlacedAt(a, m)
    BY <1>9, <1>15
  <2> QED BY <1>15, <1>16, <2>1 DEF PlacedAt
<1>18. a[m - 1].th = L /\ m > 1
  <2>1. PlacedAt(a, m)
    BY <1>9, <1>15
  <2>2. m > 1
    BY <1>4, <1>15
  <2> QED BY <1>15, <2>1, <2>2 DEF PlacedAt
<1>19. m - 1 = n - 2 /\ n > 2
  BY <1>14, <1>18
<1> QED BY <1>12, <1>13, <1>14, <1>17, <1>18, <1>19 DEF Yields

\* The setjmp is that resume, and the thread has frames to go on with.
LEMMA YieldTarget ==
    ASSUME NEW a \in CStacks, StackOK(a), NEW n \in Nat, n = Len(a), NEW L, Yields(a, n, L),
           NEW t \in ThreadStates, Fits(a, t, L, n)
    PROVE  t.jmp = n - 2 /\ Len(t.ci) >= 3
<1>1. PICK p, q : p = n - 1 /\ q = n - 2
  OBVIOUS
<1>2. /\ p \in 1..n /\ q \in 1..n /\ a[p].k = "exec" /\ a[p].th = L /\ a[q].k = "resume" /\ a[q].th = L
      /\ a[n].k = "cfun" /\ a[n].th = L
  BY <1>1 DEF Yields
<1>3. Innermost(a, L, n, t.jmp)
  BY DEF Fits, Guards
<1>4. CatchesOf(a[q], L) /\ ~CatchesOf(a[p], L) /\ ~CatchesOf(a[n], L)
  BY <1>2 DEF CatchesOf
<1>5. t.jmp = q
  <2>1. t.jmp \in 0..n /\ ~(q > t.jmp)
    BY <1>2, <1>3, <1>4 DEF Innermost
  <2>2. t.jmp # 0 => CatchesOf(a[t.jmp], L)
    BY <1>3 DEF Innermost
  <2>3. t.jmp # p /\ t.jmp # n
    BY <1>1, <1>2, <1>4, <2>2
  <2> QED BY <1>1, <1>2, <2>1, <2>3
<1>6. Len(t.ci) = 1 + Frames(a, L, n)
  <2>1. n # 0
    BY <1>2
  <2> QED BY <2>1 DEF Fits, Counts
<1>7. p \in 1..Len(a) /\ n \in 1..Len(a) /\ p - 1 \in 0..Len(a) /\ p \in 0..Len(a) /\ n \in 0..Len(a) /\ n - 1 = p
  BY <1>1, <1>2
<1>8. Frames(a, L, n) = Frames(a, L, n - 1) + FrameOf(a[n], L) /\ Frames(a, L, p) = Frames(a, L, p - 1) + FrameOf(a[p], L)
  BY <1>7, FramesStep
<1>9. Frames(a, L, n) \in Nat /\ Frames(a, L, p) \in Nat /\ Frames(a, L, p - 1) \in Nat
  BY <1>7, FramesStep
<1>10. a[n] \in CRecords /\ a[p] \in CRecords
  BY <1>7, StackFacts
<1>11. FrameOf(a[n], L) = 1 /\ FrameOf(a[p], L) = a[p].n /\ a[p].n \in Nat
  BY <1>2, <1>10, FrameOfIs, RecordFacts
<1>12. a[p].n >= 1
  <2>1. PlacedAt(a, p)
    BY <1>7 DEF StackOK
  <2> QED BY <1>2, <2>1 DEF PlacedAt
<1>13. Frames(a, L, n) = Frames(a, L, p) + 1
  BY <1>7, <1>8, <1>11
<1>14. Frames(a, L, n) >= 2
  BY <1>8, <1>9, <1>11, <1>12, <1>13
<1>15. Len(t.ci) >= 3
  BY <1>6, <1>9, <1>14
<1> QED BY <1>1, <1>5, <1>15

\* The lower part of a lower part.
LEMMA CutAgain ==
    ASSUME NEW a \in CStacks, NEW n \in 1..Len(a), NEW b, b = SubSeq(a, 1, n)
    PROVE  PopC(b) = SubSeq(a, 1, n - 1) /\ Last(b) = a[n]
<1>1. a \in Seq(CRecords) /\ Len(a) \in Nat
  BY StackFacts DEF CStacks
<1>2. b \in Seq(CRecords) /\ Len(b) = n /\ \A i \in 1..n : b[i] = a[i]
  BY <1>1
<1>3. Last(b) = a[n]
  BY <1>2 DEF Last
<1>4. PICK c, d : c = SubSeq(b, 1, n - 1) /\ d = SubSeq(a, 1, n - 1)
  OBVIOUS
<1>5. n - 1 \in Nat /\ n - 1 <= n
  BY <1>1
<1>6. c \in Seq(CRecords) /\ Len(c) = n - 1 /\ \A i \in 1..(n - 1) : c[i] = b[i]
  BY <1>2, <1>4, <1>5
<1>7. d \in Seq(CRecords) /\ Len(d) = n - 1 /\ \A i \in 1..(n - 1) : d[i] = a[i]
  BY <1>1, <1>4, <1>5
<1>8. c = d
  BY <1>2, <1>6, <1>7
<1>9. PopC(b) = c
  BY <1>2, <1>4 DEF PopC
<1> QED BY <1>3, <1>4, <1>8, <1>9

GaveWay(a, n, j, cs) == j = a[n - 2].save.jmp /\ cs = SubSeq(a, 1, n - 3)
\* lua_yield takes the coroutine off the C stack.
LEMMA YieldGood ==
    ASSUME NEW st, CallsGood(st), NEW L, Runs(st, L), NEW t, t = st.th[L], NEW n, n = Len(st.cs), Yields(st.cs, n, L),
           NEW j, NEW cs, GaveWay(st.cs, n, j, cs), NEW u, u = Failed(t, "yield", j),
           NEW g, g = With(st, cs, L, u)
    PROVE  CallsGood(g)
<1>1. PICK a : a = st.cs
  OBVIOUS
<1>2. /\ a \in CStacks /\ n \in Nat /\ n # 0 /\ L \in Threads /\ Fits(a, t, L, n) /\ Within(a, n)
      /\ Unwound(st) /\ StackOK(a) /\ t \in ThreadStates
  BY <1>1, TopFits DEF Runs, CallsGood
<1>3. t.jmp = n - 2 /\ Len(t.ci) >= 3
  BY <1>1, <1>2, YieldTarget
<1>4. PICK q : q = n - 2
  OBVIOUS
<1>5. q \in 1..n /\ q \in 1..Len(a) /\ a[q].k = "resume" /\ a[q].th = L /\ j = a[q].save.jmp /\ q - 1 = n - 3 /\ n = Len(a)
  BY <1>1, <1>2, <1>4 DEF Yields, GaveWay
<1>6. a[q] \in CRecords
  BY <1>2, <1>5, StackFacts
<1>7. j \in Nat
  BY <1>5, <1>6, RecordFacts
<1>8. "yield" \in Statuses
  BY DEF Statuses
<1>9. /\ u \in ThreadStates /\ u.ci = t.ci /\ u.status = "yield" /\ u.errfunc = t.errfunc /\ u.jmp = j
      /\ u.allowhook = t.allowhook /\ u.fresh = t.fresh
  <2>1. PICK code : code = "yield"
    OBVIOUS
  <2>2. t \in ThreadStates /\ j \in Nat /\ code \in Statuses /\ u = Failed(t, code, j)
    BY <1>2, <1>7, <1>8, <2>1
  <2>3. /\ u \in ThreadStates /\ u.ci = t.ci /\ u.status = code /\ u.errfunc = t.errfunc /\ u.jmp = j
        /\ u.allowhook = t.allowhook /\ u.fresh = t.fresh
    BY <2>2, FailedRecord
  <2> QED BY <2>1, <2>3
<1>10. cs \in CStacks /\ Len(cs) = q - 1 /\ Same(a, cs, q - 1)
  <2>1. q - 1 \in 0..Len(a)
    BY <1>2, <1>5
  <2>2. cs = SubSeq(a, 1, q - 1)
    BY <1>1, <1>5 DEF GaveWay
  <2> QED BY <1>2, <2>1, <2>2, Cut
<1>11. Lives(u, L, 0)
  <2>1. L # Main => ~t.fresh
    BY <1>2 DEF Fits, Lives
  <2> QED BY <1>3, <1>9, <2>1 DEF Lives
<1>12. Fits(cs, u, L, 0)
  <2>1. t.jmp = q /\ u.jmp = a[q].save.jmp
    BY <1>3, <1>4, <1>5, <1>9
  <2> QED BY <1>2, <1>5, <1>9, <1>10, <1>11, <2>1, OffStack
<1>13. Unwound(g) /\ g.cs = cs
  <2>1. Owns(st.cs, L, q - 1)
    <3>1. \A i \in 1..n : i > q - 1 => i = q \/ i = q + 1 \/ i = n
      BY <1>2, <1>4
    <3>2. a[q + 1].th = L /\ a[n].th = L
      <4>1. q + 1 = n - 1
        BY <1>2, <1>4
      <4> QED BY <1>1, <4>1 DEF Yields
    <3> QED BY <1>1, <1>5, <3>1, <3>2 DEF Owns
  <2>2. Owns(cs, L, q - 1) /\ RestOK(cs, q - 1)
    BY <1>5, <1>10 DEF Owns, RestOK
  <2>3. Same(st.cs, cs, q - 1)
    BY <1>1, <1>10
  <2>4. PICK h, m : h = 0 /\ m = q - 1
    OBVIOUS
  <2>5. h \in Nat /\ Fits(cs, u, L, h) /\ Same(st.cs, cs, m) /\ Owns(st.cs, L, m) /\ Owns(cs, L, m) /\ RestOK(cs, m)
    BY <1>12, <2>1, <2>2, <2>3, <2>4
  <2>6. Unwound(st) /\ L \in Threads /\ cs \in CStacks /\ u \in ThreadStates
    BY <1>2, <1>9, <1>10
  <2> QED BY <2>5, <2>6, Moved
<1>14. Within(cs, Len(cs))
  <2>1. \A i \in 0..(q - 1) : Levels(cs, i) = Levels(a, i)
    BY <1>2, <1>10, SameSums
  <2>2. \A i \in 0..(q - 1) : i \in 0..n
    BY <1>2, <1>5
  <2> QED BY <1>2, <1>10, <2>1, <2>2 DEF Within
<1> QED BY <1>13, <1>14 DEF CallsGood

\* The resume has been found.
LEMMA NotLostGood ==
    ASSUME NEW st, CallsGood(st), NEW b \in BOOLEAN, ~b, NEW g, g = [st EXCEPT !.lost = b]
    PROVE  CallsGood(g)
<1>1. st \in CallStates
  BY DEF CallsGood, Unwound
<1>2. g \in CallStates /\ g.cs = st.cs /\ g.th = st.th /\ g.lost = b
  BY <1>1 DEF CallStates
<1>3. ~g.lost
  BY <1>2, Zenon
<1> QED BY <1>2, <1>3 DEF CallsGood, Unwound

\* What lua_yield comes to.
Yielded(g, at) == state' = [g EXCEPT !.lost = g.lost \/ at.k # "resume" \/ at.th # cur]
\* The step of lua_yield, if there is a loop below.
LEMMA YieldWays ==
    ASSUME NEW a, a = state.cs, NEW n, n = Len(a), CYield, ~(me.nCcalls > me.baseCcalls), NEW below, below = PopC(a),
           Last(below).k = "exec", NEW over, over = PopC(below), NEW at, at = Last(over),
           NEW g, g = With(state, PopC(over), cur, Failed(me, "yield", at.save.jmp))
    PROVE  Yielded(g, at)
  BY DEF CYield, Failed, Yielded

\* lua_yield
LEMMA CYieldKeeps == ASSUME CallsInv, CYield PROVE CallsInv'
<1>1. CRuns("cfun") /\ state.cs # <<>> /\ CTop.k = "cfun"
  BY DEF CYield, CRuns
<1>2. /\ CallsGood(state) /\ Runs(state, cur) /\ CTop = Last(state.cs) /\ me \in ThreadStates /\ me = state.th[cur]
  BY <1>1, NowRuns
<1>3. CASE me.nCcalls > me.baseCcalls
  <2>1. state' = ErrorMsg(state, cur)
    BY <1>3 DEF CYield
  <2>2. CallsGood(state')
    BY <1>2, <2>1, ErrorMsgGood
  <2> QED BY <2>2 DEF CallsInv
<1>4. CASE ~(me.nCcalls > me.baseCcalls)
  <2>1. PICK a, n : a = state.cs /\ n = Len(a)
    OBVIOUS
  <2>2. /\ a \in CStacks /\ n \in Nat /\ n # 0 /\ Fits(a, me, cur, n) /\ StackOK(a) /\ a[n] = CTop /\ a[n].th = cur
        /\ state \in CallStates /\ ~state.lost /\ cur \in Threads
    BY <1>2, <2>1, TopFits DEF Runs, CallsGood
  <2>3. Yields(a, n, cur)
    BY <1>1, <1>4, <2>1, <2>2, YieldShape
  <2>4. PICK below, over, at, cs : below = PopC(a) /\ over = PopC(below) /\ at = Last(over) /\ cs = PopC(over)
    OBVIOUS
  <2>5. n > 2 /\ a[n - 1].k = "exec" /\ a[n - 2].k = "resume" /\ a[n - 2].th = cur
    BY <2>3 DEF Yields
  <2>6. n - 1 \in 1..Len(a) /\ n - 2 \in 1..Len(a) /\ (n - 1) - 1 = n - 2 /\ (n - 2) - 1 = n - 3
    BY <2>1, <2>2, <2>5
  <2>7. below = SubSeq(a, 1, n - 1)
    BY <2>1, <2>4 DEF PopC
  <2>8. PopC(below) = SubSeq(a, 1, (n - 1) - 1) /\ Last(below) = a[n - 1]
    BY <2>2, <2>6, <2>7, CutAgain
  <2>9. over = SubSeq(a, 1, n - 2) /\ Last(below).k = "exec"
    BY <2>4, <2>5, <2>6, <2>8
  <2>10. PopC(over) = SubSeq(a, 1, (n - 2) - 1) /\ Last(over) = a[n - 2]
    BY <2>2, <2>6, <2>9, CutAgain
  <2>11. cs = SubSeq(a, 1, n - 3) /\ at = a[n - 2]
    BY <2>4, <2>6, <2>10
  <2>12. PICK g : g = With(state, cs, cur, Failed(me, "yield", at.save.jmp))
    OBVIOUS
  <2>13. CallsGood(g)
    <3>1. PICK j, u : j = state.cs[n - 2].save.jmp /\ u = Failed(me, "yield", j)
      OBVIOUS
    <3>2. g = With(state, cs, cur, u) /\ GaveWay(state.cs, n, j, cs) /\ Yields(state.cs, n, cur) /\ n = Len(state.cs)
      BY <2>1, <2>3, <2>11, <2>12, <3>1 DEF GaveWay
    <3> QED BY <1>2, <3>1, <3>2, YieldGood
  <2>14. state' = [g EXCEPT !.lost = g.lost \/ at.k # "resume" \/ at.th # cur]
    <3>1. g = With(state, PopC(over), cur, Failed(me, "yield", at.save.jmp))
      BY <2>4, <2>12
    <3>2. below = PopC(a) /\ over = PopC(below) /\ at = Last(over) /\ Last(below).k = "exec"
      BY <2>4, <2>9
    <3>3. Yielded(g, at)
      BY <1>4, <2>1, <3>1, <3>2, YieldWays
    <3> QED BY <3>3 DEF Yielded
  <2>15. PICK b : b \in BOOLEAN /\ b = (g.lost \/ at.k # "resume" \/ at.th # cur)
    OBVIOUS
  <2>16. ~g.lost
    BY <2>13 DEF CallsGood, Unwound
  <2>17. ~b
    BY <2>5, <2>11, <2>15, <2>16
  <2>18. state' = [g EXCEPT !.lost = b]
    BY <2>14, <2>15
  <2>19. CallsGood(state')
    BY <2>13, <2>15, <2>17, <2>18, NotLostGood
  <2> QED BY <2>19 DEF CallsInv
<1> QED BY <1>3, <1>4

\* The threads before the first call.
LEMMA NewThreadIs ==
    ASSUME NEW t, t = NewThread
    PROVE  /\ t \in ThreadStates /\ Len(t.ci) = 1 /\ t.nCcalls = 0 /\ t.baseCcalls = 0
           /\ t.status = "ok" /\ t.errfunc = "none" /\ t.jmp = 0 /\ t.allowhook
<1>1. PICK b : b \in BOOLEAN /\ b = TRUE
  OBVIOUS
<1>2. PICK c : c = <<"base">>
  OBVIOUS
<1>3. c \in CallInfos /\ Len(c) = 1
  BY <1>2 DEF CallInfos
<1>4. "ok" \in Statuses /\ "none" \in Handlers /\ BasicCI \in Nat /\ 0 \in Nat /\ 0 \in Int
  BY LimitsAssumption DEF Statuses, Handlers
<1>5. t = [ci |-> c, size |-> BasicCI, nCcalls |-> 0, baseCcalls |-> 0,
           status |-> "ok", errfunc |-> "none", jmp |-> 0, allowhook |-> b, fresh |-> b]
  BY <1>1, <1>2 DEF NewThread
<1>6. t \in ThreadStates /\ t.ci = c /\ t.nCcalls = 0 /\ t.baseCcalls = 0
  BY <1>1, <1>3, <1>4, <1>5 DEF ThreadStates
<1>7. t.status = "ok" /\ t.errfunc = "none" /\ t.jmp = 0 /\ t.allowhook = b
  BY <1>5
<1>8. t.allowhook
  BY <1>1, <1>7, Zenon
<1>9. Len(t.ci) = 1
  BY <1>3, <1>6
<1> QED BY <1>6, <1>7, <1>8, <1>9

\* A new thread fits the empty C stack.
LEMMA EmptyFits ==
    ASSUME NEW t, t = NewThread, NEW cs, cs = <<>>, NEW L
    PROVE  Fits(cs, t, L, 0)
<1>1. /\ Len(t.ci) = 1 /\ t.nCcalls = 0 /\ t.baseCcalls = 0
      /\ t.status = "ok" /\ t.errfunc = "none" /\ t.jmp = 0 /\ t.allowhook
  BY NewThreadIs
<1>2. Len(cs) = 0
  OBVIOUS
<1>3. Height(cs, L, 0)
  BY <1>2 DEF Height
<1>4. Counts(cs, t, L, 0)
  BY <1>1 DEF Counts
<1>5. Lives(t, L, 0)
  BY <1>1 DEF Lives
<1>6. Guards(cs, t, L, 0)
  BY <1>1 DEF Guards, Innermost
<1> QED BY <1>3, <1>4, <1>5, <1>6 DEF Fits

Unused == [cs |-> <<>>, th |-> [L \in Threads |-> NewThread], hook |-> FALSE, lost |-> FALSE]
\* All of them do.
LEMMA UnusedGood ==
    ASSUME NEW st, st = Unused
    PROVE  Unwound(st) /\ st.cs = <<>> /\ st.cs \in CStacks /\ st.th[Main] = NewThread
<1>1. PICK b : b \in BOOLEAN /\ b = FALSE
  OBVIOUS
<1>2. PICK f, cs : f = [L \in Threads |-> NewThread] /\ cs = <<>>
  OBVIOUS
<1>3. st = [cs |-> cs, th |-> f, hook |-> b, lost |-> b]
  BY <1>1, <1>2 DEF Unused
<1>4. st.cs = cs /\ st.th = f /\ st.lost = b /\ st.hook = b
  BY <1>3
<1>5. ~st.lost
  BY <1>1, <1>4, Zenon
<1>6. NewThread \in ThreadStates
  BY NewThreadIs
<1>7. f \in [Threads -> ThreadStates] /\ \A L \in Threads : f[L] = NewThread
  BY <1>2, <1>6
<1>8. cs \in CStacks /\ Len(cs) = 0
  BY <1>2 DEF CStacks
<1>9. st \in CallStates
  BY <1>1, <1>3, <1>7, <1>8 DEF CallStates
<1>10. StackOK(st.cs)
  BY <1>4, <1>8 DEF StackOK
<1>11. \A L \in Threads : Fits(st.cs, st.th[L], L, 0)
  BY <1>2, <1>4, <1>7, EmptyFits
<1>12. \A L \in Threads : \E h \in Nat : Fits(st.cs, st.th[L], L, h)
  BY <1>11
<1>13. Main \in Threads
  BY DEF Threads
<1>14. st.th[Main] = NewThread
  BY <1>4, <1>7, <1>13
<1> QED BY <1>2, <1>4, <1>5, <1>8, <1>9, <1>10, <1>12, <1>14 DEF Unwound

\* The protected call of main.
LEMMA FirstPlaced ==
    ASSUME NEW cs \in CStacks, Len(cs) = 1, NEW r, cs[1] = r, r.k = "pcall", r.th = Main, ~r.call,
           NEW t, t = NewThread, NEW s, s = SavedOf(t), r.save = s
    PROVE  PlacedAt(cs, 1) /\ SavedAt(cs, 1)
<1>1. /\ t \in ThreadStates /\ Len(t.ci) = 1 /\ t.nCcalls = 0 /\ t.errfunc = "none" /\ t.jmp = 0 /\ t.allowhook
  BY NewThreadIs
<1>2. s.n = t.nCcalls /\ s.ci = Len(t.ci) /\ s.errfunc = t.errfunc /\ s.allowhook = t.allowhook /\ s.jmp = t.jmp
  BY <1>1, SavedRecord
<1>3. s.n = 0 /\ s.ci = 1 /\ s.errfunc = "none" /\ s.jmp = 0
  BY <1>1, <1>2
<1>4. s.allowhook
  BY <1>1, <1>2, Zenon
<1>5. PlacedAt(cs, 1)
  BY DEF PlacedAt
<1>6. Levels(cs, 0) = 0 /\ Frames(cs, Main, 0) = 0
  BY LevelsStep, FramesStep
<1>7. Innermost(cs, Main, 0, 0)
  BY DEF Innermost
<1>8. 1 - 1 = 0 /\ 1 + 0 = 1
  OBVIOUS
<1>9. SavedAt(cs, 1)
  BY <1>3, <1>4, <1>6, <1>7, <1>8 DEF SavedAt
<1> QED BY <1>5, <1>9

\* The thread in that call.
LEMMA FirstFits ==
    ASSUME NEW cs \in CStacks, Len(cs) = 1, NEW r \in CRecords, cs[1] = r, r.k = "pcall", r.th = Main, LevelOf(r) = 0,
           NEW t, t = NewThread, NEW f, f = "none", NEW j, j = 1, NEW u, u = ProtectedThread(t, f, j)
    PROVE  u \in ThreadStates /\ Fits(cs, u, Main, 1) /\ Within(cs, Len(cs))
<1>1. /\ t \in ThreadStates /\ Len(t.ci) = 1 /\ t.nCcalls = 0 /\ t.baseCcalls = 0
      /\ t.status = "ok" /\ t.errfunc = "none" /\ t.jmp = 0 /\ t.allowhook
  BY NewThreadIs
<1>3. f \in Handlers /\ j \in Nat
  BY DEF Handlers
<1>4. /\ u \in ThreadStates /\ u.ci = t.ci /\ u.nCcalls = t.nCcalls /\ u.baseCcalls = t.baseCcalls
      /\ u.status = t.status /\ u.allowhook = t.allowhook /\ u.jmp = j /\ u.errfunc = f
  <2>1. t \in ThreadStates
    BY <1>1
  <2> QED BY <1>3, <2>1, ProtectedRecord
<1>5. u.allowhook
  BY <1>1, <1>4, Zenon
<1>6. Len(u.ci) = 1 /\ u.nCcalls = 0 /\ u.baseCcalls = 0 /\ u.status = "ok" /\ u.jmp = 1 /\ u.errfunc = "none"
  BY <1>1, <1>4
<1>7. 1 \in 1..Len(cs) /\ 1 - 1 = 0
  OBVIOUS
<1>8. Levels(cs, 0) = 0 /\ Frames(cs, Main, 0) = 0
  BY LevelsStep, FramesStep
<1>9. Levels(cs, 1) = Levels(cs, 1 - 1) + LevelOf(cs[1]) /\ Frames(cs, Main, 1) = Frames(cs, Main, 1 - 1) + FrameOf(cs[1], Main)
  BY <1>7, LevelsStep, FramesStep
<1>10. FrameOf(r, Main) = 0
  BY FrameOfIs
<1>11. Levels(cs, 1) = 0 /\ Frames(cs, Main, 1) = 0
  BY <1>7, <1>8, <1>9, <1>10
<1>12. Height(cs, Main, 1)
  BY DEF Height
<1>13. Counts(cs, u, Main, 1)
  <2>1. \A i \in 1..1 : cs[i].k # "resume"
    OBVIOUS
  <2>2. Len(u.ci) = 1 + Frames(cs, Main, 1)
    <3>1. 1 = 1 + 0
      OBVIOUS
    <3> QED BY <1>6, <1>11, <3>1, Zenon
  <2> QED BY <1>6, <1>11, <2>1, <2>2 DEF Counts
<1>14. Lives(u, Main, 1)
  BY <1>6 DEF Lives
<1>15. Guards(cs, u, Main, 1)
  <2>1. Innermost(cs, Main, 1, 1)
    BY DEF Innermost, CatchesOf
  <2> QED BY <1>5, <1>6, <2>1 DEF Guards
<1>16. Within(cs, Len(cs))
  <2>1. \A i \in 0..1 : i = 0 \/ i = 1
    OBVIOUS
  <2>2. 0 <= MAXCCALLS + Margin
    BY LimitsAssumption
  <2> QED BY <1>8, <1>11, <2>1, <2>2 DEF Within
<1> QED BY <1>4, <1>12, <1>13, <1>14, <1>15, <1>16 DEF Fits

\* The invariant holds when pmain is called.
LEMMA CallsStart == ASSUME CallsInit PROVE CallsInv
<1>1. PICK st, t, s, r, cs, u : /\ st = Unused /\ t = NewThread /\ s = SavedOf(t) /\ r = Saving(Main, s)
                                /\ cs = Append(st.cs, r) /\ u = ProtectedThread(t, "none", 1)
  OBVIOUS
<1>2. Unwound(st) /\ st.cs = <<>> /\ st.cs \in CStacks /\ st.th[Main] = t /\ Main \in Threads /\ t \in ThreadStates
  BY <1>1, UnusedGood, NewThreadIs DEF Threads
<1>3. PICK g : g = Protect(st, Main, "none")
  OBVIOUS
<1>4. Len(st.cs) = 0 /\ Len(st.cs) + 1 = 1
  BY <1>2
<1>5. g = With(st, cs, Main, u)
  BY <1>1, <1>2, <1>3, <1>4 DEF Protect, ProtectedThread, SavedOf, Saving
<1>6. s \in Saves
  BY <1>1, <1>2, SavedRecord
<1>7. r \in CRecords /\ r.k = "pcall" /\ r.th = Main /\ ~r.call /\ r.save = s /\ LevelOf(r) = 0
  BY <1>1, <1>2, <1>6, PcallRecord
<1>8. Grown(st.cs, r, cs)
  BY <1>1 DEF Grown
<1>9. cs \in CStacks /\ Len(cs) = 1 /\ cs[1] = r /\ Last(cs) = r /\ cs # <<>> /\ Same(st.cs, cs, 0)
  <2>1. /\ cs \in CStacks /\ Len(cs) = Len(st.cs) + 1 /\ Same(st.cs, cs, Len(st.cs)) /\ cs[Len(st.cs) + 1] = r
        /\ Last(cs) = r /\ cs # <<>>
    <3>1. PICK a : a = st.cs
      OBVIOUS
    <3>2. a \in CStacks /\ r \in CRecords /\ Grown(a, r, cs)
      BY <1>2, <1>7, <1>8, <3>1
    <3>3. /\ cs \in CStacks /\ Len(cs) = Len(a) + 1 /\ Same(a, cs, Len(a)) /\ cs[Len(a) + 1] = r
          /\ Last(cs) = r /\ cs # <<>>
      BY <3>2, Appended
    <3> QED BY <3>1, <3>3
  <2> QED BY <1>4, <2>1
<1>10. PlacedAt(cs, 1) /\ SavedAt(cs, 1)
  BY <1>1, <1>7, <1>9, FirstPlaced
<1>11. u \in ThreadStates /\ Fits(cs, u, Main, 1) /\ Within(cs, Len(cs))
  <2>1. PICK f, j : f = "none" /\ j = 1
    OBVIOUS
  <2>2. u = ProtectedThread(t, f, j)
    BY <1>1, <2>1
  <2>3. t = NewThread
    BY <1>1
  <2>4. cs \in CStacks /\ Len(cs) = 1 /\ r \in CRecords /\ cs[1] = r /\ r.k = "pcall" /\ r.th = Main /\ LevelOf(r) = 0
    BY <1>7, <1>9
  <2> QED BY <2>1, <2>2, <2>3, <2>4, FirstFits
<1>12. Owns(st.cs, Main, 0)
  BY <1>4 DEF Owns
<1>13. Owns(cs, Main, 0)
  BY <1>7, <1>9 DEF Owns
<1>14. RestOK(cs, 0)
  BY <1>9, <1>10 DEF RestOK
<1>15. PICK m, h : m = 0 /\ h = 1
  OBVIOUS
<1>16. Unwound(g) /\ g.cs = cs
  <2>1. Same(st.cs, cs, m) /\ Owns(st.cs, Main, m) /\ Owns(cs, Main, m) /\ RestOK(cs, m) /\ h \in Nat /\ Fits(cs, u, Main, h)
    BY <1>9, <1>11, <1>12, <1>13, <1>14, <1>15
  <2>2. Unwound(st) /\ Main \in Threads /\ cs \in CStacks /\ u \in ThreadStates
    BY <1>2, <1>9, <1>11
  <2> QED BY <1>5, <2>1, <2>2, Moved
<1>17. CallsGood(g)
  BY <1>11, <1>16 DEF CallsGood
<1>18. Runs(g, Main)
  BY <1>7, <1>9, <1>16 DEF Runs
<1>19. PICK kind : kind = "C"
  OBVIOUS
<1>20. kind \in {"L", "C"} /\ state = CallD(g, Main, kind, FALSE)
  BY <1>1, <1>3, <1>19 DEF CallsInit, Unused
<1>21. CallsGood(CallD(g, Main, kind, FALSE))
  BY <1>17, <1>18, <1>20, CallDGood
<1>22. CallsGood(state)
  BY <1>20, <1>21, Zenon
<1> QED BY <1>22 DEF CallsInv

\* Every step keeps the invariant.
LEMMA CallsStep == ASSUME CallsInv, [CallsNext]_cvars PROVE CallsInv'
<1>1. CASE VMCallLua \/ VMCallC \/ VMTailCall \/ VMReturn
  BY <1>1, VMCallLuaKeeps, VMCallCKeeps, VMTailCallKeeps, VMReturnKeeps
<1>2. CASE VMError \/ CError \/ CReturn \/ CLoad
  BY <1>2, ErrorKeeps, CReturnKeeps, CLoadKeeps
<1>3. CASE DoCall \/ \E kind \in {"L", "C"}, errfunc \in {"none", "L"} : CPcall(kind, errfunc)
  BY <1>3, PcallKeeps
<1>4. CASE DoCallEnds \/ UNCHANGED cvars
  <2>1. state' = state
    BY <1>4 DEF DoCallEnds, cvars
  <2> QED BY <2>1 DEF CallsInv
<1>5. CASE ParserEnter \/ ParserLeave \/ ParserRead
  BY <1>5, ParserEnterKeeps, ParserLeaveKeeps, ParserReadKeeps
<1>6. CASE \E ok \in BOOLEAN : ParserEnd(ok)
  BY <1>6, ParserEndKeeps
<1>7. CASE \E kind \in {"L", "C"} : VMCallMeta(kind) \/ CCall(kind)
  BY <1>7, VMCallMetaKeeps, CCallKeeps
<1>8. CASE \E co \in Coroutines : CResume(co)
  BY <1>8, CResumeKeeps
<1>9. CASE \E L \in Threads : ShrinkCI(L)
  BY <1>9, ShrinkCIKeeps
<1>10. CASE CYield \/ Sigint \/ Interrupted
  BY <1>10, CYieldKeeps, SigintKeeps, InterruptedKeeps
<1> QED BY <1>1, <1>2, <1>3, <1>4, <1>5, <1>6, <1>7, <1>8, <1>9, <1>10 DEF CallsNext

\* The invariant says what CallsUnwind does.
LEMMA FitsOf ==
    ASSUME CallsInv, NEW L \in Threads, NEW t, t = state.th[L], NEW a, a = state.cs, NEW n, n = CDepth
    PROVE  /\ a \in CStacks /\ n \in Nat /\ n = Len(a) /\ StackOK(a) /\ t \in ThreadStates
           /\ \E h \in 0..n : Fits(a, t, L, h)
<1>1. Unwound(state)
  BY DEF CallsInv, CallsGood
<1>2. a \in CStacks /\ t \in ThreadStates /\ StackOK(a)
  BY <1>1 DEF Unwound, CallStates
<1>3. n = Len(a) /\ n \in Nat
  BY <1>2, StackFacts DEF CDepth
<1>4. PICK h \in Nat : Fits(a, t, L, h)
  BY <1>1 DEF Unwound
<1>5. h \in 0..n
  BY <1>3, <1>4 DEF Fits, Height
<1> QED BY <1>2, <1>3, <1>4, <1>5

\* It says where the counters are,
LEMMA InvLevels == ASSUME CallsInv PROVE LevelsExact
<1>1. ASSUME NEW L \in Threads, NEW i \in LastOf(L) PROVE state.th[L].nCcalls = Levels(state.cs, i)
  <2>1. PICK t, a, n : t = state.th[L] /\ a = state.cs /\ n = CDepth
    OBVIOUS
  <2>2. a \in CStacks /\ n \in Nat /\ n = Len(a) /\ \E h \in 0..n : Fits(a, t, L, h)
    BY <2>1, FitsOf
  <2>3. PICK h \in 0..n : Fits(a, t, L, h)
    BY <2>2
  <2>4. i \in 1..n /\ a[i].th = L /\ \A j \in 1..n : a[j].th = L => j <= i
    BY <1>1, <2>1 DEF LastOf
  <2>5. Height(a, L, h) /\ Counts(a, t, L, h)
    BY <2>3 DEF Fits
  <2>6. h = i
    BY <2>2, <2>4, <2>5 DEF Height
  <2>7. t.nCcalls = Levels(a, i)
    BY <2>4, <2>5, <2>6 DEF Counts
  <2> QED BY <2>1, <2>7
<1>2. Levels(state.cs, CDepth) <= MAXCCALLS + Margin
  <2>1. Within(state.cs, CDepth) /\ state.cs \in CStacks
    BY DEF CallsInv, CallsGood, CDepth, Unwound, CallStates
  <2>2. CDepth \in 0..CDepth
    BY <2>1, StackFacts DEF CDepth
  <2> QED BY <2>1, <2>2 DEF Within
<1> QED BY <1>1, <1>2 DEF LevelsExact

\* where errors go,
LEMMA InvErrors == ASSUME CallsInv PROVE ErrorsStayInThread
<1> SUFFICES ASSUME NEW L \in Threads, NEW own, own = {i \in 1..CDepth : state.cs[i].k \in {"pcall", "resume"} /\ state.cs[i].th = L}
             PROVE  /\ state.th[L].jmp = IF own = {} THEN 0 ELSE CHOOSE i \in own : \A j \in own : j <= i
                    /\ (state.cs # <<>> /\ L = cur) =>
                         \A i \in state.th[L].jmp..CDepth : i = 0 \/ state.cs[i].th = L
  BY DEF ErrorsStayInThread
<1>1. PICK t, a, n : t = state.th[L] /\ a = state.cs /\ n = CDepth
  OBVIOUS
<1>2. a \in CStacks /\ n \in Nat /\ n = Len(a) /\ \E h \in 0..n : Fits(a, t, L, h)
  BY <1>1, FitsOf
<1>3. PICK h \in 0..n : Fits(a, t, L, h)
  BY <1>2
<1>4. Height(a, L, h) /\ Innermost(a, L, h, t.jmp)
  BY <1>3 DEF Fits, Guards
<1>5. \A i : i \in own <=> i \in 1..n /\ CatchesOf(a[i], L)
  BY <1>1 DEF CatchesOf
<1>6. \A i \in own : i \in 1..h /\ i <= t.jmp
  <2> TAKE i \in own
  <2>1. i \in 1..n /\ CatchesOf(a[i], L)
    BY <1>5
  <2>2. a[i].th = L
    BY <2>1 DEF CatchesOf
  <2>3. i \in 1..h
    BY <1>2, <1>3, <1>4, <2>1, <2>2 DEF Height
  <2> QED BY <1>4, <2>1, <2>3 DEF Innermost
<1>7. t.jmp \in Nat /\ (t.jmp # 0 => t.jmp \in own)
  <2>1. t.jmp \in 0..h /\ (t.jmp # 0 => CatchesOf(a[t.jmp], L))
    BY <1>4 DEF Innermost
  <2>2. t.jmp \in Nat /\ (t.jmp # 0 => t.jmp \in 1..n)
    BY <1>2, <1>3, <2>1
  <2> QED BY <1>5, <2>1, <2>2
<1>8. own = {} => t.jmp = 0
  BY <1>7
<1>9. own # {} => t.jmp = CHOOSE i \in own : \A j \in own : j <= i
  <2> SUFFICES ASSUME own # {} PROVE t.jmp = CHOOSE i \in own : \A j \in own : j <= i
    OBVIOUS
  <2>1. PICK i \in own : TRUE
    OBVIOUS
  <2>2. i \in 1..h /\ i <= t.jmp
    BY <1>6, <2>1
  <2>3. t.jmp # 0
    BY <1>3, <1>7, <2>2
  <2>4. t.jmp \in own /\ \A j \in own : j <= t.jmp
    BY <1>6, <1>7, <2>3
  <2>5. PICK c : c = CHOOSE x \in own : \A j \in own : j <= x
    OBVIOUS
  <2>6. c \in own /\ \A j \in own : j <= c
    BY <2>4, <2>5
  <2>7. c \in Nat /\ c <= t.jmp /\ t.jmp <= c
    BY <1>3, <1>6, <2>4, <2>6
  <2>8. c = t.jmp
    BY <1>7, <2>7
  <2> QED BY <2>5, <2>8
<1>10. (state.cs # <<>> /\ L = cur) => \A i \in state.th[L].jmp..CDepth : i = 0 \/ state.cs[i].th = L
  <2> SUFFICES ASSUME state.cs # <<>>, L = cur PROVE \A i \in t.jmp..n : a[i].th = L
    BY <1>1
  <2>1. Unwound(state) /\ L = Last(state.cs).th
    BY DEF CallsInv, CallsGood, cur, CTop
  <2>2. PICK j : j = state.th[L].jmp
    OBVIOUS
  <2>3. \A m \in j..Len(state.cs) : state.cs[m].th = L
    BY <2>1, <2>2, Target
  <2> QED BY <1>1, <1>2, <2>2, <2>3
<1> QED BY <1>1, <1>8, <1>9, <1>10

\* what handlers and hooks there are,
LEMMA InvHandlers == ASSUME CallsInv PROVE HandlersRestored
<1> SUFFICES ASSUME NEW L \in Threads, NEW own, own = {i \in 1..CDepth : state.cs[i].k = "pcall" /\ state.cs[i].th = L}
             PROVE  /\ ~state.th[L].allowhook => \E i \in 1..CDepth : state.cs[i].k = "hook" /\ state.cs[i].th = L
                    /\ own = {} => state.th[L].errfunc = "none"
  BY DEF HandlersRestored
<1>1. PICK t, a, n : t = state.th[L] /\ a = state.cs /\ n = CDepth
  OBVIOUS
<1>2. a \in CStacks /\ n \in Nat /\ n = Len(a) /\ \E h \in 0..n : Fits(a, t, L, h)
  BY <1>1, FitsOf
<1>3. PICK h \in 0..n : Fits(a, t, L, h)
  BY <1>2
<1>4. Guards(a, t, L, h) /\ \A i \in 1..h : i \in 1..n
  BY <1>2, <1>3 DEF Fits
<1>5. ~t.allowhook => \E i \in 1..n : a[i].k = "hook" /\ a[i].th = L
  BY <1>4 DEF Guards, Hooks
<1>6. own = {} => t.errfunc = "none"
  <2> SUFFICES ASSUME own = {} PROVE t.errfunc = "none"
    OBVIOUS
  <2>1. \A i \in 1..n : ~(a[i].k = "pcall" /\ a[i].th = L)
    BY <1>1
  <2> QED BY <1>4, <2>1 DEF Guards, Protects
<1> QED BY <1>1, <1>5, <1>6

\* A thread on the C stack is there in one piece.
HasAt(a, L, i) == i \in 1..Len(a) /\ a[i].th = L
\* if L has records at both ends it has them in between.
LEMMA InOnePiece ==
    ASSUME NEW a \in CStacks, StackOK(a), NEW L, NEW i, NEW j, HasAt(a, L, i), HasAt(a, L, j), NEW m \in i..j
    PROVE  HasAt(a, L, m)
<1>1. Len(a) \in Nat /\ i \in 1..Len(a) /\ j \in 1..Len(a) /\ a[i].th = L /\ a[j].th = L
  BY StackFacts DEF HasAt
<1>2. i <= j /\ m \in 1..Len(a)
  BY <1>1
<1>3. NoResume(a, L, i, j)
  <2> SUFFICES ASSUME NEW k \in 1..j, k > i, a[k].th = L, a[k].k = "resume" PROVE FALSE
    BY DEF NoResume
  <2>1. k \in 1..Len(a) /\ i \in 1..(k - 1)
    BY <1>1
  <2>2. PlacedAt(a, k)
    BY <2>1 DEF StackOK
  <2>3. \A l \in 1..(k - 1) : a[l].th # a[k].th
    BY <2>2 DEF PlacedAt
  <2> QED BY <1>1, <2>1, <2>3
<1>4. \A l \in i..j : a[l].th = L
  BY <1>1, <1>2, <1>3, OneThread
<1> QED BY <1>2, <1>4 DEF HasAt

\* A thread that has resumed another one is in a C function.
LEMMA ResumerFrames ==
    ASSUME NEW a \in CStacks, StackOK(a), NEW n \in Nat, n = Len(a), NEW L, NEW h \in 1..n, Height(a, L, h), a[n].th # L
    PROVE  Frames(a, L, h) >= 1
<1>1. a[h].th = L
  BY DEF Height
<1>2. h < n
  BY <1>1
<1>3. PICK k : k = h + 1
  OBVIOUS
<1>4. k \in 1..n /\ k > h /\ k - 1 = h /\ k > 1
  BY <1>2, <1>3
<1>5. a[k].th # L /\ PlacedAt(a, k)
  BY <1>4 DEF Height, StackOK
<1>6. a[k].k = "resume"
  BY <1>1, <1>4, <1>5 DEF PlacedAt
<1>7. a[h].k = "cfun"
  BY <1>4, <1>5, <1>6 DEF PlacedAt
<1>8. a[h] \in CRecords
  BY StackFacts
<1>9. FrameOf(a[h], L) = 1
  BY <1>1, <1>7, <1>8, FrameOfIs
<1>10. h \in 1..Len(a) /\ h - 1 \in 0..Len(a)
  OBVIOUS
<1>11. Frames(a, L, h) = Frames(a, L, h - 1) + FrameOf(a[h], L) /\ Frames(a, L, h - 1) \in Nat
  BY <1>10, FramesStep
<1> QED BY <1>9, <1>11

\* that threads are in one piece,
LEMMA InvPieces ==
    ASSUME CallsInv, NEW L \in Threads, NEW on, on = {i \in 1..CDepth : state.cs[i].th = L}
    PROVE  /\ \A i, j \in on : \A m \in i..j : m \in on
           /\ on # {} => Len(state.th[L].ci) = 1 + Frames(state.cs, L, CDepth)
<1>1. PICK t, a, n : t = state.th[L] /\ a = state.cs /\ n = CDepth
  OBVIOUS
<1>2. a \in CStacks /\ n \in Nat /\ n = Len(a) /\ StackOK(a) /\ \E h \in 0..n : Fits(a, t, L, h)
  BY <1>1, FitsOf
<1>3. PICK h \in 0..n : Fits(a, t, L, h)
  BY <1>2
<1>4. \A i : i \in on <=> i \in 1..n /\ a[i].th = L
  BY <1>1
<1>5. \A i, j \in on : \A m \in i..j : m \in on
  <2>1. \A i : i \in on <=> HasAt(a, L, i)
    BY <1>2, <1>4 DEF HasAt
  <2>2. \A i, j : HasAt(a, L, i) /\ HasAt(a, L, j) => \A m \in i..j : HasAt(a, L, m)
    BY <1>2, InOnePiece
  <2> QED BY <2>1, <2>2
<1>6. ASSUME on # {} PROVE Len(t.ci) = 1 + Frames(a, L, n)
  <2>1. PICK i \in on : TRUE
    BY <1>6
  <2>2. i \in 1..n /\ a[i].th = L
    BY <1>4, <2>1
  <2>3. Height(a, L, h) /\ Counts(a, t, L, h)
    BY <1>3 DEF Fits
  <2>4. h # 0
    BY <1>2, <2>2, <2>3 DEF Height
  <2>5. Len(t.ci) = 1 + Frames(a, L, h)
    BY <2>3, <2>4 DEF Counts
  <2>6. h \in 0..Len(a) /\ n \in 0..Len(a) /\ h <= n /\ \A m \in 1..n : m > h => a[m].th # L
    BY <1>2, <1>3, <2>3 DEF Height
  <2>7. Frames(a, L, n) = Frames(a, L, h)
    BY <1>2, <2>6, FramesOfOthers
  <2> QED BY <2>5, <2>7
<1> QED BY <1>1, <1>5, <1>6

Told(co, on) ==
    IF co = cur THEN "running" ELSE IF on # {} THEN "normal"
    ELSE IF state.th[co].status \in {"run", "errerr"}
            \/ (state.th[co].status = "ok" /\ ~state.th[co].fresh) THEN "dead" ELSE "suspended"

\* that coroutine.status is right,
LEMMA InvStatus ==
    ASSUME CallsInv, NEW co \in Coroutines, NEW on, on = {i \in 1..CDepth : state.cs[i].th = co}, state.cs # <<>>
    PROVE  CoStatus(cur, co) = Told(co, on)
<1>0. co \in Threads /\ co # Main
  BY LimitsAssumption DEF Threads
<1>1. PICK t, a, n : t = state.th[co] /\ a = state.cs /\ n = CDepth
  OBVIOUS
<1>2. a \in CStacks /\ n \in Nat /\ n = Len(a) /\ StackOK(a) /\ t \in ThreadStates /\ \E h \in 0..n : Fits(a, t, co, h)
  BY <1>0, <1>1, FitsOf
<1>3. PICK h \in 0..n : Fits(a, t, co, h)
  BY <1>2
<1>4. \A i : i \in on <=> i \in 1..n /\ a[i].th = co
  BY <1>1
<1>5. Height(a, co, h) /\ Counts(a, t, co, h) /\ Lives(t, co, h)
  BY <1>3 DEF Fits
<1>6. h = 0 <=> on = {}
  <2>1. ASSUME h = 0 PROVE on = {}
    <3> SUFFICES ASSUME NEW i \in on PROVE FALSE
      OBVIOUS
    <3>1. i \in 1..n /\ a[i].th = co
      BY <1>4
    <3>2. i > h
      BY <2>1, <3>1
    <3> QED BY <1>2, <1>5, <3>1, <3>2 DEF Height
  <2>2. ASSUME h # 0 PROVE on # {}
    <3>1. h \in 1..n /\ a[h].th = co
      BY <1>2, <1>3, <1>5, <2>2 DEF Height
    <3> QED BY <1>4, <3>1
  <2> QED BY <2>1, <2>2
<1>7. CASE co = cur
  BY <1>7 DEF CoStatus, Told
<1>8. CASE co # cur /\ on # {}
  <2>1. h # 0 /\ h \in 1..n
    BY <1>2, <1>3, <1>6, <1>8
  <2>2. t.status = "ok" /\ Len(t.ci) = 1 + Frames(a, co, h)
    BY <1>5, <2>1 DEF Lives, Counts
  <2>3. a[n].th # co
    <3>1. a[n] = Last(state.cs)
      BY <1>1, <1>2 DEF Last
    <3> QED BY <1>8, <3>1 DEF cur, CTop
  <2>4. Frames(a, co, h) >= 1
    BY <1>2, <1>5, <2>1, <2>3, ResumerFrames
  <2>5. Frames(a, co, h) \in Nat
    <3>1. h \in 0..Len(a)
      BY <1>2, <1>3
    <3> QED BY <1>2, <3>1, FramesStep
  <2>6. Len(t.ci) > 1
    BY <2>2, <2>4, <2>5
  <2>7. CoStatus(cur, co) = "normal"
    BY <1>1, <1>8, <2>2, <2>6 DEF CoStatus
  <2> QED BY <1>8, <2>7 DEF Told
<1>9. CASE co # cur /\ on = {}
  <2>1. /\ t.status = "ok" => Len(t.ci) = 1
        /\ t.status # "syntax" /\ t.status \in Statuses
    BY <1>0, <1>2, <1>5, <1>6, <1>9, ThreadFacts DEF Lives
  <2>2. CASE t.status = "yield"
    <3>1. CoStatus(cur, co) = "suspended"
      BY <1>1, <1>9, <2>2 DEF CoStatus
    <3>2. Told(co, on) = "suspended"
      BY <1>1, <1>9, <2>2 DEF Told
    <3> QED BY <3>1, <3>2
  <2>3. CASE t.status = "ok"
    <3>1. ~(Len(t.ci) > 1)
      <4>1. Len(t.ci) = 1
        BY <2>1, <2>3
      <4>2. ~(1 > 1)
        OBVIOUS
      <4> QED BY <4>1, <4>2, Zenon
    <3>2. CoStatus(cur, co) = IF t.fresh THEN "suspended" ELSE "dead"
      BY <1>1, <1>9, <2>3, <3>1 DEF CoStatus
    <3>3. Told(co, on) = IF t.fresh THEN "suspended" ELSE "dead"
      BY <1>1, <1>9, <2>3 DEF Told
    <3> QED BY <3>2, <3>3
  <2>4. CASE t.status \in {"run", "errerr"}
    <3>1. CoStatus(cur, co) = "dead"
      BY <1>1, <1>9, <2>4 DEF CoStatus
    <3>2. Told(co, on) = "dead"
      BY <1>1, <1>9, <2>4 DEF Told
    <3> QED BY <3>1, <3>2
  <2> QED BY <2>1, <2>2, <2>3, <2>4 DEF Statuses
<1> QED BY <1>7, <1>8, <1>9

\* and so where the threads are.
LEMMA InvThreads == ASSUME CallsInv PROVE ThreadsInPlace
<1> DEFINE on(L) == {i \in 1..CDepth : state.cs[i].th = L}
<1>1. ~state.lost
  BY DEF CallsInv, CallsGood, Unwound
<1>2. ASSUME NEW co \in Coroutines PROVE \A i, j \in on(co) : \A m \in i..j : m \in on(co)
  <2>1. co \in Threads
    BY DEF Threads
  <2>2. PICK s : s = on(co)
    OBVIOUS
  <2>3. \A i, j \in s : \A m \in i..j : m \in s
    BY <2>1, <2>2, InvPieces
  <2> QED BY <2>2, <2>3
<1>3. ASSUME NEW co \in Coroutines, state.cs # <<>> PROVE CoStatus(cur, co) = Told(co, on(co))
  BY <1>3, InvStatus
<1>4. ASSUME NEW L \in Threads, on(L) # {} PROVE Len(state.th[L].ci) = 1 + Frames(state.cs, L, CDepth)
  <2>2. PICK s : s = on(L)
    OBVIOUS
  <2>3. s # {}
    BY <1>4, <2>2
  <2> QED BY <2>2, <2>3, InvPieces
<1> QED BY <1>1, <1>2, <1>3, <1>4 DEF ThreadsInPlace, Told

\* Errors, interrupts, yields and returns leave the C stack and all threads as if the
\* calls that have gone had never been made (luaD_throw, luaD_pcall, lua_resume, lua_yield):
\* for any number of coroutines and any limits.
THEOREM CallsAlwaysUnwind == CallsSpec => []CallsUnwind
<1>1. CallsInit => CallsInv
  BY CallsStart
<1>2. CallsInv /\ [CallsNext]_cvars => CallsInv'
  BY CallsStep
<1>3. CallsInv => CallsUnwind
  BY InvLevels, InvErrors, InvThreads, InvHandlers DEF CallsUnwind
<1> QED BY <1>1, <1>2, <1>3, PTL DEF CallsSpec
==============================================================================
