----------------------------- MODULE ApeProofs ------------------------------
(***************************************************************************)
(* Proofs about the binding of APR: objects and calls never outlive what    *)
(* they point to (Lifetimes), and run_collect leaves no child behind        *)
(* (Collected), for programs with any number of objects, resources and      *)
(* children.                                                               *)
(***************************************************************************)
EXTENDS Ape, SequenceTheorems, TLAPS

Kinds   == {"finalizer", "pool", "file", "dir", "procattr", "hash", "uid", "proc"}
Objects == [kind : Kinds, h : Nat, pool : Nat, refs : SUBSET Nat, kid : Nat, out : Nat,
            fin : {"no", "queued", "done"}]
Natives == [kind : Kinds, in : SUBSET Nat, live : BOOLEAN]
Fns     == {"none", "read", "wait", "waitall", "collect", "glob"}
Kids    == [st : {"running", "exited", "reaped"}, collect : BOOLEAN, writes : BOOLEAN, failed : BOOLEAN]
Calls   == [fn : Fns, args : SUBSET Nat, nat : Nat, kid : Nat, among : SUBSET Nat]

ApeTypes ==
    /\ objs \in Seq(Objects) /\ nats \in Seq(Natives)
    /\ held \in SUBSET Nat /\ queue \in Seq(SUBSET Nat)
    /\ call \in Calls /\ kids \in Seq(Kids)
    /\ apr \in BOOLEAN /\ phase \in {"start", "running", "closing", "closed"}

Phases ==
    /\ phase = "start" => objs = <<>> /\ nats = <<>> /\ queue = <<>>
    /\ phase # "running" => call = None /\ held = {}

\* What an object keeps: pools and the pipe of a process, with all that these keep,
\* never the default pool.  But for the pipe, they are older than the object.
References ==
    \A o \in DOMAIN objs :
        /\ \A r \in objs[o].refs :
             /\ r \in DOMAIN objs /\ r # DefaultPool /\ objs[r].kind \in {"pool", "file"}
             /\ objs[r].refs \subseteq objs[o].refs
             /\ objs[o].kind # "proc" => r < o
        /\ objs[o].out # 0 => /\ objs[o].kind = "proc"
                             /\ objs[o].out \in objs[o].refs /\ objs[objs[o].out].kind = "file"

\* A resource has one object at most, but for the pipe of several processes, and the
\* object keeps the objects of all pools the resource lies in.
Handles ==
    /\ \A n \in DOMAIN nats : nats[n].in \subseteq DOMAIN nats
    /\ \A o \in DOMAIN objs :
         /\ objs[o].h \in {0} \cup DOMAIN nats
         /\ objs[o].h # 0 =>
              /\ \A q \in DOMAIN objs : objs[q].h = objs[o].h => q = o \/ Shared(objs[o].h)
              /\ \A n \in nats[objs[o].h].in :
                   \E q \in objs[o].refs : objs[q].kind = "pool" /\ objs[q].h = n

\* The pool an open file, an open directory or process attributes lie in.
PoolKept ==
    \A o \in DOMAIN objs : objs[o].kind \in {"file", "dir", "procattr"} =>
        /\ objs[o].h # 0 => /\ objs[o].pool \in objs[o].refs
                            /\ objs[objs[o].pool].kind = "pool" /\ objs[objs[o].pool].h # 0
        /\ objs[o].kind = "procattr" => objs[o].h # 0

\* What the program and a running call refer to.
Roots ==
    phase = "running" =>
        /\ apr
        /\ Finalizer \in DOMAIN objs /\ objs[Finalizer].fin = "no"
        /\ DefaultPool \in DOMAIN objs /\ objs[DefaultPool].fin = "no"
        /\ objs[DefaultPool].kind = "pool" /\ objs[DefaultPool].h # 0
        /\ \A o \in held \cup call.args :
             /\ o \in DOMAIN objs /\ o # DefaultPool /\ objs[o].fin = "no"
             /\ objs[o].kind = "pool" => objs[o].h # 0

\* Finalizers: what an object keeps that has not been found dead has not been found
\* dead either; nor was it in an earlier cycle than the object.
Marks ==
    /\ \A o \in DOMAIN objs :
         /\ objs[o].fin = "no" => \A r \in objs[o].refs : objs[r].fin = "no"
         /\ objs[o].fin = "no" => phase = "running"
         /\ objs[o].fin = "queued" => \E i \in DOMAIN queue : o \in queue[i]
         /\ objs[o].kind = "finalizer" <=> o = Finalizer
    /\ \A i \in DOMAIN queue : \A o \in queue[i] :
         /\ o \in DOMAIN objs /\ objs[o].fin = "queued" /\ objs[o].kind \in HasGC
         /\ o = Finalizer => i = Len(queue)
         /\ \A j \in DOMAIN queue : j < i => o \notin queue[j] /\ queue[j] \cap objs[o].refs = {}

\* What a call works with: the resource of an argument, or one of its own that lies
\* in pools that are reachable.
CallNat ==
    /\ call.fn = "read" => \E f \in call.args : objs[f].h = call.nat
    /\ call.fn \in {"collect", "glob"} =>
         /\ call.nat \in DOMAIN nats /\ nats[call.nat].live
         /\ \A o \in DOMAIN objs : objs[o].h # call.nat
         /\ \A n \in nats[call.nat].in : \E q \in Reachable : objs[q].kind = "pool" /\ objs[q].h = n
    /\ call.fn \notin {"read", "collect", "glob"} => call.nat = 0

\* What is kept is finalized later.
KeptLonger ==
    \A o \in DOMAIN objs : objs[o].fin # "done" => \A r \in objs[o].refs : objs[r].fin # "done"

KeptOf(p) == IF p = 0 THEN {} ELSE Keeps(p)
ProcPipe(n) == \E r \in DOMAIN pipes : objs[r].kind = "proc" /\ pipes[r] = n

\* The pipe of process attributes lies in their pool; no call works with it, and it
\* has an object only if a process has it.
Pipes ==
    \A a \in DOMAIN pipes :
        /\ a \in DOMAIN objs /\ objs[a].kind \in {"procattr", "proc"} /\ pipes[a] \in DOMAIN nats
        /\ \A q \in DOMAIN objs : objs[q].h = pipes[a] => objs[q].kind = "file" /\ ProcPipe(pipes[a])
        /\ call.fn \in {"collect", "glob"} => pipes[a] # call.nat
        /\ objs[a].kind = "procattr" =>
             /\ \A n \in nats[pipes[a]].in :
                  \E q \in KeptOf(objs[a].pool) : objs[q].kind = "pool" /\ objs[q].h = n
             /\ objs[a].fin = "no" => nats[pipes[a]].live \/ ProcPipe(pipes[a])

\* The resource of an object that is not done is there.
Valid ==
    \A o \in DOMAIN objs : objs[o].fin # "done" /\ objs[o].h # 0 =>
        nats[objs[o].h].live \/ Shared(objs[o].h)

LifeInv ==
    /\ ApeTypes /\ Phases /\ References /\ Handles /\ PoolKept /\ Roots /\ Marks /\ CallNat
    /\ TerminatedLast /\ KeptLonger /\ Pipes /\ Valid /\ Owned

\* A child of run_collect whose status has not been taken is the one that is waited for.
CollectInv ==
    \A k \in DOMAIN kids : kids[k].collect /\ kids[k].st # "reaped" /\ ~kids[k].failed =>
        call.fn \in {"collect", "wait"} /\ call.kid = k
-----------------------------------------------------------------------------
(***************************************************************************)
(* Steps that create objects                                               *)
(***************************************************************************)

Usable(p) == /\ p \in DOMAIN objs /\ p # DefaultPool
             /\ objs[p].kind = "pool" /\ objs[p].h # 0 /\ objs[p].fin = "no"
LiesIn(p) == IF p = 0 THEN {} ELSE {objs[p].h} \cup nats[objs[p].h].in

\* The object of a new process for the pipe of the attributes.
OldPipe(o, p) ==
    \E n \in DOMAIN nats :
        /\ objs'[o].h = n /\ objs'[o].kind = "file"
        /\ \A m \in nats[n].in : \E q \in KeptOf(p) : objs[q].kind = "pool" /\ objs[q].h = m
        /\ \A q \in DOMAIN objs' : objs'[q].h = n => q = o \/ Shared(n)'
        /\ nats[n].live \/ Shared(n)'

NewObject(o, p) ==
    /\ objs'[o].fin = "no" /\ objs'[o].kind # "finalizer"
    /\ objs'[o].h # 0 =>
         \/ /\ objs'[o].h \in DOMAIN nats' \ DOMAIN nats
            /\ \A q \in DOMAIN objs' \ DOMAIN objs : objs'[q].h = objs'[o].h => q = o
         \/ OldPipe(o, p)
    /\ KeptOf(p) \subseteq objs'[o].refs
    /\ objs'[o].kind # "proc" => objs'[o].refs = KeptOf(p)
    /\ \A r \in objs'[o].refs \ KeptOf(p) :
         r \in DOMAIN objs' \ DOMAIN objs /\ objs'[r].kind = "file" /\ objs'[r].refs = KeptOf(p)
    /\ objs'[o].kind \in {"file", "dir", "procattr"} => p # 0 /\ objs'[o].pool = p
    /\ objs'[o].kind = "procattr" => objs'[o].h # 0
    /\ objs'[o].out # 0 => objs'[o].kind = "proc" /\ objs'[o].out \in objs'[o].refs \ DOMAIN objs

SharedStays == \A n : Shared(n) => Shared(n)'

\* A step that creates objects and resources in the pool p.
Grown(p) ==
    /\ Idle /\ (p = 0 \/ Usable(p))
    /\ objs' \in Seq(Objects) /\ nats' \in Seq(Natives)
    /\ Len(objs) <= Len(objs') /\ \A o \in DOMAIN objs : objs'[o] = objs[o]
    /\ Len(nats) <= Len(nats') /\ \A n \in DOMAIN nats : nats'[n] = nats[n]
    /\ \A o \in DOMAIN objs' \ DOMAIN objs : NewObject(o, p)
    /\ \A n \in DOMAIN nats' \ DOMAIN nats :
         /\ nats'[n].live /\ nats'[n].in = LiesIn(p)
         /\ p = 0 => \E o \in DOMAIN objs' \ DOMAIN objs : objs'[o].kind = "pool" /\ objs'[o].h = n
    /\ held' \in SUBSET Nat
    /\ \A o \in held' : o \notin held =>
         o \in DOMAIN objs' \ DOMAIN objs /\ (objs'[o].kind = "pool" => objs'[o].h # 0)
    /\ \/ pipes' = pipes /\ \A o \in DOMAIN objs' \ DOMAIN objs : objs'[o].h \notin DOMAIN nats
       \/ Pipes' /\ SharedStays
    /\ kids' \in Seq(Kids) /\ UNCHANGED <<queue, call, apr, phase>>

\* A pool has a resource of its own.
LEMMA PoolUnique ==
    ASSUME Handles, Pipes, NEW q \in DOMAIN objs, NEW o \in DOMAIN objs,
           objs[q].kind # "file", objs[q].h # 0, objs[o].h = objs[q].h
    PROVE  o = q
<1>1. ASSUME Shared(objs[q].h) PROVE FALSE
  <2>1. PICK r \in DOMAIN pipes : pipes[r] = objs[q].h
    BY <1>1 DEF Shared
  <2> QED
    BY <2>1 DEF Pipes
<1> QED
  BY <1>1 DEF Handles

\* Where the pipes are left alone, what processes share stays shared.
LEMMA PipesFrame ==
    ASSUME LifeInv, pipes' = pipes,
           \A o \in DOMAIN objs :
             /\ o \in DOMAIN objs' /\ objs'[o].kind = objs[o].kind
             /\ objs'[o].fin = "no" => objs[o].fin = "no"
             /\ objs[o].kind = "pool" => objs'[o].refs = objs[o].refs /\ objs'[o].h = objs[o].h
             /\ objs[o].kind = "procattr" => objs'[o].pool = objs[o].pool,
           \A q \in DOMAIN objs' : objs'[q].h \in DOMAIN nats => q \in DOMAIN objs /\ objs'[q].h = objs[q].h,
           \A n \in DOMAIN nats : n \in DOMAIN nats' /\ nats'[n].in = nats[n].in,
           \A a \in DOMAIN pipes :
             objs[a].kind = "procattr" /\ objs'[a].fin = "no" /\ nats[pipes[a]].live =>
               nats'[pipes[a]].live \/ ProcPipe(pipes[a]),
           call'.fn \in {"collect", "glob"} =>
             call'.nat \notin DOMAIN nats \/ (call.fn \in {"collect", "glob"} /\ call'.nat = call.nat)
    PROVE  Pipes' /\ SharedStays
<1>1. \A a \in DOMAIN pipes : a \in DOMAIN objs /\ pipes[a] \in DOMAIN nats
  BY DEF LifeInv, Pipes
<1>2. \A n : ProcPipe(n) => ProcPipe(n)'
  BY <1>1 DEF ProcPipe
<1>3. SharedStays
  BY <1>1 DEF SharedStays, Shared
<1>4. ASSUME NEW a \in DOMAIN pipes
      PROVE  /\ a \in DOMAIN objs' /\ objs'[a].kind \in {"procattr", "proc"} /\ pipes[a] \in DOMAIN nats'
             /\ \A q \in DOMAIN objs' : objs'[q].h = pipes[a] => objs'[q].kind = "file" /\ ProcPipe(pipes[a])
             /\ call'.fn \in {"collect", "glob"} => pipes[a] # call'.nat
  BY <1>1 DEF LifeInv, Pipes
<1>5. ASSUME NEW a \in DOMAIN pipes, objs'[a].kind = "procattr"
      PROVE  /\ \A n \in nats'[pipes[a]].in :
                  \E q \in KeptOf(objs[a].pool)' : objs'[q].kind = "pool" /\ objs'[q].h = n
             /\ objs'[a].fin = "no" => nats'[pipes[a]].live \/ ProcPipe(pipes[a])
  <2>1. a \in DOMAIN objs /\ objs[a].kind = "procattr" /\ nats'[pipes[a]].in = nats[pipes[a]].in
    BY <1>1, <1>5
  <2>2. /\ objs[a].pool \in objs[a].refs /\ objs[objs[a].pool].kind = "pool" /\ objs[a].pool \in DOMAIN objs
    BY <2>1 DEF LifeInv, PoolKept, References
  <2>3. KeptOf(objs[a].pool)' = KeptOf(objs[a].pool)
    BY <2>1, <2>2 DEF KeptOf, Keeps
  <2>4. \A q \in KeptOf(objs[a].pool) : q \in DOMAIN objs
    BY <2>2 DEF LifeInv, References, KeptOf, Keeps
  <2>5. \A n \in nats[pipes[a]].in : \E q \in KeptOf(objs[a].pool) : objs[q].kind = "pool" /\ objs[q].h = n
    BY <2>1 DEF LifeInv, Pipes
  <2>6. objs[a].fin = "no" => nats[pipes[a]].live \/ ProcPipe(pipes[a])
    BY <2>1 DEF LifeInv, Pipes
  <2>7. objs'[a].fin = "no" => objs[a].fin = "no"
    BY <2>1
  <2>8. objs'[a].fin = "no" => nats'[pipes[a]].live \/ ProcPipe(pipes[a])
    BY <2>1, <2>6, <2>7
  <2>9. \A n \in nats[pipes[a]].in : \E q \in KeptOf(objs[a].pool) : objs'[q].kind = "pool" /\ objs'[q].h = n
    BY <2>4, <2>5
  <2> QED
    BY <2>1, <2>3, <2>8, <2>9
<1>6. Pipes'
  BY <1>2, <1>4, <1>5 DEF Pipes
<1> QED
  BY <1>3, <1>6

\* What a usable pool keeps is there, is a pool, and has not been found dead.
LEMMA KeptFacts ==
    ASSUME ApeTypes, References, Marks, NEW p, p = 0 \/ Usable(p)
    PROVE  \A r \in KeptOf(p) :
              /\ r \in DOMAIN objs /\ r # DefaultPool /\ objs[r].kind \in {"pool", "file"}
              /\ objs[r].refs \subseteq KeptOf(p) /\ objs[r].fin = "no"
BY DEF ApeTypes, References, Marks, Usable, KeptOf, Keeps

\* The pools a resource of the pool p lies in have objects among those p keeps.
LEMMA LiesInFacts ==
    ASSUME ApeTypes, References, Handles, NEW p, p = 0 \/ Usable(p)
    PROVE  /\ LiesIn(p) \subseteq DOMAIN nats
           /\ \A n \in LiesIn(p) : \E q \in KeptOf(p) : objs[q].kind = "pool" /\ objs[q].h = n
BY DEF ApeTypes, Handles, References, Usable, LiesIn, KeptOf, Keeps

\* An action that makes objects and resources in the pool p keeps the invariant.
LEMMA GrowStep ==
    ASSUME LifeInv, NEW p, Grown(p)
    PROVE  LifeInv'
<1> DEFINE Old == DOMAIN objs
           New == DOMAIN objs' \ DOMAIN objs
<1>1. /\ \A o \in Old : o \in DOMAIN objs' /\ objs'[o] = objs[o] /\ o \in Nat /\ objs[o] \in Objects
      /\ \A o \in New : \A r \in Old : r < o
      /\ \A o \in DOMAIN objs' : objs'[o] \in Objects
      /\ \A o \in New : NewObject(o, p)
      /\ Finalizer \in Old /\ DefaultPool \in Old
  BY DEF LifeInv, ApeTypes, Grown, Roots, Idle
<1>2. /\ \A n \in DOMAIN nats : n \in DOMAIN nats' /\ nats'[n] = nats[n] /\ n \in Nat \ {0}
      /\ \A n \in DOMAIN nats' : n \in Nat \ {0}
      /\ \A n \in DOMAIN nats' \ DOMAIN nats : nats'[n].live /\ nats'[n].in = LiesIn(p)
  BY DEF LifeInv, ApeTypes, Grown
<1>3. /\ phase = "running" /\ call = None /\ call' = None /\ phase' = "running"
      /\ queue' = queue /\ apr' = apr
  BY DEF Grown, Idle
<1>4. p = 0 \/ Usable(p)
  BY DEF Grown
<1>5. \A r \in KeptOf(p) :
         /\ r \in Old /\ r # DefaultPool /\ objs[r].kind \in {"pool", "file"}
         /\ objs[r].refs \subseteq KeptOf(p) /\ objs[r].fin = "no"
  BY <1>4, KeptFacts DEF LifeInv
<1>6. /\ LiesIn(p) \subseteq DOMAIN nats
      /\ \A n \in LiesIn(p) : \E q \in KeptOf(p) : objs[q].kind = "pool" /\ objs[q].h = n
  BY <1>4, LiesInFacts DEF LifeInv
<1>7. Pipes' /\ SharedStays
  <2>1. CASE pipes' = pipes /\ \A o \in New : objs'[o].h \notin DOMAIN nats
    <3>1. \A o \in DOMAIN objs :
            /\ o \in DOMAIN objs' /\ objs'[o].kind = objs[o].kind
            /\ objs'[o].fin = "no" => objs[o].fin = "no"
            /\ objs[o].kind = "pool" => objs'[o].refs = objs[o].refs /\ objs'[o].h = objs[o].h
            /\ objs[o].kind = "procattr" => objs'[o].pool = objs[o].pool
      BY <1>1
    <3>2. \A q \in DOMAIN objs' : objs'[q].h \in DOMAIN nats => q \in DOMAIN objs /\ objs'[q].h = objs[q].h
      BY <1>1, <2>1
    <3>3. \A n \in DOMAIN nats : n \in DOMAIN nats' /\ nats'[n].in = nats[n].in
      BY <1>2
    <3>4. \A a \in DOMAIN pipes : pipes[a] \in DOMAIN nats /\ nats'[pipes[a]] = nats[pipes[a]]
      BY <1>2 DEF LifeInv, Pipes
    <3>5. call'.fn \notin {"collect", "glob"}
      BY <1>3 DEF None
    <3> QED
      BY <2>1, <3>1, <3>2, <3>3, <3>4, <3>5, PipesFrame
  <2> QED
    BY <2>1 DEF Grown
<1>8. ApeTypes'
  BY <1>3 DEF LifeInv, ApeTypes, Grown
<1>9. Phases'
  BY <1>3 DEF Phases
<1>10. References'
  <2>1. ASSUME NEW o \in Old
        PROVE  /\ \A r \in objs'[o].refs :
                    /\ r \in DOMAIN objs' /\ r # DefaultPool /\ objs'[r].kind \in {"pool", "file"}
                    /\ objs'[r].refs \subseteq objs'[o].refs
                    /\ objs'[o].kind # "proc" => r < o
               /\ objs'[o].out # 0 => /\ objs'[o].kind = "proc"
                                      /\ objs'[o].out \in objs'[o].refs /\ objs'[objs'[o].out].kind = "file"
    BY <1>1 DEF LifeInv, References
  <2>2. ASSUME NEW o \in New
        PROVE  /\ \A r \in objs'[o].refs :
                    /\ r \in DOMAIN objs' /\ r # DefaultPool /\ objs'[r].kind \in {"pool", "file"}
                    /\ objs'[r].refs \subseteq objs'[o].refs
                    /\ objs'[o].kind # "proc" => r < o
               /\ objs'[o].out # 0 => /\ objs'[o].kind = "proc"
                                      /\ objs'[o].out \in objs'[o].refs /\ objs'[objs'[o].out].kind = "file"
    BY <1>1, <1>5 DEF NewObject
  <2> QED
    BY <2>1, <2>2 DEF References
<1>11. Handles'
  <2>1. \A n \in DOMAIN nats' : nats'[n].in \subseteq DOMAIN nats'
    BY <1>2, <1>6 DEF LifeInv, Handles
  <2>2. ASSUME NEW o \in Old
        PROVE  /\ objs'[o].h \in {0} \cup DOMAIN nats'
               /\ objs'[o].h # 0 =>
                    /\ \A q \in DOMAIN objs' : objs'[q].h = objs'[o].h => q = o \/ Shared(objs[o].h)'
                    /\ \A n \in nats'[objs'[o].h].in :
                         \E q \in objs'[o].refs : objs'[q].kind = "pool" /\ objs'[q].h = n
    <3>1. objs[o].h \in {0} \cup DOMAIN nats /\ 0 \notin DOMAIN nats
      BY DEF LifeInv, Handles, ApeTypes
    <3>2. ASSUME NEW q \in DOMAIN objs', objs'[q].h = objs'[o].h, objs[o].h # 0
          PROVE  q = o \/ Shared(objs[o].h)'
      <4>1. CASE q \in Old
        <5>1. q = o \/ Shared(objs[o].h)
          BY <1>1, <3>2, <4>1 DEF LifeInv, Handles
        <5> QED
          BY <1>7, <1>1, <5>1 DEF SharedStays
      <4>2. CASE q \in New
        <5>1. OldPipe(q, p)
          BY <1>1, <3>1, <3>2, <4>2 DEF NewObject
        <5>2. PICK m : objs'[q].h = m /\ (o = q \/ Shared(m)')
          BY <1>1, <3>2, <5>1 DEF OldPipe
        <5> QED
          BY <1>1, <3>2, <4>2, <5>2 DEF Shared
      <4> QED
        BY <3>2, <4>1, <4>2
    <3>3. ASSUME objs[o].h # 0
          PROVE  \A n \in nats'[objs'[o].h].in : \E q \in objs'[o].refs : objs'[q].kind = "pool" /\ objs'[q].h = n
      BY <1>1, <1>2, <3>1, <3>3 DEF LifeInv, Handles, References
    <3> QED
      BY <1>1, <1>2, <3>1, <3>2, <3>3
  <2>3. ASSUME NEW o \in New
        PROVE  /\ objs'[o].h \in {0} \cup DOMAIN nats'
               /\ objs'[o].h # 0 =>
                    /\ \A q \in DOMAIN objs' : objs'[q].h = objs'[o].h => q = o \/ Shared(objs[o].h)'
                    /\ \A n \in nats'[objs'[o].h].in :
                         \E q \in objs'[o].refs : objs'[q].kind = "pool" /\ objs'[q].h = n
    <3>1. \A q \in Old : objs[q].h \in {0} \cup DOMAIN nats
      BY DEF LifeInv, Handles
    <3>2. CASE OldPipe(o, p)
      <4>1. /\ objs'[o].h \in DOMAIN nats /\ nats'[objs'[o].h] = nats[objs'[o].h] /\ objs'[o].h \in DOMAIN nats'
            /\ \A n \in nats[objs'[o].h].in : \E q \in KeptOf(p) : objs[q].kind = "pool" /\ objs[q].h = n
            /\ \A q \in DOMAIN objs' : objs'[q].h = objs'[o].h => q = o \/ Shared(objs[o].h)'
        <5>1. PICK m \in DOMAIN nats :
                /\ objs'[o].h = m
                /\ \A i \in nats[m].in : \E q \in KeptOf(p) : objs[q].kind = "pool" /\ objs[q].h = i
                /\ \A q \in DOMAIN objs' : objs'[q].h = m => q = o \/ Shared(m)'
          BY <3>2 DEF OldPipe
        <5>2. Shared(m)' => Shared(objs[o].h)'
          BY <5>1 DEF Shared
        <5> QED
          BY <1>2, <5>1, <5>2
      <4>2. KeptOf(p) \subseteq objs'[o].refs
        BY <1>1 DEF NewObject
      <4>3. \A q \in KeptOf(p) : objs'[q] = objs[q]
        BY <1>1, <1>5
      <4> QED
        BY <4>1, <4>2, <4>3
    <3>3. CASE objs'[o].h = 0
      BY <3>3
    <3>4. CASE objs'[o].h # 0 /\ ~OldPipe(o, p)
      <4>1. /\ objs'[o].h \in DOMAIN nats' \ DOMAIN nats
            /\ \A q \in DOMAIN objs' \ DOMAIN objs : objs'[q].h = objs'[o].h => q = o
            /\ KeptOf(p) \subseteq objs'[o].refs
        BY <1>1, <3>4 DEF NewObject
      <4>2. \A q \in KeptOf(p) : objs'[q] = objs[q]
        BY <1>1, <1>5
      <4>3. \A q \in DOMAIN objs' : objs'[q].h = objs'[o].h => q = o
        BY <1>1, <3>1, <3>4, <4>1
      <4>4. nats'[objs'[o].h].in = LiesIn(p)
        BY <1>2, <4>1
      <4> QED
        BY <1>6, <4>1, <4>2, <4>3, <4>4
    <3> QED
      BY <3>2, <3>3, <3>4
  <2> QED
    BY <2>1, <2>2, <2>3 DEF Handles
<1>12. PoolKept'
  <2>1. ASSUME NEW o \in Old, objs'[o].kind \in {"file", "dir", "procattr"}
        PROVE  /\ objs'[o].h # 0 => /\ objs'[o].pool \in objs'[o].refs
                                    /\ objs'[objs'[o].pool].kind = "pool" /\ objs'[objs'[o].pool].h # 0
               /\ objs'[o].kind = "procattr" => objs'[o].h # 0
    BY <1>1, <2>1 DEF LifeInv, PoolKept, References
  <2>2. ASSUME NEW o \in New, objs'[o].kind \in {"file", "dir", "procattr"}
        PROVE  /\ objs'[o].h # 0 => /\ objs'[o].pool \in objs'[o].refs
                                    /\ objs'[objs'[o].pool].kind = "pool" /\ objs'[objs'[o].pool].h # 0
               /\ objs'[o].kind = "procattr" => objs'[o].h # 0
    <3>1. p # 0 /\ objs'[o].pool = p /\ p \in Old /\ p \in KeptOf(p) /\ objs[p].kind = "pool" /\ objs[p].h # 0
      BY <1>1, <1>4, <2>2 DEF NewObject, Usable, KeptOf, Keeps
    <3> QED
      BY <1>1, <2>2, <3>1 DEF NewObject
  <2> QED
    BY <2>1, <2>2 DEF PoolKept
<1>13. Roots'
  BY <1>1, <1>3 DEF LifeInv, Roots, Grown, NewObject, None, DefaultPool, Finalizer
<1>14. Marks'
  <2>1. ASSUME NEW o \in DOMAIN objs'
        PROVE  /\ objs'[o].fin = "no" => \A r \in objs'[o].refs : objs'[r].fin = "no"
               /\ objs'[o].fin = "queued" => \E i \in DOMAIN queue' : o \in queue'[i]
               /\ objs'[o].kind = "finalizer" <=> o = Finalizer
    <3>1. CASE o \in Old
      BY <1>1, <1>3, <3>1 DEF LifeInv, Marks, References
    <3>2. CASE o \in New
      BY <1>1, <1>5, <3>2 DEF NewObject
    <3> QED
      BY <3>1, <3>2
  <2>2. \A i \in DOMAIN queue' : \A o \in queue'[i] :
          /\ o \in DOMAIN objs' /\ objs'[o].fin = "queued" /\ objs'[o].kind \in HasGC
          /\ o = Finalizer => i = Len(queue')
          /\ \A j \in DOMAIN queue' : j < i => o \notin queue'[j] /\ queue'[j] \cap objs'[o].refs = {}
    BY <1>1, <1>3 DEF LifeInv, Marks
  <2> QED
    BY <1>3, <2>1, <2>2 DEF Marks
<1>15. CallNat'
  BY <1>3 DEF CallNat, None
<1>16. TerminatedLast'
  BY <1>3 DEF LifeInv, Roots, TerminatedLast
<1>17. Valid'
  <2>1. ASSUME NEW o \in Old, objs'[o].fin # "done", objs'[o].h # 0
        PROVE  nats'[objs'[o].h].live \/ Shared(objs[o].h)'
    <3>1. objs'[o] = objs[o] /\ objs[o].h \in DOMAIN nats
      BY <1>1, <2>1 DEF LifeInv, Handles
    <3>2. nats[objs[o].h].live \/ Shared(objs[o].h)
      BY <2>1, <3>1 DEF LifeInv, Valid
    <3>3. Shared(objs[o].h) => Shared(objs[o].h)'
      BY <1>7, <3>1 DEF SharedStays
    <3> QED
      BY <1>2, <3>1, <3>2, <3>3
  <2>2. ASSUME NEW o \in New, objs'[o].h # 0
        PROVE  nats'[objs'[o].h].live \/ Shared(objs[o].h)'
    <3>1. CASE OldPipe(o, p)
      BY <1>2, <3>1 DEF OldPipe, Shared
    <3>2. CASE ~OldPipe(o, p)
      BY <1>1, <1>2, <2>2, <3>2 DEF NewObject
    <3> QED
      BY <3>1, <3>2
  <2> QED
    BY <2>1, <2>2 DEF Valid
<1>18. KeptLonger'
  <2>1. ASSUME NEW o \in Old, objs'[o].fin # "done", NEW r \in objs'[o].refs PROVE objs'[r].fin # "done"
    <3>1. objs'[o] = objs[o] /\ r \in objs[o].refs /\ r \in Old
      BY <1>1, <2>1 DEF LifeInv, References
    <3> QED
      BY <1>1, <2>1, <3>1 DEF LifeInv, KeptLonger
  <2>2. ASSUME NEW o \in New, NEW r \in objs'[o].refs PROVE objs'[r].fin # "done"
    BY <1>1, <1>5 DEF NewObject
  <2> QED
    BY <2>1, <2>2 DEF KeptLonger
<1>19. Owned'
  <2>1. ASSUME NEW n \in DOMAIN nats, nats'[n].live
        PROVE  \E o \in DOMAIN objs' : /\ objs'[o].kind = "pool" /\ objs'[o].fin # "done" /\ objs'[o].h # 0
                                       /\ objs'[o].h = n \/ objs'[o].h \in nats'[n].in
    BY <1>1, <1>2, <2>1 DEF LifeInv, Owned
  <2>2. ASSUME NEW n \in DOMAIN nats' \ DOMAIN nats
        PROVE  \E o \in DOMAIN objs' : /\ objs'[o].kind = "pool" /\ objs'[o].fin # "done" /\ objs'[o].h # 0
                                       /\ objs'[o].h = n \/ objs'[o].h \in nats'[n].in
    <3>1. CASE p = 0
      <4>1. PICK o \in New : objs'[o].kind = "pool" /\ objs'[o].h = n
        BY <3>1 DEF Grown
      <4> QED
        BY <1>1, <1>2, <4>1 DEF NewObject
    <3>2. CASE p # 0
      BY <1>1, <1>2, <1>4, <3>2 DEF Usable, LiesIn
    <3> QED
      BY <3>1, <3>2
  <2> QED
    BY <2>1, <2>2 DEF Owned
<1> QED
  BY <1>8, <1>9, <1>10, <1>11, <1>12, <1>13, <1>14, <1>15, <1>16, <1>17, <1>19, <1>18, <1>7 DEF LifeInv
\* A held pool can be used, and so can the pool of an open file or directory and of
\* process attributes.
LEMMA HeldIsUsable ==
    ASSUME LifeInv, Idle
    PROVE  /\ \A p \in Held("pool") : Usable(p) /\ p # 0 /\ Keeps(p) = KeptOf(p)
           /\ \A o \in held : objs[o].kind \in {"file", "dir", "procattr"} /\ objs[o].h # 0 =>
                 Usable(objs[o].pool) /\ objs[o].pool # 0 /\ Keeps(objs[o].pool) = KeptOf(objs[o].pool)
           /\ \A a \in Held("procattr") : objs[a].h # 0
<1>1. \A p : Usable(p) => p # 0 /\ Keeps(p) = KeptOf(p)
  BY DEF LifeInv, ApeTypes, Usable, KeptOf
<1>2. \A p \in Held("pool") : Usable(p)
  BY DEF LifeInv, Roots, Idle, Held, Usable
<1>3. ASSUME NEW o \in held, objs[o].kind \in {"file", "dir", "procattr"}, objs[o].h # 0
      PROVE  Usable(objs[o].pool)
  <2>1. o \in DOMAIN objs /\ objs[o].fin = "no"
    BY DEF LifeInv, Roots, Idle
  <2>2. objs[o].pool \in objs[o].refs /\ objs[objs[o].pool].kind = "pool" /\ objs[objs[o].pool].h # 0
    BY <1>3, <2>1 DEF LifeInv, PoolKept
  <2> QED
    BY <2>1, <2>2 DEF LifeInv, References, Marks, Usable
<1>4. \A a \in Held("procattr") : objs[a].h # 0
  BY DEF LifeInv, Roots, Idle, Held, PoolKept
<1> QED
  BY <1>1, <1>2, <1>3, <1>4

\* What is kept with a pool that can be used, and the pools it lies in.
LEMMA KeptType ==
    ASSUME LifeInv, NEW p, p = 0 \/ Usable(p)
    PROVE  /\ p \in Nat /\ KeptOf(p) \in SUBSET Nat
           /\ (p # 0 => objs[p].h \in Nat /\ objs[p].h # 0) /\ LiesIn(p) \in SUBSET Nat
<1>1. CASE p = 0
  BY <1>1 DEF KeptOf, LiesIn
<1>2. CASE Usable(p)
  <2>1. p \in Nat /\ p \in DOMAIN objs /\ objs[p] \in Objects /\ objs[p].h # 0
    BY <1>2 DEF LifeInv, ApeTypes, Usable
  <2>2. objs[p].h \in Nat /\ objs[p].refs \in SUBSET Nat
    BY <2>1 DEF Objects
  <2>3. objs[p].h \in DOMAIN nats
    BY <2>1 DEF LifeInv, Handles
  <2>4. nats[objs[p].h] \in Natives
    BY <2>3 DEF LifeInv, ApeTypes
  <2>5. nats[objs[p].h].in \in SUBSET Nat
    BY <2>4 DEF Natives
  <2> QED
    BY <2>1, <2>2, <2>5 DEF KeptOf, Keeps, LiesIn
<1> QED
  BY <1>1, <1>2

\* Create and Fails for each kind of object.
LEMMA CreateGrows ==
    ASSUME LifeInv, NEW kind \in {"pool", "file", "dir", "procattr", "hash"},
           NEW p, p = 0 => kind = "pool", p = 0 \/ Usable(p), Create(kind, p, KeptOf(p))
    PROVE  Grown(p)
<1> DEFINE obj == Object(kind, Len(nats) + 1, p, KeptOf(p))
           nat == Native(kind, IF p = 0 THEN 0 ELSE objs[p].h)
<1>1. Len(nats) \in Nat /\ Len(nats) + 1 \in Nat /\ Len(objs) \in Nat /\ Len(objs) + 1 \in Nat
  BY DEF LifeInv, ApeTypes
<1>2. /\ obj \in Objects /\ obj.kind = kind /\ obj.h = Len(nats) + 1 /\ obj.refs = KeptOf(p)
      /\ obj.pool = p /\ obj.out = 0 /\ obj.fin = "no"
  BY <1>1, KeptType DEF Object, Objects, Kinds
<1>3. nat \in Natives /\ nat.live /\ nat.in = LiesIn(p)
  BY KeptType DEF Native, Natives, Kinds, LiesIn
<1>4. objs' = Append(objs, obj) /\ nats' = Append(nats, nat) /\ held' = held \cup {Len(objs) + 1}
  BY DEF Create
<1> HIDE DEF obj, nat
<1>5. /\ objs' \in Seq(Objects) /\ Len(objs') = Len(objs) + 1 /\ objs'[Len(objs) + 1] = obj
      /\ \A o \in DOMAIN objs : objs'[o] = objs[o]
      /\ DOMAIN objs' \ DOMAIN objs = {Len(objs) + 1}
  BY <1>1, <1>2, <1>4 DEF LifeInv, ApeTypes
<1>6. /\ nats' \in Seq(Natives) /\ Len(nats') = Len(nats) + 1 /\ nats'[Len(nats) + 1] = nat
      /\ \A n \in DOMAIN nats : nats'[n] = nats[n]
      /\ DOMAIN nats' \ DOMAIN nats = {Len(nats) + 1}
  BY <1>1, <1>3, <1>4 DEF LifeInv, ApeTypes
<1>7. \A o \in DOMAIN objs' \ DOMAIN objs : NewObject(o, p)
  BY <1>1, <1>2, <1>5, <1>6 DEF NewObject
<1>8. \A n \in DOMAIN nats' \ DOMAIN nats :
         /\ nats'[n].live /\ nats'[n].in = LiesIn(p)
         /\ p = 0 => \E o \in DOMAIN objs' \ DOMAIN objs : objs'[o].kind = "pool" /\ objs'[o].h = n
  BY <1>2, <1>3, <1>5, <1>6
<1>9. /\ held' \in SUBSET Nat
      /\ \A o \in held' : o \notin held =>
           o \in DOMAIN objs' \ DOMAIN objs /\ (objs'[o].kind = "pool" => objs'[o].h # 0)
  <2>1. obj.h # 0
    BY <1>1, <1>2
  <2>2. held \in SUBSET Nat
    BY DEF LifeInv, ApeTypes
  <2> QED
    BY <1>1, <1>4, <1>5, <2>1, <2>2
<1>10. Idle /\ kids' \in Seq(Kids) /\ UNCHANGED <<queue, call, apr, phase>>
  BY DEF LifeInv, ApeTypes, Create
<1>11. pipes' = pipes /\ \A o \in DOMAIN objs' \ DOMAIN objs : objs'[o].h \notin DOMAIN nats
  BY <1>1, <1>2, <1>5, <1>6 DEF Create
<1> QED
  BY <1>1, <1>5, <1>6, <1>7, <1>8, <1>9, <1>10, <1>11 DEF Grown

\* One object without a resource is made, as when APR reports an error.
LEMMA BareGrows ==
    ASSUME LifeInv, NEW kind \in {"pool", "file", "dir", "uid"},
           NEW p, p = 0 => kind = "pool", p = 0 \/ Usable(p),
           Idle, objs' = Append(objs, Object(kind, 0, p, KeptOf(p))),
           held' = held \/ (kind = "uid" /\ held' = held \cup {Len(objs) + 1}),
           UNCHANGED <<nats, pipes, queue, kids, call, apr, phase>>
    PROVE  Grown(p)
<1> DEFINE obj == Object(kind, 0, p, KeptOf(p))
<1>1. Len(objs) \in Nat /\ Len(objs) + 1 \in Nat
  BY DEF LifeInv, ApeTypes
<1>2. /\ obj \in Objects /\ obj.kind = kind /\ obj.h = 0 /\ obj.refs = KeptOf(p)
      /\ obj.pool = p /\ obj.out = 0 /\ obj.fin = "no"
  BY <1>1, KeptType DEF Object, Objects, Kinds
<1>3. objs' = Append(objs, obj) /\ nats' = nats
  OBVIOUS
<1> HIDE DEF obj
<1>4. /\ objs' \in Seq(Objects) /\ Len(objs') = Len(objs) + 1 /\ objs'[Len(objs) + 1] = obj
      /\ \A o \in DOMAIN objs : objs'[o] = objs[o]
      /\ DOMAIN objs' \ DOMAIN objs = {Len(objs) + 1}
  BY <1>1, <1>2, <1>3 DEF LifeInv, ApeTypes
<1>5. \A o \in DOMAIN objs' \ DOMAIN objs : NewObject(o, p)
  BY <1>2, <1>4 DEF NewObject
<1>6. /\ held' \in SUBSET Nat
      /\ \A o \in held' : o \notin held =>
           o \in DOMAIN objs' \ DOMAIN objs /\ (objs'[o].kind = "pool" => objs'[o].h # 0)
  BY <1>1, <1>2, <1>4 DEF LifeInv, ApeTypes
<1>7. pipes' = pipes /\ \A o \in DOMAIN objs' \ DOMAIN objs : objs'[o].h \notin DOMAIN nats
  BY <1>2, <1>4 DEF LifeInv, ApeTypes
<1> QED
  BY <1>1, <1>3, <1>4, <1>5, <1>6, <1>7 DEF LifeInv, ApeTypes, Grown

\* A function of APR fails after its userdata was made.
LEMMA FailsGrows ==
    ASSUME LifeInv, NEW kind \in {"pool", "file", "dir"},
           NEW p, p = 0 => kind = "pool", p = 0 \/ Usable(p), Fails(kind, p, KeptOf(p))
    PROVE  Grown(p)
BY BareGrows DEF Fails

\* An object of a pool is made that has nothing to close.
LEMMA NewUserGrows ==
    ASSUME LifeInv, NEW p, p # 0, Usable(p), NewUser(p)
    PROVE  Grown(p)
<1>1. Keeps(p) = KeptOf(p)
  BY DEF KeptOf
<1> QED
  BY <1>1, BareGrows DEF NewUser

\* The functions that make a pool, or one object in a pool.
LEMMA PoolAndFileSteps ==
    ASSUME LifeInv,
           PoolCreate \/ PoolChild \/ FileOpen \/ DirOpen \/ ProcattrCreate \/ HashNew \/ FileDup
    PROVE  LifeInv'
<1>1. CASE PoolCreate
  <2>1. KeptOf(0) = {}
    BY DEF KeptOf
  <2> QED
    BY <1>1, <2>1, CreateGrows, FailsGrows, GrowStep DEF PoolCreate
<1>2. ASSUME NEW kind \in {"pool", "file", "dir", "procattr", "hash"}, NEW p \in Held("pool"),
             Create(kind, p, Keeps(p))
      PROVE  LifeInv'
  <2>1. Idle
    BY <1>2 DEF Create
  <2>2. Usable(p) /\ p # 0 /\ Keeps(p) = KeptOf(p)
    BY <2>1, HeldIsUsable
  <2> QED
    BY <1>2, <2>2, CreateGrows, GrowStep
<1>3. ASSUME NEW kind \in {"pool", "file", "dir"}, NEW p \in Held("pool"), Fails(kind, p, Keeps(p))
      PROVE  LifeInv'
  <2>1. Idle
    BY <1>3 DEF Fails
  <2>2. Usable(p) /\ p # 0 /\ Keeps(p) = KeptOf(p)
    BY <2>1, HeldIsUsable
  <2> QED
    BY <1>3, <2>2, FailsGrows, GrowStep
<1>4. CASE PoolChild
  BY <1>2, <1>3, <1>4 DEF PoolChild
<1>5. CASE FileOpen
  BY <1>2, <1>3, <1>5 DEF FileOpen
<1>6. CASE DirOpen
  BY <1>2, <1>3, <1>6 DEF DirOpen
<1>7. CASE ProcattrCreate
  BY <1>2, <1>7 DEF ProcattrCreate
<1>8. CASE HashNew
  BY <1>2, <1>8 DEF HashNew
<1>9. CASE FileDup
  BY <1>2, <1>3, <1>9 DEF FileDup
<1> QED
  BY <1>1, <1>4, <1>5, <1>6, <1>7, <1>8, <1>9

\* User and group ids, and the entries of dir_read.
LEMMA UserSteps ==
    ASSUME LifeInv, UidNew \/ DirRead
    PROVE  LifeInv'
<1>1. CASE UidNew
  <2>1. PICK p \in Held("pool") : NewUser(p)
    BY <1>1 DEF UidNew
  <2>2. Usable(p) /\ p # 0
    BY <2>1, HeldIsUsable DEF NewUser
  <2> QED
    BY <2>1, <2>2, NewUserGrows, GrowStep
<1>2. CASE DirRead
  <2>1. PICK d \in Held("file") \cup Held("dir") : objs[d].h # 0 /\ NewUser(objs[d].pool)
    BY <1>2 DEF DirRead, Open
  <2>2. Usable(objs[d].pool) /\ objs[d].pool # 0
    BY <2>1, HeldIsUsable DEF NewUser, Held
  <2> QED
    BY <2>1, <2>2, NewUserGrows, GrowStep
<1> QED
  BY <1>1, <1>2
\* Sequences that grow by two elements.
LEMMA TwoMore ==
    ASSUME NEW S, NEW s \in Seq(S), NEW u \in Seq(S), Len(u) = 2
    PROVE  /\ s \o u \in Seq(S) /\ Len(s \o u) = Len(s) + 2
           /\ \A i \in DOMAIN s : (s \o u)[i] = s[i]
           /\ DOMAIN (s \o u) \ DOMAIN s = {Len(s) + 1, Len(s) + 2}
           /\ (s \o u)[Len(s) + 1] = u[1] /\ (s \o u)[Len(s) + 2] = u[2]
<1>1. Len(s) \in Nat /\ DOMAIN s = 1..Len(s)
  OBVIOUS
<1>2. /\ s \o u \in Seq(S) /\ Len(s \o u) = Len(s) + 2
      /\ \A i \in 1..(Len(s) + 2) : (s \o u)[i] = IF i <= Len(s) THEN s[i] ELSE u[i - Len(s)]
  <2>1. /\ s \o u \in Seq(S) /\ Len(s \o u) = Len(s) + Len(u)
        /\ \A i \in 1..(Len(s) + Len(u)) : (s \o u)[i] = IF i <= Len(s) THEN s[i] ELSE u[i - Len(s)]
    BY ConcatProperties, Zenon
  <2> QED
    BY <2>1, Zenon
<1> DEFINE t == s \o u
<1>3. DOMAIN t = 1..(Len(s) + 2)
  BY <1>2
<1> HIDE DEF t
<1>4. DOMAIN t \ DOMAIN s = {Len(s) + 1, Len(s) + 2}
  BY <1>1, <1>3
<1>5. t[Len(s) + 1] = u[1] /\ t[Len(s) + 2] = u[2]
  BY <1>1, <1>2 DEF t
<1> QED
  BY <1>1, <1>2, <1>4, <1>5 DEF t

\* file_pipe_create makes two files.
LEMMA FilePipeStep ==
    ASSUME LifeInv, FilePipeCreate
    PROVE  LifeInv'
<1>1. Idle /\ UNCHANGED <<pipes, queue, kids, call, apr, phase>>
  BY DEF FilePipeCreate
<1>2. PICK p \in Held("pool") :
        \/ /\ objs' = objs \o [i \in 1..2 |-> Object("file", Len(nats) + i, p, Keeps(p))]
           /\ nats' = nats \o [i \in 1..2 |-> Native("file", objs[p].h)]
           /\ held' = held \cup {Len(objs) + 1, Len(objs) + 2}
        \/ /\ objs' = objs \o [i \in 1..2 |-> Object("file", 0, p, Keeps(p))]
           /\ UNCHANGED <<nats, held>>
  BY DEF FilePipeCreate
<1>3. Usable(p) /\ p # 0 /\ Keeps(p) = KeptOf(p)
  BY <1>1, HeldIsUsable
<1>4. /\ p \in Nat /\ KeptOf(p) \in SUBSET Nat /\ objs[p].h \in Nat /\ objs[p].h # 0
      /\ LiesIn(p) \in SUBSET Nat
  BY <1>3, KeptType
<1>5. /\ Len(nats) \in Nat /\ Len(nats) + 1 \in Nat /\ Len(nats) + 2 \in Nat
      /\ Len(objs) \in Nat /\ Len(objs) + 1 \in Nat /\ Len(objs) + 2 \in Nat
      /\ objs \in Seq(Objects) /\ nats \in Seq(Natives) /\ held \in SUBSET Nat /\ kids \in Seq(Kids)
  BY DEF LifeInv, ApeTypes
<1>6. ASSUME NEW h \in Nat
      PROVE  LET obj == Object("file", h, p, Keeps(p))
             IN  /\ obj \in Objects /\ obj.kind = "file" /\ obj.h = h /\ obj.refs = KeptOf(p)
                 /\ obj.pool = p /\ obj.out = 0 /\ obj.fin = "no"
  BY <1>3, <1>4 DEF Object, Objects, Kinds
<1>7. CASE /\ objs' = objs \o [i \in 1..2 |-> Object("file", Len(nats) + i, p, Keeps(p))]
           /\ nats' = nats \o [i \in 1..2 |-> Native("file", objs[p].h)]
           /\ held' = held \cup {Len(objs) + 1, Len(objs) + 2}
  <2> DEFINE x == Object("file", Len(nats) + 1, p, Keeps(p))
             y == Object("file", Len(nats) + 2, p, Keeps(p))
             n == Native("file", objs[p].h)
             os == [i \in 1..2 |-> Object("file", Len(nats) + i, p, Keeps(p))]
             ns == [i \in 1..2 |-> Native("file", objs[p].h)]
  <2>1. /\ x \in Objects /\ x.kind = "file" /\ x.h = Len(nats) + 1 /\ x.refs = KeptOf(p)
        /\ x.pool = p /\ x.out = 0 /\ x.fin = "no"
    BY <1>5, <1>6
  <2>2. /\ y \in Objects /\ y.kind = "file" /\ y.h = Len(nats) + 2 /\ y.refs = KeptOf(p)
        /\ y.pool = p /\ y.out = 0 /\ y.fin = "no"
    BY <1>5, <1>6
  <2>3. n \in Natives /\ n.live /\ n.in = LiesIn(p)
    BY <1>3, <1>4 DEF Native, Natives, Kinds, LiesIn
  <2>4. os[1] = x /\ os[2] = y /\ ns[1] = n /\ ns[2] = n
    OBVIOUS
  <2> HIDE DEF x, y, n
  <2>5. os \in Seq(Objects) /\ Len(os) = 2 /\ ns \in Seq(Natives) /\ Len(ns) = 2
    <3>1. os \in [1..2 -> Objects] /\ ns \in [1..2 -> Natives]
      BY <2>1, <2>2, <2>3, <2>4
    <3> QED
      BY <3>1
  <2>6. objs' = objs \o os /\ nats' = nats \o ns
    BY <1>7
  <2> HIDE DEF os, ns
  <2>7. /\ objs' \in Seq(Objects) /\ Len(objs') = Len(objs) + 2
        /\ \A i \in DOMAIN objs : objs'[i] = objs[i]
        /\ DOMAIN objs' \ DOMAIN objs = {Len(objs) + 1, Len(objs) + 2}
        /\ objs'[Len(objs) + 1] = x /\ objs'[Len(objs) + 2] = y
    <3>1. objs \in Seq(Objects) /\ os \in Seq(Objects) /\ Len(os) = 2
      BY <1>5, <2>5
    <3>2. /\ objs \o os \in Seq(Objects) /\ Len(objs \o os) = Len(objs) + 2
          /\ \A i \in DOMAIN objs : (objs \o os)[i] = objs[i]
          /\ DOMAIN (objs \o os) \ DOMAIN objs = {Len(objs) + 1, Len(objs) + 2}
          /\ (objs \o os)[Len(objs) + 1] = os[1] /\ (objs \o os)[Len(objs) + 2] = os[2]
      BY <3>1, TwoMore
    <3> QED
      BY <2>4, <2>6, <3>2, Zenon
  <2>8. /\ nats' \in Seq(Natives) /\ Len(nats') = Len(nats) + 2
        /\ \A i \in DOMAIN nats : nats'[i] = nats[i]
        /\ DOMAIN nats' \ DOMAIN nats = {Len(nats) + 1, Len(nats) + 2}
        /\ nats'[Len(nats) + 1] = n /\ nats'[Len(nats) + 2] = n
    <3>1. nats \in Seq(Natives) /\ ns \in Seq(Natives) /\ Len(ns) = 2
      BY <1>5, <2>5
    <3>2. /\ nats \o ns \in Seq(Natives) /\ Len(nats \o ns) = Len(nats) + 2
          /\ \A i \in DOMAIN nats : (nats \o ns)[i] = nats[i]
          /\ DOMAIN (nats \o ns) \ DOMAIN nats = {Len(nats) + 1, Len(nats) + 2}
          /\ (nats \o ns)[Len(nats) + 1] = ns[1] /\ (nats \o ns)[Len(nats) + 2] = ns[2]
      BY <3>1, TwoMore
    <3> QED
      BY <2>4, <2>6, <3>2, Zenon
  <2>9. \A o \in DOMAIN objs' \ DOMAIN objs : NewObject(o, p)
    <3>1. NewObject(Len(objs) + 1, p)
      BY <1>3, <1>5, <2>1, <2>2, <2>7, <2>8 DEF NewObject
    <3>2. NewObject(Len(objs) + 2, p)
      BY <1>3, <1>5, <2>1, <2>2, <2>7, <2>8 DEF NewObject
    <3> QED
      BY <2>7, <3>1, <3>2
  <2>10. \A o \in held' : o \notin held => o \in DOMAIN objs' \ DOMAIN objs /\ objs'[o].kind # "pool"
    BY <1>7, <2>1, <2>2, <2>7
  <2>11. held' \in SUBSET Nat
    BY <1>5, <1>7
  <2>12. Len(objs) <= Len(objs') /\ Len(nats) <= Len(nats')
    BY <1>5, <2>7, <2>8
  <2>13. \A i \in DOMAIN nats' \ DOMAIN nats : nats'[i].live /\ nats'[i].in = LiesIn(p)
    BY <2>3, <2>8
  <2>14. \A o \in DOMAIN objs' \ DOMAIN objs : objs'[o].h \notin DOMAIN nats
    BY <1>5, <2>1, <2>2, <2>7
  <2>15. Grown(p)
    BY <1>1, <1>3, <1>5, <2>7, <2>8, <2>9, <2>10, <2>11, <2>12, <2>13, <2>14 DEF Grown
  <2> QED
    BY <2>15, GrowStep
<1>8. CASE /\ objs' = objs \o [i \in 1..2 |-> Object("file", 0, p, Keeps(p))]
           /\ UNCHANGED <<nats, held>>
  <2> DEFINE x == Object("file", 0, p, Keeps(p))
             os == [i \in 1..2 |-> Object("file", 0, p, Keeps(p))]
  <2>1. /\ x \in Objects /\ x.kind = "file" /\ x.h = 0 /\ x.refs = KeptOf(p)
        /\ x.pool = p /\ x.out = 0 /\ x.fin = "no"
    BY <1>6
  <2>2. os[1] = x /\ os[2] = x
    OBVIOUS
  <2> HIDE DEF x
  <2>3. os \in Seq(Objects) /\ Len(os) = 2
    <3>1. os \in [1..2 -> Objects]
      BY <2>1, <2>2
    <3> QED
      BY <3>1
  <2>4. objs' = objs \o os
    BY <1>8
  <2> HIDE DEF os
  <2>5. /\ objs' \in Seq(Objects) /\ Len(objs') = Len(objs) + 2
        /\ \A i \in DOMAIN objs : objs'[i] = objs[i]
        /\ DOMAIN objs' \ DOMAIN objs = {Len(objs) + 1, Len(objs) + 2}
        /\ objs'[Len(objs) + 1] = x /\ objs'[Len(objs) + 2] = x
    <3>1. objs \in Seq(Objects) /\ os \in Seq(Objects) /\ Len(os) = 2
      BY <1>5, <2>3
    <3>2. /\ objs \o os \in Seq(Objects) /\ Len(objs \o os) = Len(objs) + 2
          /\ \A i \in DOMAIN objs : (objs \o os)[i] = objs[i]
          /\ DOMAIN (objs \o os) \ DOMAIN objs = {Len(objs) + 1, Len(objs) + 2}
          /\ (objs \o os)[Len(objs) + 1] = os[1] /\ (objs \o os)[Len(objs) + 2] = os[2]
      BY <3>1, TwoMore
    <3> QED
      BY <2>2, <2>4, <3>2, Zenon
  <2>6. \A o \in DOMAIN objs' \ DOMAIN objs : NewObject(o, p)
    BY <1>3, <2>1, <2>5 DEF NewObject
  <2>7. \A o \in DOMAIN objs' \ DOMAIN objs : objs'[o].h \notin DOMAIN nats
    BY <1>5, <2>1, <2>5
  <2>8. Grown(p)
    BY <1>1, <1>3, <1>5, <1>8, <2>5, <2>6, <2>7 DEF Grown
  <2> QED
    BY <2>8, GrowStep
<1> QED
  BY <1>2, <1>7, <1>8

\* A process gets the pipe of its attributes, as others may have before.
LEMMA PipesMore ==
    ASSUME LifeInv, call' = None, nats' = nats,
           NEW a \in DOMAIN pipes, NEW n, n = pipes[a],
           \A r \in DOMAIN objs : r \in DOMAIN objs' /\ objs'[r] = objs[r],
           NEW o, NEW f, DOMAIN objs' \ DOMAIN objs = {o, f},
           objs'[o].kind = "proc", objs'[o].h = 0, objs'[f].kind = "file", objs'[f].h = n,
           pipes' = [q \in DOMAIN pipes \cup {o} |-> IF q = o THEN pipes[a] ELSE pipes[q]]
    PROVE  /\ Pipes' /\ SharedStays
           /\ \A q \in DOMAIN objs : objs[q].h = n => Shared(n)'
           /\ ProcPipe(n) => Shared(n)'
<1>1. /\ \A r \in DOMAIN pipes : r \in DOMAIN objs /\ pipes[r] \in DOMAIN nats /\ r # o /\ r \in DOMAIN pipes'
                                 /\ pipes'[r] = pipes[r] /\ objs'[r] = objs[r]
      /\ o \in DOMAIN pipes' /\ pipes'[o] = n /\ DOMAIN pipes' = DOMAIN pipes \cup {o}
      /\ n \in DOMAIN nats /\ 0 \notin DOMAIN nats /\ o \in DOMAIN objs' /\ f \in DOMAIN objs' /\ o # f
  BY DEF LifeInv, Pipes, ApeTypes
<1>2. SharedStays
  BY <1>1 DEF SharedStays, Shared
<1>3. \A m : ProcPipe(m) => ProcPipe(m)'
  BY <1>1 DEF ProcPipe
<1>4. ProcPipe(n)'
  BY <1>1 DEF ProcPipe
<1>5. ProcPipe(n) => Shared(n)'
  BY <1>1 DEF ProcPipe, Shared
<1>6. \A q \in DOMAIN objs : objs[q].h = n => Shared(n)'
  BY <1>5 DEF LifeInv, Pipes
<1>7. ASSUME NEW m, NEW q \in DOMAIN objs', objs'[q].h = m, m \in DOMAIN nats,
             \A u \in DOMAIN objs : objs[u].h = m => objs[u].kind = "file" /\ ProcPipe(m)
      PROVE  objs'[q].kind = "file" /\ ProcPipe(m)'
  <2>1. CASE q \in DOMAIN objs
    BY <1>3, <1>7, <2>1
  <2>2. CASE q = o
    BY <1>1, <1>7, <2>2
  <2>3. CASE q = f
    BY <1>4, <1>7, <2>3
  <2> QED
    BY <2>1, <2>2, <2>3
<1>8. ASSUME NEW r \in DOMAIN pipes, objs[r].kind = "procattr"
      PROVE  /\ \A m \in nats'[pipes[r]].in :
                  \E q \in KeptOf(objs[r].pool)' : objs'[q].kind = "pool" /\ objs'[q].h = m
             /\ objs'[r].fin = "no" => nats'[pipes[r]].live \/ ProcPipe(pipes[r])
  <2>1. r \in DOMAIN objs /\ objs'[r] = objs[r]
    BY <1>1
  <2>2. objs[r].pool \in objs[r].refs /\ objs[objs[r].pool].kind = "pool" /\ objs[r].pool \in DOMAIN objs
    BY <1>8, <2>1 DEF LifeInv, PoolKept, References
  <2>3. KeptOf(objs[r].pool)' = KeptOf(objs[r].pool)
    BY <2>1, <2>2 DEF KeptOf, Keeps
  <2>4. \A q \in KeptOf(objs[r].pool) : q \in DOMAIN objs
    BY <2>2 DEF LifeInv, References, KeptOf, Keeps
  <2>5. \A m \in nats[pipes[r]].in : \E q \in KeptOf(objs[r].pool) : objs[q].kind = "pool" /\ objs[q].h = m
    BY <1>8 DEF LifeInv, Pipes
  <2>6. objs[r].fin = "no" => nats[pipes[r]].live \/ ProcPipe(pipes[r])
    BY <1>8 DEF LifeInv, Pipes
  <2> QED
    BY <2>1, <2>3, <2>4, <2>5, <2>6
<1>9. ASSUME NEW r \in DOMAIN pipes', NEW m, m = pipes'[r]
      PROVE  /\ r \in DOMAIN objs' /\ objs'[r].kind \in {"procattr", "proc"} /\ m \in DOMAIN nats'
             /\ \A q \in DOMAIN objs' : objs'[q].h = m => objs'[q].kind = "file" /\ ProcPipe(m)'
             /\ objs'[r].kind = "procattr" =>
                  /\ r \in DOMAIN pipes /\ m = pipes[r] /\ objs[r].kind = "procattr"
  <2>1. CASE r \in DOMAIN pipes
    <3>1. m = pipes[r] /\ m \in DOMAIN nats /\ objs[r].kind \in {"procattr", "proc"}
      BY <1>1, <1>9, <2>1 DEF LifeInv, Pipes
    <3>2. \A u \in DOMAIN objs : objs[u].h = m => objs[u].kind = "file" /\ ProcPipe(m)
      BY <2>1, <3>1 DEF LifeInv, Pipes
    <3>3. \A q \in DOMAIN objs' : objs'[q].h = m => objs'[q].kind = "file" /\ ProcPipe(m)'
      BY <1>7, <3>1, <3>2
    <3> QED
      BY <1>1, <2>1, <3>1, <3>3
  <2>2. CASE r = o
    <3>1. m = n
      BY <1>1, <1>9, <2>2
    <3>2. \A u \in DOMAIN objs : objs[u].h = n => objs[u].kind = "file" /\ ProcPipe(n)
      BY DEF LifeInv, Pipes
    <3>3. \A q \in DOMAIN objs' : objs'[q].h = n => objs'[q].kind = "file" /\ ProcPipe(n)'
      BY <1>1, <1>7, <3>2
    <3> QED
      BY <1>1, <2>2, <3>1, <3>3
  <2> QED
    BY <1>1, <2>1, <2>2
<1>10. Pipes'
  <2>1. call'.fn \notin {"collect", "glob"}
    BY DEF None
  <2>2. ASSUME NEW r \in DOMAIN pipes'
        PROVE  /\ r \in DOMAIN objs' /\ objs'[r].kind \in {"procattr", "proc"} /\ pipes'[r] \in DOMAIN nats'
               /\ \A q \in DOMAIN objs' : objs'[q].h = pipes'[r] => objs'[q].kind = "file" /\ ProcPipe(pipes[r])'
               /\ objs'[r].kind = "procattr" =>
                    /\ \A m \in nats'[pipes'[r]].in :
                         \E q \in KeptOf(objs[r].pool)' : objs'[q].kind = "pool" /\ objs'[q].h = m
                    /\ objs'[r].fin = "no" => nats'[pipes'[r]].live \/ ProcPipe(pipes[r])'
    <3>1. PICK m : m = pipes'[r]
      OBVIOUS
    <3>2. /\ r \in DOMAIN objs' /\ objs'[r].kind \in {"procattr", "proc"} /\ m \in DOMAIN nats'
          /\ \A q \in DOMAIN objs' : objs'[q].h = m => objs'[q].kind = "file" /\ ProcPipe(m)'
          /\ objs'[r].kind = "procattr" =>
               /\ r \in DOMAIN pipes /\ m = pipes[r] /\ objs[r].kind = "procattr"
      BY <1>9, <3>1
    <3>3. ASSUME objs'[r].kind = "procattr"
          PROVE  /\ \A u \in nats'[m].in :
                      \E q \in KeptOf(objs[r].pool)' : objs'[q].kind = "pool" /\ objs'[q].h = u
                 /\ objs'[r].fin = "no" => nats'[m].live \/ ProcPipe(m)'
      BY <1>3, <1>8, <3>2, <3>3
    <3> QED
      BY <3>1, <3>2, <3>3
  <2> QED
    BY <2>1, <2>2 DEF Pipes
<1> QED
  BY <1>2, <1>5, <1>6, <1>10

\* proc_create makes the process, and an object for its pipe.
LEMMA ProcStep ==
    ASSUME LifeInv, ProcCreate
    PROVE  LifeInv'
<1> DEFINE l == Len(objs)
           proc(p) == [Object("proc", 0, p, Keeps(p)) EXCEPT !.kid = Len(kids) + 1]
           full(p) == [proc(p) EXCEPT !.out = l + 1 + 1, !.refs = @ \cup {l + 1 + 1}]
           pipe(n, p) == Object("file", n, p, Keeps(p))
<1>1. /\ Idle /\ kids' = Append(kids, Kid(FALSE)) /\ UNCHANGED <<nats, queue, call, apr, phase>>
      /\ call' = None
  BY DEF ProcCreate, Idle
<1>2. PICK a \in Held("procattr") :
        LET p == objs[a].pool
        IN  /\ \/ /\ a \in DOMAIN pipes
                  /\ objs' = objs \o <<full(p), pipe(pipes[a], p)>>
                  /\ pipes' = [q \in DOMAIN pipes \cup {l + 1} |-> IF q = l + 1 THEN pipes[a] ELSE pipes[q]]
               \/ objs' = Append(objs, proc(p)) /\ pipes' = pipes
            /\ held' = held \cup {l + 1}
  BY DEF ProcCreate
<1> DEFINE p == objs[a].pool
           n == pipes[a]
<1>3. Usable(p) /\ p # 0 /\ Keeps(p) = KeptOf(p)
  BY <1>1, HeldIsUsable DEF Held
<1>4. /\ p \in Nat /\ KeptOf(p) \in SUBSET Nat /\ objs[p].h \in Nat /\ objs[p].h # 0
      /\ LiesIn(p) \in SUBSET Nat
  BY <1>3, KeptType
<1>5. /\ Len(nats) \in Nat /\ DOMAIN nats = 1..Len(nats)
      /\ l \in Nat /\ l + 1 \in Nat /\ l + 2 \in Nat /\ l + 1 + 1 = l + 2
      /\ objs \in Seq(Objects) /\ nats \in Seq(Natives) /\ held \in SUBSET Nat /\ kids \in Seq(Kids)
      /\ Len(kids) + 1 \in Nat
  BY DEF LifeInv, ApeTypes
<1>6. /\ proc(p) \in Objects /\ proc(p).kind = "proc" /\ proc(p).h = 0 /\ proc(p).refs = KeptOf(p)
      /\ proc(p).out = 0 /\ proc(p).fin = "no"
  BY <1>3, <1>4, <1>5 DEF Object, Objects, Kinds
<1>7. /\ full(p) \in Objects /\ full(p).kind = "proc" /\ full(p).h = 0
      /\ full(p).refs = KeptOf(p) \cup {l + 2} /\ full(p).out = l + 2 /\ full(p).fin = "no"
  BY <1>3, <1>4, <1>5 DEF Object, Objects, Kinds
<1>8. ASSUME n \in Nat
      PROVE  /\ pipe(n, p) \in Objects /\ pipe(n, p).kind = "file" /\ pipe(n, p).h = n
             /\ pipe(n, p).refs = KeptOf(p) /\ pipe(n, p).pool = p /\ pipe(n, p).out = 0 /\ pipe(n, p).fin = "no"
  BY <1>3, <1>4, <1>5, <1>8 DEF Object, Objects, Kinds
<1>9. kids' \in Seq(Kids)
  BY <1>1, <1>5 DEF Kid, Kids
<1>10. held' = held \cup {l + 1} /\ held' \in SUBSET Nat
  BY <1>2, <1>5
<1>11. \/ /\ a \in DOMAIN pipes /\ objs' = objs \o <<full(p), pipe(n, p)>>
          /\ pipes' = [q \in DOMAIN pipes \cup {l + 1} |-> IF q = l + 1 THEN pipes[a] ELSE pipes[q]]
       \/ objs' = Append(objs, proc(p)) /\ pipes' = pipes
  BY <1>2
<1>12. a \in DOMAIN objs /\ objs[a].kind = "procattr" /\ objs[a].fin = "no"
  BY <1>1 DEF Held, LifeInv, Roots, Idle
<1>13. a \in DOMAIN pipes =>
         /\ n \in DOMAIN nats /\ (nats[n].live \/ ProcPipe(n))
         /\ \A m \in nats[n].in : \E q \in KeptOf(p) : objs[q].kind = "pool" /\ objs[q].h = m
  BY <1>12 DEF LifeInv, Pipes
<1> HIDE DEF proc, full, pipe, p
<1>14. CASE /\ a \in DOMAIN pipes /\ objs' = objs \o <<full(p), pipe(n, p)>>
            /\ pipes' = [q \in DOMAIN pipes \cup {l + 1} |-> IF q = l + 1 THEN pipes[a] ELSE pipes[q]]
  <2> DEFINE os == <<full(p), pipe(n, p)>>
  <2>0. n \in Nat /\ n # 0
    BY <1>5, <1>13, <1>14
  <2>1. os \in Seq(Objects) /\ Len(os) = 2 /\ os[1] = full(p) /\ os[2] = pipe(n, p)
    BY <1>7, <1>8, <2>0
  <2>2. objs' = objs \o os
    BY <1>14
  <2> HIDE DEF os
  <2>3. /\ objs' \in Seq(Objects) /\ Len(objs') = l + 2
        /\ \A i \in DOMAIN objs : objs'[i] = objs[i]
        /\ DOMAIN objs' \ DOMAIN objs = {l + 1, l + 2}
        /\ objs'[l + 1] = full(p) /\ objs'[l + 2] = pipe(n, p)
    <3>1. objs \in Seq(Objects) /\ os \in Seq(Objects) /\ Len(os) = 2
      BY <1>5, <2>1
    <3>2. /\ objs \o os \in Seq(Objects) /\ Len(objs \o os) = l + 2
          /\ \A i \in DOMAIN objs : (objs \o os)[i] = objs[i]
          /\ DOMAIN (objs \o os) \ DOMAIN objs = {l + 1, l + 2}
          /\ (objs \o os)[l + 1] = os[1] /\ (objs \o os)[l + 2] = os[2]
      BY <3>1, TwoMore
    <3> QED
      BY <2>1, <2>2, <3>2, Zenon
  <2>4. \A i \in DOMAIN objs : i \in DOMAIN objs' /\ objs'[i] = objs[i]
    BY <1>5, <2>3
  <2>5. PICK m : m = n
    OBVIOUS
  <2>6. /\ objs'[l + 1].kind = "proc" /\ objs'[l + 1].h = 0
        /\ objs'[l + 2].kind = "file" /\ objs'[l + 2].h = m
    BY <1>7, <1>8, <2>0, <2>3, <2>5
  <2>7. /\ Pipes' /\ SharedStays
        /\ \A q \in DOMAIN objs : objs[q].h = m => Shared(m)'
        /\ ProcPipe(m) => Shared(m)'
    <3>1. nats' = nats
      BY <1>1
    <3> QED
      BY <1>1, <1>14, <2>3, <2>4, <2>5, <2>6, <3>1, PipesMore
  <2>8. PICK u : u = l + 2
    OBVIOUS
  <2>9. OldPipe(u, p)
    <3>1. objs'[u].h \in DOMAIN nats /\ objs'[u].kind = "file" /\ m \in DOMAIN nats /\ objs'[u].h = m
      BY <1>13, <1>14, <2>5, <2>6, <2>8
    <3>2. \A i \in nats[m].in : \E q \in KeptOf(p) : objs[q].kind = "pool" /\ objs[q].h = i
      BY <1>13, <1>14, <2>5
    <3>3. nats[m].live \/ Shared(m)'
      BY <1>13, <1>14, <2>5, <2>7
    <3>4. ASSUME NEW q \in DOMAIN objs', objs'[q].h = m
          PROVE  q = u \/ Shared(m)'
      <4>1. CASE q \in DOMAIN objs
        BY <2>4, <2>7, <3>4, <4>1
      <4>2. CASE q \notin DOMAIN objs
        BY <2>0, <2>3, <2>5, <2>6, <2>8, <3>4, <4>2
      <4> QED
        BY <4>1, <4>2
    <3> QED
      BY <3>1, <3>2, <3>3, <3>4 DEF OldPipe
  <2>10. NewObject(u, p)
    BY <1>3, <1>5, <1>8, <2>0, <2>3, <2>9, <2>8 DEF NewObject
  <2>11. \A o \in DOMAIN objs' \ DOMAIN objs : NewObject(o, p)
    <3>1. PICK v : v = l + 1
      OBVIOUS
    <3>2. NewObject(v, p)
      BY <1>3, <1>5, <1>7, <1>8, <2>0, <2>3, <3>1 DEF NewObject
    <3> QED
      BY <2>3, <2>10, <2>8, <3>1, <3>2
  <2>12. \A o \in held' : o \notin held => o \in DOMAIN objs' \ DOMAIN objs /\ objs'[o].kind # "pool"
    BY <1>7, <1>10, <2>3
  <2>13. Len(objs) <= Len(objs') /\ Len(nats) <= Len(nats') /\ nats' = nats
    BY <1>1, <1>5, <2>3
  <2>14. Grown(p)
    BY <1>1, <1>3, <1>5, <1>9, <1>10, <2>3, <2>7, <2>12, <2>13, <2>11 DEF Grown
  <2> QED
    BY <2>14, GrowStep
<1>15. CASE objs' = Append(objs, proc(p)) /\ pipes' = pipes
  <2>1. /\ objs' \in Seq(Objects) /\ Len(objs') = l + 1 /\ objs'[l + 1] = proc(p)
        /\ \A o \in DOMAIN objs : objs'[o] = objs[o]
        /\ DOMAIN objs' \ DOMAIN objs = {l + 1}
    BY <1>5, <1>6, <1>15
  <2>2. \A o \in DOMAIN objs' \ DOMAIN objs : NewObject(o, p)
    BY <1>6, <2>1 DEF NewObject
  <2>3. \A o \in held' : o \notin held => o \in DOMAIN objs' \ DOMAIN objs /\ objs'[o].kind # "pool"
    BY <1>6, <1>10, <2>1
  <2>4. Len(objs) <= Len(objs') /\ Len(nats) <= Len(nats') /\ nats' = nats
    BY <1>1, <1>5, <2>1
  <2>5. pipes' = pipes /\ \A o \in DOMAIN objs' \ DOMAIN objs : objs'[o].h \notin DOMAIN nats
    BY <1>5, <1>6, <1>15, <2>1
  <2>6. Grown(p)
    BY <1>1, <1>3, <1>5, <1>9, <1>10, <2>1, <2>2, <2>3, <2>4, <2>5 DEF Grown
  <2> QED
    BY <2>6, GrowStep
<1> QED
  BY <1>11, <1>14, <1>15
-----------------------------------------------------------------------------
(***************************************************************************)
(* Closing files and directories                                           *)
(***************************************************************************)

\* A file or a directory is closed; a directory then keeps nothing.
ClosedNow(f) ==
    /\ Idle /\ f \in held /\ objs[f].kind \in {"file", "dir"} /\ objs[f].h # 0
    /\ objs' \in Seq(Objects) /\ DOMAIN objs' = DOMAIN objs
    /\ \A o \in DOMAIN objs : o # f => objs'[o] = objs[o]
    /\ objs'[f].kind = objs[f].kind /\ objs'[f].h = 0 /\ objs'[f].fin = objs[f].fin
    /\ objs'[f].out = objs[f].out
    /\ objs'[f].refs = objs[f].refs \/ (objs[f].kind = "dir" /\ objs'[f].refs = {})
    /\ nats' \in Seq(Natives) /\ DOMAIN nats' = DOMAIN nats
    /\ \A n \in DOMAIN nats : nats'[n].in = nats[n].in /\ (nats'[n].live => nats[n].live)
    /\ \A n \in DOMAIN nats : n # objs[f].h => nats'[n] = nats[n]
    /\ UNCHANGED <<pipes, held, queue, kids, call, apr, phase>>

\* A resource is closed explicitly, and its object no longer has it.
LEMMA ClosingStep ==
    ASSUME LifeInv, NEW f, ClosedNow(f)
    PROVE  LifeInv'
<1>1. /\ phase = "running" /\ phase' = "running" /\ call = None /\ call' = None
      /\ held' = held /\ queue' = queue /\ apr' = apr
      /\ f \in DOMAIN objs /\ f \in held /\ objs[f].fin = "no"
  BY DEF ClosedNow, Idle, LifeInv, Roots
<1>2. /\ DOMAIN objs' = DOMAIN objs
      /\ \A o \in DOMAIN objs : o # f => objs'[o] = objs[o]
      /\ objs[f].kind \in {"file", "dir"}
      /\ objs'[f].kind = objs[f].kind /\ objs'[f].h = 0 /\ objs'[f].fin = objs[f].fin
      /\ objs'[f].out = objs[f].out
      /\ objs'[f].refs = objs[f].refs \/ (objs[f].kind = "dir" /\ objs'[f].refs = {})
  BY DEF ClosedNow
<1>3. /\ objs[f].h # 0 /\ DOMAIN nats' = DOMAIN nats
      /\ \A n \in DOMAIN nats : nats'[n].in = nats[n].in /\ (nats'[n].live => nats[n].live)
      /\ \A n \in DOMAIN nats : n # objs[f].h => nats'[n] = nats[n]
  BY DEF ClosedNow
<1>4. Pipes' /\ SharedStays
  <2>1. \A o \in DOMAIN objs :
          /\ o \in DOMAIN objs' /\ objs'[o].kind = objs[o].kind
          /\ objs'[o].fin = "no" => objs[o].fin = "no"
          /\ objs[o].kind = "pool" => objs'[o].refs = objs[o].refs /\ objs'[o].h = objs[o].h
          /\ objs[o].kind = "procattr" => objs'[o].pool = objs[o].pool
    BY <1>2
  <2>2. \A q \in DOMAIN objs' : objs'[q].h \in DOMAIN nats => q \in DOMAIN objs /\ objs'[q].h = objs[q].h
    BY <1>2 DEF LifeInv, ApeTypes
  <2>3. \A n \in DOMAIN nats : n \in DOMAIN nats' /\ nats'[n].in = nats[n].in
    BY <1>3
  <2>4. ASSUME NEW a \in DOMAIN pipes, nats[pipes[a]].live
        PROVE  nats'[pipes[a]].live \/ ProcPipe(pipes[a])
    <3>1. CASE pipes[a] = objs[f].h
      BY <1>1, <3>1 DEF LifeInv, Pipes
    <3>2. CASE pipes[a] # objs[f].h
      BY <1>3, <2>4, <3>2 DEF LifeInv, Pipes
    <3> QED
      BY <3>1, <3>2
  <2>5. call'.fn \notin {"collect", "glob"} /\ pipes' = pipes
    BY <1>1 DEF None, ClosedNow
  <2> QED
    BY <2>1, <2>2, <2>3, <2>4, <2>5, PipesFrame
<1>5. ApeTypes'
  BY DEF LifeInv, ApeTypes, ClosedNow
<1>6. Phases'
  BY <1>1 DEF Phases
<1>7. References'
  <2>1. ASSUME NEW o \in DOMAIN objs, NEW r \in objs'[o].refs
        PROVE  /\ r \in DOMAIN objs /\ r # DefaultPool /\ objs'[r].kind \in {"pool", "file"}
               /\ objs'[r].refs \subseteq objs'[o].refs
               /\ objs'[o].kind # "proc" => r < o
    <3>1. r \in objs[o].refs /\ objs'[o].refs = objs[o].refs /\ objs'[o].kind = objs[o].kind
      BY <1>2
    <3>2. r \in DOMAIN objs /\ objs[r].kind \in {"pool", "file"}
      BY <3>1 DEF LifeInv, References
    <3>3. objs'[r].refs = objs[r].refs /\ objs'[r].kind = objs[r].kind
      BY <1>2, <3>2
    <3> QED
      BY <3>1, <3>2, <3>3 DEF LifeInv, References
  <2>2. ASSUME NEW o \in DOMAIN objs, objs'[o].out # 0
        PROVE  /\ objs'[o].kind = "proc"
               /\ objs'[o].out \in objs'[o].refs /\ objs'[objs'[o].out].kind = "file"
    <3>1. objs[o].kind = "proc" /\ o # f
      BY <1>2, <2>2 DEF LifeInv, References
    <3> QED
      BY <1>2, <2>2, <3>1 DEF LifeInv, References
  <2> QED
    BY <1>2, <2>1, <2>2 DEF References
<1>8. Handles'
  <2>1. ASSUME NEW o \in DOMAIN objs, objs'[o].h # 0
        PROVE  /\ objs'[o].h \in DOMAIN nats
               /\ \A q \in DOMAIN objs : objs'[q].h = objs'[o].h => q = o \/ Shared(objs[o].h)'
               /\ \A n \in nats'[objs'[o].h].in :
                    \E q \in objs'[o].refs : objs'[q].kind = "pool" /\ objs'[q].h = n
    <3>1. o # f /\ objs'[o] = objs[o]
      BY <1>2, <2>1
    <3>2. objs[o].h \in DOMAIN nats /\ nats'[objs[o].h].in = nats[objs[o].h].in
      BY <1>3, <2>1, <3>1 DEF LifeInv, Handles
    <3>3. \A q \in objs[o].refs : q \in DOMAIN objs
      BY DEF LifeInv, References
    <3>4. ASSUME NEW q \in DOMAIN objs, objs'[q].h = objs'[o].h
          PROVE  q = o \/ Shared(objs[o].h)'
      <4>1. q = o \/ Shared(objs[o].h)
        BY <1>2, <2>1, <3>1, <3>4 DEF LifeInv, Handles
      <4> QED
        BY <1>4, <3>1, <4>1 DEF SharedStays
    <3> QED
      BY <1>1, <1>2, <2>1, <3>1, <3>2, <3>3, <3>4 DEF LifeInv, Handles
  <2>2. \A n \in DOMAIN nats' : nats'[n].in \subseteq DOMAIN nats'
    BY <1>3 DEF LifeInv, Handles
  <2> QED
    BY <1>2, <1>3, <2>1, <2>2 DEF Handles
<1>9. PoolKept'
  <2>1. ASSUME NEW o \in DOMAIN objs, objs'[o].kind \in {"file", "dir", "procattr"}
        PROVE  /\ objs'[o].h # 0 => /\ objs'[o].pool \in objs'[o].refs
                                    /\ objs'[objs'[o].pool].kind = "pool" /\ objs'[objs'[o].pool].h # 0
               /\ objs'[o].kind = "procattr" => objs'[o].h # 0
    <3>1. CASE o = f
      BY <1>2, <3>1
    <3>2. CASE o # f
      <4>1. objs'[o] = objs[o] /\ \A q \in objs[o].refs : q \in DOMAIN objs
        BY <1>2, <3>2 DEF LifeInv, References
      <4> QED
        BY <1>1, <1>2, <2>1, <4>1 DEF LifeInv, PoolKept
    <3> QED
      BY <3>1, <3>2
  <2> QED
    BY <1>2, <2>1 DEF PoolKept
<1>10. Roots'
  <2>1. f # DefaultPool
    BY <1>1, <1>2 DEF LifeInv, Roots
  <2> QED
    BY <1>1, <1>2, <2>1 DEF LifeInv, Roots, None
<1>11. Marks'
  <2>1. ASSUME NEW o \in DOMAIN objs
        PROVE  /\ objs'[o].fin = objs[o].fin /\ objs'[o].kind = objs[o].kind
               /\ objs'[o].refs \subseteq objs[o].refs
               /\ \A r \in objs'[o].refs : r \in DOMAIN objs /\ objs'[r].fin = objs[r].fin
    BY <1>2 DEF LifeInv, References
  <2>2. \A o \in DOMAIN objs' :
          /\ objs'[o].fin = "no" => \A r \in objs'[o].refs : objs'[r].fin = "no"
          /\ objs'[o].fin = "no" => phase' = "running"
          /\ objs'[o].fin = "queued" => \E i \in DOMAIN queue' : o \in queue'[i]
          /\ objs'[o].kind = "finalizer" <=> o = Finalizer
    BY <1>1, <1>2, <2>1 DEF LifeInv, Marks
  <2>3. \A i \in DOMAIN queue' : \A o \in queue'[i] :
          /\ o \in DOMAIN objs' /\ objs'[o].fin = "queued" /\ objs'[o].kind \in HasGC
          /\ o = Finalizer => i = Len(queue')
          /\ \A j \in DOMAIN queue' : j < i => o \notin queue'[j] /\ queue'[j] \cap objs'[o].refs = {}
    BY <1>1, <1>2, <2>1 DEF LifeInv, Marks
  <2> QED
    BY <2>2, <2>3 DEF Marks
<1>12. CallNat'
  BY <1>1 DEF CallNat, None
<1>13. TerminatedLast'
  BY <1>1 DEF LifeInv, Roots, TerminatedLast
<1>14. Valid'
  <2>1. ASSUME NEW o \in DOMAIN objs, objs'[o].fin # "done", objs'[o].h # 0
        PROVE  nats'[objs'[o].h].live \/ Shared(objs[o].h)'
    <3>1. o # f /\ objs'[o] = objs[o] /\ objs[o].h \in DOMAIN nats
      BY <1>2, <2>1 DEF LifeInv, Handles
    <3>2. Shared(objs[o].h) => Shared(objs[o].h)'
      BY <1>4, <3>1 DEF SharedStays
    <3>3. CASE objs[o].h = objs[f].h
      BY <1>1, <1>3, <3>1, <3>2, <3>3 DEF LifeInv, Handles
    <3>4. CASE objs[o].h # objs[f].h
      BY <1>3, <2>1, <3>1, <3>2, <3>4 DEF LifeInv, Valid
    <3> QED
      BY <3>3, <3>4
  <2> QED
    BY <1>2, <2>1 DEF Valid
<1>15. KeptLonger'
  <2>1. ASSUME NEW o \in DOMAIN objs, objs'[o].fin # "done", NEW r \in objs'[o].refs
        PROVE  objs'[r].fin # "done"
    <3>1. r \in objs[o].refs /\ r \in DOMAIN objs /\ objs[o].fin # "done" /\ objs'[r].fin = objs[r].fin
      BY <1>2, <2>1 DEF LifeInv, References
    <3> QED
      BY <3>1 DEF LifeInv, KeptLonger
  <2> QED
    BY <1>2, <2>1 DEF KeptLonger
<1>16. Owned'
  <2>1. ASSUME NEW n \in DOMAIN nats, nats'[n].live
        PROVE  \E o \in DOMAIN objs : /\ objs'[o].kind = "pool" /\ objs'[o].fin # "done" /\ objs'[o].h # 0
                                      /\ objs'[o].h = n \/ objs'[o].h \in nats'[n].in
    <3>1. PICK o \in DOMAIN objs : /\ objs[o].kind = "pool" /\ objs[o].fin # "done" /\ objs[o].h # 0
                                   /\ objs[o].h = n \/ objs[o].h \in nats[n].in
      BY <1>3, <2>1 DEF LifeInv, Owned
    <3>2. objs'[o] = objs[o] /\ nats'[n].in = nats[n].in
      BY <1>2, <1>3, <3>1
    <3> QED
      BY <3>1, <3>2
  <2> QED
    BY <1>2, <1>3, <2>1 DEF Owned
<1> QED
  BY <1>5, <1>6, <1>7, <1>8, <1>9, <1>10, <1>11, <1>12, <1>13, <1>14, <1>16, <1>15, <1>4 DEF LifeInv

\* A resource is closed.
LEMMA LiveOff ==
    ASSUME nats \in Seq(Natives), NEW m \in DOMAIN nats
    PROVE  LET ns == [nats EXCEPT ![m].live = FALSE]
           IN  /\ ns \in Seq(Natives) /\ DOMAIN ns = DOMAIN nats /\ Len(ns) = Len(nats)
               /\ \A n \in DOMAIN nats : ns[n].in = nats[n].in /\ (ns[n].live => nats[n].live)
               /\ \A n \in DOMAIN nats : n # m => ns[n] = nats[n]
               /\ ~ns[m].live
<1> DEFINE c == [nats[m] EXCEPT !.live = FALSE]
<1>1. nats[m] \in Natives
  OBVIOUS
<1>2. c \in Natives /\ c.in = nats[m].in /\ ~c.live
  BY <1>1 DEF Natives
<1> DEFINE ns == [nats EXCEPT ![m].live = FALSE]
<1>3. ns = [nats EXCEPT ![m] = c]
  OBVIOUS
<1> HIDE DEF c, ns
<1>4. ns \in Seq(Natives) /\ DOMAIN ns = DOMAIN nats /\ Len(ns) = Len(nats)
  BY <1>2, <1>3
<1>5. ns[m] = c /\ \A n \in DOMAIN nats : n # m => ns[n] = nats[n]
  BY <1>3
<1> QED
  BY <1>2, <1>4, <1>5 DEF ns

\* file_close and dir_close.
LEMMA CloseSteps ==
    ASSUME LifeInv, FileClose \/ DirClose
    PROVE  LifeInv'
<1>1. PICK f \in held :
        /\ objs[f].kind \in {"file", "dir"} /\ objs[f].h # 0
        /\ nats' = [nats EXCEPT ![objs[f].h].live = FALSE]
        /\ \/ objs' = [objs EXCEPT ![f].h = 0]
           \/ objs[f].kind = "dir" /\ objs' = [objs EXCEPT ![f].h = 0, ![f].refs = {}]
  BY DEF FileClose, DirClose, Held, Open
<1>2. Idle /\ UNCHANGED <<pipes, held, queue, kids, call, apr, phase>>
  BY DEF FileClose, DirClose
<1>3. f \in DOMAIN objs /\ objs \in Seq(Objects) /\ objs[f] \in Objects
  BY <1>2 DEF LifeInv, ApeTypes, Roots, Idle
<1>4. objs[f].h \in DOMAIN nats /\ nats \in Seq(Natives)
  BY <1>1, <1>3 DEF LifeInv, ApeTypes, Handles
<1> DEFINE c == [objs[f] EXCEPT !.h = 0]
           d == [objs[f] EXCEPT !.h = 0, !.refs = {}]
<1>5. /\ c \in Objects /\ c.kind = objs[f].kind /\ c.h = 0 /\ c.fin = objs[f].fin
      /\ c.out = objs[f].out /\ c.refs = objs[f].refs
  BY <1>3 DEF Objects
<1>6. /\ d \in Objects /\ d.kind = objs[f].kind /\ d.h = 0 /\ d.fin = objs[f].fin
      /\ d.out = objs[f].out /\ d.refs = {}
  BY <1>3 DEF Objects
<1>7. \/ objs' = [objs EXCEPT ![f] = c]
      \/ objs[f].kind = "dir" /\ objs' = [objs EXCEPT ![f] = d]
  BY <1>1, <1>3
<1> HIDE DEF c, d
<1>8. /\ objs' \in Seq(Objects) /\ DOMAIN objs' = DOMAIN objs
      /\ \A o \in DOMAIN objs : o # f => objs'[o] = objs[o]
      /\ objs'[f] = c \/ (objs[f].kind = "dir" /\ objs'[f] = d)
  BY <1>3, <1>5, <1>6, <1>7
<1>9. /\ nats' \in Seq(Natives) /\ DOMAIN nats' = DOMAIN nats
      /\ \A n \in DOMAIN nats : nats'[n].in = nats[n].in /\ (nats'[n].live => nats[n].live)
      /\ \A n \in DOMAIN nats : n # objs[f].h => nats'[n] = nats[n]
  BY <1>1, <1>4, LiveOff
<1>10. ClosedNow(f)
  BY <1>1, <1>2, <1>5, <1>6, <1>8, <1>9 DEF ClosedNow
<1> QED
  BY <1>10, ClosingStep
-----------------------------------------------------------------------------
(***************************************************************************)
(* Steps that leave all objects alone                                      *)
(***************************************************************************)

\* The pipes that attributes may still give to processes are open.
PipesOpen ==
    \A a \in DOMAIN pipes :
        objs[a].kind = "procattr" /\ objs[a].fin = "no" /\ nats[pipes[a]].live =>
            nats'[pipes[a]].live \/ ProcPipe(pipes[a])

\* Resources are created in reachable pools, and destroyed when no object has them.
Settled ==
    /\ UNCHANGED <<objs, queue, apr, phase>>
    /\ nats' \in Seq(Natives) /\ Len(nats) <= Len(nats')
    /\ \A n \in DOMAIN nats : nats'[n].in = nats[n].in /\ (nats'[n].live => nats[n].live)
    /\ \A o \in DOMAIN objs : objs[o].fin # "done" /\ objs[o].h # 0 => nats'[objs[o].h].live \/ Shared(objs[o].h)
    /\ \/ /\ pipes' = pipes /\ PipesOpen
          /\ call'.fn \in {"collect", "glob"} =>
               call'.nat \notin DOMAIN nats \/ (call.fn \in {"collect", "glob"} /\ call'.nat = call.nat)
       \/ Pipes' /\ SharedStays
    /\ \A n \in DOMAIN nats' \ DOMAIN nats :
         /\ nats'[n].in \subseteq DOMAIN nats
         /\ \E o \in DOMAIN objs : /\ objs[o].kind = "pool" /\ objs[o].fin # "done" /\ objs[o].h # 0
                                   /\ objs[o].h \in nats'[n].in
    /\ phase = "start" => nats' = nats
    /\ phase # "running" => call' = None /\ held' = {}
    /\ held' \in SUBSET Nat /\ kids' \in Seq(Kids) /\ call' \in Calls

\* Steps that leave objects, the queue and the phase alone.
LEMMA SettledStep ==
    ASSUME LifeInv, Settled, Roots', CallNat'
    PROVE  LifeInv'
<1>1. /\ objs' = objs /\ queue' = queue /\ apr' = apr /\ phase' = phase
      /\ \A n \in DOMAIN nats : n \in DOMAIN nats' /\ nats'[n].in = nats[n].in /\ (nats'[n].live => nats[n].live)
  BY DEF LifeInv, ApeTypes, Settled
<1>2. Pipes' /\ SharedStays
  <2>1. CASE /\ pipes' = pipes /\ PipesOpen
             /\ call'.fn \in {"collect", "glob"} =>
                  call'.nat \notin DOMAIN nats \/ (call.fn \in {"collect", "glob"} /\ call'.nat = call.nat)
    BY <1>1, <2>1, PipesFrame DEF PipesOpen
  <2> QED
    BY <2>1 DEF Settled
<1>3. ApeTypes' /\ Phases'
  BY <1>1 DEF LifeInv, ApeTypes, Phases, Settled
<1>4. References' /\ PoolKept' /\ Marks' /\ TerminatedLast' /\ KeptLonger'
  BY <1>1 DEF LifeInv, References, PoolKept, Marks, TerminatedLast, KeptLonger
<1>5. Handles'
  <2>1. \A n \in DOMAIN nats' : nats'[n].in \subseteq DOMAIN nats'
    BY <1>1 DEF LifeInv, Handles, Settled
  <2>2. ASSUME NEW o \in DOMAIN objs
        PROVE  /\ objs[o].h \in {0} \cup DOMAIN nats'
               /\ objs[o].h # 0 =>
                    /\ \A q \in DOMAIN objs : objs[q].h = objs[o].h => q = o \/ Shared(objs[o].h)'
                    /\ \A n \in nats'[objs[o].h].in :
                         \E q \in objs[o].refs : objs[q].kind = "pool" /\ objs[q].h = n
    <3>1. Shared(objs[o].h) => Shared(objs[o].h)'
      BY <1>2, <1>1 DEF SharedStays
    <3> QED
      BY <1>1, <3>1 DEF LifeInv, Handles
  <2> QED
    BY <1>1, <2>1, <2>2 DEF Handles
<1>6. Valid'
  <2>1. \A o \in DOMAIN objs : Shared(objs[o].h) => Shared(objs[o].h)'
    BY <1>2, <1>1 DEF SharedStays
  <2> QED
    BY <1>1, <2>1 DEF Valid, Settled
<1>7. Owned'
  <2>1. ASSUME NEW n \in DOMAIN nats, nats'[n].live
        PROVE  \E o \in DOMAIN objs : /\ objs[o].kind = "pool" /\ objs[o].fin # "done" /\ objs[o].h # 0
                                      /\ objs[o].h = n \/ objs[o].h \in nats'[n].in
    BY <1>1, <2>1 DEF LifeInv, Owned
  <2>2. ASSUME NEW n \in DOMAIN nats' \ DOMAIN nats
        PROVE  \E o \in DOMAIN objs : /\ objs[o].kind = "pool" /\ objs[o].fin # "done" /\ objs[o].h # 0
                                      /\ objs[o].h = n \/ objs[o].h \in nats'[n].in
    BY DEF Settled
  <2> QED
    BY <1>1, <2>1, <2>2 DEF Owned
<1> QED
  BY <1>2, <1>3, <1>4, <1>5, <1>6, <1>7 DEF LifeInv

\* No object has a resource in the default pool.
LEMMA NothingInDefault ==
    ASSUME ApeTypes, References, Handles, Pipes, Roots, phase = "running", NEW o \in DOMAIN objs, objs[o].h # 0
    PROVE  objs[DefaultPool].h \notin nats[objs[o].h].in
<1>1. SUFFICES ASSUME objs[DefaultPool].h \in nats[objs[o].h].in PROVE FALSE
  OBVIOUS
<1>2. PICK q \in objs[o].refs : objs[q].kind = "pool" /\ objs[q].h = objs[DefaultPool].h
  BY <1>1 DEF Handles
<1>3. q \in DOMAIN objs /\ q # DefaultPool
  BY DEF References
<1>4. DefaultPool \in DOMAIN objs /\ objs[DefaultPool].h # 0 /\ objs[DefaultPool].kind = "pool"
  BY DEF Roots
<1> QED
  BY <1>2, <1>3, <1>4, PoolUnique

\* Nor do process attributes have a pipe there.
LEMMA NoPipeInDefault ==
    ASSUME ApeTypes, References, Handles, PoolKept, Pipes, Roots, phase = "running",
           NEW a \in DOMAIN pipes, objs[a].kind = "procattr"
    PROVE  objs[DefaultPool].h \notin nats[pipes[a]].in
<1>1. SUFFICES ASSUME objs[DefaultPool].h \in nats[pipes[a]].in PROVE FALSE
  OBVIOUS
<1>2. PICK q \in KeptOf(objs[a].pool) : objs[q].kind = "pool" /\ objs[q].h = objs[DefaultPool].h
  BY <1>1 DEF Pipes
<1>3. a \in DOMAIN objs /\ objs[a].pool \in objs[a].refs
  BY DEF Pipes, PoolKept
<1>4. q \in DOMAIN objs /\ q # DefaultPool
  BY <1>2, <1>3 DEF References, KeptOf, Keeps
<1>5. DefaultPool \in DOMAIN objs /\ objs[DefaultPool].h # 0 /\ objs[DefaultPool].kind = "pool"
  BY DEF Roots
<1> QED
  BY <1>2, <1>4, <1>5, PoolUnique

\* ape_opt_pool takes no resource from an object.
LEMMA OptPoolFacts ==
    ASSUME ApeTypes, References, Handles, PoolKept, Pipes, Valid, Roots, phase = "running", NEW a
    PROVE  /\ OptPool(a) \in Seq(Natives) /\ Len(OptPool(a)) = Len(nats)
           /\ \A n \in DOMAIN nats : /\ OptPool(a)[n].in = nats[n].in
                                     /\ OptPool(a)[n].live => nats[n].live
           /\ \A o \in DOMAIN objs : objs[o].fin # "done" /\ objs[o].h # 0 =>
                OptPool(a)[objs[o].h].live \/ Shared(objs[o].h)
           /\ \A c \in DOMAIN pipes : objs[c].kind = "procattr" /\ nats[pipes[c]].live => OptPool(a)[pipes[c]].live
<1>1. CASE a # 0
  BY <1>1 DEF OptPool, ApeTypes, Valid
<1>2. CASE a = 0
  <2>1. OptPool(a) = [i \in 1..Len(nats) |-> IF objs[DefaultPool].h \in nats[i].in
                                             THEN [nats[i] EXCEPT !.live = FALSE] ELSE nats[i]]
    BY <1>2 DEF OptPool, Clear, ApeTypes
  <2>2. \A n \in 1..Len(nats) : nats[n] \in Natives
    BY DEF ApeTypes
  <2>3. \A n \in 1..Len(nats) : /\ OptPool(a)[n] \in Natives
                                /\ OptPool(a)[n].in = nats[n].in
                                /\ OptPool(a)[n].live => nats[n].live
                                /\ objs[DefaultPool].h \notin nats[n].in => OptPool(a)[n] = nats[n]
    BY <2>1, <2>2, ZenonT(30) DEF Natives
  <2>4. Len(nats) \in Nat /\ DOMAIN nats = 1..Len(nats)
    BY DEF ApeTypes
  <2>5. OptPool(a) \in Seq(Natives) /\ Len(OptPool(a)) = Len(nats)
    <3>1. OptPool(a) \in [1..Len(nats) -> Natives]
      BY <2>1, <2>3
    <3> QED
      BY <2>4, <3>1
  <2>6. ASSUME NEW o \in DOMAIN objs, objs[o].fin # "done", objs[o].h # 0
        PROVE  OptPool(a)[objs[o].h].live \/ Shared(objs[o].h)
    <3>1. objs[DefaultPool].h \notin nats[objs[o].h].in
      BY <2>6, NothingInDefault
    <3>2. objs[o].h \in 1..Len(nats) /\ (nats[objs[o].h].live \/ Shared(objs[o].h))
      BY <2>4, <2>6 DEF Handles, Valid
    <3> QED
      BY <2>3, <3>1, <3>2
  <2>7. ASSUME NEW c \in DOMAIN pipes, objs[c].kind = "procattr", nats[pipes[c]].live
        PROVE  OptPool(a)[pipes[c]].live
    <3>1. objs[DefaultPool].h \notin nats[pipes[c]].in
      BY <2>7, NoPipeInDefault
    <3>2. pipes[c] \in 1..Len(nats)
      BY <2>4 DEF Pipes
    <3> QED
      BY <2>3, <2>7, <3>1, <3>2
  <2> QED
    BY <2>3, <2>4, <2>5, <2>6, <2>7
<1> QED
  BY <1>1, <1>2

\* Nothing happens but to the call, to children and to what the program holds.
LEMMA SameNats ==
    ASSUME LifeInv, UNCHANGED <<objs, nats, pipes, queue, apr, phase>>,
           call'.fn \in {"collect", "glob"} => call' = call,
           phase # "running" => call' = None /\ held' = {},
           held' \in SUBSET Nat, kids' \in Seq(Kids), call' \in Calls, Roots', CallNat'
    PROVE  LifeInv'
<1>1. Settled
  BY DEF LifeInv, ApeTypes, Valid, Settled, PipesOpen
<1> QED
  BY <1>1, SettledStep

\* The record of a function that is running.
LEMMA CallType ==
    ASSUME NEW fn \in Fns, NEW args \in SUBSET Nat, NEW nat \in Nat, NEW kid \in Nat, NEW among \in SUBSET Nat
    PROVE  [fn |-> fn, args |-> args, nat |-> nat, kid |-> kid, among |-> among] \in Calls
BY DEF Calls

\* Changing the record of a child that may not exist.
LEMMA KidSet ==
    ASSUME kids \in Seq(Kids), NEW k, NEW e, k \in DOMAIN kids => e \in Kids
    PROVE  /\ [kids EXCEPT ![k] = e] \in Seq(Kids) /\ Len([kids EXCEPT ![k] = e]) = Len(kids)
           /\ DOMAIN [kids EXCEPT ![k] = e] = DOMAIN kids
           /\ \A i \in DOMAIN kids : [kids EXCEPT ![k] = e][i] = IF i = k THEN e ELSE kids[i]
<1> DEFINE ks == [kids EXCEPT ![k] = e]
<1>1. Len(kids) \in Nat /\ DOMAIN kids = 1..Len(kids) /\ \A i \in 1..Len(kids) : kids[i] \in Kids
  OBVIOUS
<1>2. ks = [i \in 1..Len(kids) |-> IF i = k THEN e ELSE kids[i]]
  BY <1>1
<1>3. ks \in [1..Len(kids) -> Kids]
  BY <1>1, <1>2
<1>4. ks \in Seq(Kids) /\ Len(ks) = Len(kids) /\ DOMAIN ks = DOMAIN kids
  BY <1>1, <1>3
<1> QED
  BY <1>1, <1>2, <1>4

\* Changing the state of a child that may not exist.
LEMMA KidSt ==
    ASSUME kids \in Seq(Kids), NEW k, NEW st \in {"running", "exited", "reaped"}
    PROVE  [kids EXCEPT ![k].st = st] \in Seq(Kids)
<1>1. k \in DOMAIN kids => [kids[k] EXCEPT !.st = st] \in Kids
  <2>1. k \in DOMAIN kids => kids[k] \in Kids
    OBVIOUS
  <2> QED
    BY <2>1 DEF Kids
<1> QED
  BY <1>1, KidSet

\* What a call refers to while it is running.
LEMMA InCall ==
    ASSUME LifeInv, call.fn # "none"
    PROVE  phase = "running"
BY DEF LifeInv, Phases, None

\* file_read, references that are given up, and the pipes of a process.
LEMMA ReadSteps ==
    ASSUME LifeInv, FileRead \/ FileReadEnd \/ Drop \/ OutGet
    PROVE  LifeInv'
<1>1. ApeTypes /\ Roots /\ CallNat /\ None \in Calls /\ None.fn \notin {"collect", "glob"}
  BY CallType DEF LifeInv, None, Fns
<1>2. CASE FileRead
  <2>1. Idle /\ UNCHANGED <<objs, nats, pipes, queue, kids, apr, phase>>
    BY <1>2 DEF FileRead
  <2>2. PICK f \in held : /\ objs[f].kind = "file" /\ objs[f].h # 0
                          /\ call' = [None EXCEPT !.fn = "read", !.args = {f}, !.nat = objs[f].h]
                          /\ held' = held \ {f}
    BY <1>2 DEF FileRead, Held, Open
  <2>3. f \in DOMAIN objs /\ f \in Nat /\ objs[f].h \in Nat
    <3>1. f \in DOMAIN objs
      BY <1>1, <2>1 DEF Roots, Idle
    <3>2. objs[f] \in Objects /\ f \in Nat
      BY <1>1, <3>1 DEF ApeTypes
    <3> QED
      BY <3>1, <3>2 DEF Objects
  <2>4. /\ call' \in Calls /\ call'.fn = "read" /\ call'.args = {f} /\ call'.nat = objs[f].h
    BY <1>1, <2>2, <2>3 DEF None, Calls, Fns
  <2>5. Roots'
    BY <1>1, <2>1, <2>2, <2>4 DEF Roots, Idle
  <2>6. CallNat'
    BY <2>1, <2>4 DEF CallNat
  <2> QED
    BY <1>1, <2>1, <2>2, <2>4, <2>5, <2>6, SameNats DEF ApeTypes, Idle
<1>3. CASE FileReadEnd
  <2>0. phase = "running"
    BY <1>3, InCall DEF FileReadEnd
  <2>1. /\ call' = None /\ UNCHANGED <<objs, nats, pipes, held, queue, kids, apr, phase>>
    BY <1>3 DEF FileReadEnd
  <2>2. Roots' /\ CallNat'
    BY <1>1, <2>1 DEF Roots, CallNat, None
  <2> QED
    BY <1>1, <2>0, <2>1, <2>2, SameNats DEF ApeTypes
<1>4. CASE Drop
  <2>1. /\ call = None /\ phase = "running" /\ UNCHANGED <<objs, nats, pipes, queue, kids, call, apr, phase>>
        /\ held' \subseteq held
    BY <1>4 DEF Drop, Idle
  <2>2. Roots' /\ CallNat'
    BY <1>1, <2>1 DEF Roots, CallNat, None
  <2>3. held' \in SUBSET Nat
    BY <1>1, <2>1 DEF ApeTypes
  <2> QED
    BY <1>1, <2>1, <2>2, <2>3, SameNats DEF ApeTypes
<1>5. CASE OutGet
  <2>1. call = None /\ phase = "running" /\ UNCHANGED <<objs, nats, pipes, queue, kids, call, apr, phase>>
    BY <1>5 DEF OutGet, Idle
  <2>2. PICK o \in held : objs[o].out # 0 /\ held' = held \cup {objs[o].out}
    BY <1>5 DEF OutGet, Held
  <2>3. o \in DOMAIN objs /\ objs[o].fin = "no"
    BY <1>1, <2>1 DEF Roots
  <2>4. objs[o].out \in objs[o].refs /\ objs[objs[o].out].kind = "file"
    BY <2>2, <2>3 DEF LifeInv, References
  <2>5. objs[o].out \in DOMAIN objs /\ objs[o].out # DefaultPool /\ objs[objs[o].out].fin = "no"
    BY <2>3, <2>4 DEF LifeInv, References, Marks
  <2>6. held' \in SUBSET Nat
    <3>1. held \in SUBSET Nat /\ objs[o].out \in Nat
      BY <1>1, <2>5 DEF ApeTypes
    <3> QED
      BY <2>2, <3>1
  <2>7. Roots' /\ CallNat'
    BY <1>1, <2>1, <2>2, <2>4, <2>5 DEF Roots, CallNat, None
  <2> QED
    BY <1>1, <2>1, <2>6, <2>7, SameNats DEF ApeTypes
<1> QED
  BY <1>2, <1>3, <1>4, <1>5

\* Children exit, and proc_wait and wait_all find out.
LEMMA KidSteps ==
    ASSUME LifeInv, KidExits \/ KidCloses \/ ProcWait \/ ProcWaitEnd \/ WaitAllStep
    PROVE  LifeInv'
<1>1. ApeTypes /\ Roots /\ CallNat /\ None \in Calls /\ None.fn \notin {"collect", "glob"}
  BY CallType DEF LifeInv, None, Fns
<1>2. UNCHANGED <<objs, nats, pipes, held, queue, apr, phase>>
  BY DEF KidExits, KidCloses, ProcWait, ProcWaitEnd, WaitAllStep
<1>3. ASSUME kids' \in Seq(Kids), call' \in {call, None}
      PROVE  LifeInv'
  <2>1. phase # "running" => call' = None /\ held' = {}
    BY <1>2, <1>3 DEF LifeInv, Phases
  <2>2. Roots'
    BY <1>1, <1>2, <1>3 DEF Roots, None
  <2>3. CallNat'
    <3>1. CASE call' = None
      BY <3>1 DEF CallNat, None
    <3>2. CASE call' = call
      BY <1>1, <1>2, <3>2 DEF CallNat, Reachable
    <3> QED
      BY <1>3, <3>1, <3>2
  <2> QED
    BY <1>1, <1>2, <1>3, <2>1, <2>2, <2>3, SameNats DEF ApeTypes
<1>4. CASE KidExits
  BY <1>1, <1>3, <1>4, KidSt DEF KidExits, ApeTypes
<1>5. CASE KidCloses
  <2>1. PICK k \in DOMAIN kids : kids' = [kids EXCEPT ![k].writes = FALSE]
    BY <1>5 DEF KidCloses
  <2>2. [kids[k] EXCEPT !.writes = FALSE] \in Kids
    <3>1. kids[k] \in Kids
      BY <1>1, <2>1 DEF ApeTypes
    <3> QED
      BY <3>1 DEF Kids
  <2>3. kids' \in Seq(Kids)
    BY <1>1, <2>1, <2>2, KidSet DEF ApeTypes
  <2> QED
    BY <1>3, <1>5, <2>3 DEF KidCloses
<1>6. CASE ProcWaitEnd
  BY <1>1, <1>3, <1>6, KidSt DEF ProcWaitEnd, ApeTypes
<1>7. CASE WaitAllStep
  BY <1>1, <1>3, <1>7, KidSt DEF WaitAllStep, ApeTypes
<1>8. CASE ProcWait
  <2>1. Idle
    BY <1>8 DEF ProcWait
  <2>2. PICK o \in held :
          \/ kids' = [kids EXCEPT ![objs[o].kid].st = "reaped"] /\ call' = call
          \/ kids' = kids /\ call' = [None EXCEPT !.fn = "wait", !.args = {o}, !.kid = objs[o].kid]
    BY <1>8 DEF ProcWait, Held
  <2>3. CASE kids' = [kids EXCEPT ![objs[o].kid].st = "reaped"] /\ call' = call
    BY <1>1, <1>3, <2>3, KidSt DEF ApeTypes
  <2>4. CASE kids' = kids /\ call' = [None EXCEPT !.fn = "wait", !.args = {o}, !.kid = objs[o].kid]
    <3>1. o \in DOMAIN objs
      BY <1>1, <2>1 DEF Roots, Idle
    <3>2. objs[o] \in Objects /\ o \in Nat
      BY <1>1, <3>1 DEF ApeTypes
    <3>3. objs[o].kid \in Nat
      BY <3>2 DEF Objects
    <3>4. call' \in Calls /\ call'.fn = "wait" /\ call'.args = {o} /\ call'.nat = 0
      BY <2>4, <3>2, <3>3 DEF None, Calls, Fns
    <3>5. Roots' /\ CallNat'
      BY <1>1, <1>2, <2>1, <3>4 DEF Roots, Idle, CallNat
    <3> QED
      BY <1>1, <1>2, <2>1, <2>4, <3>4, <3>5, SameNats DEF ApeTypes, Idle
  <2> QED
    BY <2>2, <2>3, <2>4
<1> QED
  BY <1>4, <1>6, <1>7, <1>8, <1>5

\* Calls with an optional pool, which may create a resource in it.
LEMMA PoolCallSteps ==
    ASSUME LifeInv, PathOp \/ WaitAll \/ RunCollect \/ PathGlob
    PROVE  LifeInv'
<1>1. Idle /\ UNCHANGED <<objs, pipes, queue, apr, phase>>
  BY DEF PathOp, WaitAll, RunCollect, PathGlob
<1>2. /\ phase = "running" /\ phase' = "running" /\ call = None /\ objs' = objs /\ queue' = queue /\ apr' = apr
      /\ ApeTypes /\ References /\ Handles /\ PoolKept /\ Pipes /\ Valid /\ Roots /\ Marks /\ pipes' = pipes
  BY <1>1 DEF Idle, LifeInv
<1>3. None \in Calls
  BY CallType DEF None, Fns
<1>4. /\ objs \in Seq(Objects) /\ held \in SUBSET Nat /\ kids \in Seq(Kids)
      /\ Len(nats) \in Nat /\ Len(nats) + 1 \in Nat /\ DOMAIN nats = 1..Len(nats) /\ Len(kids) + 1 \in Nat
  BY <1>2 DEF ApeTypes
<1>5. ASSUME NEW a \in PoolArgs
      PROVE  /\ OptPool(a) \in Seq(Natives) /\ Len(OptPool(a)) = Len(nats)
             /\ \A n \in DOMAIN nats : /\ OptPool(a)[n].in = nats[n].in
                                       /\ OptPool(a)[n].live => nats[n].live
             /\ \A o \in DOMAIN objs : objs[o].fin # "done" /\ objs[o].h # 0 =>
                  OptPool(a)[objs[o].h].live \/ Shared(objs[o].h)
             /\ \A c \in DOMAIN pipes :
                  objs[c].kind = "procattr" /\ nats[pipes[c]].live => OptPool(a)[pipes[c]].live
  BY <1>2, OptPoolFacts
<1>6. ASSUME NEW a \in PoolArgs, nats' = OptPool(a), call' \in Calls, call'.fn \notin {"collect", "glob"}, kids' = kids, held' = held,
             Roots', CallNat'
      PROVE  LifeInv'
  <2>1. PipesOpen
    BY <1>5, <1>6 DEF PipesOpen
  <2>2. Settled
    BY <1>2, <1>4, <1>5, <1>6, <2>1 DEF Settled
  <2> QED
    BY <1>6, <2>2, SettledStep
<1>7. ASSUME NEW kind \in {"file", "dir"}, NEW a \in PoolArgs,
             nats' = Append(OptPool(a), Native(kind, PoolOf(a))),
             call' \in Calls, kids' \in Seq(Kids), held' \subseteq held,
             \/ call' = None
             \/ /\ call'.fn \in {"collect", "glob"} /\ call'.nat = Len(nats) + 1
                /\ call'.args = {a} \ {0}
      PROVE  LifeInv'
  <2> DEFINE p == IF a = 0 THEN DefaultPool ELSE a
             new == Native(kind, objs[p].h)
             opt == OptPool(a)
  <2>1. /\ p \in DOMAIN objs /\ objs[p].kind = "pool" /\ objs[p].h # 0 /\ objs[p].fin = "no"
        /\ a # 0 => a # DefaultPool
    BY <1>2 DEF Roots, PoolArgs, Held
  <2>2. objs[p] \in Objects /\ objs[p].h \in DOMAIN nats /\ objs[p].h \in Nat
    BY <1>2, <1>4, <2>1 DEF Handles
  <2>3. nats[objs[p].h].in \subseteq DOMAIN nats /\ nats[objs[p].h].in \in SUBSET Nat
    BY <1>2, <1>4, <2>2 DEF Handles
  <2>4. /\ new \in Natives /\ new.live /\ new.in = {objs[p].h} \cup nats[objs[p].h].in
        /\ new.in \subseteq DOMAIN nats
    BY <2>1, <2>2, <2>3 DEF Native, Natives, Kinds
  <2>5. nats' = Append(opt, new) /\ opt \in Seq(Natives) /\ Len(opt) = Len(nats)
    BY <1>5, <1>7 DEF PoolOf
  <2>6. /\ \A n \in DOMAIN nats : opt[n].in = nats[n].in /\ (opt[n].live => nats[n].live)
        /\ \A o \in DOMAIN objs : objs[o].fin # "done" /\ objs[o].h # 0 => opt[objs[o].h].live \/ Shared(objs[o].h)
        /\ \A c \in DOMAIN pipes : objs[c].kind = "procattr" /\ nats[pipes[c]].live => opt[pipes[c]].live
    BY <1>5
  <2> HIDE DEF p, new, opt
  <2>7. /\ nats' \in Seq(Natives) /\ Len(nats') = Len(nats) + 1 /\ nats'[Len(nats) + 1] = new
        /\ \A n \in DOMAIN nats : nats'[n] = opt[n]
        /\ DOMAIN nats' \ DOMAIN nats = {Len(nats) + 1} /\ Len(nats) <= Len(nats')
    BY <1>4, <2>4, <2>5
  <2>8. \A n \in DOMAIN nats : nats'[n].in = nats[n].in /\ (nats'[n].live => nats[n].live)
    BY <2>6, <2>7
  <2>9. \A o \in DOMAIN objs : objs[o].fin # "done" /\ objs[o].h # 0 => nats'[objs[o].h].live \/ Shared(objs[o].h)
    BY <1>2, <2>6, <2>7 DEF Handles
  <2>10. \A n \in DOMAIN nats' \ DOMAIN nats :
            /\ nats'[n].in \subseteq DOMAIN nats
            /\ \E o \in DOMAIN objs : /\ objs[o].kind = "pool" /\ objs[o].fin # "done" /\ objs[o].h # 0
                                      /\ objs[o].h \in nats'[n].in
    BY <2>1, <2>4, <2>7
  <2>11. held' \in SUBSET Nat
    BY <1>4, <1>7
  <2>12. /\ PipesOpen
         /\ call'.fn \in {"collect", "glob"} => call'.nat \notin DOMAIN nats
    <3>1. \A c \in DOMAIN pipes : pipes[c] \in DOMAIN nats
      BY <1>2 DEF Pipes
    <3>2. PipesOpen
      BY <2>6, <2>7, <3>1 DEF PipesOpen
    <3>3. call'.fn \in {"collect", "glob"} => call'.nat \notin DOMAIN nats
      <4>1. call' = None => call'.fn \notin {"collect", "glob"}
        BY DEF None
      <4>2. Len(nats) + 1 \notin DOMAIN nats
        BY <1>4
      <4> QED
        BY <1>7, <4>1, <4>2
    <3> QED
      BY <3>2, <3>3
  <2>13. Settled
    BY <1>2, <1>7, <2>7, <2>8, <2>9, <2>10, <2>11, <2>12 DEF Settled
  <2>14. Roots'
    <3>1. ASSUME NEW o \in held' \cup call'.args
          PROVE  /\ o \in DOMAIN objs /\ o # DefaultPool /\ objs[o].fin = "no"
                 /\ objs[o].kind = "pool" => objs[o].h # 0
      BY <1>2, <1>7, <2>1 DEF Roots, None, p
    <3> QED
      BY <1>2, <3>1 DEF Roots
  <2>15. CallNat'
    <3>1. CASE call' = None
      BY <3>1 DEF CallNat, None
    <3>2. CASE /\ call'.fn \in {"collect", "glob"} /\ call'.nat = Len(nats) + 1
               /\ call'.args = {a} \ {0}
      <4>1. call'.nat \in DOMAIN nats' /\ nats'[call'.nat] = new
        BY <2>7, <3>2
      <4>2. \A o \in DOMAIN objs : objs[o].h # call'.nat
        BY <1>2, <1>4, <3>2 DEF Handles
      <4>3. p \in Reachable' /\ objs[p].refs \subseteq Reachable'
        BY <1>2, <2>1, <3>2 DEF Reachable, p
      <4>4. \A n \in new.in : \E q \in Reachable' : objs[q].kind = "pool" /\ objs[q].h = n
        <5>1. \A n \in nats[objs[p].h].in : \E q \in objs[p].refs : objs[q].kind = "pool" /\ objs[q].h = n
          BY <1>2, <2>1 DEF Handles
        <5> QED
          BY <2>1, <2>4, <4>3, <5>1
      <4> QED
        BY <1>2, <2>4, <3>2, <4>1, <4>2, <4>4 DEF CallNat
    <3> QED
      BY <1>7, <3>1, <3>2
  <2> QED
    BY <2>13, <2>14, <2>15, SettledStep
<1>8. CASE PathOp
  <2>1. PICK a \in PoolArgs : nats' = OptPool(a)
    BY <1>8 DEF PathOp
  <2>2. call' = call /\ kids' = kids /\ held' = held
    BY <1>8 DEF PathOp
  <2>3. Roots' /\ CallNat' /\ call'.fn \notin {"collect", "glob"}
    BY <1>2, <2>2 DEF Roots, CallNat, None
  <2> QED
    BY <1>2, <1>3, <1>6, <2>1, <2>2, <2>3
<1>9. CASE WaitAll
  <2>1. PICK among \in SUBSET Held("proc"), a \in PoolArgs :
          /\ nats' = OptPool(a)
          /\ call' = [None EXCEPT !.fn = "waitall", !.args = among \cup ({a} \ {0}),
                                  !.among = {objs[o].kid : o \in among}]
    BY <1>9 DEF WaitAll
  <2>2. kids' = kids /\ held' = held
    BY <1>9 DEF WaitAll
  <2>3. among \cup ({a} \ {0}) \subseteq held
    BY DEF Held, PoolArgs
  <2>4. {objs[o].kid : o \in among} \in SUBSET Nat
    <3>1. \A o \in among : o \in DOMAIN objs /\ objs[o] \in Objects
      BY <1>2, <1>4, <2>3 DEF Roots
    <3> QED
      BY <3>1 DEF Objects
  <2>5. /\ call' \in Calls /\ call'.fn = "waitall" /\ call'.args \subseteq held /\ call'.nat = 0
    BY <1>4, <2>1, <2>3, <2>4 DEF None, Calls, Fns
  <2>6. Roots' /\ CallNat'
    BY <1>2, <2>2, <2>5 DEF Roots, CallNat
  <2> QED
    BY <1>6, <2>1, <2>2, <2>5, <2>6
<1>10. ASSUME NEW a \in PoolArgs
       PROVE  {a} \ {0} \in SUBSET Nat
  BY <1>4 DEF PoolArgs, Held
<1>11. CASE RunCollect
  <2>1. PICK a \in PoolArgs :
          /\ nats' = Append(OptPool(a), Native("file", PoolOf(a)))
          /\ \/ /\ kids' = Append(kids, Kid(TRUE))
                /\ call' = [None EXCEPT !.fn = "collect", !.args = {a} \ {0}, !.nat = Len(nats) + 1,
                                        !.kid = Len(kids) + 1]
             \/ UNCHANGED <<kids, call>>
    BY <1>11 DEF RunCollect
  <2>2. held' = held
    BY <1>11 DEF RunCollect
  <2>3. CASE UNCHANGED <<kids, call>>
    BY <1>2, <1>3, <1>4, <1>7, <2>1, <2>2, <2>3
  <2>4. CASE /\ kids' = Append(kids, Kid(TRUE))
             /\ call' = [None EXCEPT !.fn = "collect", !.args = {a} \ {0}, !.nat = Len(nats) + 1,
                                     !.kid = Len(kids) + 1]
    <3>1. kids' \in Seq(Kids)
      BY <1>4, <2>4 DEF Kid, Kids
    <3>2. call' \in Calls /\ call'.fn = "collect" /\ call'.nat = Len(nats) + 1 /\ call'.args = {a} \ {0}
      BY <1>4, <1>10, <2>4 DEF None, Calls, Fns
    <3> QED
      BY <1>7, <2>1, <2>2, <3>1, <3>2
  <2> QED
    BY <2>1, <2>3, <2>4
<1>12. CASE PathGlob
  <2>1. PICK a \in PoolArgs :
          /\ nats' = Append(OptPool(a), Native("dir", PoolOf(a)))
          /\ call' = [None EXCEPT !.fn = "glob", !.args = {a} \ {0}, !.nat = Len(nats) + 1]
          /\ held' = held \ {a}
    BY <1>12 DEF PathGlob
  <2>2. kids' = kids
    BY <1>12 DEF PathGlob
  <2>3. call' \in Calls /\ call'.fn = "glob" /\ call'.nat = Len(nats) + 1 /\ call'.args = {a} \ {0}
    BY <1>4, <1>10, <2>1 DEF None, Calls, Fns
  <2> QED
    BY <1>4, <1>7, <2>1, <2>2, <2>3
<1> QED
  BY <1>8, <1>9, <1>11, <1>12

\* procattr_io_set makes a pipe in the pool of the attributes.
LEMMA IoStep ==
    ASSUME LifeInv, IoSet
    PROVE  LifeInv'
<1>1. /\ phase = "running" /\ phase' = "running" /\ call = None /\ call' = None
      /\ UNCHANGED <<objs, held, queue, kids, apr>>
  BY DEF IoSet, Idle
<1>2. PICK a \in Held("procattr") :
        /\ nats' = Append(nats, Native("file", objs[objs[a].pool].h))
        /\ pipes' = [o \in DOMAIN pipes \cup {a} |-> IF o = a THEN Len(nats) + 1 ELSE pipes[o]]
  BY DEF IoSet
<1> DEFINE p == objs[a].pool
           new == Native("file", objs[p].h)
<1>3. PICK n : n = Len(nats) + 1
  OBVIOUS
<1>4. Idle
  BY <1>1 DEF Idle
<1>5. /\ a \in DOMAIN objs /\ objs[a].kind = "procattr" /\ Usable(p) /\ p # 0
  BY <1>4, HeldIsUsable DEF Held, LifeInv, Roots, Idle
<1>6. /\ objs[p].h \in Nat /\ objs[p].h # 0 /\ LiesIn(p) \in SUBSET Nat
  BY <1>5, KeptType
<1>7. /\ LiesIn(p) \subseteq DOMAIN nats
      /\ \A m \in LiesIn(p) : \E q \in KeptOf(p) : objs[q].kind = "pool" /\ objs[q].h = m
  BY <1>5, LiesInFacts DEF LifeInv
<1>8. new \in Natives /\ new.live /\ new.in = LiesIn(p)
  BY <1>5, <1>6 DEF Native, Natives, Kinds, LiesIn
<1> HIDE DEF p, new
<1>9. /\ Len(nats) \in Nat /\ DOMAIN nats = 1..Len(nats) /\ nats' = Append(nats, new) /\ nats \in Seq(Natives)
  BY <1>2 DEF LifeInv, ApeTypes, new, p
<1>10. /\ nats' \in Seq(Natives) /\ Len(nats) <= Len(nats') /\ nats'[n] = new
       /\ \A m \in DOMAIN nats : m \in DOMAIN nats' /\ nats'[m] = nats[m]
       /\ DOMAIN nats' \ DOMAIN nats = {n} /\ n \notin DOMAIN nats /\ n # 0 /\ n \in DOMAIN nats'
  BY <1>3, <1>8, <1>9
<1>11. /\ DOMAIN pipes' = DOMAIN pipes \cup {a} /\ pipes'[a] = n
       /\ \A r \in DOMAIN pipes : r # a => pipes'[r] = pipes[r]
  BY <1>2, <1>3
<1>12. \A m : ProcPipe(m) => ProcPipe(m)'
  BY <1>1, <1>5, <1>11 DEF ProcPipe
<1>13. SharedStays
  BY <1>1, <1>5, <1>11 DEF SharedStays, Shared
<1>14. Pipes'
  <2>1. call'.fn \notin {"collect", "glob"}
    BY <1>1 DEF None
  <2>2. \A q \in DOMAIN objs : objs[q].h # n
    BY <1>10 DEF LifeInv, Handles
  <2>3. ASSUME NEW r \in DOMAIN pipes', r # a
        PROVE  /\ r \in DOMAIN objs' /\ objs'[r].kind \in {"procattr", "proc"} /\ pipes'[r] \in DOMAIN nats'
               /\ \A q \in DOMAIN objs' : objs'[q].h = pipes'[r] => objs'[q].kind = "file" /\ ProcPipe(pipes[r])'
               /\ objs'[r].kind = "procattr" =>
                    /\ \A m \in nats'[pipes'[r]].in :
                         \E q \in KeptOf(objs[r].pool)' : objs'[q].kind = "pool" /\ objs'[q].h = m
                    /\ objs'[r].fin = "no" => nats'[pipes'[r]].live \/ ProcPipe(pipes[r])'
    <3>1. r \in DOMAIN pipes /\ pipes'[r] = pipes[r]
      BY <1>11, <2>3
    <3>2. PICK m : m = pipes[r]
      OBVIOUS
    <3>3. /\ r \in DOMAIN objs /\ objs[r].kind \in {"procattr", "proc"} /\ m \in DOMAIN nats
          /\ \A q \in DOMAIN objs : objs[q].h = m => objs[q].kind = "file" /\ ProcPipe(m)
          /\ objs[r].kind = "procattr" =>
               /\ \A i \in nats[m].in : \E q \in KeptOf(objs[r].pool) : objs[q].kind = "pool" /\ objs[q].h = i
               /\ objs[r].fin = "no" => nats[m].live \/ ProcPipe(m)
      BY <3>1, <3>2 DEF LifeInv, Pipes
    <3>4. ProcPipe(m) => ProcPipe(m)'
      BY <1>12
    <3>5. KeptOf(objs[r].pool)' = KeptOf(objs[r].pool)
      BY <1>1 DEF KeptOf, Keeps
    <3>6. ProcPipe(m)' => ProcPipe(pipes[r])'
      BY <3>1, <3>2 DEF ProcPipe
    <3> QED
      BY <1>1, <1>10, <3>1, <3>2, <3>3, <3>4, <3>5, <3>6
  <2>4. /\ a \in DOMAIN objs' /\ objs'[a].kind \in {"procattr", "proc"} /\ pipes'[a] \in DOMAIN nats'
        /\ \A q \in DOMAIN objs' : objs'[q].h # pipes'[a]
        /\ \A m \in nats'[pipes'[a]].in :
             \E q \in KeptOf(objs[a].pool)' : objs'[q].kind = "pool" /\ objs'[q].h = m
        /\ nats'[pipes'[a]].live
    <3>1. KeptOf(objs[a].pool)' = KeptOf(p)
      BY <1>1 DEF KeptOf, Keeps, p
    <3> QED
      BY <1>1, <1>5, <1>7, <1>8, <1>10, <1>11, <2>2, <3>1
  <2> QED
    BY <2>1, <2>3, <2>4 DEF Pipes
<1>15. Settled
  <2>1. \A o \in DOMAIN objs : objs[o].fin # "done" /\ objs[o].h # 0 => nats'[objs[o].h].live \/ Shared(objs[o].h)
    BY <1>10 DEF LifeInv, Valid, Handles
  <2>2. \E o \in DOMAIN objs : /\ objs[o].kind = "pool" /\ objs[o].fin # "done" /\ objs[o].h # 0
                                /\ objs[o].h \in LiesIn(p)
    BY <1>5 DEF Usable, LiesIn
  <2>3. held' \in SUBSET Nat /\ kids' \in Seq(Kids) /\ call' \in Calls
    BY <1>1 DEF LifeInv, ApeTypes
  <2> QED
    BY <1>1, <1>7, <1>8, <1>10, <1>13, <1>14, <2>1, <2>2, <2>3 DEF Settled
<1>16. Roots' /\ CallNat'
  BY <1>1 DEF LifeInv, Roots, CallNat, None
<1> QED
  BY <1>15, <1>16, SettledStep

\* The resource of a call is given back.
LEMMA CallEndSteps ==
    ASSUME LifeInv, RunCollectRead \/ RunCollectFails \/ PathGlobEnd
    PROVE  LifeInv'
<1>1. /\ call.fn \in {"collect", "glob"} /\ nats' = [nats EXCEPT ![call.nat].live = FALSE]
      /\ UNCHANGED <<objs, pipes, held, queue, apr, phase>>
  BY DEF RunCollectRead, RunCollectFails, PathGlobEnd
<1>2. phase = "running"
  BY <1>1, InCall
<1>3. /\ ApeTypes /\ Roots /\ Valid /\ Handles
      /\ call.nat \in DOMAIN nats /\ \A o \in DOMAIN objs : objs[o].h # call.nat
      /\ \A a \in DOMAIN pipes : pipes[a] \in DOMAIN nats /\ pipes[a] # call.nat
  BY <1>1 DEF LifeInv, CallNat, Pipes
<1>4. /\ nats' \in Seq(Natives) /\ DOMAIN nats' = DOMAIN nats /\ Len(nats') = Len(nats)
      /\ \A n \in DOMAIN nats : nats'[n].in = nats[n].in /\ (nats'[n].live => nats[n].live)
      /\ \A n \in DOMAIN nats : n # call.nat => nats'[n] = nats[n]
  BY <1>1, <1>3, LiveOff DEF ApeTypes
<1>5. \A o \in DOMAIN objs : objs[o].fin # "done" /\ objs[o].h # 0 => nats'[objs[o].h].live \/ Shared(objs[o].h)
  BY <1>3, <1>4 DEF Valid, Handles
<1>6. ASSUME kids' \in Seq(Kids), call' \in Calls, call'.fn \in {"none", "wait"}, call'.nat = 0,
             call'.args \subseteq call.args
      PROVE  LifeInv'
  <2>1. Len(nats) <= Len(nats') /\ DOMAIN nats' \ DOMAIN nats = {}
    BY <1>3, <1>4 DEF ApeTypes
  <2>2. PipesOpen
    BY <1>3, <1>4 DEF PipesOpen
  <2>3. Settled
    BY <1>1, <1>2, <1>3, <1>4, <1>5, <1>6, <2>1, <2>2 DEF Settled, ApeTypes
  <2>4. Roots' /\ CallNat'
    BY <1>1, <1>2, <1>3, <1>6 DEF Roots, CallNat
  <2> QED
    BY <2>3, <2>4, SettledStep
<1>7. None \in Calls /\ None.fn = "none" /\ None.nat = 0 /\ None.args = {}
  BY CallType DEF None, Fns
<1>8. CASE PathGlobEnd
  BY <1>3, <1>6, <1>7, <1>8 DEF PathGlobEnd, ApeTypes
<1>9. CASE RunCollectRead
  <2>1. call' = [call EXCEPT !.fn = "wait", !.nat = 0] /\ kids' = kids
    BY <1>9 DEF RunCollectRead
  <2>2. call' \in Calls /\ call'.fn = "wait" /\ call'.nat = 0 /\ call'.args = call.args
    BY <1>3, <2>1 DEF ApeTypes, Calls, Fns
  <2> QED
    BY <1>3, <1>6, <2>1, <2>2 DEF ApeTypes
<1>10. CASE RunCollectFails
  <2> DEFINE e == IF kids[call.kid].st = "exited" THEN [kids[call.kid] EXCEPT !.st = "reaped"]
                  ELSE [kids[call.kid] EXCEPT !.failed = TRUE]
  <2>1. kids \in Seq(Kids) /\ (call.kid \in DOMAIN kids => kids[call.kid] \in Kids)
    BY <1>3 DEF ApeTypes
  <2>2. call.kid \in DOMAIN kids => e \in Kids
    BY <2>1 DEF Kids
  <2>3. kids' = [kids EXCEPT ![call.kid] = e] /\ call' = None
    BY <1>10 DEF RunCollectFails
  <2> HIDE DEF e
  <2>4. kids' \in Seq(Kids)
    BY <2>1, <2>2, <2>3, KidSet
  <2> QED
    BY <1>6, <1>7, <2>3, <2>4
<1> QED
  BY <1>8, <1>9, <1>10
-----------------------------------------------------------------------------
(***************************************************************************)
(* Finding what is dead                                                    *)
(***************************************************************************)

\* Objects are found dead together with what keeps them; or the state is closed.
FoundDead(S) ==
    /\ phase = "running" /\ S \subseteq DOMAIN objs /\ Queue(S)
    /\ \A o \in S : objs[o].fin = "no"
    /\ \A o \in DOMAIN objs \ S : objs[o].fin = "no" => objs[o].refs \cap S = {}
    /\ \/ /\ UNCHANGED <<held, phase>>
          /\ S \cap (held \cup call.args \cup {Finalizer, DefaultPool}) = {}
       \/ /\ phase' = "closing" /\ held' = {} /\ call = None
          /\ \A o \in DOMAIN objs : objs[o].fin = "no" => o \in S
    /\ UNCHANGED <<nats, pipes, kids, call, apr>>

\* The collector puts dead objects into the queue of finalizers.
LEMMA FoundDeadStep ==
    ASSUME LifeInv, NEW S, FoundDead(S)
    PROVE  LifeInv'
<1>1. /\ phase = "running" /\ S \subseteq DOMAIN objs /\ nats' = nats /\ kids' = kids /\ call' = call
      /\ apr' = apr /\ pipes' = pipes /\ \A o \in S : objs[o].fin = "no"
  BY DEF FoundDead
<1>2. ApeTypes /\ Phases /\ References /\ Handles /\ PoolKept /\ Roots /\ Marks /\ CallNat /\ KeptLonger /\ Valid /\ Owned
  BY DEF LifeInv
<1> DEFINE gc == {o \in S : objs[o].kind \in HasGC}
           mark(o) == IF o \notin S THEN objs[o]
                      ELSE [objs[o] EXCEPT !.fin = IF @ = "no" /\ objs[o].kind \in HasGC
                                                   THEN "queued" ELSE "done"]
<1>3. /\ objs' = [o \in DOMAIN objs |-> mark(o)]
      /\ queue' = IF gc = {} THEN queue ELSE Append(queue, gc)
  BY DEF FoundDead, Queue
<1>4. Len(objs) \in Nat /\ DOMAIN objs = 1..Len(objs) /\ \A o \in DOMAIN objs : objs[o] \in Objects
  BY <1>2 DEF ApeTypes
<1>5. ASSUME NEW o \in DOMAIN objs
      PROVE  /\ mark(o) \in Objects
             /\ mark(o).kind = objs[o].kind /\ mark(o).h = objs[o].h /\ mark(o).pool = objs[o].pool
             /\ mark(o).refs = objs[o].refs /\ mark(o).out = objs[o].out
             /\ o \notin S => mark(o).fin = objs[o].fin
             /\ o \in S => mark(o).fin = IF objs[o].kind \in HasGC THEN "queued" ELSE "done"
  <2>1. objs[o] \in Objects
    BY <1>4
  <2> QED
    BY <1>1, <2>1 DEF Objects
<1> HIDE DEF mark
<1>6. /\ DOMAIN objs' = DOMAIN objs /\ objs' \in Seq(Objects)
      /\ \A o \in DOMAIN objs :
           /\ objs'[o].kind = objs[o].kind /\ objs'[o].h = objs[o].h /\ objs'[o].pool = objs[o].pool
           /\ objs'[o].refs = objs[o].refs /\ objs'[o].out = objs[o].out
           /\ o \notin S => objs'[o].fin = objs[o].fin
           /\ o \in S => objs'[o].fin = IF objs[o].kind \in HasGC THEN "queued" ELSE "done"
  <2>1. \A o \in DOMAIN objs : objs'[o] = mark(o)
    BY <1>3
  <2>2. DOMAIN objs' = DOMAIN objs /\ objs' \in [1..Len(objs) -> Objects]
    BY <1>3, <1>4, <1>5
  <2>3. objs' \in Seq(Objects)
    BY <1>4, <2>2
  <2> QED
    BY <1>5, <2>1, <2>2, <2>3
<1>7. /\ phase' \in {"running", "closing"}
      /\ phase' = "closing" => held' = {} /\ call = None /\ \A o \in DOMAIN objs : objs[o].fin = "no" => o \in S
      /\ phase' = "running" => /\ held' = held
                               /\ \A o \in held \cup call.args \cup {Finalizer, DefaultPool} : o \notin S
  BY <1>1 DEF FoundDead
<1>8. \A o \in DOMAIN objs : \A r \in objs[o].refs : r \in DOMAIN objs
  BY <1>2 DEF References
<1>9. queue \in Seq(SUBSET Nat) /\ gc \in SUBSET Nat /\ \A o \in gc : o \in S /\ objs[o].kind \in HasGC
  BY <1>1, <1>2, <1>4 DEF ApeTypes
<1> HIDE DEF gc
<1>10. /\ queue' \in Seq(SUBSET Nat)
       /\ gc # {} => /\ Len(queue') = Len(queue) + 1 /\ queue'[Len(queue) + 1] = gc
                     /\ \A i \in 1..Len(queue) : queue'[i] = queue[i]
  <2>1. CASE gc = {}
    BY <1>3, <1>9, <2>1
  <2>2. CASE gc # {}
    <3>1. queue' = Append(queue, gc)
      BY <1>3, <2>2
    <3> QED
      BY <1>9, <3>1, AppendProperties
  <2> QED
    BY <2>1, <2>2
<1>11. Pipes' /\ SharedStays
  <2>1. \A o \in DOMAIN objs :
          /\ o \in DOMAIN objs' /\ objs'[o].kind = objs[o].kind
          /\ objs'[o].fin = "no" => objs[o].fin = "no"
          /\ objs[o].kind = "pool" => objs'[o].refs = objs[o].refs /\ objs'[o].h = objs[o].h
          /\ objs[o].kind = "procattr" => objs'[o].pool = objs[o].pool
    BY <1>6
  <2>2. \A q \in DOMAIN objs' : objs'[q].h \in DOMAIN nats => q \in DOMAIN objs /\ objs'[q].h = objs[q].h
    BY <1>6
  <2> QED
    BY <1>1, <2>1, <2>2, PipesFrame
<1>12. ApeTypes'
  BY <1>1, <1>2, <1>6, <1>7, <1>10 DEF ApeTypes
<1>13. Phases'
  BY <1>1, <1>7 DEF Phases
<1>14. References'
  BY <1>2, <1>6, <1>8 DEF References
<1>15. Handles'
  <2>1. ASSUME NEW o \in DOMAIN objs, objs[o].h # 0
        PROVE  \A n \in nats[objs[o].h].in : \E q \in objs'[o].refs : objs'[q].kind = "pool" /\ objs'[q].h = n
    BY <1>2, <1>6, <1>8, <2>1 DEF Handles
  <2>2. ASSUME NEW o \in DOMAIN objs, objs[o].h # 0, NEW q \in DOMAIN objs, objs'[q].h = objs'[o].h
        PROVE  q = o \/ Shared(objs[o].h)'
    <3>1. q = o \/ Shared(objs[o].h)
      BY <1>2, <1>6, <2>2 DEF Handles
    <3> QED
      BY <1>11, <1>6, <3>1 DEF SharedStays
  <2> QED
    BY <1>1, <1>2, <1>6, <2>1, <2>2 DEF Handles
<1>16. PoolKept'
  BY <1>2, <1>6, <1>8 DEF PoolKept
<1>17. Roots'
  <2>1. CASE phase' = "running"
    BY <1>1, <1>2, <1>6, <1>7, <2>1 DEF Roots
  <2> QED
    BY <1>7, <2>1 DEF Roots
<1>18. CallNat'
  <2>1. CASE call = None
    BY <1>1, <2>1 DEF CallNat, None
  <2>2. CASE call # None
    <3>1. phase' = "running" /\ held' = held
      BY <1>7, <2>2
    <3>2. Reachable \subseteq Reachable'
      BY <1>1, <1>6, <3>1 DEF Reachable
    <3>3. \A f \in call.args : f \in DOMAIN objs
      BY <1>1, <1>2 DEF Roots
    <3>4. \A q \in Reachable : q \in DOMAIN objs
      BY <1>1, <1>2, <1>8, <3>3 DEF Reachable, Roots
    <3>5. call.fn = "read" => \E f \in call.args : objs'[f].h = call.nat
      BY <1>2, <1>6, <3>3 DEF CallNat
    <3>6. ASSUME call.fn \in {"collect", "glob"}
          PROVE  /\ call.nat \in DOMAIN nats /\ nats[call.nat].live
                 /\ \A o \in DOMAIN objs' : objs'[o].h # call.nat
                 /\ \A n \in nats[call.nat].in : \E q \in Reachable' : objs'[q].kind = "pool" /\ objs'[q].h = n
      BY <1>2, <1>6, <3>2, <3>4, <3>6 DEF CallNat
    <3> QED
      BY <1>1, <1>2, <3>5, <3>6 DEF CallNat
  <2> QED
    BY <2>1, <2>2
<1>19. Marks'
  <2>1. ASSUME NEW o \in DOMAIN objs
        PROVE  /\ objs'[o].fin = "no" => \A r \in objs'[o].refs : objs'[r].fin = "no"
               /\ objs'[o].fin = "no" => phase' = "running"
               /\ objs'[o].kind = "finalizer" <=> o = Finalizer
    <3>1. objs'[o].fin = "no" => o \notin S /\ objs[o].fin = "no"
      BY <1>6
    <3>2. o \notin S /\ objs[o].fin = "no" => \A r \in objs[o].refs : r \notin S /\ objs[r].fin = "no"
      BY <1>2 DEF Marks, FoundDead
    <3> QED
      BY <1>2, <1>6, <1>7, <1>8, <3>1, <3>2 DEF Marks
  <2>2. /\ \A i \in DOMAIN queue : i \in DOMAIN queue' /\ queue'[i] = queue[i]
        /\ \A i \in DOMAIN queue' : i \notin DOMAIN queue =>
              /\ gc # {} /\ queue'[i] = gc /\ i = Len(queue') /\ \A j \in DOMAIN queue : j < i
        /\ gc # {} => Len(queue') \in DOMAIN queue' /\ queue'[Len(queue')] = gc
    <3>1. CASE gc = {}
      BY <1>3, <3>1
    <3>2. CASE gc # {}
      <4>1. /\ Len(queue) \in Nat /\ DOMAIN queue = 1..Len(queue) /\ DOMAIN queue' = 1..(Len(queue) + 1)
            /\ Len(queue') = Len(queue) + 1 /\ queue'[Len(queue) + 1] = gc
            /\ \A i \in 1..Len(queue) : queue'[i] = queue[i]
        BY <1>9, <1>10, <3>2
      <4> QED
        BY <3>2, <4>1
    <3> QED
      BY <3>1, <3>2
  <2>3. ASSUME NEW o \in DOMAIN objs, objs'[o].fin = "queued"
        PROVE  \E i \in DOMAIN queue' : o \in queue'[i]
    <3>1. CASE o \in S
      <4>1. o \in gc
        BY <1>6, <2>3, <3>1 DEF gc
      <4> QED
        BY <2>2, <4>1
    <3>2. CASE o \notin S
      BY <1>2, <1>6, <2>2, <2>3, <3>2 DEF Marks
    <3> QED
      BY <3>1, <3>2
  <2>4. ASSUME NEW i \in DOMAIN queue', NEW o \in queue'[i]
        PROVE  /\ o \in DOMAIN objs' /\ objs'[o].fin = "queued" /\ objs'[o].kind \in HasGC
               /\ o = Finalizer => i = Len(queue')
               /\ \A j \in DOMAIN queue' : j < i => o \notin queue'[j] /\ queue'[j] \cap objs'[o].refs = {}
    <3>1. CASE i \in DOMAIN queue
      <4>1. o \in queue[i] /\ o \in DOMAIN objs /\ objs[o].fin = "queued" /\ objs[o].kind \in HasGC
        BY <1>2, <2>2, <3>1 DEF Marks
      <4>2. o \notin S /\ o # Finalizer
        BY <1>1, <1>2, <4>1 DEF Roots
      <4>3. \A j \in DOMAIN queue' : j < i => j \in DOMAIN queue /\ queue'[j] = queue[j]
        BY <1>9, <2>2, <3>1
      <4> QED
        BY <1>2, <1>6, <3>1, <4>1, <4>2, <4>3 DEF Marks
    <3>2. CASE i \notin DOMAIN queue
      <4>1. o \in gc /\ i = Len(queue') /\ o \in S /\ objs[o].kind \in HasGC /\ o \in DOMAIN objs
        BY <1>1, <1>9, <2>2, <3>2
      <4>2. objs[o].fin = "no" /\ \A r \in objs[o].refs : objs[r].fin = "no"
        BY <1>1, <1>2, <4>1 DEF Marks
      <4>3. \A j \in DOMAIN queue' : j < i => j \in DOMAIN queue /\ queue'[j] = queue[j]
        BY <2>2, <3>2
      <4>4. \A j \in DOMAIN queue : \A q \in queue[j] : objs[q].fin = "queued"
        BY <1>2 DEF Marks
      <4> QED
        BY <1>6, <4>1, <4>2, <4>3, <4>4
    <3> QED
      BY <3>1, <3>2
  <2> QED
    BY <1>6, <2>1, <2>3, <2>4 DEF Marks
<1>20. TerminatedLast'
  BY <1>1, <1>2 DEF Roots, TerminatedLast
<1>21. Valid'
  <2>1. \A o \in DOMAIN objs : Shared(objs[o].h) => Shared(objs[o].h)'
    BY <1>11, <1>6 DEF SharedStays
  <2>2. \A o \in DOMAIN objs : objs'[o].fin # "done" => objs[o].fin # "done"
    BY <1>1, <1>6
  <2> QED
    BY <1>1, <1>2, <1>6, <2>1, <2>2 DEF Valid
<1>22. KeptLonger'
  <2>1. ASSUME NEW o \in DOMAIN objs, objs'[o].fin # "done", NEW r \in objs[o].refs
        PROVE  objs'[r].fin # "done"
    <3>1. r \in DOMAIN objs /\ objs[r].kind \in HasGC /\ objs[r].fin # "done"
      BY <1>1, <1>2, <1>6, <2>1 DEF References, KeptLonger, HasGC
    <3> QED
      BY <1>6, <3>1
  <2> QED
    BY <1>6, <2>1 DEF KeptLonger
<1>23. Owned'
  <2>1. \A o \in DOMAIN objs : objs[o].kind = "pool" /\ objs[o].fin # "done" => objs'[o].fin # "done"
    BY <1>6 DEF HasGC
  <2> QED
    BY <1>1, <1>2, <1>6, <2>1 DEF Owned
<1> QED
  BY <1>12, <1>13, <1>14, <1>15, <1>16, <1>17, <1>18, <1>19, <1>20, <1>21, <1>23, <1>22, <1>11 DEF LifeInv

\* luaC_separateudata, in a cycle and when the state is closed.
LEMMA DeadSteps ==
    ASSUME LifeInv, Separate \/ LuaClose
    PROVE  LifeInv'
<1>1. ApeTypes /\ References /\ Roots /\ Marks
  BY DEF LifeInv
<1>2. CASE Separate
  <2> DEFINE dead == {o \in DOMAIN objs \ Reachable : objs[o].fin = "no"}
  <2>1. Queue(dead) /\ phase = "running" /\ UNCHANGED <<nats, pipes, held, kids, call, apr, phase>>
    BY <1>2 DEF Separate
  <2>2. dead \cap (held \cup call.args \cup {Finalizer, DefaultPool}) = {}
    BY DEF Reachable
  <2>3. ASSUME NEW o \in DOMAIN objs \ dead, objs[o].fin = "no"
        PROVE  objs[o].refs \cap dead = {}
    <3>1. o \in Reachable
      BY <2>3
    <3> DEFINE roots == held \cup call.args \cup {Finalizer, DefaultPool}
    <3>2. CASE o \in roots
      <4>1. objs[o].refs \subseteq Reachable
        BY <3>2 DEF Reachable
      <4> QED
        BY <4>1
    <3>3. CASE o \notin roots
      <4>1. PICK q \in roots \cap DOMAIN objs : o \in objs[q].refs
        BY <3>1, <3>3 DEF Reachable
      <4>2. objs[o].refs \subseteq objs[q].refs
        BY <1>1, <4>1 DEF References
      <4>3. objs[q].refs \subseteq Reachable
        BY DEF Reachable
      <4> QED
        BY <4>2, <4>3
    <3> QED
      BY <3>2, <3>3
  <2>4. FoundDead(dead)
    BY <2>1, <2>2, <2>3 DEF FoundDead
  <2> QED
    BY <2>4, FoundDeadStep
<1>3. CASE LuaClose
  <2> DEFINE all == {o \in DOMAIN objs : objs[o].fin = "no"}
  <2>1. /\ Queue(all) /\ phase = "running" /\ call = None /\ phase' = "closing" /\ held' = {}
        /\ UNCHANGED <<nats, pipes, kids, call, apr>>
    BY <1>3 DEF LuaClose, Idle
  <2>2. FoundDead(all)
    BY <2>1 DEF FoundDead
  <2> QED
    BY <2>2, FoundDeadStep
<1> QED
  BY <1>2, <1>3
-----------------------------------------------------------------------------
(***************************************************************************)
(* Finalizers                                                              *)
(***************************************************************************)

\* The queue after the newest of its first batch has been taken.
LEMMA QueueTaken ==
    ASSUME queue \in Seq(SUBSET Nat), queue # <<>>, NEW x \in Head(queue),
           queue' = IF Head(queue) = {x} THEN Tail(queue) ELSE [queue EXCEPT ![1] = @ \ {x}]
    PROVE  /\ queue' \in Seq(SUBSET Nat)
           /\ \E d \in {0, 1} :
                /\ Len(queue') = Len(queue) - d /\ (d = 1 => queue[1] = {x})
                /\ \A i \in DOMAIN queue' :
                     /\ i + d \in DOMAIN queue /\ queue'[i] \subseteq queue[i + d]
                     /\ i + d = 1 => x \notin queue'[i]
                /\ \A i \in DOMAIN queue : i - d \in DOMAIN queue' => queue[i] \ {x} \subseteq queue'[i - d]
<1>1. Len(queue) \in Nat \ {0} /\ DOMAIN queue = 1..Len(queue) /\ Head(queue) = queue[1] /\ queue[1] \in SUBSET Nat
  OBVIOUS
<1>2. CASE Head(queue) = {x}
  <2>1. /\ queue' = Tail(queue) /\ queue' \in Seq(SUBSET Nat) /\ Len(queue') = Len(queue) - 1
        /\ \A i \in 1..(Len(queue) - 1) : queue'[i] = queue[i + 1]
    BY <1>1, <1>2, HeadTailProperties
  <2>2. DOMAIN queue' = 1..(Len(queue) - 1)
    BY <2>1
  <2>3. ASSUME NEW i \in DOMAIN queue'
        PROVE  i + 1 \in DOMAIN queue /\ queue'[i] \subseteq queue[i + 1] /\ i + 1 # 1
    <3>1. i + 1 \in 1..Len(queue) /\ i + 1 # 1
      BY <1>1, <2>2
    <3>2. queue'[i] = queue[i + 1]
      BY <2>1, <2>2
    <3> QED
      BY <1>1, <3>1, <3>2
  <2>4. ASSUME NEW i \in DOMAIN queue, i - 1 \in DOMAIN queue'
        PROVE  queue[i] \ {x} \subseteq queue'[i - 1]
    <3>1. i - 1 + 1 = i
      BY <1>1
    <3>2. queue'[i - 1] = queue[i - 1 + 1]
      BY <2>1, <2>2, <2>4
    <3>3. queue'[i - 1] = queue[i]
      BY <3>1, <3>2
    <3> QED
      BY <3>3
  <2> QED
    BY <1>1, <1>2, <2>1, <2>3, <2>4
<1>3. CASE Head(queue) # {x}
  <2> DEFINE b == queue[1] \ {x}
  <2>1. queue' = [queue EXCEPT ![1] = b] /\ b \in SUBSET Nat
    BY <1>1, <1>3
  <2>2. /\ queue' \in Seq(SUBSET Nat) /\ Len(queue') = Len(queue) /\ DOMAIN queue' = DOMAIN queue
        /\ queue'[1] = b /\ \A i \in DOMAIN queue : i # 1 => queue'[i] = queue[i]
    <3> HIDE DEF b
    <3>1. 1 \in 1..Len(queue)
      BY <1>1
    <3>2. /\ [queue EXCEPT ![1] = b] \in Seq(SUBSET Nat) /\ Len([queue EXCEPT ![1] = b]) = Len(queue)
          /\ \A j \in 1..Len(queue) : [queue EXCEPT ![1] = b][j] = IF j = 1 THEN b ELSE queue[j]
      BY <2>1, <3>1, ExceptSeq
    <3> QED
      BY <1>1, <2>1, <3>1, <3>2
  <2>3. \A i \in DOMAIN queue : i + 0 = i /\ i - 0 = i
    BY <1>1
  <2>4. \A i \in DOMAIN queue : /\ queue'[i] \subseteq queue[i] /\ queue[i] \ {x} \subseteq queue'[i]
                                /\ i = 1 => x \notin queue'[i]
    BY <2>2
  <2> HIDE DEF b
  <2>5. /\ Len(queue') = Len(queue) - 0
        /\ \A i \in DOMAIN queue' : /\ i + 0 \in DOMAIN queue /\ queue'[i] \subseteq queue[i + 0]
                                     /\ i + 0 = 1 => x \notin queue'[i]
        /\ \A i \in DOMAIN queue : i - 0 \in DOMAIN queue' => queue[i] \ {x} \subseteq queue'[i - 0]
    <3>1. Len(queue') = Len(queue) - 0
      <4>1. \A l \in Nat : l - 0 = l
        OBVIOUS
      <4>2. Len(queue) \in Nat /\ Len(queue') = Len(queue)
        BY <1>1, <2>2, Zenon
      <4> QED
        BY <4>1, <4>2, Zenon
    <3>2. ASSUME NEW i \in DOMAIN queue
          PROVE  /\ i + 0 \in DOMAIN queue /\ queue'[i] \subseteq queue[i + 0]
                 /\ i + 0 = 1 => x \notin queue'[i]
                 /\ queue[i] \ {x} \subseteq queue'[i - 0]
      <4>1. i + 0 = i /\ i - 0 = i
        BY <2>3
      <4> QED
        BY <2>4, <4>1, Zenon
    <3>3. DOMAIN queue' = DOMAIN queue
      BY <2>2
    <3> QED
      BY <3>1, <3>2, <3>3, Zenon
  <2> QED
    BY <2>2, <2>5
<1> QED
  BY <1>2, <1>3

\* Only objects that are done keep the newest of the first batch.
LEMMA NobodyKeeps ==
    ASSUME ApeTypes, References, Marks, queue # <<>>,
           NEW x \in Head(queue), Newest(x, Head(queue)),
           NEW o \in DOMAIN objs, objs[o].fin # "done"
    PROVE  x \notin objs[o].refs
<1>1. 1 \in DOMAIN queue /\ Head(queue) = queue[1] /\ Len(queue) \in Nat /\ DOMAIN queue = 1..Len(queue)
  BY DEF ApeTypes
<1>2. objs[x].fin = "queued" /\ x \in DOMAIN objs
  BY <1>1 DEF Marks
<1>3. SUFFICES ASSUME x \in objs[o].refs PROVE FALSE
  OBVIOUS
<1>4. objs[o].fin = "queued"
  <2>1. objs[o].fin # "no"
    BY <1>2, <1>3 DEF Marks
  <2>2. objs[o] \in Objects
    BY DEF ApeTypes
  <2> QED
    BY <2>1, <2>2 DEF Objects
<1>5. PICK i \in DOMAIN queue : o \in queue[i]
  BY <1>4 DEF Marks
<1>6. CASE i = 1
  <2>1. objs[o].kind # "proc"
    BY <1>5 DEF Marks, HasGC
  <2>2. x < o
    BY <1>3, <2>1 DEF References
  <2>3. o <= x
    BY <1>1, <1>5, <1>6 DEF Newest
  <2>4. o \in Nat /\ x \in Nat
    BY <1>2 DEF ApeTypes
  <2> QED
    BY <2>2, <2>3, <2>4
<1>7. CASE i # 1
  <2>1. 1 < i
    BY <1>1, <1>7
  <2>2. queue[1] \cap objs[o].refs = {}
    BY <1>1, <1>5, <2>1 DEF Marks
  <2> QED
    BY <1>1, <1>3, <2>2
<1> QED
  BY <1>6, <1>7

\* apr_terminate is called when everything else is done.
LEMMA TerminateAlone ==
    ASSUME ApeTypes, Roots, Marks, queue # <<>>, NEW x \in Head(queue), Newest(x, Head(queue)),
           objs[x].kind = "finalizer"
    PROVE  /\ x = Finalizer /\ phase # "running"
           /\ \A o \in DOMAIN objs : o # x => objs[o].fin = "done"
<1>1. 1 \in DOMAIN queue /\ Head(queue) = queue[1] /\ Len(queue) \in Nat /\ DOMAIN queue = 1..Len(queue)
  BY DEF ApeTypes
<1>2. x \in DOMAIN objs /\ x = Finalizer /\ objs[x].fin = "queued" /\ Len(queue) = 1
  BY <1>1 DEF Marks
<1>3. phase # "running"
  BY <1>2 DEF Roots
<1>4. ASSUME NEW o \in DOMAIN objs, objs[o].fin # "done"
      PROVE  o = x
  <2>1. objs[o].fin = "queued"
    <3>1. objs[o] \in Objects
      BY DEF ApeTypes
    <3> QED
      BY <1>3, <1>4, <3>1 DEF Marks, Objects
  <2>2. o \in queue[1]
    BY <1>1, <1>2, <2>1 DEF Marks
  <2>3. o <= x /\ o \in Nat /\ o # 0
    BY <1>1, <2>2 DEF Newest, ApeTypes
  <2> QED
    BY <1>2, <2>3 DEF Finalizer
<1> QED
  BY <1>2, <1>3, <1>4

\* What a finalizer does to the resources: those it takes have no object that is not
\* done, and belong to no call.
LEMMA FinalizerFacts ==
    ASSUME LifeInv, Finalize
    PROVE  \E x \in Head(queue) :
             /\ Newest(x, Head(queue)) /\ x \in DOMAIN objs /\ objs[x].fin = "queued"
             /\ objs' = [objs EXCEPT ![x].fin = "done"]
             /\ queue' = IF Head(queue) = {x} THEN Tail(queue) ELSE [queue EXCEPT ![1] = @ \ {x}]
             /\ nats' \in Seq(Natives) /\ DOMAIN nats' = DOMAIN nats
             /\ \A n \in DOMAIN nats : nats'[n].in = nats[n].in /\ (nats'[n].live => nats[n].live)
             /\ \A o \in DOMAIN objs : o # x /\ objs[o].fin # "done" /\ objs[o].h # 0 =>
                  nats'[objs[o].h].live \/ Shared(objs[o].h)
             /\ PipesOpen
             /\ \A o \in DOMAIN objs : objs[o].fin # "done" => x \notin objs[o].refs
             /\ call.fn \in {"collect", "glob"} => nats'[call.nat].live
             /\ \A n \in DOMAIN nats : nats'[n].live =>
                  \E o \in DOMAIN objs : /\ o # x /\ objs[o].kind = "pool" /\ objs[o].fin # "done"
                                         /\ objs[o].h # 0 /\ (objs[o].h = n \/ objs[o].h \in nats[n].in)
             /\ apr' \in BOOLEAN /\ (apr' => apr) /\ (phase = "running" => apr' = apr)
             /\ ~apr' /\ phase # "start" => \A o \in DOMAIN objs : o # x => objs[o].fin = "done" \/ objs[o].h = 0
<1>1. /\ ApeTypes /\ Phases /\ References /\ Handles /\ Roots /\ Marks /\ CallNat
      /\ TerminatedLast /\ Pipes /\ Valid /\ Owned /\ queue # <<>>
  BY DEF LifeInv, Finalize
<1>2. PICK x \in Head(queue) :
        /\ Newest(x, Head(queue))
        /\ nats' = CASE objs[x].kind = "finalizer" -> terminate_apr [] objs[x].kind = "pool" -> ape_pool_gc(objs[x])
                     [] objs[x].kind = "file" -> ape_file_gc(objs[x]) [] objs[x].kind = "dir" -> ape_dir_gc(objs[x])
        /\ apr' = (apr /\ objs[x].kind # "finalizer")
        /\ objs' = [objs EXCEPT ![x].fin = "done"]
        /\ queue' = IF Head(queue) = {x} THEN Tail(queue) ELSE [queue EXCEPT ![1] = @ \ {x}]
  BY DEF Finalize
<1>3. x \in DOMAIN objs /\ objs[x].fin = "queued" /\ objs[x].kind \in HasGC
  <2>1. 1 \in DOMAIN queue /\ Head(queue) = queue[1]
    BY <1>1 DEF ApeTypes
  <2> QED
    BY <1>1, <2>1 DEF Marks
<1>4. /\ nats \in Seq(Natives) /\ Len(nats) \in Nat /\ DOMAIN nats = 1..Len(nats)
      /\ \A n \in DOMAIN nats : nats[n] \in Natives
      /\ apr \in BOOLEAN
  BY <1>1 DEF ApeTypes
<1>5. \A o \in DOMAIN objs : objs[o].fin # "done" => x \notin objs[o].refs
  BY <1>1, <1>2, NobodyKeeps
\* no object but x, and no call, has a resource in the pool x
<1>6. ASSUME NEW o \in DOMAIN objs, o # x, objs[o].fin # "done", objs[o].h # 0, objs[x].h # 0, objs[x].kind = "pool"
      PROVE  objs[o].h # objs[x].h /\ objs[x].h \notin nats[objs[o].h].in
  <2>1. objs[o].h # objs[x].h
    BY <1>1, <1>3, <1>6, PoolUnique
  <2>2. ASSUME objs[x].h \in nats[objs[o].h].in PROVE FALSE
    <3>1. PICK q \in objs[o].refs : objs[q].kind = "pool" /\ objs[q].h = objs[x].h
      BY <1>1, <1>6, <2>2 DEF Handles
    <3>2. q \in DOMAIN objs
      BY <1>1, <3>1 DEF References
    <3>3. q = x
      BY <1>1, <1>3, <1>6, <3>1, <3>2, PoolUnique
    <3> QED
      BY <1>5, <1>6, <3>1, <3>3
  <2> QED
    BY <2>1, <2>2
<1>7. \A o \in DOMAIN objs : objs[o].h # 0 => objs[o].h \in DOMAIN nats
  BY <1>1 DEF Handles
<1>8. ASSUME NEW a \in DOMAIN pipes, objs[a].kind = "procattr", objs[a].fin = "no", objs[x].h # 0
      PROVE  /\ objs[x].h = pipes[a] => ProcPipe(pipes[a])
             /\ objs[x].kind = "pool" => objs[x].h # pipes[a] /\ objs[x].h \notin nats[pipes[a]].in
  <2>1. objs[x].h = pipes[a] => objs[x].kind = "file" /\ ProcPipe(pipes[a])
    BY <1>1, <1>3, <1>8 DEF Pipes
  <2>2. ASSUME objs[x].kind = "pool", objs[x].h \in nats[pipes[a]].in PROVE FALSE
    <3>1. PICK q \in KeptOf(objs[a].pool) : objs[q].kind = "pool" /\ objs[q].h = objs[x].h
      BY <1>1, <1>8, <2>2 DEF Pipes
    <3>2. a \in DOMAIN objs /\ objs[a].pool \in objs[a].refs
      BY <1>1, <1>8 DEF Pipes, LifeInv, PoolKept
    <3>3. q \in objs[a].refs /\ q \in DOMAIN objs
      BY <1>1, <3>1, <3>2 DEF References, KeptOf, Keeps
    <3>4. q = x
      BY <1>1, <1>3, <1>8, <3>1, <3>3, PoolUnique
    <3> QED
      BY <1>5, <1>8, <3>2, <3>3, <3>4
  <2> QED
    BY <2>1, <2>2
<1>9. \A a \in DOMAIN pipes : a \in DOMAIN objs /\ pipes[a] \in DOMAIN nats
  BY <1>1 DEF Pipes
<1>10. ASSUME call.fn \in {"collect", "glob"}, objs[x].h # 0
       PROVE  objs[x].h # call.nat /\ (objs[x].kind = "pool" => objs[x].h \notin nats[call.nat].in)
  <2>1. objs[x].h # call.nat
    BY <1>1, <1>3, <1>10 DEF CallNat
  <2>2. ASSUME objs[x].kind = "pool", objs[x].h \in nats[call.nat].in PROVE FALSE
    <3>1. PICK q \in Reachable : objs[q].kind = "pool" /\ objs[q].h = objs[x].h
      BY <1>1, <1>10, <2>2 DEF CallNat
    <3>2. phase = "running"
      BY <1>10, InCall
    <3>3. q \in DOMAIN objs /\ objs[q].fin = "no"
      <4>1. \A r \in held \cup call.args \cup {Finalizer, DefaultPool} :
              r \in DOMAIN objs /\ objs[r].fin = "no"
        BY <1>1, <3>2 DEF Roots
      <4>2. \A r \in held \cup call.args \cup {Finalizer, DefaultPool} : \A u \in objs[r].refs :
              u \in DOMAIN objs /\ objs[u].fin = "no"
        BY <1>1, <4>1 DEF References, Marks
      <4> QED
        BY <4>1, <4>2 DEF Reachable
    <3>4. q = x
      BY <1>1, <1>3, <1>10, <2>2, <3>1, <3>3, PoolUnique
    <3> QED
      BY <1>3, <3>3, <3>4
  <2> QED
    BY <2>1, <2>2
<1>11. call.fn \in {"collect", "glob"} => call.nat \in DOMAIN nats /\ nats[call.nat].live /\ phase = "running"
  BY <1>1, InCall DEF CallNat
<1>12. CASE objs[x].kind = "finalizer"
  <2>1. /\ phase # "running" /\ \A o \in DOMAIN objs : o # x => objs[o].fin = "done"
    BY <1>1, <1>2, <1>12, TerminateAlone
  <2>2. nats' = terminate_apr
    BY <1>2, <1>12
  <2>3. /\ nats' \in Seq(Natives) /\ DOMAIN nats' = DOMAIN nats
        /\ \A n \in DOMAIN nats : nats'[n].in = nats[n].in /\ (nats'[n].live => nats[n].live /\ ~apr)
    <3>1. CASE ~apr
      BY <1>4, <2>2, <3>1 DEF terminate_apr
    <3>2. CASE apr
      <4>1. nats' = [n \in DOMAIN nats |-> [nats[n] EXCEPT !.live = FALSE]]
        BY <2>2, <3>2 DEF terminate_apr
      <4>2. \A n \in DOMAIN nats : /\ [nats[n] EXCEPT !.live = FALSE] \in Natives
                                   /\ [nats[n] EXCEPT !.live = FALSE].in = nats[n].in
                                   /\ ~[nats[n] EXCEPT !.live = FALSE].live
        BY <1>4 DEF Natives
      <4>3. /\ nats' \in [1..Len(nats) -> Natives] /\ DOMAIN nats' = DOMAIN nats
            /\ \A n \in DOMAIN nats : nats'[n].in = nats[n].in /\ ~nats'[n].live
        BY <1>4, <4>1, <4>2
      <4> QED
        BY <1>4, <4>3
    <3> QED
      BY <3>1, <3>2
  <2>4. ASSUME NEW n \in DOMAIN nats, nats'[n].live PROVE FALSE
    <3>1. ~apr /\ nats[n].live
      BY <2>3, <2>4
    <3>2. PICK o \in DOMAIN objs : objs[o].fin # "done" /\ objs[o].h # 0
      BY <1>1, <3>1 DEF Owned
    <3>3. phase # "start"
      BY <1>1, <1>3 DEF Phases
    <3> QED
      BY <1>1, <3>1, <3>2, <3>3 DEF TerminatedLast
  <2>5. apr' = FALSE
    BY <1>2, <1>12
  <2>6. PipesOpen
    BY <1>1, <1>9, <2>1 DEF PipesOpen, Marks
  <2> QED
    BY <1>2, <1>3, <1>5, <1>11, <2>1, <2>3, <2>4, <2>5, <2>6
<1>13. ASSUME objs[x].kind # "finalizer", nats' \in Seq(Natives), DOMAIN nats' = DOMAIN nats,
              \A n \in DOMAIN nats : nats'[n].in = nats[n].in /\ (nats'[n].live => nats[n].live),
              \A o \in DOMAIN objs : o # x /\ objs[o].fin # "done" /\ objs[o].h # 0 =>
                nats'[objs[o].h].live \/ Shared(objs[o].h),
              call.fn \in {"collect", "glob"} => nats'[call.nat].live,
              objs[x].kind = "pool" /\ objs[x].h # 0 =>
                \A n \in DOMAIN nats : nats'[n].live => n # objs[x].h /\ objs[x].h \notin nats[n].in
       PROVE  /\ \A n \in DOMAIN nats : nats'[n].live =>
                   \E o \in DOMAIN objs : /\ o # x /\ objs[o].kind = "pool" /\ objs[o].fin # "done"
                                          /\ objs[o].h # 0 /\ (objs[o].h = n \/ objs[o].h \in nats[n].in)
              /\ apr' = apr
              /\ ~apr' /\ phase # "start" => \A o \in DOMAIN objs : o # x => objs[o].fin = "done" \/ objs[o].h = 0
  <2>1. ASSUME NEW n \in DOMAIN nats, nats'[n].live
        PROVE  \E o \in DOMAIN objs : /\ o # x /\ objs[o].kind = "pool" /\ objs[o].fin # "done"
                                      /\ objs[o].h # 0 /\ (objs[o].h = n \/ objs[o].h \in nats[n].in)
    <3>1. PICK o \in DOMAIN objs : /\ objs[o].kind = "pool" /\ objs[o].fin # "done" /\ objs[o].h # 0
                                   /\ objs[o].h = n \/ objs[o].h \in nats[n].in
      BY <1>1, <1>13, <2>1 DEF Owned
    <3>2. o # x
      BY <1>13, <2>1, <3>1
    <3> QED
      BY <3>1, <3>2
  <2>2. apr' = apr
    BY <1>2, <1>4, <1>13
  <2> QED
    BY <1>1, <2>1, <2>2 DEF TerminatedLast
<1>14. CASE objs[x].h = 0 /\ objs[x].kind # "finalizer"
  <2>1. nats' = nats
    BY <1>2, <1>3, <1>14 DEF HasGC, ape_pool_gc, ape_file_gc, ape_dir_gc
  <2>2. /\ nats' \in Seq(Natives) /\ DOMAIN nats' = DOMAIN nats
        /\ \A n \in DOMAIN nats : nats'[n].in = nats[n].in /\ (nats'[n].live => nats[n].live)
        /\ \A o \in DOMAIN objs : o # x /\ objs[o].fin # "done" /\ objs[o].h # 0 =>
             nats'[objs[o].h].live \/ Shared(objs[o].h)
        /\ call.fn \in {"collect", "glob"} => nats'[call.nat].live
        /\ PipesOpen
    BY <1>1, <1>4, <1>11, <2>1 DEF Valid, PipesOpen
  <2> QED
    BY <1>2, <1>3, <1>4, <1>5, <1>13, <1>14, <2>2
<1>15. CASE objs[x].h # 0 /\ objs[x].kind \in {"file", "dir"}
  <2>1. objs[x].h \in DOMAIN nats
    BY <1>1, <1>3, <1>15 DEF Handles
  <2>2. nats' = [nats EXCEPT ![objs[x].h].live = FALSE]
    BY <1>2, <1>15 DEF ape_file_gc, ape_dir_gc
  <2>3. /\ nats' \in Seq(Natives) /\ DOMAIN nats' = DOMAIN nats
        /\ \A n \in DOMAIN nats : nats'[n].in = nats[n].in /\ (nats'[n].live => nats[n].live)
        /\ \A n \in DOMAIN nats : n # objs[x].h => nats'[n] = nats[n]
    BY <1>4, <2>1, <2>2, LiveOff
  <2>4. ASSUME NEW o \in DOMAIN objs, o # x, objs[o].fin # "done", objs[o].h # 0
        PROVE  nats'[objs[o].h].live \/ Shared(objs[o].h)
    <3>1. CASE objs[o].h = objs[x].h
      BY <1>1, <1>3, <1>15, <2>4, <3>1 DEF Handles
    <3>2. CASE objs[o].h # objs[x].h
      BY <1>1, <1>7, <2>3, <2>4, <3>2 DEF Valid
    <3> QED
      BY <3>1, <3>2
  <2>6. PipesOpen
    BY <1>15, <1>8, <1>9, <2>3 DEF PipesOpen
  <2>5. call.fn \in {"collect", "glob"} => nats'[call.nat].live
    BY <1>10, <1>11, <1>15, <2>3
  <2> QED
    BY <1>2, <1>3, <1>4, <1>5, <1>13, <1>15, <2>3, <2>4, <2>5, <2>6
<1>16. CASE objs[x].h # 0 /\ objs[x].kind = "pool"
  <2> DEFINE m == objs[x].h
             ns == Clear(nats, m)
  <2>1. m \in DOMAIN nats
    BY <1>1, <1>3, <1>16 DEF Handles
  <2>2. nats' = [ns EXCEPT ![m].live = FALSE]
    BY <1>2, <1>16 DEF ape_pool_gc, Destroy
  <2>3. /\ DOMAIN ns = DOMAIN nats
        /\ \A n \in DOMAIN nats : /\ ns[n] \in Natives /\ ns[n].in = nats[n].in /\ (ns[n].live => nats[n].live)
                                  /\ m \in nats[n].in => ~ns[n].live
                                  /\ m \notin nats[n].in => ns[n] = nats[n]
    BY <1>4 DEF Clear, Natives
  <2> HIDE DEF ns, m
  <2>4. [ns[m] EXCEPT !.live = FALSE] \in Natives /\ ~[ns[m] EXCEPT !.live = FALSE].live
        /\ [ns[m] EXCEPT !.live = FALSE].in = nats[m].in
    BY <2>1, <2>3 DEF Natives
  <2>5. /\ DOMAIN nats' = DOMAIN nats
        /\ \A n \in DOMAIN nats : nats'[n] = IF n = m THEN [ns[m] EXCEPT !.live = FALSE] ELSE ns[n]
    BY <2>1, <2>2, <2>3
  <2>6. /\ \A n \in DOMAIN nats : /\ nats'[n] \in Natives /\ nats'[n].in = nats[n].in
                                  /\ nats'[n].live => nats[n].live /\ n # m /\ m \notin nats[n].in
                                  /\ n # m /\ m \notin nats[n].in => nats'[n] = nats[n]
    <3>1. ASSUME NEW n \in DOMAIN nats
          PROVE  /\ nats'[n] \in Natives /\ nats'[n].in = nats[n].in
                 /\ nats'[n].live => nats[n].live /\ n # m /\ m \notin nats[n].in
                 /\ n # m /\ m \notin nats[n].in => nats'[n] = nats[n]
      <4>1. CASE n = m
        BY <2>4, <2>5, <4>1
      <4>2. CASE n # m
        <5>1. nats'[n] = ns[n]
          BY <2>5, <4>2
        <5> QED
          BY <2>3, <4>2, <5>1
      <4> QED
        BY <4>1, <4>2
    <3> QED
      BY <3>1
  <2>7. nats' \in Seq(Natives)
    <3>1. nats' = [n \in 1..Len(nats) |-> nats'[n]]
      BY <1>4, <2>2, <2>3
    <3>2. nats' \in [1..Len(nats) -> Natives]
      BY <1>4, <2>6, <3>1
    <3> QED
      BY <1>4, <3>2
  <2>8. \A o \in DOMAIN objs : o # x /\ objs[o].fin # "done" /\ objs[o].h # 0 =>
          nats'[objs[o].h].live \/ Shared(objs[o].h)
    BY <1>1, <1>6, <1>16, <1>7, <2>6 DEF Valid, m
  <2>9. call.fn \in {"collect", "glob"} => nats'[call.nat].live
    BY <1>10, <1>11, <1>16, <2>6 DEF m
  <2>10. \A n \in DOMAIN nats : nats'[n].live => n # objs[x].h /\ objs[x].h \notin nats[n].in
    BY <2>6 DEF m
  <2>11. \A n \in DOMAIN nats : nats'[n].in = nats[n].in /\ (nats'[n].live => nats[n].live)
    BY <2>6
  <2>12. PipesOpen
    BY <1>16, <1>8, <1>9, <2>6 DEF PipesOpen, m
  <2> QED
    BY <1>2, <1>3, <1>4, <1>5, <1>13, <1>16, <2>5, <2>7, <2>8, <2>9, <2>10, <2>11, <2>12
<1> QED
  BY <1>3, <1>12, <1>14, <1>15, <1>16 DEF HasGC

\* A finalizer destroys its resource, and the pool's resources with it.
LEMMA FinalizeStep ==
    ASSUME LifeInv, Finalize
    PROVE  LifeInv'
<1>1. ApeTypes /\ Phases /\ References /\ Handles /\ PoolKept /\ Roots /\ Marks /\ CallNat
  BY DEF LifeInv
<1>2. PICK x \in Head(queue) :
        /\ Newest(x, Head(queue)) /\ x \in DOMAIN objs /\ objs[x].fin = "queued"
        /\ objs' = [objs EXCEPT ![x].fin = "done"]
        /\ queue' = IF Head(queue) = {x} THEN Tail(queue) ELSE [queue EXCEPT ![1] = @ \ {x}]
        /\ nats' \in Seq(Natives) /\ DOMAIN nats' = DOMAIN nats
        /\ \A n \in DOMAIN nats : nats'[n].in = nats[n].in /\ (nats'[n].live => nats[n].live)
        /\ \A o \in DOMAIN objs : o # x /\ objs[o].fin # "done" /\ objs[o].h # 0 =>
             nats'[objs[o].h].live \/ Shared(objs[o].h)
        /\ PipesOpen
        /\ \A o \in DOMAIN objs : objs[o].fin # "done" => x \notin objs[o].refs
        /\ call.fn \in {"collect", "glob"} => nats'[call.nat].live
        /\ \A n \in DOMAIN nats : nats'[n].live =>
             \E o \in DOMAIN objs : /\ o # x /\ objs[o].kind = "pool" /\ objs[o].fin # "done"
                                    /\ objs[o].h # 0 /\ (objs[o].h = n \/ objs[o].h \in nats[n].in)
        /\ apr' \in BOOLEAN /\ (apr' => apr) /\ (phase = "running" => apr' = apr)
        /\ ~apr' /\ phase # "start" => \A o \in DOMAIN objs : o # x => objs[o].fin = "done" \/ objs[o].h = 0
  BY FinalizerFacts
<1>3. queue # <<>> /\ UNCHANGED <<pipes, held, kids, call, phase>>
  BY DEF Finalize
<1> DEFINE c == [objs[x] EXCEPT !.fin = "done"]
<1>4. /\ x \in DOMAIN objs /\ objs \in Seq(Objects) /\ DOMAIN nats' = DOMAIN nats
       /\ \A n \in DOMAIN nats : nats'[n].in = nats[n].in
  BY <1>1, <1>2 DEF ApeTypes
<1>5. queue' = IF Head(queue) = {x} THEN Tail(queue) ELSE [queue EXCEPT ![1] = @ \ {x}]
  BY <1>2
<1>6. /\ c \in Objects /\ c.kind = objs[x].kind /\ c.h = objs[x].h /\ c.pool = objs[x].pool
      /\ c.refs = objs[x].refs /\ c.out = objs[x].out /\ c.fin = "done"
  <2>1. objs[x] \in Objects
    BY <1>1, <1>2 DEF ApeTypes
  <2> QED
    BY <2>1 DEF Objects
<1>7. objs' = [objs EXCEPT ![x] = c]
  BY <1>2
<1> HIDE DEF c
<1>8. /\ objs' \in Seq(Objects) /\ DOMAIN objs' = DOMAIN objs
      /\ \A o \in DOMAIN objs :
           /\ objs'[o].kind = objs[o].kind /\ objs'[o].h = objs[o].h /\ objs'[o].pool = objs[o].pool
           /\ objs'[o].refs = objs[o].refs /\ objs'[o].out = objs[o].out
           /\ o # x => objs'[o].fin = objs[o].fin
      /\ objs'[x].fin = "done"
  <2>1. /\ objs' \in Seq(Objects) /\ DOMAIN objs' = DOMAIN objs /\ objs'[x] = c
        /\ \A o \in DOMAIN objs : o # x => objs'[o] = objs[o]
    BY <1>6, <1>7, <1>4
  <2> QED
    BY <1>6, <2>1
<1>9. /\ DOMAIN objs' = DOMAIN objs
       /\ \A o \in DOMAIN objs :
            /\ objs'[o].kind = objs[o].kind /\ objs'[o].h = objs[o].h /\ objs'[o].pool = objs[o].pool
            /\ objs'[o].refs = objs[o].refs /\ objs'[o].out = objs[o].out
  BY <1>8
<1>10. \A o \in DOMAIN objs : \A r \in objs[o].refs : r \in DOMAIN objs
  BY <1>1 DEF References
<1>11. queue \in Seq(SUBSET Nat)
  BY <1>1 DEF ApeTypes
<1>12. queue' \in Seq(SUBSET Nat)
  BY <1>3, <1>11, <1>5, QueueTaken
<1>13. phase # "start"
  BY <1>1, <1>2 DEF Phases
<1>14. ApeTypes' /\ Phases'
  BY <1>1, <1>2, <1>3, <1>8, <1>12, <1>13 DEF ApeTypes, Phases
<1>15. References'
  BY <1>1, <1>10, <1>9 DEF References
<1>16. Pipes' /\ SharedStays
  <2>1. \A o \in DOMAIN objs :
          /\ o \in DOMAIN objs' /\ objs'[o].kind = objs[o].kind
          /\ objs'[o].fin = "no" => objs[o].fin = "no"
          /\ objs[o].kind = "pool" => objs'[o].refs = objs[o].refs /\ objs'[o].h = objs[o].h
          /\ objs[o].kind = "procattr" => objs'[o].pool = objs[o].pool
    BY <1>2, <1>8
  <2>2. \A q \in DOMAIN objs' : objs'[q].h \in DOMAIN nats => q \in DOMAIN objs /\ objs'[q].h = objs[q].h
    BY <1>8
  <2>3. \A n \in DOMAIN nats : n \in DOMAIN nats' /\ nats'[n].in = nats[n].in
    BY <1>4
  <2>4. \A a \in DOMAIN pipes :
          objs[a].kind = "procattr" /\ objs'[a].fin = "no" /\ nats[pipes[a]].live =>
            nats'[pipes[a]].live \/ ProcPipe(pipes[a])
    BY <1>1, <1>2, <2>1 DEF PipesOpen, LifeInv, Pipes
  <2> QED
    BY <1>3, <2>1, <2>2, <2>3, <2>4, PipesFrame
<1>17. Handles'
  <2>1. ASSUME NEW o \in DOMAIN objs, objs[o].h # 0
        PROVE  /\ objs[o].h \in DOMAIN nats /\ nats'[objs[o].h].in = nats[objs[o].h].in
               /\ \A n \in nats[objs[o].h].in : \E q \in objs'[o].refs : objs'[q].kind = "pool" /\ objs'[q].h = n
    BY <1>1, <1>10, <1>4, <1>9, <2>1, SMTT(30) DEF Handles
  <2>2. ASSUME NEW o \in DOMAIN objs, objs[o].h # 0, NEW q \in DOMAIN objs, objs'[q].h = objs'[o].h
        PROVE  q = o \/ Shared(objs[o].h)'
    <3>1. q = o \/ Shared(objs[o].h)
      BY <1>1, <1>9, <2>2 DEF Handles
    <3> QED
      BY <1>16, <1>9, <3>1 DEF SharedStays
  <2> QED
    BY <1>1, <1>4, <1>9, <2>1, <2>2 DEF Handles
<1>18. PoolKept'
  BY <1>1, <1>8, <1>10 DEF PoolKept
<1>19. Roots'
  BY <1>1, <1>2, <1>3, <1>8 DEF Roots
<1>20. Marks'
  <2>1. ASSUME NEW o \in DOMAIN objs
        PROVE  /\ objs'[o].fin = "no" => \A r \in objs'[o].refs : objs'[r].fin = "no"
               /\ objs'[o].fin = "no" => phase' = "running"
               /\ objs'[o].kind = "finalizer" <=> o = Finalizer
    <3>1. objs'[o].fin = "no" => objs[o].fin = "no" /\ \A r \in objs[o].refs : r # x
      BY <1>1, <1>2, <1>8 DEF Marks
    <3> QED
      BY <1>1, <1>3, <1>8, <1>10, <3>1 DEF Marks
  <2>2. PICK d \in {0, 1} :
          /\ Len(queue') = Len(queue) - d /\ (d = 1 => queue[1] = {x})
          /\ \A i \in DOMAIN queue' :
               /\ i + d \in DOMAIN queue /\ queue'[i] \subseteq queue[i + d]
               /\ i + d = 1 => x \notin queue'[i]
          /\ \A i \in DOMAIN queue : i - d \in DOMAIN queue' => queue[i] \ {x} \subseteq queue'[i - d]
    BY <1>3, <1>11, <1>5, QueueTaken
  <2>3. /\ Len(queue) \in Nat /\ DOMAIN queue = 1..Len(queue) /\ DOMAIN queue' = 1..(Len(queue) - d)
        /\ x \in queue[1] /\ 1 \in DOMAIN queue /\ d \in Nat
    BY <1>2, <1>3, <1>11, <1>12, <2>2
  <2>4. ASSUME NEW o \in DOMAIN objs, objs'[o].fin = "queued"
        PROVE  \E i \in DOMAIN queue' : o \in queue'[i]
    <3>1. o # x /\ objs[o].fin = "queued"
      BY <1>8, <2>4
    <3>2. PICK i \in DOMAIN queue : o \in queue[i]
      BY <1>1, <3>1 DEF Marks
    <3>3. d = 1 => i # 1
      BY <2>2, <3>1, <3>2
    <3>4. i - d \in DOMAIN queue'
      BY <2>2, <2>3, <3>3
    <3> QED
      BY <2>2, <3>1, <3>2, <3>4
  <2>5. ASSUME NEW i \in DOMAIN queue', NEW o \in queue'[i]
        PROVE  /\ o \in DOMAIN objs' /\ objs'[o].fin = "queued" /\ objs'[o].kind \in HasGC
               /\ o = Finalizer => i = Len(queue')
               /\ \A j \in DOMAIN queue' : j < i => o \notin queue'[j] /\ queue'[j] \cap objs'[o].refs = {}
    <3>1. i \in Nat /\ i + d \in DOMAIN queue /\ o \in queue[i + d]
      BY <2>2, <2>3
    <3>2. o # x
      <4>1. CASE i + d = 1
        BY <2>2, <4>1
      <4>2. CASE i + d # 1
        <5>1. 1 < i + d
          BY <2>3, <3>1, <4>2
        <5>2. o \notin queue[1]
          BY <1>1, <2>3, <3>1, <5>1 DEF Marks
        <5> QED
          BY <2>3, <5>2
      <4> QED
        BY <4>1, <4>2
    <3>3. o \in DOMAIN objs /\ objs[o].fin = "queued" /\ objs[o].kind \in HasGC
      BY <1>1, <3>1 DEF Marks
    <3>4. o = Finalizer => i = Len(queue')
      <4>1. o = Finalizer => i + d = Len(queue)
        BY <1>1, <3>1 DEF Marks
      <4> QED
        BY <2>2, <2>3, <3>1, <4>1
    <3>5. ASSUME NEW j \in DOMAIN queue', j < i
          PROVE  o \notin queue'[j] /\ queue'[j] \cap objs[o].refs = {}
      <4>1. j + d \in DOMAIN queue /\ queue'[j] \subseteq queue[j + d] /\ j + d < i + d
        BY <2>2, <2>3, <3>1, <3>5
      <4>2. o \notin queue[j + d] /\ queue[j + d] \cap objs[o].refs = {}
        BY <1>1, <3>1, <4>1 DEF Marks
      <4> QED
        BY <4>1, <4>2
    <3> QED
      BY <1>8, <3>2, <3>3, <3>4, <3>5
  <2> QED
    BY <1>8, <2>1, <2>4, <2>5 DEF Marks
<1>21. CallNat'
  <2>1. CASE phase # "running"
    BY <1>1, <1>3, <2>1 DEF Phases, CallNat, None
  <2>2. CASE phase = "running"
    <3>1. \A r \in held \cup call.args \cup {Finalizer, DefaultPool} : r \in DOMAIN objs
      BY <1>1, <2>2 DEF Roots
    <3>2. \A q \in Reachable : q \in DOMAIN objs /\ q \in Reachable'
      BY <1>3, <1>8, <1>10, <3>1 DEF Reachable
    <3>3. call.fn = "read" => \E f \in call.args : objs'[f].h = call.nat
      BY <1>1, <1>8, <3>1 DEF CallNat
    <3>4. ASSUME call.fn \in {"collect", "glob"}
          PROVE  /\ call.nat \in DOMAIN nats' /\ nats'[call.nat].live
                 /\ \A o \in DOMAIN objs' : objs'[o].h # call.nat
                 /\ \A n \in nats'[call.nat].in : \E q \in Reachable' : objs'[q].kind = "pool" /\ objs'[q].h = n
      <4>1. call.nat \in DOMAIN nats /\ nats'[call.nat].live /\ nats'[call.nat].in = nats[call.nat].in
        BY <1>1, <1>2, <3>4 DEF CallNat
      <4>2. \A o \in DOMAIN objs : objs[o].h # call.nat
        BY <1>1, <3>4 DEF CallNat
      <4>3. \A n \in nats[call.nat].in : \E q \in Reachable : objs[q].kind = "pool" /\ objs[q].h = n
        BY <1>1, <3>4 DEF CallNat
      <4>4. call.nat \in DOMAIN nats' /\ nats'[call.nat].live
        BY <1>2, <4>1
      <4>5. \A o \in DOMAIN objs' : objs'[o].h # call.nat
        BY <1>8, <4>2
      <4>6. \A n \in nats'[call.nat].in : \E q \in Reachable' : objs'[q].kind = "pool" /\ objs'[q].h = n
        BY <1>8, <3>2, <4>1, <4>3
      <4> QED
        BY <4>4, <4>5, <4>6
    <3> QED
      BY <1>1, <1>3, <3>3, <3>4 DEF CallNat
  <2> QED
    BY <2>1, <2>2
<1>22. TerminatedLast'
  BY <1>2, <1>3, <1>8, <1>13 DEF TerminatedLast
<1>23. Valid'
  <2>1. \A o \in DOMAIN objs : Shared(objs[o].h) => Shared(objs[o].h)'
    BY <1>16, <1>8 DEF SharedStays
  <2>2. \A o \in DOMAIN objs : objs'[o].fin # "done" => o # x /\ objs[o].fin # "done"
    BY <1>8
  <2> QED
    BY <1>2, <1>8, <2>1, <2>2 DEF Valid
<1>24. KeptLonger'
  <2>1. ASSUME NEW o \in DOMAIN objs, objs'[o].fin # "done", NEW r \in objs[o].refs
        PROVE  objs'[r].fin # "done"
    <3>1. r # x /\ r \in DOMAIN objs /\ objs[r].fin # "done"
      BY <1>2, <1>8, <1>10, <2>1 DEF LifeInv, KeptLonger
    <3> QED
      BY <1>8, <3>1
  <2> QED
    BY <1>8, <2>1 DEF KeptLonger
<1>25. Owned'
  <2>1. ASSUME NEW n \in DOMAIN nats, nats'[n].live
        PROVE  \E o \in DOMAIN objs : /\ objs'[o].kind = "pool" /\ objs'[o].fin # "done" /\ objs'[o].h # 0
                                      /\ objs'[o].h = n \/ objs'[o].h \in nats'[n].in
    <3>1. PICK o \in DOMAIN objs : /\ o # x /\ objs[o].kind = "pool" /\ objs[o].fin # "done"
                                   /\ objs[o].h # 0 /\ (objs[o].h = n \/ objs[o].h \in nats[n].in)
      BY <1>2, <2>1
    <3>2. nats'[n].in = nats[n].in
      BY <1>2
    <3> QED
      BY <1>8, <3>1, <3>2
  <2> QED
    BY <1>2, <1>8, <2>1 DEF Owned
<1> QED
  BY <1>14, <1>15, <1>17, <1>18, <1>19, <1>20, <1>21, <1>22, <1>23, <1>25, <1>24, <1>16 DEF LifeInv
-----------------------------------------------------------------------------
(***************************************************************************)
(* The theorems                                                            *)
(***************************************************************************)

\* The invariant holds before the library is loaded.
LEMMA LifeInit == AInit => LifeInv
<1> SUFFICES ASSUME AInit PROVE LifeInv
  OBVIOUS
<1>1. /\ objs = <<>> /\ nats = <<>> /\ pipes = <<>> /\ queue = <<>> /\ kids = <<>> /\ held = {} /\ call = None
      /\ apr = FALSE /\ phase = "start"
  BY DEF AInit
<1>2. None \in Calls /\ call.fn = "none" /\ call.nat = 0
  BY <1>1, CallType DEF None, Fns
<1>3. ApeTypes
  <2>1. <<>> \in Seq(Objects) /\ <<>> \in Seq(Natives) /\ <<>> \in Seq(SUBSET Nat) /\ <<>> \in Seq(Kids)
    OBVIOUS
  <2> QED
    BY <1>1, <1>2, <2>1 DEF ApeTypes
<1>4. Phases /\ References /\ Handles /\ PoolKept /\ Roots /\ Marks /\ TerminatedLast /\ KeptLonger /\ Pipes /\ Valid /\ Owned
  BY <1>1 DEF Phases, References, Handles, PoolKept, Roots, Marks, TerminatedLast, KeptLonger, Pipes, Valid, Owned
<1>5. CallNat
  BY <1>2 DEF CallNat
<1> QED
  BY <1>3, <1>4, <1>5 DEF LifeInv

\* luaopen_ape.
LEMMA OpenStep ==
    ASSUME LifeInv, LuaOpen
    PROVE  LifeInv'
<1>1. /\ ApeTypes /\ call = None /\ held = {} /\ queue = <<>> /\ nats = <<>>
      /\ UNCHANGED <<pipes, held, kids, call>>
  BY DEF LifeInv, Phases, LuaOpen
<1>2. DOMAIN pipes = {} /\ DOMAIN pipes' = {}
  <2>1. \A a \in DOMAIN pipes : pipes[a] \in DOMAIN nats
    BY DEF LifeInv, Pipes
  <2>2. phase = "start" /\ pipes' = pipes
    BY DEF LuaOpen
  <2>3. nats = <<>>
    BY <2>2 DEF LifeInv, Phases
  <2>4. DOMAIN nats = {}
    BY <2>3
  <2>5. DOMAIN pipes = {}
    BY <2>1, <2>4
  <2> QED
    BY <2>2, <2>5
<1>3. call'.fn = "none" /\ call'.nat = 0 /\ call'.args = {}
  BY <1>1 DEF None
<1> DEFINE f == Object("finalizer", 0, 0, {})
           p == Object("pool", 1, 0, {})
           n == Native("pool", 0)
           g == [f EXCEPT !.fin = "queued"]
<1>4. /\ f \in Objects /\ f.kind = "finalizer" /\ f.h = 0 /\ f.refs = {} /\ f.out = 0 /\ f.fin = "no"
      /\ p \in Objects /\ p.kind = "pool" /\ p.h = 1 /\ p.refs = {} /\ p.out = 0 /\ p.fin = "no"
      /\ g \in Objects /\ g.kind = "finalizer" /\ g.h = 0 /\ g.refs = {} /\ g.out = 0 /\ g.fin = "queued"
  BY DEF Object, Objects, Kinds
<1>5. n \in Natives /\ n.in = {} /\ n.live
  BY DEF Native, Natives, Kinds
<1>6. \/ objs' = <<f, p>> /\ nats' = <<n>> /\ apr' = TRUE /\ phase' = "running" /\ queue' = queue
      \/ objs' = <<g>> /\ phase' = "closing" /\ queue' = <<{Finalizer}>> /\ nats' = nats /\ apr' = apr
  BY DEF LuaOpen
<1> HIDE DEF f, p, n, g
<1>7. CASE objs' = <<f, p>> /\ nats' = <<n>> /\ apr' = TRUE /\ phase' = "running" /\ queue' = queue
  <2>1. /\ objs' \in Seq(Objects) /\ DOMAIN objs' = {1, 2} /\ objs'[1] = f /\ objs'[2] = p
        /\ nats' \in Seq(Natives) /\ DOMAIN nats' = {1} /\ nats'[1] = n
    BY <1>4, <1>5, <1>7
  <2>2. ApeTypes'
    BY <1>1, <1>7, <2>1 DEF ApeTypes
  <2>3. Phases' /\ TerminatedLast'
    BY <1>7 DEF Phases, TerminatedLast
  <2>4. References' /\ Handles' /\ PoolKept' /\ KeptLonger' /\ Pipes' /\ Valid' /\ Owned'
    BY <1>4, <1>5, <1>2, <2>1 DEF References, Handles, PoolKept, KeptLonger, Pipes, Valid, Owned
  <2>5. Roots' /\ CallNat'
    BY <1>1, <1>3, <1>4, <1>7, <2>1 DEF Roots, CallNat, Finalizer, DefaultPool
  <2>6. Marks'
    BY <1>1, <1>4, <1>7, <2>1 DEF Marks, Finalizer
  <2> QED
    BY <2>2, <2>3, <2>4, <2>5, <2>6 DEF LifeInv
<1>8. CASE objs' = <<g>> /\ phase' = "closing" /\ queue' = <<{Finalizer}>> /\ nats' = nats /\ apr' = apr
  <2>1. objs' \in Seq(Objects) /\ DOMAIN objs' = {1} /\ objs'[1] = g
    BY <1>4, <1>8
  <2>2. /\ queue' \in Seq(SUBSET Nat) /\ DOMAIN queue' = {1} /\ queue'[1] = {Finalizer} /\ Len(queue') = 1
    BY <1>8 DEF Finalizer
  <2>3. ApeTypes'
    BY <1>1, <1>8, <2>1, <2>2 DEF ApeTypes
  <2>4. Phases' /\ TerminatedLast' /\ Roots'
    BY <1>1, <1>4, <1>8, <2>1 DEF Phases, TerminatedLast, Roots
  <2>5. References' /\ Handles' /\ PoolKept' /\ KeptLonger' /\ Pipes' /\ Valid' /\ Owned' /\ CallNat'
    BY <1>1, <1>3, <1>4, <1>8, <1>2, <2>1 DEF References, Handles, PoolKept, KeptLonger, Pipes, Valid, Owned, CallNat
  <2>6. Marks'
    BY <1>4, <1>8, <2>1, <2>2 DEF Marks, Finalizer, HasGC
  <2> QED
    BY <2>3, <2>4, <2>5, <2>6 DEF LifeInv
<1> QED
  BY <1>6, <1>7, <1>8

\* Nothing happens, in particular after the state was closed.
LEMMA IdleSteps ==
    ASSUME LifeInv, Closed \/ UNCHANGED avars
    PROVE  LifeInv'
<1>1. (UNCHANGED <<objs, nats, pipes, held, queue, kids, call, apr>> /\ phase # "running") \/ UNCHANGED avars
  BY DEF Closed
<1>2. CASE UNCHANGED avars
  BY <1>2 DEF avars, LifeInv, ApeTypes, Phases, References, Handles, PoolKept, Roots, Marks, CallNat,
              Reachable, TerminatedLast, KeptLonger, Pipes, ProcPipe, KeptOf, Keeps, Valid, Shared, Owned
<1>3. CASE Closed
  BY <1>3 DEF Closed, LifeInv, ApeTypes, Phases, References, Handles, PoolKept, Roots, Marks, CallNat,
              Reachable, TerminatedLast, KeptLonger, Pipes, ProcPipe, KeptOf, Keeps, Valid, Shared, Owned
<1> QED
  BY <1>2, <1>3

\* Every step of scripts, children and the collector keeps the invariant.
LEMMA LifeNext == LifeInv /\ [ANext]_avars => LifeInv'
<1> SUFFICES ASSUME LifeInv, [ANext]_avars PROVE LifeInv'
  OBVIOUS
<1>1. CASE LuaOpen
  BY <1>1, OpenStep
<1>2. CASE PoolCreate \/ PoolChild \/ FileOpen \/ DirOpen \/ ProcattrCreate \/ HashNew \/ FileDup
  BY <1>2, PoolAndFileSteps
<1>3. CASE UidNew \/ DirRead
  BY <1>3, UserSteps
<1>4. CASE FilePipeCreate
  BY <1>4, FilePipeStep
<1>5. CASE ProcCreate
  BY <1>5, ProcStep
<1>6. CASE FileClose \/ DirClose
  BY <1>6, CloseSteps
<1>7. CASE FileRead \/ FileReadEnd \/ Drop \/ OutGet
  BY <1>7, ReadSteps
<1>8. CASE KidExits \/ KidCloses \/ ProcWait \/ ProcWaitEnd \/ WaitAllStep
  BY <1>8, KidSteps
<1>9. CASE PathOp \/ WaitAll \/ RunCollect \/ PathGlob
  BY <1>9, PoolCallSteps
<1>10. CASE RunCollectRead \/ RunCollectFails \/ PathGlobEnd
  BY <1>10, CallEndSteps
<1>11. CASE Separate \/ LuaClose
  BY <1>11, DeadSteps
<1>12. CASE Finalize
  BY <1>12, FinalizeStep
<1>13. CASE Closed \/ UNCHANGED avars
  BY <1>13, IdleSteps
<1>14. CASE IoSet
  BY <1>14, IoStep
<1> QED
  BY <1>1, <1>2, <1>3, <1>4, <1>5, <1>6, <1>7, <1>8, <1>9, <1>10, <1>11, <1>12, <1>13, <1>14 DEF ANext

\* The invariant of the lifetimes always holds.
LEMMA LifeAlways == ASpec => []LifeInv
BY LifeInit, LifeNext, PTL DEF ASpec

\* The pools a resource lies in are there as long as its object is not done.
LEMMA PoolsLive ==
    ASSUME LifeInv, NEW q \in DOMAIN objs, objs[q].kind = "pool", objs[q].h # 0, objs[q].fin # "done"
    PROVE  nats[objs[q].h].live
<1>1. nats[objs[q].h].live \/ Shared(objs[q].h)
  BY DEF LifeInv, Valid
<1>2. ASSUME Shared(objs[q].h) PROVE FALSE
  <2>1. PICK r \in DOMAIN pipes : pipes[r] = objs[q].h
    BY <1>2 DEF Shared
  <2> QED
    BY <2>1 DEF LifeInv, Pipes
<1> QED
  BY <1>1, <1>2

\* What an object points to is there as long as the object is not done.
LEMMA ObjectInPlace ==
    ASSUME LifeInv, NEW o \in DOMAIN objs, objs[o].fin # "done", objs[o].h # 0
    PROVE  InPlace(objs[o].h)
<1>1. nats[objs[o].h].live \/ Shared(objs[o].h)
  BY DEF LifeInv, Valid
<1>2. ASSUME NEW m \in nats[objs[o].h].in
      PROVE  nats[m].live
  <2>1. PICK q \in objs[o].refs : objs[q].kind = "pool" /\ objs[q].h = m
    BY DEF LifeInv, Handles
  <2>2. q \in DOMAIN objs /\ objs[q].fin # "done"
    BY <2>1 DEF LifeInv, References, KeptLonger
  <2>3. m # 0
    BY DEF LifeInv, Handles, ApeTypes
  <2> QED
    BY <2>1, <2>2, <2>3, PoolsLive
<1> QED
  BY <1>1, <1>2 DEF InPlace

\* What a call works with is there.
LEMMA CallInPlace ==
    ASSUME LifeInv, call.nat # 0
    PROVE  InPlace(call.nat)
<1>1. CASE call.fn = "read"
  <2>1. PICK f \in call.args : objs[f].h = call.nat
    BY <1>1 DEF LifeInv, CallNat
  <2>2. phase = "running"
    BY <1>1, InCall
  <2>3. f \in DOMAIN objs /\ objs[f].fin = "no"
    BY <2>1, <2>2 DEF LifeInv, Roots
  <2> QED
    BY <2>1, <2>3, ObjectInPlace
<1>2. CASE call.fn # "read"
  <2>1. call.fn \in {"collect", "glob"}
    BY <1>2 DEF LifeInv, CallNat
  <2>2. phase = "running"
    BY <2>1, InCall
  <2>3. nats[call.nat].live
    BY <2>1 DEF LifeInv, CallNat
  <2>4. ASSUME NEW q \in Reachable
        PROVE  q \in DOMAIN objs /\ objs[q].fin = "no"
    <3>1. \A r \in held \cup call.args \cup {Finalizer, DefaultPool} : r \in DOMAIN objs /\ objs[r].fin = "no"
      BY <2>2 DEF LifeInv, Roots
    <3> QED
      BY <3>1 DEF LifeInv, References, Marks, Reachable
  <2>5. ASSUME NEW m \in nats[call.nat].in
        PROVE  nats[m].live
    <3>1. PICK q \in Reachable : objs[q].kind = "pool" /\ objs[q].h = m
      BY <2>1 DEF LifeInv, CallNat
    <3>2. m # 0
      BY <2>1 DEF LifeInv, CallNat, Handles, ApeTypes
    <3> QED
      BY <2>4, <3>1, <3>2, PoolsLive
  <2> QED
    BY <2>3, <2>5 DEF InPlace
<1> QED
  BY <1>1, <1>2

\* Objects and calls never outlive what they point to, and resources never outlive the
\* pools that some object has still to destroy (the finalizers of ape_pool.c, ape_file.c
\* and ape.c, the references moon_newobject_ref keeps, and the pipes that processes get
\* from their attributes, which are closed for all when one is), for programs with any
\* number of objects, resources and children.
THEOREM LifetimesHold == ASpec => []Lifetimes
<1>1. LifeInv => Lifetimes
  <2> SUFFICES ASSUME LifeInv PROVE Lifetimes
    OBVIOUS
  <2>1. HandlesValid
    BY ObjectInPlace DEF HandlesValid
  <2>2. CallsKeepPool
    BY CallInPlace DEF CallsKeepPool
  <2> QED
    BY <2>1, <2>2 DEF LifeInv, Lifetimes
<1> QED
  BY <1>1, LifeAlways, PTL

\* A child of run_collect that is not collected yet has a call waiting for it, after any step.
LEMMA CollectNext == LifeInv /\ CollectInv /\ [ANext]_avars => CollectInv'
<1> SUFFICES ASSUME LifeInv, CollectInv, [ANext]_avars PROVE CollectInv'
  OBVIOUS
<1>1. kids \in Seq(Kids) /\ Len(kids) \in Nat /\ DOMAIN kids = 1..Len(kids)
  BY DEF LifeInv, ApeTypes
<1>2. None.fn = "none" /\ None.kid = 0
  BY DEF None
<1>3. ASSUME NEW k, NEW e, kids' = [kids EXCEPT ![k] = e]
      PROVE  DOMAIN kids' = DOMAIN kids /\ \A i \in DOMAIN kids : kids'[i] = IF i = k THEN e ELSE kids[i]
  BY <1>1, <1>3
<1>4. ASSUME NEW k, kids' = [kids EXCEPT ![k].st = "reaped"]
      PROVE  /\ DOMAIN kids' = DOMAIN kids
             /\ \A i \in DOMAIN kids : IF i = k THEN kids'[i].st = "reaped" ELSE kids'[i] = kids[i]
  <2>1. k \in DOMAIN kids => [kids[k] EXCEPT !.st = "reaped"].st = "reaped"
    <3>1. k \in DOMAIN kids => kids[k] \in Kids
      BY <1>1
    <3> QED
      BY <3>1 DEF Kids
  <2> QED
    BY <1>3, <1>4, <2>1
<1>5. ASSUME call = None
      PROVE  \A k \in DOMAIN kids : kids[k].collect => kids[k].st = "reaped" \/ kids[k].failed
  BY <1>2, <1>5 DEF CollectInv
<1>6. CASE UNCHANGED <<kids, call>>
  BY <1>6 DEF CollectInv
<1>7. CASE call = None /\ kids' = kids
  BY <1>5, <1>7 DEF CollectInv
<1>8. CASE call.fn \notin {"collect", "wait"} /\ kids' = kids
  BY <1>8 DEF CollectInv
<1>9. CASE ProcCreate
  <2> DEFINE e == Kid(FALSE)
  <2>1. call = None /\ kids' = Append(kids, e)
    BY <1>9 DEF ProcCreate, Idle
  <2>2. e \in Kids /\ ~e.collect
    BY DEF Kid, Kids
  <2> HIDE DEF e
  <2>3. /\ DOMAIN kids' = 1..(Len(kids) + 1) /\ kids'[Len(kids) + 1] = e
        /\ \A k \in DOMAIN kids : kids'[k] = kids[k]
    BY <1>1, <2>1, <2>2
  <2>4. \A k \in DOMAIN kids' : kids'[k] = e \/ (k \in DOMAIN kids /\ kids'[k] = kids[k])
    BY <1>1, <2>3
  <2> QED
    BY <1>5, <2>1, <2>2, <2>4 DEF CollectInv
<1>10. CASE RunCollect
  <2>1. call = None
    BY <1>10 DEF RunCollect, Idle
  <2>2. CASE UNCHANGED <<kids, call>>
    BY <1>6, <2>2
  <2>3. CASE /\ kids' = Append(kids, Kid(TRUE))
             /\ \E a \in PoolArgs :
                  call' = [None EXCEPT !.fn = "collect", !.args = {a} \ {0}, !.nat = Len(nats) + 1,
                                       !.kid = Len(kids) + 1]
    <3>1. Kid(TRUE) \in Kids
      BY DEF Kid, Kids
    <3>2. /\ DOMAIN kids' = 1..(Len(kids) + 1) /\ \A k \in DOMAIN kids : kids'[k] = kids[k]
      BY <1>1, <2>3, <3>1
    <3>3. call'.fn = "collect" /\ call'.kid = Len(kids) + 1
      BY <2>3 DEF None
    <3> QED
      BY <1>1, <1>5, <2>1, <3>2, <3>3 DEF CollectInv
  <2> QED
    BY <1>10, <2>2, <2>3 DEF RunCollect
<1>11. CASE KidExits
  <2>1. PICK k \in DOMAIN kids : kids[k].st = "running" /\ kids' = [kids EXCEPT ![k].st = "exited"]
    BY <1>11 DEF KidExits
  <2>2. call' = call
    BY <1>11 DEF KidExits
  <2> DEFINE e == [kids[k] EXCEPT !.st = "exited"]
  <2>3. kids[k] \in Kids
    BY <1>1
  <2>4. e.collect = kids[k].collect /\ e.failed = kids[k].failed
    BY <2>3 DEF Kids
  <2>5. kids' = [kids EXCEPT ![k] = e]
    BY <2>1
  <2> HIDE DEF e
  <2>6. DOMAIN kids' = DOMAIN kids /\ \A i \in DOMAIN kids : kids'[i] = IF i = k THEN e ELSE kids[i]
    BY <1>3, <2>5
  <2> QED
    BY <2>1, <2>2, <2>4, <2>6 DEF CollectInv
<1>12. CASE ProcWait
  <2>1. call = None
    BY <1>12 DEF ProcWait, Idle
  <2>2. CASE kids' = kids
    BY <1>7, <2>1, <2>2
  <2>3. ASSUME NEW k, kids' = [kids EXCEPT ![k].st = "reaped"]
        PROVE  CollectInv'
    <3>1. /\ DOMAIN kids' = DOMAIN kids
          /\ \A i \in DOMAIN kids : IF i = k THEN kids'[i].st = "reaped" ELSE kids'[i] = kids[i]
      BY <1>4, <2>3
    <3> QED
      BY <1>5, <2>1, <3>1 DEF CollectInv
  <2> QED
    BY <1>12, <2>2, <2>3 DEF ProcWait
<1>13. CASE ProcWaitEnd
  <2>1. call.fn = "wait" /\ kids' = [kids EXCEPT ![call.kid].st = "reaped"]
    BY <1>13 DEF ProcWaitEnd
  <2>2. /\ DOMAIN kids' = DOMAIN kids
        /\ \A i \in DOMAIN kids : IF i = call.kid THEN kids'[i].st = "reaped" ELSE kids'[i] = kids[i]
    BY <1>4, <2>1
  <2> QED
    BY <2>2 DEF CollectInv
<1>14. CASE WaitAllStep
  <2>1. call.fn = "waitall"
    BY <1>14 DEF WaitAllStep
  <2>2. CASE kids' = kids
    BY <1>8, <2>1, <2>2
  <2>3. ASSUME NEW k, kids' = [kids EXCEPT ![k].st = "reaped"]
        PROVE  CollectInv'
    <3>1. /\ DOMAIN kids' = DOMAIN kids
          /\ \A i \in DOMAIN kids : IF i = k THEN kids'[i].st = "reaped" ELSE kids'[i] = kids[i]
      BY <1>4, <2>3
    <3> QED
      BY <2>1, <3>1 DEF CollectInv
  <2> QED
    BY <1>14, <2>2, <2>3 DEF WaitAllStep
<1>15. CASE RunCollectRead
  <2>1. call.fn = "collect" /\ call' = [call EXCEPT !.fn = "wait", !.nat = 0] /\ kids' = kids
    BY <1>15 DEF RunCollectRead
  <2>2. call'.fn = "wait" /\ call'.kid = call.kid
    <3>1. call \in Calls
      BY DEF LifeInv, ApeTypes
    <3> QED
      BY <2>1, <3>1 DEF Calls
  <2> QED
    BY <2>1, <2>2 DEF CollectInv
<1>16. CASE RunCollectFails
  <2> DEFINE e == IF kids[call.kid].st = "exited" THEN [kids[call.kid] EXCEPT !.st = "reaped"]
                  ELSE [kids[call.kid] EXCEPT !.failed = TRUE]
  <2>1. call.kid \in DOMAIN kids => kids[call.kid] \in Kids
    BY <1>1
  <2>2. call.kid \in DOMAIN kids => e.st = "reaped" \/ e.failed
    BY <2>1 DEF Kids
  <2>3. kids' = [kids EXCEPT ![call.kid] = e] /\ call.fn = "collect"
    BY <1>16 DEF RunCollectFails
  <2> HIDE DEF e
  <2>4. DOMAIN kids' = DOMAIN kids /\ \A i \in DOMAIN kids : kids'[i] = IF i = call.kid THEN e ELSE kids[i]
    BY <1>3, <2>3
  <2> QED
    BY <2>2, <2>3, <2>4 DEF CollectInv
<1>17. CASE KidCloses
  <2>1. PICK k \in DOMAIN kids : kids' = [kids EXCEPT ![k].writes = FALSE]
    BY <1>17 DEF KidCloses
  <2>2. call' = call
    BY <1>17 DEF KidCloses
  <2> DEFINE e == [kids[k] EXCEPT !.writes = FALSE]
  <2>3. kids[k] \in Kids
    BY <1>1
  <2>4. e.collect = kids[k].collect /\ e.failed = kids[k].failed /\ e.st = kids[k].st
    BY <2>3 DEF Kids
  <2>5. kids' = [kids EXCEPT ![k] = e]
    BY <2>1
  <2> HIDE DEF e
  <2>6. DOMAIN kids' = DOMAIN kids /\ \A i \in DOMAIN kids : kids'[i] = IF i = k THEN e ELSE kids[i]
    BY <1>3, <2>5
  <2> QED
    BY <2>1, <2>2, <2>4, <2>6 DEF CollectInv
<1>18. CASE LuaOpen \/ PoolCreate \/ PoolChild \/ FileDup \/ FileClose \/ PathOp \/ Drop \/ FileOpen \/ FilePipeCreate
            \/ DirOpen \/ HashNew \/ UidNew \/ DirRead \/ ProcattrCreate \/ DirClose \/ OutGet \/ IoSet
  BY <1>6, <1>18 DEF LuaOpen, PoolCreate, PoolChild, FileDup, FileClose, PathOp, Drop, FileOpen, FilePipeCreate,
                     DirOpen, HashNew, UidNew, DirRead, ProcattrCreate, DirClose, OutGet, IoSet, Create, Fails, NewUser
<1>19. CASE Separate \/ Finalize \/ LuaClose \/ Closed \/ UNCHANGED avars
  BY <1>6, <1>19 DEF Separate, Finalize, LuaClose, Closed, avars
<1>20. CASE FileRead \/ FileReadEnd \/ PathGlob \/ PathGlobEnd \/ WaitAll
  BY <1>7, <1>8, <1>20 DEF FileRead, FileReadEnd, PathGlob, PathGlobEnd, WaitAll, Idle
<1> QED
  BY <1>9, <1>10, <1>11, <1>12, <1>13, <1>14, <1>15, <1>18, <1>19, <1>20, <1>16, <1>17 DEF ANext

\* run_collect (ape_extra.c) leaves no child behind but when reading its output has
\* failed, whatever other children there are and whoever waits for them.
THEOREM CollectedHolds == ASpec => []Collected
<1>1. AInit => CollectInv
  BY DEF AInit, CollectInv
<1>2. CollectInv => Collected
  BY DEF CollectInv, Collected, None
<1> QED
  BY <1>1, <1>2, LifeAlways, CollectNext, PTL DEF ASpec
=============================================================================
