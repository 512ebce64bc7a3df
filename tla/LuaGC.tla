------------------------------- MODULE LuaGC -------------------------------
(***************************************************************************)
(* The incremental garbage collector that manages every Lua value of       *)
(* buildsh (lgc.c), with the parts of the interpreter it has to agree      *)
(* with: upvalues that live on a stack or on their own (lfunc.c), interned *)
(* strings (lstring.c), write barriers (lapi.c, lvm.c, ltable.c) and the   *)
(* closing of a state (lstate.c).                                          *)
(*                                                                         *)
(* The collector's steps and the program's steps interleave.  The lists of *)
(* objects are sets: the order in which objects are traversed, swept and   *)
(* finalized is left open.  gray, grayagain and weak share the link field  *)
(* gclist, so an object must never be in two of them.                      *)
(***************************************************************************)
EXTENDS Naturals, FiniteSets

CONSTANTS
    Obj,          \* addresses
    Kind,         \* what can be allocated at an address
    Nil, Dead,    \* no object; the type LUA_TDEADKEY of a key
    Main,         \* the main thread; its field mt is g->mt
    Slots,        \* the slots of a stack
    Mode,         \* Mode[m]: __mode of a metatable, a subset of {"k", "v"}
    HasGC,        \* the metatables with a field __gc
    Worlds,       \* initial heaps
    DebugApi      \* the program calls debug.setupvalue

ASSUME HeapAssumption ==
    /\ IsFiniteSet(Obj) /\ Nil \notin Obj /\ Dead \notin Obj /\ Nil # Dead
    /\ Kind \in [Obj -> {"table", "udata", "closure", "upval", "thread", "string", "proto"}]
    /\ Main \in Obj /\ Kind[Main] = "thread" /\ Slots \subseteq Nat
    /\ \A m \in DOMAIN Mode : m \in Obj /\ Kind[m] = "table"

VARIABLES
    h,            \* the heap: global_State, objects, stacks
    world,        \* what the program does with the heap, as in Worlds
    cur,          \* the running thread L
    full,         \* luaC_fullgc has got as far as "sweep", "mark", or "no";
                  \* "close": lua_close has called no finalizer yet
    phase,        \* "run", "closing" (lua_close), "closed"
    called,       \* history: how often __gc was called for a userdata
    late          \* history: the userdata made while the state is closed

vars == <<h, world, cur, full, phase, called, late>>

Field == {"mt", "key", "val", "env", "up", "p", "v", "k"}
White == {"white0", "white1"}
OfKind == [k \in {"table", "udata", "closure", "upval", "thread", "string", "proto"} |-> {o \in Obj : Kind[o] = k}]
On(k) == OfKind[k]
Thread == On("thread")
Ref == Obj \cup {Nil}

NoFields == [f \in Field |-> Nil]
Closed == <<>>                          \* uv->v == &uv->u.value

\* What the program starts with: tables that refer to each other, and Main.
ASSUME WorldAssumption ==
    \A w \in Worlds :
      /\ w.given \subseteq On("table") /\ w.fresh \subseteq Obj /\ w.slots \subseteq Slots
      /\ \A o \in w.given \cup {Main} :
           /\ w.ref[o] \in [Field -> w.given \cup {Nil}]
           /\ w.ref[o].mt \in DOMAIN Mode \cup {Nil}
           /\ \A f \in Field \ (IF o = Main THEN {"mt", "env"} ELSE {"mt", "key", "val"}) : w.ref[o][f] = Nil
      /\ w.ref[Main].env # Nil

Alive(hp) == {o \in Obj : hp.mark[o] # "free"}
IsWhite(hp, o) == hp.mark[o] \in White
OtherWhite(hp) == IF hp.currentwhite = "white0" THEN "white1" ELSE "white0"
IsDead(hp, o) == hp.mark[o] = OtherWhite(hp)

\* lua_assert
LuaAssert(hp, p) == IF p THEN hp ELSE [hp EXCEPT !.bad = TRUE]

\* Puts the objects of S into one of the lists that are linked by gclist.
Link(hp, list, S) ==
    [LuaAssert(hp, S \cap (hp.gray \cup hp.grayagain \cup hp.weak) = {})
       EXCEPT ![list] = @ \cup S]

\* What an upvalue refers to: luaF_close copies the value of the slot.
UpValue(hp, uv) ==
    IF hp.open[uv] = Closed THEN hp.ref[uv].v
    ELSE hp.stack[hp.open[uv][1]][hp.open[uv][2]]

OpenOf(hp, t, level) ==
    {uv \in On("upval") : /\ hp.open[uv] # Closed
                          /\ hp.open[uv][1] = t /\ hp.open[uv][2] >= level}
-----------------------------------------------------------------------------
(***************************************************************************)
(* Marking                                                                 *)
(***************************************************************************)

WeakMode(hp, t) == IF hp.ref[t].mt = Nil THEN {} ELSE Mode[hp.ref[t].mt]

\* markobject, markvalue and reallymarkobject for all objects of S: strings
\* are done with that, userdata get black at once and their metatables and
\* environments are marked, upvalues are marked with their value and only
\* get black if they are closed; everything else waits in gray.
MarkAll(hp, S) ==
    LET white(T) == {o \in T \cap Obj : IsWhite(hp, o)}
        vals  == white(S) \cup white({UpValue(hp, u) : u \in white(S) \cap On("upval")})
        new   == vals \cup white(UNION {{hp.ref[u].mt, hp.ref[u].env} : u \in vals \cap On("udata")})
        black == {o \in new : Kind[o] = "udata" \/ (Kind[o] = "upval" /\ hp.open[o] = Closed)}
    IN  [Link(LuaAssert(hp, \A o \in new : ~IsDead(hp, o)), "gray",
              {o \in new : Kind[o] \in {"closure", "table", "thread", "proto"}})
           EXCEPT !.mark = [o \in Obj |-> IF o \in black THEN "black"
                                          ELSE IF o \in new THEN "gray" ELSE @[o]]]

\* One entry stands for the array and the hash part of a table; Nil as a key
\* is any value that is not collectable.
TraverseTable(hp, t) ==
    LET e == hp.ref[t]
        m == WeakMode(hp, t)
    IN  {e.mt} \cup IF e.val = Nil THEN {}
                    ELSE (IF "k" \in m THEN {} ELSE {e.key}) \cup (IF "v" \in m THEN {} ELSE {e.val})
TraverseClosure(hp, c) == {hp.ref[c].env, hp.ref[c].p, hp.ref[c].up}
TraverseProto(hp, p) == {hp.ref[p].k}
TraverseStack(hp, t) == {hp.ref[t].env} \cup {hp.stack[t][i] : i \in Slots}

Traverse(hp, o) ==
    CASE Kind[o] = "table"   -> TraverseTable(hp, o)
      [] Kind[o] = "closure" -> TraverseClosure(hp, o)
      [] Kind[o] = "thread"  -> TraverseStack(hp, o)
      [] Kind[o] = "proto"   -> TraverseProto(hp, o)

\* An entry without a value keeps its key, of type LUA_TDEADKEY.
RemoveEntry(e) == IF e.key = Nil THEN [e EXCEPT !.val = Nil]
                  ELSE [e EXCEPT !.val = Nil, !.key = Dead]

\* Weak tables stay gray, for they are cleared later.  So do threads: they
\* are traversed again in the atomic step.
PropagateMark(hp, G) ==
    LET weak  == {t \in G \cap On("table") : WeakMode(hp, t) # {}}
        empty == {t \in G \cap On("table") : hp.ref[t].val = Nil /\ WeakMode(hp, t) # {"k", "v"}}
        g1    == [LuaAssert(hp, \A o \in G : hp.mark[o] = "gray") EXCEPT
                    !.gray = @ \ G,
                    !.mark = [o \in Obj |-> IF o \in G \ (weak \cup Thread) THEN "black" ELSE @[o]],
                    !.ref = [o \in Obj |-> IF o \in empty THEN RemoveEntry(@[o]) ELSE @[o]]]
    IN  MarkAll(Link(Link(g1, "weak", weak), "grayagain", G \cap Thread),
                UNION {Traverse(hp, o) : o \in G})

\* The main thread, the globals and the metatables of the basic types.
MarkRoot(hp) ==
    [MarkAll([hp EXCEPT !.gray = {}, !.grayagain = {}, !.weak = {}],
             {Main, hp.ref[Main].env, hp.ref[Main].mt})
       EXCEPT !.gcstate = "propagate"]

\* The values of all open upvalues are kept.
RemarkAllUpvals(hp) ==
    MarkAll(hp, {UpValue(hp, uv) : uv \in {u \in On("upval") : hp.open[u] # Closed}})

\* Open upvalues of threads that are not marked refer to dead stacks.
RemarkUpvals(hp) ==
    MarkAll(hp, {UpValue(hp, uv) : uv \in {u \in On("upval") : /\ hp.open[u] # Closed
                                                                /\ hp.mark[u] = "gray"}})

\* The bit that says that the finalizer is on its way is not set.
SeparateUdataAgain(hp, all) ==
    LET gone == {u \in hp.rootgc \cap On("udata") : (IsWhite(hp, u) \/ all) /\ hp.ref[u].mt \in HasGC}
    IN  [hp EXCEPT !.tmudata = @ \cup gone, !.rootgc = @ \ gone]

\* Userdata that are dead, or all of them, and that have __gc go to tmudata.
SeparateUdata(hp, all) ==
    LET sep  == {u \in hp.rootgc \cap On("udata") : (IsWhite(hp, u) \/ all) /\ u \notin hp.finalized}
        gone == {u \in sep : hp.ref[u].mt \in HasGC}
    IN  [hp EXCEPT !.tmudata = @ \cup gone, !.rootgc = @ \ gone, !.finalized = @ \cup sep]

\* They may be marked, if left from an earlier collection.
MarkTmu(hp) ==
    MarkAll([hp EXCEPT !.mark = [o \in Obj |-> IF o \in hp.tmudata THEN hp.currentwhite ELSE @[o]]],
            hp.tmudata)

IsCleared(hp, o, iskey) ==
    /\ o \notin {Nil, Dead} \cup On("string")
    /\ IsWhite(hp, o) \/ (~iskey /\ o \in hp.finalized)

\* Strings are values, so they are never weak: iscleared marks them.
ClearTable(hp) ==
    LET entry(t)   == hp.ref[t]
        dead(t)    == IsCleared(hp, entry(t).key, TRUE) \/ IsCleared(hp, entry(t).val, FALSE)
        used      == {t \in hp.weak : entry(t).val # Nil}
        cleared    == {t \in used : dead(t)}
        strings    == UNION {{entry(t).key} \cup (IF IsCleared(hp, entry(t).key, TRUE) THEN {}
                                                  ELSE {entry(t).val}) : t \in used }
    IN  [MarkAll(hp, strings \cap On("string"))
           EXCEPT !.ref = [o \in Obj |-> IF o \in cleared THEN RemoveEntry(@[o]) ELSE @[o]],
                  !.cleared = cleared # {}]

\* The end of the mark phase, in which gray is emptied four times (propagateall):
\* after the values of open upvalues, after weak tables and the running thread,
\* after what the barriers have caught, and after userdata to be finalized.
AtomicUpvals(hp) == [RemarkUpvals(hp) EXCEPT !.gcstate = "upvals"]
AtomicWeak(hp, L) ==
    [MarkAll([hp EXCEPT !.gray = hp.weak, !.weak = {}], {L, hp.ref[Main].mt}) EXCEPT !.gcstate = "weak"]
AtomicAgain(hp) == [hp EXCEPT !.gray = hp.grayagain, !.grayagain = {}, !.gcstate = "again"]
AtomicTmu(hp)   == [MarkTmu(SeparateUdata(hp, FALSE)) EXCEPT !.gcstate = "tmu"]
AtomicEnd(hp) ==
    LET g1 == ClearTable(hp)
    IN  [g1 EXCEPT !.currentwhite = OtherWhite(g1), !.gcstate = "sweepstring",
                   !.tosweepstr = Alive(g1) \cap On("string"), !.tosweep = g1.rootgc]
AtomicStages == {"upvals", "weak", "again", "tmu"}
-----------------------------------------------------------------------------
(***************************************************************************)
(* Barriers, upvalues and sweeping                                         *)
(***************************************************************************)

\* No barrier: what the object refers to stays white.
BarrierForgets(hp, o, v) == hp

\* luaC_barrier, luaC_objbarrier, luaC_barrierf.  The assertion about gcstate leaves out
\* userdata that are still to be finalized: they are black, and the finalizer of another
\* one may get at them.
Barrier(hp, o, v) ==
    IF v = Nil \/ ~IsWhite(hp, v) \/ hp.mark[o] # "black" THEN hp
    ELSE LET g1 == LuaAssert(hp, ~IsDead(hp, v) /\ (hp.gcstate \in {"finalize", "pause"} => o \in hp.tmudata))
         IN  IF hp.gcstate = "propagate" THEN MarkAll(g1, {v})
             ELSE [g1 EXCEPT !.mark[o] = hp.currentwhite]

\* ... without the link into grayagain: the table is not traversed again.
BarrierBackLost(hp, t, v) ==
    IF v = Nil \/ ~IsWhite(hp, v) \/ hp.mark[t] # "black" THEN hp
    ELSE [hp EXCEPT !.mark[t] = "gray"]

\* luaC_barriert, luaC_objbarriert, luaC_barrierback
BarrierBack(hp, t, v) ==
    IF v = Nil \/ ~IsWhite(hp, v) \/ hp.mark[t] # "black" THEN hp
    ELSE Link([LuaAssert(hp, hp.gcstate \notin {"finalize", "pause"}) EXCEPT !.mark[t] = "gray"],
              "grayagain", {t})

\* luaC_linkupval, for upvalues that get a value of their own.
LinkUpvals(hp, U) ==
    LET g1   == [hp EXCEPT !.rootgc = @ \cup U]
        gray == {uv \in U : hp.mark[uv] = "gray"}
    IN  IF hp.gcstate = "propagate"
        THEN MarkAll([g1 EXCEPT !.mark = [o \in Obj |-> IF o \in gray THEN "black" ELSE @[o]]],
                     {hp.ref[uv].v : uv \in gray})
        ELSE [LuaAssert(g1, gray = {} \/ hp.gcstate \notin {"finalize", "pause"}) EXCEPT
                !.mark = [o \in Obj |-> IF o \in gray THEN hp.currentwhite ELSE @[o]]]

\* luaF_close: the open upvalues of t from level on get a value of their own, or are
\* freed if they are dead.
CloseUpvals(hp, t, level) ==
    LET open == OpenOf(hp, t, level)
        dead == {uv \in open : IsDead(hp, uv)}
    IN  LinkUpvals([LuaAssert(hp, \A uv \in open : hp.mark[uv] # "black") EXCEPT
                      !.open = [o \in Obj |-> IF o \in open THEN Closed ELSE @[o]],
                      !.mark = [o \in Obj |-> IF o \in dead THEN "free" ELSE @[o]],
                      !.ref  = [o \in Obj |-> IF o \in dead THEN NoFields
                                              ELSE IF o \in open THEN [@[o] EXCEPT !.v = UpValue(hp, o)]
                                              ELSE @[o]]],
                   open \ dead)

\* sweeplist, freeobj: the objects of S that are dead are freed, the others get white.
SweepPlain(hp, S) ==
    LET gone == {o \in S : IsDead(hp, o) /\ o # Main}
    IN  [hp EXCEPT !.mark = [o \in Obj |-> IF o \in gone THEN "free"
                                           ELSE IF o \in S THEN hp.currentwhite ELSE @[o]],
                   !.ref  = [o \in Obj |-> IF o \in gone THEN NoFields ELSE @[o]],
                   !.open = [o \in Obj |-> IF o \in gone THEN Closed ELSE @[o]],
                   !.rootgc = @ \ gone, !.finalized = @ \ gone]

\* A thread's open upvalues are swept with it; luaE_freethread closes the rest.
SweepThread(hp, t) ==
    LET g1 == SweepPlain(hp, OpenOf(hp, t, 0))
    IN  IF IsDead(hp, t) /\ t # Main
        THEN [SweepPlain(CloseUpvals(g1, t, 0), {t}) EXCEPT !.stack[t] = [i \in Slots |-> Nil]]
        ELSE SweepPlain(g1, {t})

SweepList(hp, o) == IF o \in Thread THEN SweepThread(hp, o) ELSE SweepPlain(hp, {o})
-----------------------------------------------------------------------------
(***************************************************************************)
(* singlestep, called by luaC_step and luaC_fullgc                         *)
(***************************************************************************)

Rest == <<cur, phase, called, late>>

StartCycle ==
    /\ phase = "run" /\ h.gcstate = "pause"
    /\ h' = MarkRoot(h)
    /\ UNCHANGED <<full, Rest>>

Propagate ==
    /\ phase = "run" /\ h.gcstate = "propagate"
    /\ \E o \in h.gray : h' = PropagateMark(h, {o})
    /\ UNCHANGED <<full, Rest>>

\* One of the steps of atomic, from its call to its return.
Atomic ==
    /\ phase = "run"
    /\ IF h.gray = {}
       THEN \/ h.gcstate = "propagate" /\ h' = AtomicUpvals(h)
            \/ h.gcstate = "upvals" /\ h' = AtomicWeak(h, cur)
            \/ h.gcstate = "weak" /\ h' = AtomicAgain(h)
            \/ h.gcstate = "again" /\ h' = AtomicTmu(h)
            \/ h.gcstate = "tmu" /\ h' = AtomicEnd(h)
       ELSE h.gcstate \in AtomicStages /\ h' = PropagateMark(h, h.gray)
    /\ UNCHANGED <<full, Rest>>

\* The strings go first (sweepstrgc).
SweepString ==
    /\ phase = "run" /\ h.gcstate = "sweepstring"
    /\ IF h.tosweepstr # {}
       THEN \E o \in h.tosweepstr : h' = [SweepPlain(h, {o}) EXCEPT !.tosweepstr = @ \ {o}]
       ELSE h' = [h EXCEPT !.gcstate = "sweep"]
    /\ UNCHANGED <<full, Rest>>

Sweep ==
    /\ phase = "run" /\ h.gcstate = "sweep"
    /\ IF h.tosweep # {}
       THEN \E o \in h.tosweep : h' = [SweepList(h, o) EXCEPT !.tosweep = @ \ {o}]
       ELSE h' = [h EXCEPT !.gcstate = "finalize"]
    /\ UNCHANGED <<full, Rest>>

\* GCTM: a userdata of tmudata goes back to the list, white, and its finalizer is
\* called with it; the finalizer is a part of the program.
CallGCTM(u, i) ==
    /\ \/ h.gcstate = "finalize" /\ full # "sweep" /\ phase = "run"
       \/ phase = "closing"
    /\ h' = [h EXCEPT !.tmudata = @ \ {u}, !.rootgc = @ \cup {u},
                      !.mark[u] = h.currentwhite,
                      !.stack[cur][i] = IF h.ref[u].mt \in HasGC THEN u ELSE @]
    /\ called' = [called EXCEPT ![u] = @ + (IF h.ref[u].mt \in HasGC THEN 1 ELSE 0)]
    /\ full' = "no"
    /\ UNCHANGED <<cur, phase, late>>

EndCycle ==
    /\ phase = "run" /\ h.gcstate = "finalize" /\ h.tmudata = {} /\ full # "sweep"
    /\ h' = [h EXCEPT !.gcstate = "pause"]
    /\ full' = "no"
    /\ UNCHANGED Rest

\* luaC_fullgc: a cycle that has not got to its atomic step is given up, by
\* sweeping everything without a change of white; then comes a whole cycle.
FullGC ==
    /\ phase = "run" /\ full = "no" /\ h.gcstate \notin AtomicStages
    /\ full' = "sweep"
    /\ h' = IF h.gcstate \in {"pause", "propagate"}
            THEN [h EXCEPT !.tosweep = h.rootgc, !.tosweepstr = Alive(h) \cap On("string"),
                           !.gray = {}, !.grayagain = {}, !.weak = {},
                           !.gcstate = "sweepstring"]
            ELSE h
    /\ UNCHANGED Rest

FullMark ==
    /\ phase = "run" /\ full = "sweep" /\ h.gcstate = "finalize"
    /\ h' = MarkRoot(h) /\ full' = "mark"
    /\ UNCHANGED Rest

Collect ==
    \/ StartCycle \/ Propagate \/ Atomic \/ SweepString \/ Sweep \/ EndCycle \/ FullMark
    \/ \E u \in h.tmudata, i \in world.slots : CallGCTM(u, i)
-----------------------------------------------------------------------------
(***************************************************************************)
(* The program                                                             *)
(***************************************************************************)

\* luaC_fullgc and atomic run to their end before the program goes on; while the
\* state is closed only finalizers run.
CanRun == full = "no" /\ h.gcstate \notin AtomicStages /\ phase # "closed"
Step == CanRun /\ UNCHANGED <<full, phase, called, late>>

Stack == h.stack[cur]
Globals == h.ref[cur].env
Top == {Stack[i] : i \in Slots}           \* what the program has at hand
Values == (Top \cup {Globals}) \ {Nil}
Put(hp, i, o) == [hp EXCEPT !.stack[cur][i] = o]

\* luaC_link, luaH_new, luaE_newthread, luaF_newproto: new objects are white.
Allocate(o, i) ==
    /\ Step /\ o \in world.fresh /\ h.mark[o] = "free" /\ Kind[o] \in {"table", "thread", "proto"}
    /\ h' = Put([h EXCEPT !.mark[o] = h.currentwhite, !.rootgc = @ \cup {o},
                          !.ref[o].env = IF Kind[o] = "thread" THEN Globals ELSE Nil], i, o)
    /\ UNCHANGED cur

\* luaS_newudata
NewUdata(u, i) ==
    /\ CanRun
    /\ u \in world.fresh \cap On("udata") /\ h.mark[u] = "free"
    /\ h' = Put([h EXCEPT !.mark[u] = h.currentwhite, !.rootgc = @ \cup {u},
                          !.ref[u] = [NoFields EXCEPT !.env = Globals]], i, u)
    /\ called' = [called EXCEPT ![u] = 0]
    /\ late' = IF phase = "closing" THEN late \cup {u} ELSE late
    /\ UNCHANGED <<cur, full, phase>>

\* luaS_newlstr: a string that exists is used again, even if it is dead.
NewString(o, i) ==
    /\ Step /\ o \in world.fresh \cap On("string")
    /\ h' = Put([h EXCEPT !.mark[o] = IF @ = "free" \/ IsDead(h, o)
                                      THEN h.currentwhite ELSE @], i, o)
    /\ UNCHANGED cur

\* OP_CLOSURE: a closure with the variable in slot k as its upvalue, which
\* exists already (luaF_findupval), perhaps dead, or is made.
NewClosure(o, i, k) ==
    LET old == {uv \in OpenOf(h, cur, k) : h.open[uv][2] = k}
        g1  == [h EXCEPT !.mark[o] = h.currentwhite, !.rootgc = @ \cup {o}]
    IN  /\ Step /\ o \in world.fresh \cap On("closure") /\ h.mark[o] = "free"
        /\ \E uv \in IF old # {} THEN old
                     ELSE {u \in On("upval") \cap world.fresh : h.mark[u] = "free"} :
             h' = Put([g1 EXCEPT
                         !.ref[o] = [NoFields EXCEPT !.up = uv, !.env = Globals,
                                       !.p = IF Values \cap On("proto") = {} THEN Nil
                                             ELSE CHOOSE p \in Values \cap On("proto") : TRUE],
                         !.mark[uv] = IF old = {} \/ IsDead(h, uv) THEN h.currentwhite ELSE @,
                         !.open[uv] = <<cur, k>>], i, o)
        /\ UNCHANGED cur

\* The program gets at what an object refers to.
Load(x, f, i) ==
    /\ Step /\ x \in Values /\ f \in {"val", "key", "mt"}
    /\ h.ref[x][f] \in Obj /\ (f = "key" => h.ref[x].val # Nil)
    /\ h' = Put(h, i, h.ref[x][f])
    /\ UNCHANGED cur

GetUpval(x, i) ==
    /\ Step /\ x \in Values \cap On("closure")
    /\ h' = Put(h, i, UpValue(h, h.ref[x].up))
    /\ UNCHANGED cur

Drop(i) ==
    /\ Step /\ Stack[i] # Nil
    /\ h' = Put(h, i, Nil)
    /\ UNCHANGED cur

\* t[k] = v: luaV_settable, lua_rawset; luaH_newkey has a barrier for the key.
\* A table has room for one entry.
SetTable(t, k, v) ==
    LET e == h.ref[t]
        g1 == IF e.key = k THEN h
              ELSE BarrierBack([h EXCEPT !.ref[t].key = k], t, k)
    IN  /\ Step /\ t \in Values \cap On("table")
        /\ k \in (Values \cap world.keys) \cup {Nil} /\ v \in Top \cup {Nil}
        /\ e.key = k \/ (e.val = Nil /\ v # Nil)
        /\ h' = BarrierBack([g1 EXCEPT !.ref[t].val = v], t, v)
        /\ UNCHANGED cur

\* lua_setmetatable, for a table, a userdata (once, by its maker, which has it on the
\* stack: so before the collector or lua_close has looked for its finalizer) or all
\* values of a basic type (Main).
SetMetatable(x, m) ==
    LET g1 == [h EXCEPT !.ref[x].mt = m]
    IN  /\ Step /\ x \in (Values \cap (On("table") \cup On("udata"))) \cup {Main}
        /\ m \in (Values \cap DOMAIN Mode) \cup {Nil} /\ m # h.ref[x].mt /\ x # m
        /\ x \in On("udata") => h.ref[x].mt = Nil /\ x \notin h.finalized
        /\ h' = CASE x \in On("table") -> BarrierBack(g1, x, m)
                  [] x \in On("udata") -> Barrier(g1, x, m)
                  [] OTHER -> g1
        /\ UNCHANGED cur

\* lua_setfenv, and luaK's addk and the parser's lists of a function in the
\* making: a forward barrier.
SetField(x, f, v) ==
    /\ Step /\ x \in Values /\ v \in Top \ {Nil}
    /\ \/ f = "env" /\ Kind[x] \in {"udata", "closure", "thread"} /\ Kind[v] = "table"
       \/ f = "k" /\ Kind[x] = "proto"
    /\ h.ref[x][f] # v
    /\ h' = Barrier([h EXCEPT !.ref[x][f] = v], x, v)
    /\ UNCHANGED cur

\* OP_SETUPVAL has a barrier for the upvalue, lua_setupvalue for the closure.
SetUpval(x, v, owner) ==
    LET uv == h.ref[x].up
    IN  /\ Step /\ x \in Values \cap On("closure") /\ v \in Top \ {Nil}
        /\ owner \in {uv} \cup (IF DebugApi THEN {x} ELSE {})
        /\ h' = Barrier(IF h.open[uv] = Closed THEN [h EXCEPT !.ref[uv].v = v]
                        ELSE [h EXCEPT !.stack[h.open[uv][1]][h.open[uv][2]] = v], owner, v)
        /\ UNCHANGED cur

\* A block or function ends: luaF_close, and the slots from level on are left.
LeaveBlock(level) ==
    /\ Step
    /\ OpenOf(h, cur, level) # {}
    /\ LET g1 == CloseUpvals(h, cur, level)
       IN  h' = [g1 EXCEPT !.stack[cur] = [i \in Slots |-> IF i >= level THEN Nil ELSE @[i]]]
    /\ UNCHANGED cur

\* coroutine.resume passes a value along; the main thread waits meanwhile.
Resume(t, i, v) ==
    /\ Step /\ cur = Main /\ t \in Values \cap Thread
    /\ v \in Top \cup {Nil}
    /\ cur' = t
    /\ h' = [h EXCEPT !.stack[t][i] = v]

Yield ==
    /\ Step /\ cur # Main
    /\ cur' = Main /\ UNCHANGED h

\* lua_close: all userdata are finalized, those with errors in __gc too; the
\* threshold keeps the collector quiet meanwhile (GCTM).
Close ==
    /\ phase = "run" /\ CanRun
    /\ phase' = "closing" /\ cur' = Main /\ full' = "close"
    /\ h' = LET g1 == SeparateUdata(CloseUpvals(h, Main, 0), TRUE)
            IN  [g1 EXCEPT !.stack[Main] = [i \in Slots |-> Nil]]
    /\ UNCHANGED <<called, late>>

\* close_state, luaC_freeall
FreeAll ==
    /\ phase = "closing" /\ h.tmudata = {}
    /\ phase' = "closed"
    /\ h' = [h EXCEPT !.mark = [o \in Obj |-> IF o = Main THEN @[o] ELSE "free"],
                      !.ref = [o \in Obj |-> NoFields],
                      !.open = [o \in Obj |-> Closed],
                      !.stack = [t \in Thread |-> [i \in Slots |-> Nil]],
                      !.gray = {}, !.grayagain = {}, !.weak = {}, !.tosweep = {}, !.tosweepstr = {},
                      !.rootgc = {}, !.finalized = {}]
    /\ UNCHANGED <<cur, full, called, late>>

Mutate ==
    /\ CanRun
    /\ \/ \E i \in world.slots :
            \/ \E o \in world.fresh :
                 \/ Allocate(o, i) \/ NewString(o, i) \/ NewUdata(o, i)
                 \/ \E k \in world.slots : NewClosure(o, i, k)
            \/ \E x \in Values :
                 \/ GetUpval(x, i)
                 \/ \E f \in {"val", "key", "mt"} : Load(x, f, i)
                 \/ \E v \in Top \cup {Nil} : Resume(x, i, v)
            \/ Drop(i) \/ LeaveBlock(i)
       \/ \E x \in Values, v \in Top \cup {Nil} :
            \/ \E k \in (Values \cap world.keys) \cup {Nil} : SetTable(x, k, v)
            \/ \E f \in {"env", "k"} : SetField(x, f, v)
            \/ \E o \in {x, h.ref[x].up} : SetUpval(x, v, o)
       \/ \E x \in (Values \cup {Main}) \cap world.meta, m \in (Values \cap DOMAIN Mode) \cup {Nil} : SetMetatable(x, m)
       \/ Yield

\* lua_newstate, and what the program has made so far.
Init ==
    /\ world \in Worlds
    /\ h = [gcstate |-> "pause", currentwhite |-> "white0", bad |-> FALSE, cleared |-> FALSE,
            mark |-> [o \in Obj |-> IF o \in world.given \cup {Main} THEN "white0" ELSE "free"],
            ref |-> [o \in Obj |-> IF o \in world.given \cup {Main} THEN world.ref[o] ELSE NoFields],
            open |-> [o \in Obj |-> Closed],
            stack |-> [t \in Thread |-> [i \in Slots |-> Nil]],
            gray |-> {}, grayagain |-> {}, weak |-> {}, tosweep |-> {}, tosweepstr |-> {},
            rootgc |-> world.given \cup {Main}, tmudata |-> {}, finalized |-> {}]
    /\ cur = Main /\ full = "no" /\ phase = "run"
    /\ called = [u \in On("udata") |-> 0] /\ late = {}

Next == (Collect \/ FullGC \/ Mutate \/ Close \/ FreeAll) /\ UNCHANGED world

Spec == Init /\ [][Next]_vars
-----------------------------------------------------------------------------
(***************************************************************************)
(* Correctness                                                             *)
(***************************************************************************)

\* What an object keeps alive, and what the program can get from it.
Strong(hp, o) ==
    CASE Kind[o] = "upval" -> {UpValue(hp, o)}
      [] Kind[o] = "udata" -> {hp.ref[o].mt, hp.ref[o].env}
      [] Kind[o] = "string" -> {}
      [] OTHER -> Traverse(hp, o)

Weak(hp, o) ==
    IF Kind[o] # "table" \/ hp.ref[o].val = Nil THEN {} ELSE {hp.ref[o].key, hp.ref[o].val}

Refs(hp) == [o \in Obj |-> (Strong(hp, o) \cup Weak(hp, o)) \cap Obj]

\* The objects that can be reached from those of S: each step adds what the
\* objects added last refer to.
Reached(S, refs) ==
    LET reach[n \in 0..Cardinality(Obj)] ==
          IF n = 0 THEN [all |-> S, last |-> S]
          ELSE LET r    == reach[n - 1]
                   last == (UNION {refs[o] : o \in r.last}) \ r.all
               IN  [all |-> r.all \cup last, last |-> last]
    IN  reach[Cardinality(Obj)].all

Roots == ({Main, cur, h.ref[Main].mt} \cup h.tmudata) \ {Nil}
Visible == Reached(Roots, Refs(h))

\* No object that the program can get hold of, through weak tables too, has
\* been freed, whatever the program does between the collector's steps.
NothingDangles == phase # "closed" => Visible \subseteq Alive(h)

\* The lua_asserts of lgc.c and lfunc.c hold: only live white objects are
\* marked, barriers are hit only while they mean something, and no object is
\* linked into two of the lists that share gclist.
AssertionsHold == ~h.bad

\* While marking, black objects refer to no white ones: what the barriers of
\* lapi.c, lvm.c, ltable.c and lfunc.c are for.  Userdata that still wait for
\* their finalizer may be left black from an earlier collection (marktmu).
NoBlackToWhite ==
    (phase = "run" /\ h.gcstate = "propagate") =>
        \A o \in Obj \ h.tmudata : h.mark[o] = "black" =>
            \A v \in Strong(h, o) \cap Obj : ~IsWhite(h, v)

\* The collector's own invariants, which it relies on in every step: its assertions
\* and the colours.
MarkingSound == AssertionsHold /\ NoBlackToWhite

\* A finalizer is called once, and before the userdata is freed, also if the
\* state is closed in the middle of a collection.  The exception are userdata made
\* by a finalizer that lua_close has called: luaC_separateudata does not look for
\* them again, and luaC_freeall frees them.
FinalizedBeforeFreed ==
    [][\A u \in On("udata") :
         /\ called'[u] <= 1
         /\ (h.mark[u] # "free" /\ h'.mark[u] = "free" /\ h.ref[u].mt \in HasGC /\ u \notin late)
              => called[u] = 1]_vars

\* collectgarbage() frees everything that the program cannot reach, if it calls
\* no finalizer: neither marks left from a cycle that was given up, nor
\* barriers hit since, nor upvalues of lost coroutines keep garbage.  If an entry of a
\* weak table was cleared, what its other half refers to stays until the next time.
FullGCFreesGarbage ==
    [][(full = "mark" /\ full' = "no" /\ h'.gcstate = "pause" /\ ~h.cleared) =>
         Alive(h) \subseteq Visible]_vars
=============================================================================
