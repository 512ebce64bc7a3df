---------------------------- MODULE LuaGCProofs ----------------------------
(***************************************************************************)
(* Proofs about the garbage collector: for every heap and every program.   *)
(***************************************************************************)
EXTENDS LuaGC, FiniteSetTheorems, NaturalsInduction, WellFoundedInduction, TLAPS

Kinds == {"table", "udata", "closure", "upval", "thread", "string", "proto"}
SweepStates == {"sweepstring", "sweep"}
MarkStates == {"propagate"} \cup AtomicStages
GCStates == MarkStates \cup SweepStates \cup {"pause", "finalize"}

\* What a program has in its hands is never an upvalue.
Value == {o \in Obj : Kind[o] # "upval"} \cup {Nil}
FieldsOf(o) ==
    CASE Kind[o] = "table"   -> {"mt", "key", "val"}
      [] Kind[o] = "udata"   -> {"mt", "env"}
      [] Kind[o] = "closure" -> {"env", "p", "up"}
      [] Kind[o] = "upval"   -> {"v"}
      [] Kind[o] = "thread"  -> IF o = Main THEN {"mt", "env"} ELSE {"env"}
      [] Kind[o] = "proto"   -> {"k"}
      [] Kind[o] = "string"  -> {}

Heap ==
    [gcstate : GCStates, currentwhite : White, bad : BOOLEAN, cleared : BOOLEAN,
     mark : [Obj -> White \cup {"gray", "black", "free"}],
     ref : [Obj -> [Field -> Obj \cup {Nil, Dead}]],
     open : [Obj -> {Closed} \cup (Thread \X Slots)],
     stack : [Thread -> [Slots -> Value]],
     gray : SUBSET Obj, grayagain : SUBSET Obj, weak : SUBSET Obj,
     tosweep : SUBSET Obj, tosweepstr : SUBSET Obj,
     rootgc : SUBSET Obj, tmudata : SUBSET Obj, finalized : SUBSET Obj]

Live(hp) == {o \in Obj : hp.mark[o] # "free" /\ ~IsDead(hp, o)}
Marked(hp) == {o \in Obj : hp.mark[o] \in {"gray", "black"}}
IsOpen(hp, o) == hp.open[o] # Closed
Slot(hp, o) == hp.stack[hp.open[o][1]][hp.open[o][2]]

\* What the fields of an object hold, by its kind.
WellFormed(o, r) ==
    /\ \A f \in Field : f \notin FieldsOf(o) => r[f] = Nil
    /\ r.mt \in DOMAIN Mode \cup {Nil}
    /\ \A f \in {"val", "v", "k"} : r[f] \in Value
    /\ r.key \in Value \cup {Dead}
    /\ r.env = Nil \/ (r.env \in Obj /\ Kind[r.env] = "table")
    /\ r.p = Nil \/ (r.p \in Obj /\ Kind[r.p] = "proto")
    /\ r.up = Nil \/ (r.up \in Obj /\ Kind[r.up] = "upval")
Fields(hp) ==
    \A o \in Obj :
      /\ WellFormed(o, hp.ref[o])
      /\ Kind[o] = "closure" /\ hp.mark[o] # "free" => hp.ref[o].up # Nil
      /\ hp.mark[o] = "free" \/ IsOpen(hp, o) => hp.ref[o] = NoFields

\* Where an object is kept.
Places(hp) ==
    /\ Main \in hp.rootgc
    /\ \A o \in hp.rootgc \cup hp.tmudata \cup hp.finalized \cup hp.tosweepstr : hp.mark[o] # "free"
    /\ \A o \in hp.rootgc : o \notin hp.tmudata /\ Kind[o] # "string" /\ ~IsOpen(hp, o)
    /\ \A o \in hp.finalized : Kind[o] = "udata"
    /\ hp.tmudata \subseteq hp.finalized
    /\ hp.tosweep \subseteq hp.rootgc \cup hp.tmudata
    /\ \A o \in hp.tosweepstr : Kind[o] = "string"
    /\ \A o \in Obj : hp.mark[o] # "free" /\ Kind[o] # "string" /\ ~IsOpen(hp, o)
         => o \in hp.rootgc \cup hp.tmudata
    /\ \A o \in Obj : IsOpen(hp, o) => /\ Kind[o] = "upval" /\ hp.mark[o] # "free"
                                       /\ hp.mark[hp.open[o][1]] # "free"
    /\ \A t \in Thread, i \in Slots : hp.mark[t] = "free" => hp.stack[t][i] = Nil

\* Live objects refer to live objects, the roots are live.
Edges(hp, L) ==
    /\ \A o \in Live(hp) :
         /\ \A f \in Field \ {"key"} : hp.ref[o][f] \in Live(hp) \cup {Nil}
         /\ hp.ref[o].val # Nil => hp.ref[o].key \in Live(hp) \cup {Nil, Dead}
         /\ IsOpen(hp, o) => Slot(hp, o) \in Live(hp) \cup {Nil}
    /\ \A t \in Thread, i \in Slots : t \in Live(hp) => hp.stack[t][i] \in Live(hp) \cup {Nil}
    /\ Main \in Live(hp) /\ L \in Live(hp) /\ hp.tmudata \subseteq Live(hp)

\* What the sweep phase has still to look at.
Ahead(hp) ==
    hp.tosweep \cup hp.tosweepstr \cup {o \in Obj : IsOpen(hp, o) /\ hp.open[o][1] \in hp.tosweep}
Swept(hp) ==
    /\ \A o \in Obj : IsDead(hp, o) => o \in Ahead(hp)
    /\ hp.gcstate \notin MarkStates => Marked(hp) \subseteq hp.tmudata \cup Ahead(hp)
    /\ hp.gcstate \notin SweepStates => hp.tosweep = {}
    /\ hp.gcstate # "sweepstring" => hp.tosweepstr = {}

Lists(hp) ==
    /\ \A o \in hp.gray \cup hp.grayagain \cup hp.weak :
         hp.mark[o] # "black" /\ Kind[o] \in {"closure", "table", "thread", "proto"}
    /\ \A o \in Obj : /\ Kind[o] = "thread" \/ IsOpen(hp, o) => hp.mark[o] # "black"
                      /\ Kind[o] = "udata" => hp.mark[o] # "gray"
    /\ hp.gcstate \in MarkStates =>
         /\ hp.gray \cap hp.grayagain = {} /\ hp.gray \cap hp.weak = {} /\ hp.grayagain \cap hp.weak = {}
         /\ \A o \in hp.gray \cup hp.grayagain \cup hp.weak : hp.mark[o] = "gray"
         /\ \A o \in hp.grayagain : Kind[o] \in {"thread", "table"}
         /\ \A o \in hp.weak : Kind[o] = "table"
         /\ \A o \in Obj : hp.mark[o] = "gray" =>
              o \in hp.gray \cup hp.grayagain \cup hp.weak \/ Kind[o] = "string" \/ IsOpen(hp, o)

\* Black objects refer to marked ones, or to those of P, which will be marked at once; in
\* the atomic step gray objects that are not traversed again do so too.
Colours(hp, L, P) ==
    LET done   == Marked(hp) \cup P \cup {Nil, Dead}
        from   == [upvals |-> AtomicStages, weak |-> {"weak", "again", "tmu"}, again |-> {"again", "tmu"}]
    IN  /\ \A o \in Obj : hp.mark[o] = "black" /\ (o \in hp.tmudata => hp.gcstate = "tmu")
                            => \A f \in Field : hp.ref[o][f] \in done
        /\ Main \in done
        /\ hp.gcstate \in from.upvals =>
             \A o \in Obj : hp.mark[o] = "gray" /\ IsOpen(hp, o) => Slot(hp, o) \in done
        /\ hp.gcstate \in from.weak =>
             /\ L \in done /\ hp.ref[Main].mt \in done
             /\ \A t \in hp.weak :
                  /\ hp.ref[t].mt \in done
                  /\ hp.ref[t].val # Nil =>
                       /\ "k" \in WeakMode(hp, t) \/ hp.ref[t].key \in done
                       /\ "v" \in WeakMode(hp, t) \/ hp.ref[t].val \in done
        /\ hp.gcstate \in from.again =>
             \A t \in hp.grayagain : /\ Kind[t] = "thread" /\ hp.ref[t].env \in done
                                     /\ \A i \in Slots : hp.stack[t][i] \in done
        /\ hp.gcstate = "tmu" => hp.tmudata \subseteq done

\* Which finalizers have been called.
FinalizersDone(hp, cal, ph, lt) ==
    \A u \in Obj : Kind[u] = "udata" /\ hp.mark[u] # "free" =>
      /\ cal[u] = IF hp.ref[u].mt \in HasGC /\ u \in hp.finalized /\ u \notin hp.tmudata THEN 1 ELSE 0
      /\ u \in hp.tmudata => hp.ref[u].mt \in HasGC
      /\ IsDead(hp, u) \/ (hp.gcstate = "tmu" /\ IsWhite(hp, u)) \/ (ph = "closing" /\ u \notin lt) => u \in hp.finalized

HInv(hp, L, P, cal, ph, lt) ==
    /\ hp \in Heap /\ L \in Thread /\ ~hp.bad
    /\ Fields(hp) /\ Places(hp) /\ Edges(hp, L) /\ Swept(hp) /\ Lists(hp)
    /\ FinalizersDone(hp, cal, ph, lt)
    /\ ph = "run" /\ hp.gcstate \in MarkStates => Colours(hp, L, P)

IInv ==
    /\ world \in Worlds /\ phase \in {"run", "closing", "closed"}
    /\ ~h.bad
    /\ called \in [On("udata") -> {0, 1}]
    /\ phase # "closed" => HInv(h, cur, {}, called, phase, late)
-----------------------------------------------------------------------------
LEMMA OnKinds ==
    \A k \in Kinds : On(k) = {o \in Obj : Kind[o] = k}
  BY DEF On, OfKind, Kinds

LEMMA ThreadIs == Thread = {o \in Obj : Kind[o] = "thread"}
  BY OnKinds DEF Thread, Kinds

LEMMA ClosedNot == \A t, i : <<t, i>> # Closed
  BY DEF Closed

LEMMA HeapFields ==
  ASSUME NEW hp \in Heap
  PROVE  /\ hp.gcstate \in GCStates /\ hp.currentwhite \in White /\ hp.bad \in BOOLEAN
         /\ hp.mark \in [Obj -> White \cup {"gray", "black", "free"}]
         /\ hp.ref \in [Obj -> [Field -> Obj \cup {Nil, Dead}]]
         /\ hp.open \in [Obj -> {Closed} \cup (Thread \X Slots)]
         /\ hp.stack \in [Thread -> [Slots -> Value]]
         /\ hp.gray \subseteq Obj /\ hp.grayagain \subseteq Obj /\ hp.weak \subseteq Obj
         /\ hp.tosweep \subseteq Obj /\ hp.tosweepstr \subseteq Obj
         /\ hp.rootgc \subseteq Obj /\ hp.tmudata \subseteq Obj /\ hp.finalized \subseteq Obj
  BY DEF Heap

\* The objects that MarkAll marks.
NewMarks(hp, S) ==
    LET white(T) == {o \in T \cap Obj : IsWhite(hp, o)}
        vals  == white(S) \cup white({UpValue(hp, u) : u \in white(S) \cap On("upval")})
    IN  vals \cup white(UNION {{hp.ref[u].mt, hp.ref[u].env} : u \in vals \cap On("udata")})

Waits(o) == Kind[o] \in {"closure", "table", "thread", "proto"}
Colour(hp, o) ==
    IF Kind[o] = "udata" \/ (Kind[o] = "upval" /\ hp.open[o] = Closed) THEN "black" ELSE "gray"

LEMMA MarkAllIs ==
  ASSUME NEW hp \in Heap, NEW S,
         NewMarks(hp, S) \cap (hp.gray \cup hp.grayagain \cup hp.weak) = {},
         \A o \in NewMarks(hp, S) : ~IsDead(hp, o)
  PROVE  MarkAll(hp, S) =
           [hp EXCEPT !.gray = @ \cup {o \in NewMarks(hp, S) : Waits(o)},
                      !.mark = [o \in Obj |-> IF o \in NewMarks(hp, S) THEN Colour(hp, o) ELSE @[o]]]
<1> DEFINE N == NewMarks(hp, S)
           G == {o \in N : Kind[o] \in {"closure", "table", "thread", "proto"}}
           B == {o \in N : Kind[o] = "udata" \/ (Kind[o] = "upval" /\ hp.open[o] = Closed)}
           Y == Link(LuaAssert(hp, \A o \in N : ~IsDead(hp, o)), "gray", G)
           X == [hp EXCEPT !["gray"] = @ \cup G]
<1>1. MarkAll(hp, S) =
        [Y EXCEPT !.mark = [o \in Obj |-> IF o \in B THEN "black" ELSE IF o \in N THEN "gray" ELSE @[o]]]
  BY DEF MarkAll, NewMarks
<1>2. Y = X
  <2>1. G \cap (hp.gray \cup hp.grayagain \cup hp.weak) = {}
    OBVIOUS
  <2>2. LuaAssert(hp, \A o \in N : ~IsDead(hp, o)) = hp
    BY DEF LuaAssert
  <2>3. Link(hp, "gray", G) = X
    BY <2>1 DEF Link, LuaAssert
  <2> QED BY <2>2, <2>3
<1>4. [o \in Obj |-> IF o \in B THEN "black" ELSE IF o \in N THEN "gray" ELSE hp.mark[o]]
        = [o \in Obj |-> IF o \in N THEN Colour(hp, o) ELSE hp.mark[o]]
  BY DEF Colour
<1>5. G = {o \in N : Waits(o)}
  BY DEF Waits
<1>6. X.mark = hp.mark /\ X = [hp EXCEPT !.gray = @ \cup G]
  BY DEF Heap
<1> HIDE DEF N, G, B, X, Y
<1>7. MarkAll(hp, S) = [X EXCEPT !.mark = [o \in Obj |-> IF o \in N THEN Colour(hp, o) ELSE hp.mark[o]]]
  BY <1>1, <1>2, <1>4, <1>6
<1> QED BY <1>5, <1>6, <1>7 DEF Heap, N

LEMMA OpenFacts ==
  ASSUME NEW hp \in Heap, NEW o \in Obj, IsOpen(hp, o)
  PROVE  /\ hp.open[o] \in Thread \X Slots /\ hp.open[o][1] \in Thread /\ hp.open[o][2] \in Slots
         /\ UpValue(hp, o) = Slot(hp, o) /\ Slot(hp, o) \in Value
<1> DEFINE t == hp.open[o][1]
           i == hp.open[o][2]
<1>1. hp.open[o] \in Thread \X Slots
  BY HeapFields DEF IsOpen
<1>2. t \in Thread /\ i \in Slots
  BY <1>1
<1>3. hp.stack[t] \in [Slots -> Value]
  BY HeapFields, <1>2
<1>4. hp.stack[t][i] \in Value
  BY <1>2, <1>3
<1> QED BY <1>1, <1>2, <1>4 DEF Slot, UpValue, IsOpen

LEMMA WhiteFacts ==
  ASSUME NEW hp \in Heap
  PROVE  /\ OtherWhite(hp) \in White /\ OtherWhite(hp) # hp.currentwhite
         /\ White = {hp.currentwhite, OtherWhite(hp)}
         /\ "gray" \notin White /\ "black" \notin White /\ "free" \notin White
         /\ Marked(hp) \subseteq Live(hp)
         /\ \A o \in Live(hp) : IsWhite(hp, o) \/ o \in Marked(hp)
         /\ \A o \in Obj : hp.mark[o] = hp.currentwhite => o \in Live(hp)
<1>1. hp.currentwhite \in White /\ hp.mark \in [Obj -> White \cup {"gray", "black", "free"}]
  BY HeapFields
<1> QED BY <1>1 DEF OtherWhite, White, Marked, Live, IsDead, IsWhite

\* What MarkAll marks: the objects of S that are white, the values of upvalues among them
\* and the metatables and environments of userdata.
LEMMA NewMarksAre ==
  ASSUME NEW hp, NEW L, NEW S, hp \in Heap, L \in Thread, Fields(hp), Edges(hp, L),
         S \subseteq Live(hp) \cup {Nil, Dead}
  PROVE  LET N == NewMarks(hp, S)
         IN  /\ N \subseteq Live(hp)
             /\ \A o \in N : IsWhite(hp, o)
             /\ \A o \in S \cap Obj : IsWhite(hp, o) => o \in N
             /\ \A o \in N : Kind[o] = "upval" /\ UpValue(hp, o) \in Obj /\ IsWhite(hp, UpValue(hp, o))
                               => UpValue(hp, o) \in N
             /\ \A o \in N : Kind[o] = "udata" =>
                  \A f \in {"mt", "env"} : hp.ref[o][f] \in Obj /\ IsWhite(hp, hp.ref[o][f])
                               => hp.ref[o][f] \in N
<1> USE HeapFields, HeapAssumption
<1> DEFINE white(T) == {o \in T \cap Obj : IsWhite(hp, o)}
           A  == white(S)
           B  == white({UpValue(hp, u) : u \in A \cap On("upval")})
           C  == white(UNION {{hp.ref[u].mt, hp.ref[u].env} : u \in (A \cup B) \cap On("udata")})
           N  == NewMarks(hp, S)
<1>1. N = A \cup B \cup C
  BY DEF NewMarks
<1>2. On("upval") = {o \in Obj : Kind[o] = "upval"} /\ On("udata") = {o \in Obj : Kind[o] = "udata"}
  BY OnKinds DEF Kinds
<1>3. \A o \in Live(hp) : Kind[o] = "upval" => UpValue(hp, o) \in Live(hp) \cup {Nil} /\ UpValue(hp, o) \in Value
  <2> SUFFICES ASSUME NEW o \in Live(hp), Kind[o] = "upval"
               PROVE  UpValue(hp, o) \in Live(hp) \cup {Nil} /\ UpValue(hp, o) \in Value
    OBVIOUS
  <2>1. CASE hp.open[o] = Closed
    <3>1. "v" \in Field \ {"key"} BY DEF Field
    <3> QED BY <2>1, <3>1 DEF UpValue, Edges, Fields, WellFormed, Live
  <2>2. CASE hp.open[o] # Closed
    BY <2>2, OpenFacts DEF Edges, IsOpen, Live
  <2> QED BY <2>1, <2>2
<1>4. \A o \in Live(hp), f \in {"mt", "env"} : hp.ref[o][f] \in Live(hp) \cup {Nil}
  BY DEF Edges, Field
<1>5. \A o \in Obj, f \in {"mt", "env"} : hp.ref[o][f] \in Obj => Kind[hp.ref[o][f]] = "table"
  BY DEF Fields, WellFormed
<1>6. A \subseteq Live(hp)
  BY DEF Live
<1>7. B \subseteq Live(hp) /\ \A o \in B : Kind[o] # "upval"
  BY <1>2, <1>3, <1>6 DEF Value
<1>8. C \subseteq Live(hp) /\ \A o \in C : Kind[o] = "table"
  <2>1. \A o \in C : \E u \in (A \cup B) \cap On("udata") : o \in Obj /\ (o = hp.ref[u].mt \/ o = hp.ref[u].env)
    OBVIOUS
  <2>2. Live(hp) \subseteq Obj /\ Nil \notin Obj BY DEF Live
  <2>3. \A u \in Live(hp) : /\ hp.ref[u].mt \in Live(hp) \cup {Nil} /\ hp.ref[u].env \in Live(hp) \cup {Nil}
                            /\ hp.ref[u].mt \in Obj => Kind[hp.ref[u].mt] = "table"
                            /\ hp.ref[u].env \in Obj => Kind[hp.ref[u].env] = "table"
    BY <2>2, <1>4, <1>5
  <2>4. (A \cup B) \cap On("udata") \subseteq Live(hp) BY <1>6, <1>7
  <2> HIDE DEF A, B, C
  <2> QED BY <2>1, <2>2, <2>3, <2>4
<1>9. \A o \in N : Kind[o] = "upval" /\ UpValue(hp, o) \in Obj /\ IsWhite(hp, UpValue(hp, o)) => UpValue(hp, o) \in N
  <2>1. \A o \in N : Kind[o] = "upval" => o \in A \cap On("upval")
    <3> HIDE DEF A, B, C
    <3> QED BY <1>1, <1>2, <1>6, <1>7, <1>8 DEF Live
  <2>2. \A o \in A \cap On("upval") : UpValue(hp, o) \in Obj /\ IsWhite(hp, UpValue(hp, o)) => UpValue(hp, o) \in B
    OBVIOUS
  <2> HIDE DEF A, B, C
  <2> QED BY <2>1, <2>2, <1>1
<1>10. \A o \in N : Kind[o] = "udata" =>
         \A f \in {"mt", "env"} : hp.ref[o][f] \in Obj /\ IsWhite(hp, hp.ref[o][f]) => hp.ref[o][f] \in N
  <2>1. \A o \in N : Kind[o] = "udata" => o \in (A \cup B) \cap On("udata")
    <3> HIDE DEF A, B, C
    <3> QED BY <1>1, <1>2, <1>6, <1>7, <1>8 DEF Live
  <2>2. \A o \in (A \cup B) \cap On("udata") : \A f \in {"mt", "env"} :
           hp.ref[o][f] \in Obj /\ IsWhite(hp, hp.ref[o][f]) => hp.ref[o][f] \in C
    OBVIOUS
  <2> HIDE DEF A, B, C
  <2> QED BY <2>1, <2>2, <1>1
<1>11. \A o \in A \cup B \cup C : IsWhite(hp, o)
  OBVIOUS
<1>12. \A o \in S \cap Obj : IsWhite(hp, o) => o \in A
  OBVIOUS
<1> HIDE DEF A, B, C, N
<1> QED BY <1>1, <1>6, <1>7, <1>8, <1>9, <1>10, <1>11, <1>12 DEF N

\* Where objects are does not depend on their colours.
LEMMA PlacesFrame ==
  ASSUME NEW hp \in Heap, NEW g \in Heap, Places(hp),
         \A o \in Obj : (g.mark[o] = "free") <=> (hp.mark[o] = "free"),
         g.open = hp.open, g.stack = hp.stack, g.rootgc = hp.rootgc, g.tmudata = hp.tmudata,
         g.finalized = hp.finalized, g.tosweep = hp.tosweep, g.tosweepstr = hp.tosweepstr
  PROVE  Places(g)
<1>1. \A o : IsOpen(g, o) <=> IsOpen(hp, o)
  BY DEF IsOpen
<1>2. \A o \in Obj : IsOpen(hp, o) => hp.open[o][1] \in Obj
  BY OpenFacts, ThreadIs
<1>3. /\ hp.rootgc \subseteq Obj /\ hp.tmudata \subseteq Obj /\ hp.finalized \subseteq Obj
      /\ hp.tosweepstr \subseteq Obj /\ Thread \subseteq Obj
  BY HeapFields, ThreadIs
<1>4. \A o \in g.rootgc \cup g.tmudata \cup g.finalized \cup g.tosweepstr : g.mark[o] # "free"
  BY <1>3 DEF Places
<1>5. \A o \in Obj : g.mark[o] # "free" /\ Kind[o] # "string" /\ ~IsOpen(g, o) => o \in g.rootgc \cup g.tmudata
  BY <1>1 DEF Places
<1>6. \A o \in Obj : IsOpen(g, o) => Kind[o] = "upval" /\ g.mark[o] # "free" /\ g.mark[g.open[o][1]] # "free"
  BY <1>1, <1>2 DEF Places
<1>7. \A t \in Thread, i \in Slots : g.mark[t] = "free" => g.stack[t][i] = Nil
  BY <1>3 DEF Places
<1> QED BY <1>1, <1>4, <1>5, <1>6, <1>7 DEF Places

\* What MarkAll is asked to mark is marked, and with it what black objects refer to.
LEMMA MarkAllKeeps ==
  ASSUME NEW hp, NEW L, NEW S, NEW cal, NEW ph, NEW lt, HInv(hp, L, S, cal, ph, lt),
         hp.gcstate \in MarkStates, S \subseteq Live(hp) \cup {Nil, Dead}
  PROVE  HInv(MarkAll(hp, S), L, {}, cal, ph, lt)
<1> DEFINE N == NewMarks(hp, S)
           g == MarkAll(hp, S)
           mk == [o \in Obj |-> IF o \in N THEN Colour(hp, o) ELSE hp.mark[o]]
           gr == hp.gray \cup {o \in N : Waits(o)}
<1>0. /\ hp \in Heap /\ L \in Thread /\ ~hp.bad /\ Fields(hp) /\ Places(hp) /\ Edges(hp, L) /\ Swept(hp)
      /\ Lists(hp) /\ FinalizersDone(hp, cal, ph, lt)
      /\ ph = "run" => Colours(hp, L, S)
  BY DEF HInv
<1>1. /\ N \subseteq Live(hp) /\ N \subseteq Obj
      /\ \A o \in N : IsWhite(hp, o)
      /\ \A o \in S \cap Obj : IsWhite(hp, o) => o \in N
      /\ \A o \in N : Kind[o] = "upval" /\ UpValue(hp, o) \in Obj /\ IsWhite(hp, UpValue(hp, o)) => UpValue(hp, o) \in N
      /\ \A o \in N : Kind[o] = "udata" =>
           \A f \in {"mt", "env"} : hp.ref[o][f] \in Obj /\ IsWhite(hp, hp.ref[o][f]) => hp.ref[o][f] \in N
  BY <1>0, NewMarksAre DEF Live
<1> HIDE DEF N
<1>2. g = [hp EXCEPT !.gray = gr, !.mark = mk]
  <2>1. N \cap (hp.gray \cup hp.grayagain \cup hp.weak) = {}
    <3>1. \A o \in hp.gray \cup hp.grayagain \cup hp.weak : hp.mark[o] = "gray"
      BY <1>0 DEF Lists
    <3> QED BY <3>1, <1>1, <1>0, WhiteFacts DEF IsWhite
  <2>2. \A o \in N : ~IsDead(hp, o)
    BY <1>1 DEF Live
  <2> QED BY <2>1, <2>2, <1>0, MarkAllIs DEF N
<1>3. /\ g.mark = mk /\ g.gray = gr /\ g.gcstate = hp.gcstate /\ g.currentwhite = hp.currentwhite
      /\ g.bad = hp.bad /\ g.ref = hp.ref /\ g.open = hp.open /\ g.stack = hp.stack
      /\ g.grayagain = hp.grayagain /\ g.weak = hp.weak /\ g.tosweep = hp.tosweep
      /\ g.tosweepstr = hp.tosweepstr /\ g.rootgc = hp.rootgc /\ g.tmudata = hp.tmudata
      /\ g.finalized = hp.finalized
  BY <1>0, <1>2 DEF Heap
<1>4. g \in Heap
  <2>1. mk \in [Obj -> White \cup {"gray", "black", "free"}]
    BY <1>0, HeapFields DEF Colour
  <2>2. gr \subseteq Obj
    BY <1>0, <1>1, HeapFields
  <2> HIDE DEF mk, gr
  <2> QED BY <1>0, <1>2, <2>1, <2>2, ZenonT(90) DEF Heap
<1>5. \A o \in Obj : /\ o \in N => mk[o] = Colour(hp, o) /\ mk[o] \in {"gray", "black"}
                     /\ o \notin N => mk[o] = hp.mark[o]
  BY DEF Colour
<1> HIDE DEF g, mk, gr
<1>6. OtherWhite(g) = OtherWhite(hp) /\ OtherWhite(hp) \in White /\ "gray" \notin White /\ "black" \notin White
      /\ "free" \notin White
  BY <1>0, <1>3, WhiteFacts DEF OtherWhite
<1>7. Live(g) = Live(hp)
  BY <1>1, <1>3, <1>5, <1>6 DEF Live, IsDead
<1>8. /\ \A o \in Obj : (g.mark[o] = "free") <=> (hp.mark[o] = "free")
      /\ \A o \in Obj : IsDead(g, o) <=> IsDead(hp, o)
      /\ \A o \in Obj : IsWhite(g, o) => IsWhite(hp, o)
  BY <1>1, <1>3, <1>5, <1>6 DEF Live, IsDead, IsWhite
<1>9. \A o : IsOpen(g, o) <=> IsOpen(hp, o)
  BY <1>3 DEF IsOpen
<1>10. Marked(g) = Marked(hp) \cup N /\ S \cap Obj \subseteq Marked(g)
  <2>1. Marked(g) = Marked(hp) \cup N
    BY <1>1, <1>3, <1>5 DEF Marked
  <2>2. \A o \in Live(hp) : IsWhite(hp, o) \/ o \in Marked(hp)
    BY <1>0, WhiteFacts
  <2>3. S \cap Obj \subseteq Live(hp)
    BY HeapAssumption
  <2> QED BY <1>1, <2>1, <2>2, <2>3
<1>11. Fields(g)
  BY <1>0, <1>3, <1>8, <1>9 DEF Fields, WellFormed
<1>12. Places(g)
  BY <1>0, <1>3, <1>4, <1>8, PlacesFrame
<1>13. Edges(g, L)
  BY <1>0, <1>3, <1>7, <1>9 DEF Edges, Slot
<1>14. Swept(g)
  <2>1. Ahead(g) = Ahead(hp)
    BY <1>3, <1>9 DEF Ahead
  <2> QED BY <1>0, <1>3, <1>8, <2>1 DEF Swept
<1>15. Lists(g)
  <2>1. \A o \in Obj : o \in gr <=> o \in hp.gray \/ (o \in N /\ Waits(o))
    BY DEF gr
  <2>2. \A o \in N : Waits(o) => Colour(hp, o) = "gray"
    BY DEF Waits, Colour
  <2>3. \A o \in N : hp.mark[o] # "gray" /\ hp.mark[o] # "black"
    BY <1>1, <1>6 DEF IsWhite
  <2>4. gr \subseteq Obj /\ hp.grayagain \subseteq Obj /\ hp.weak \subseteq Obj
    BY <1>3, <1>4, HeapFields
  <2>5. \A o \in gr \cup hp.grayagain \cup hp.weak : g.mark[o] = "gray" /\ Waits(o)
    <3>1. \A o \in hp.gray \cup hp.grayagain \cup hp.weak : hp.mark[o] = "gray" /\ Waits(o)
      BY <1>0 DEF Lists, Waits
    <3> QED BY <3>1, <2>1, <2>2, <2>3, <2>4, <1>3, <1>5
  <2>6. \A o \in Obj : /\ Kind[o] = "thread" \/ IsOpen(g, o) => g.mark[o] # "black"
                       /\ Kind[o] = "udata" => g.mark[o] # "gray"
    <3>1. \A o \in N : Kind[o] = "thread" \/ IsOpen(hp, o) => Colour(hp, o) # "black"
      BY <1>0, <1>1 DEF Colour, IsOpen, Places
    <3>2. \A o \in N : Kind[o] = "udata" => Colour(hp, o) # "gray"
      BY DEF Colour
    <3> QED BY <1>0, <1>3, <1>5, <1>9, <3>1, <3>2 DEF Lists
  <2>7. gr \cap hp.grayagain = {} /\ gr \cap hp.weak = {} /\ hp.grayagain \cap hp.weak = {}
    <3>1. \A o \in hp.grayagain \cup hp.weak : hp.mark[o] = "gray"
      BY <1>0 DEF Lists
    <3> QED BY <1>0, <2>1, <2>3, <2>4, <3>1 DEF Lists
  <2>8. \A o \in Obj : g.mark[o] = "gray" =>
              o \in gr \cup hp.grayagain \cup hp.weak \/ Kind[o] = "string" \/ IsOpen(hp, o)
    <3>1. \A o \in N : Colour(hp, o) = "gray" => Waits(o) \/ Kind[o] = "string" \/ IsOpen(hp, o)
      BY <1>1, HeapAssumption DEF Colour, Waits, IsOpen
    <3>2. \A o \in Obj : hp.mark[o] = "gray" =>
              o \in hp.gray \cup hp.grayagain \cup hp.weak \/ Kind[o] = "string" \/ IsOpen(hp, o)
      BY <1>0 DEF Lists
    <3> QED BY <1>3, <1>5, <2>1, <3>1, <3>2
  <2>9. /\ \A o \in hp.grayagain : Kind[o] \in {"thread", "table"}
        /\ \A o \in hp.weak : Kind[o] = "table"
    BY <1>0 DEF Lists
  <2> QED BY <1>3, <1>9, <2>5, <2>6, <2>7, <2>8, <2>9 DEF Lists, Waits
<1>16. FinalizersDone(g, cal, ph, lt)
  BY <1>0, <1>3, <1>8 DEF FinalizersDone
<1>17. ph = "run" => Colours(g, L, {})
  <2> HAVE ph = "run"
  <2> DEFINE d1 == Marked(hp) \cup S \cup {Nil, Dead}
             d2 == Marked(g) \cup {} \cup {Nil, Dead}
  <2>1. d1 \subseteq d2
    BY <1>10 DEF Marked, Live
  <2>2. Colours(hp, L, S)
    BY <1>0
  <2>3. \A o \in Obj : g.mark[o] = "black" /\ (o \in g.tmudata => g.gcstate = "tmu")
                         => \A f \in Field : g.ref[o][f] \in d2
    <3> SUFFICES ASSUME NEW o \in Obj, g.mark[o] = "black", o \in g.tmudata => g.gcstate = "tmu", NEW f \in Field
                 PROVE  hp.ref[o][f] \in d2
      BY <1>3
    <3>1. CASE o \notin N
      <4>1. hp.ref[o][f] \in d1
        BY <3>1, <1>3, <1>5, <2>2 DEF Colours
      <4> QED BY <4>1, <2>1
    <3>2. CASE o \in N
      <4>0. Colour(hp, o) = "black"
        BY <3>2, <1>3, <1>5
      <4>1. \A v \in Live(hp) : IsWhite(hp, v) \/ v \in Marked(hp)
        BY <1>0, WhiteFacts
      <4>2. CASE Kind[o] = "udata" /\ f \in {"mt", "env"}
        <5>1. hp.ref[o][f] \in Live(hp) \cup {Nil}
          BY <3>2, <4>2, <1>0, <1>1 DEF Edges, Field
        <5> QED BY <5>1, <4>2, <4>1, <3>2, <1>1, <1>10 DEF Live
      <4>3. CASE Kind[o] = "upval" /\ f = "v"
        <5>1. hp.open[o] = Closed /\ UpValue(hp, o) = hp.ref[o].v
          BY <4>0, <4>3 DEF Colour, UpValue
        <5>2. hp.ref[o].v \in Live(hp) \cup {Nil}
          BY <3>2, <4>3, <1>0, <1>1 DEF Edges, Field
        <5> QED BY <5>1, <5>2, <4>3, <4>1, <3>2, <1>1, <1>10 DEF Live
      <4>4. CASE f \notin FieldsOf(o)
        BY <4>4, <1>0 DEF Fields, WellFormed
      <4> QED BY <4>0, <4>2, <4>3, <4>4 DEF Colour, FieldsOf
    <3> QED BY <3>1, <3>2
  <2>4. \A o \in Obj : hp.gcstate \in AtomicStages /\ g.mark[o] = "gray" /\ IsOpen(g, o) => Slot(g, o) \in d2
    <3> SUFFICES ASSUME NEW o \in Obj, hp.gcstate \in AtomicStages, g.mark[o] = "gray", IsOpen(hp, o)
                 PROVE  Slot(hp, o) \in d2
      BY <1>3, <1>9 DEF Slot
    <3>1. CASE o \notin N
      <4>1. Slot(hp, o) \in d1
        BY <3>1, <1>3, <1>5, <2>2 DEF Colours
      <4> QED BY <4>1, <2>1
    <3>2. CASE o \in N
      <4>1. \A v \in Live(hp) : IsWhite(hp, v) \/ v \in Marked(hp)
        BY <1>0, WhiteFacts
      <4>2. Slot(hp, o) \in Live(hp) \cup {Nil} /\ UpValue(hp, o) = Slot(hp, o)
        BY <3>2, <1>0, <1>1, OpenFacts DEF Edges
      <4>3. Kind[o] = "upval"
        BY <1>0 DEF Places
      <4> QED BY <3>2, <4>1, <4>2, <4>3, <1>1, <1>10 DEF Live
    <3> QED BY <3>1, <3>2
  <2>5. \A t : WeakMode(g, t) = WeakMode(hp, t)
    BY <1>3 DEF WeakMode
  <2> HIDE DEF d1, d2
  <2> QED BY <1>3, <2>1, <2>2, <2>3, <2>4, <2>5 DEF Colours, d1, d2
<1> QED BY <1>0, <1>3, <1>4, <1>11, <1>12, <1>13, <1>14, <1>15, <1>16, <1>17 DEF HInv, g

\* What Traverse finds, by kind.
LEMMA TraverseIs ==
  ASSUME NEW hp, NEW o \in Obj, Waits(o)
  PROVE  /\ Kind[o] = "table" => Traverse(hp, o) = TraverseTable(hp, o)
         /\ Kind[o] = "closure" => Traverse(hp, o) = TraverseClosure(hp, o)
         /\ Kind[o] = "thread" => Traverse(hp, o) = TraverseStack(hp, o)
         /\ Kind[o] = "proto" => Traverse(hp, o) = TraverseProto(hp, o)
  BY DEF Traverse, Waits

LEMMA TraverseLive ==
  ASSUME NEW hp \in Heap, NEW L, Edges(hp, L), NEW o \in Live(hp), Waits(o)
  PROVE  Traverse(hp, o) \subseteq Live(hp) \cup {Nil, Dead}
<1>0. o \in Obj
  BY DEF Live
<1>1. \A f \in Field \ {"key"} : hp.ref[o][f] \in Live(hp) \cup {Nil}
  BY DEF Edges
<1>2. /\ hp.ref[o].mt \in Live(hp) \cup {Nil} /\ hp.ref[o].val \in Live(hp) \cup {Nil}
      /\ hp.ref[o].env \in Live(hp) \cup {Nil} /\ hp.ref[o].p \in Live(hp) \cup {Nil}
      /\ hp.ref[o].up \in Live(hp) \cup {Nil} /\ hp.ref[o].k \in Live(hp) \cup {Nil}
      /\ hp.ref[o].val # Nil => hp.ref[o].key \in Live(hp) \cup {Nil, Dead}
  BY <1>1 DEF Edges, Field
<1>3. CASE Kind[o] = "table"
  <2>1. Traverse(hp, o) = TraverseTable(hp, o)
    BY <1>0, <1>3, TraverseIs
  <2>2. TraverseTable(hp, o) \subseteq {hp.ref[o].mt, hp.ref[o].val}
          \cup IF hp.ref[o].val = Nil THEN {} ELSE {hp.ref[o].key}
    BY DEF TraverseTable
  <2> QED BY <1>2, <2>1, <2>2
<1>4. CASE Kind[o] = "closure"
  BY <1>0, <1>2, <1>4, TraverseIs DEF TraverseClosure
<1>5. CASE Kind[o] = "thread"
  <2>1. \A i \in Slots : hp.stack[o][i] \in Live(hp) \cup {Nil}
    BY <1>0, <1>5, ThreadIs DEF Edges
  <2> QED BY <1>0, <1>2, <1>5, <2>1, TraverseIs DEF TraverseStack
<1>6. CASE Kind[o] = "proto"
  BY <1>0, <1>2, <1>6, TraverseIs DEF TraverseProto
<1> QED BY <1>3, <1>4, <1>5, <1>6 DEF Waits

LEMMA RemoveEntryIs ==
  ASSUME NEW e, e \in [Field -> Obj \cup {Nil, Dead}]
  PROVE  /\ RemoveEntry(e) \in [Field -> Obj \cup {Nil, Dead}]
         /\ RemoveEntry(e).val = Nil /\ RemoveEntry(e).key \in {Nil, Dead}
         /\ \A f \in Field \ {"val", "key"} : RemoveEntry(e)[f] = e[f]
  BY DEF RemoveEntry, Field

\* Tables whose entry is removed are still well-formed.
LEMMA EntriesRemoved ==
  ASSUME NEW hp \in Heap, NEW g \in Heap, Fields(hp), NEW E,
         \A o \in E : o \in Obj /\ Kind[o] = "table" /\ hp.mark[o] # "free" /\ ~IsOpen(hp, o),
         g.ref = [o \in Obj |-> IF o \in E THEN RemoveEntry(hp.ref[o]) ELSE hp.ref[o]],
         \A o \in Obj : (g.mark[o] = "free") <=> (hp.mark[o] = "free"), g.open = hp.open
  PROVE  Fields(g)
<1> DEFINE rf == g.ref
<1>1. \A o : IsOpen(g, o) <=> IsOpen(hp, o)
  BY DEF IsOpen
<1>2. \A o \in Obj : hp.ref[o] \in [Field -> Obj \cup {Nil, Dead}]
  BY HeapFields
<1>3. \A o \in Obj : /\ o \in E => /\ rf[o].val = Nil /\ rf[o].key \in {Nil, Dead}
                                   /\ \A f \in Field \ {"val", "key"} : rf[o][f] = hp.ref[o][f]
                     /\ o \notin E => rf[o] = hp.ref[o]
  BY <1>2, RemoveEntryIs
<1>4. Fields(g)
  <2> HIDE DEF rf
  <2> SUFFICES ASSUME NEW o \in Obj
               PROVE  /\ WellFormed(o, rf[o])
                      /\ Kind[o] = "closure" /\ hp.mark[o] # "free" => rf[o].up # Nil
                      /\ hp.mark[o] = "free" \/ IsOpen(hp, o) => rf[o] = NoFields
    BY <1>1 DEF Fields, WellFormed, rf
  <2>1. CASE o \notin E
    BY <2>1, <1>3 DEF Fields, WellFormed
  <2>2. CASE o \in E
    <3>1. Kind[o] = "table" /\ hp.mark[o] # "free" /\ ~IsOpen(hp, o)
      BY <2>2
    <3>2. FieldsOf(o) = {"mt", "key", "val"}
      BY <3>1 DEF FieldsOf
    <3>3. \A f \in Field \ {"val", "key"} : rf[o][f] = hp.ref[o][f]
      BY <2>2, <1>3
    <3>4. rf[o].val = Nil /\ rf[o].key \in {Nil, Dead}
      BY <2>2, <1>3
    <3>5. /\ rf[o].mt = hp.ref[o].mt /\ rf[o].v = hp.ref[o].v /\ rf[o].k = hp.ref[o].k
          /\ rf[o].env = hp.ref[o].env /\ rf[o].p = hp.ref[o].p /\ rf[o].up = hp.ref[o].up
      BY <3>3 DEF Field
    <3>6. WellFormed(o, hp.ref[o])
      BY DEF Fields, WellFormed
    <3> QED BY <3>1, <3>2, <3>3, <3>4, <3>5, <3>6 DEF WellFormed, Value
  <2> QED BY <2>1, <2>2
<1> QED BY <1>4

\* An object that is traversed gets black, if it is not to be traversed again, and what it
\* refers to is marked.
LEMMA PropagateKeeps ==
  ASSUME NEW hp, NEW L, NEW G, NEW cal, NEW ph, NEW lt, HInv(hp, L, {}, cal, ph, lt),
         hp.gcstate \in MarkStates, G \subseteq hp.gray
  PROVE  HInv(PropagateMark(hp, G), L, {}, cal, ph, lt)
<1> DEFINE T  == UNION {Traverse(hp, o) : o \in G}
           W  == {t \in G \cap On("table") : WeakMode(hp, t) # {}}
           E  == {t \in G \cap On("table") : hp.ref[t].val = Nil /\ WeakMode(hp, t) # {"k", "v"}}
           mk == [o \in Obj |-> IF o \in G \ (W \cup Thread) THEN "black" ELSE hp.mark[o]]
           rf == [o \in Obj |-> IF o \in E THEN RemoveEntry(hp.ref[o]) ELSE hp.ref[o]]
           gr == hp.gray \ G
           wk == hp.weak \cup W
           ag == hp.grayagain \cup (G \cap Thread)
           X  == [hp EXCEPT !.gray = gr, !.mark = mk, !.ref = rf, !.weak = wk, !.grayagain = ag]
<1>0. /\ hp \in Heap /\ L \in Thread /\ ~hp.bad /\ Fields(hp) /\ Places(hp) /\ Edges(hp, L) /\ Swept(hp)
      /\ Lists(hp) /\ FinalizersDone(hp, cal, ph, lt)
      /\ ph = "run" => Colours(hp, L, {})
  BY DEF HInv
<1>1. /\ On("table") = {o \in Obj : Kind[o] = "table"} /\ Thread = {o \in Obj : Kind[o] = "thread"}
  BY OnKinds, ThreadIs DEF Kinds
<1>2. /\ G \subseteq Obj /\ \A o \in G : hp.mark[o] = "gray" /\ Waits(o)
      /\ G \cap hp.grayagain = {} /\ G \cap hp.weak = {} /\ hp.gray \cap hp.grayagain = {}
      /\ hp.gray \cap hp.weak = {} /\ hp.grayagain \cap hp.weak = {}
  BY <1>0, HeapFields DEF Lists, Waits
<1>3. G \subseteq Live(hp)
  BY <1>0, <1>2, WhiteFacts DEF Marked
<1>4. PropagateMark(hp, G) = MarkAll(X, T)
  <2> DEFINE g1 == [hp EXCEPT !.gray = gr, !.mark = mk, !.ref = rf]
             g2 == [g1 EXCEPT !["weak"] = @ \cup W]
             g3 == [g2 EXCEPT !["grayagain"] = @ \cup (G \cap Thread)]
             A  == \A o \in G : hp.mark[o] = "gray"
             h1 == [LuaAssert(hp, A) EXCEPT !.gray = @ \ G,
                      !.mark = [o \in Obj |-> IF o \in G \ (W \cup Thread) THEN "black" ELSE @[o]],
                      !.ref = [o \in Obj |-> IF o \in E THEN RemoveEntry(@[o]) ELSE @[o]]]
  <2>1. PropagateMark(hp, G) = MarkAll(Link(Link(h1, "weak", W), "grayagain", G \cap Thread), T)
    BY DEF PropagateMark
  <2>2. h1 = g1
    <3>1. LuaAssert(hp, A) = hp
      BY <1>2 DEF LuaAssert
    <3> HIDE DEF W, E, A
    <3> QED BY <3>1
  <2>3. g1.gray = gr /\ g1.weak = hp.weak /\ g1.grayagain = hp.grayagain
    <3> HIDE DEF mk, rf, gr
    <3> QED BY <1>0 DEF Heap
  <2>4. Link(g1, "weak", W) = g2
    <3>1. W \cap (gr \cup hp.grayagain \cup hp.weak) = {}
      BY <1>2
    <3> HIDE DEF g1, W, gr
    <3> QED BY <2>3, <3>1 DEF Link, LuaAssert
  <2>5. g2.gray = gr /\ g2.weak = wk /\ g2.grayagain = hp.grayagain
    <3> HIDE DEF mk, rf, gr, W
    <3> QED BY <1>0 DEF Heap
  <2>6. Link(g2, "grayagain", G \cap Thread) = g3
    <3>1. (G \cap Thread) \cap (gr \cup hp.grayagain \cup wk) = {}
      BY <1>1, <1>2
    <3> HIDE DEF g2, W, gr, wk
    <3> QED BY <2>5, <3>1 DEF Link, LuaAssert
  <2>7. g3 = X
    <3> HIDE DEF mk, rf, gr, W
    <3> QED BY <1>0 DEF Heap
  <2> HIDE DEF X, g1, g2, g3, h1, W, T
  <2> QED BY <2>1, <2>2, <2>4, <2>6, <2>7
<1>5. /\ X.gray = gr /\ X.mark = mk /\ X.ref = rf /\ X.weak = wk /\ X.grayagain = ag
      /\ X.gcstate = hp.gcstate /\ X.currentwhite = hp.currentwhite
      /\ X.bad = hp.bad /\ X.open = hp.open /\ X.stack = hp.stack
      /\ X.tosweep = hp.tosweep /\ X.tosweepstr = hp.tosweepstr /\ X.rootgc = hp.rootgc
      /\ X.tmudata = hp.tmudata /\ X.finalized = hp.finalized
  <2> HIDE DEF mk, rf, gr, wk, ag
  <2> QED BY <1>0 DEF Heap
<1>6. \A o \in Obj : /\ o \in E => /\ rf[o].val = Nil /\ hp.ref[o].val = Nil /\ rf[o].key \in {Nil, Dead}
                                   /\ \A f \in Field \ {"val", "key"} : rf[o][f] = hp.ref[o][f]
                                   /\ rf[o] \in [Field -> Obj \cup {Nil, Dead}]
                     /\ o \notin E => rf[o] = hp.ref[o]
  <2>1. \A o \in Obj : hp.ref[o] \in [Field -> Obj \cup {Nil, Dead}]
    BY <1>0, HeapFields
  <2> QED BY <2>1, RemoveEntryIs
<1>7. X \in Heap
  <2>1. mk \in [Obj -> White \cup {"gray", "black", "free"}]
    BY <1>0, HeapFields
  <2>2. rf \in [Obj -> [Field -> Obj \cup {Nil, Dead}]]
    <3>1. \A o \in Obj : rf[o] \in [Field -> Obj \cup {Nil, Dead}]
      BY <1>0, <1>6, HeapFields
    <3>2. rf = [o \in Obj |-> rf[o]]
      OBVIOUS
    <3> HIDE DEF rf
    <3> QED BY <3>1, <3>2
  <2>3. gr \subseteq Obj /\ wk \subseteq Obj /\ ag \subseteq Obj
    BY <1>0, <1>2, HeapFields
  <2> HIDE DEF mk, rf, gr, wk, ag
  <2> QED BY <1>0, <2>1, <2>2, <2>3 DEF Heap
<1>8. \A o \in Obj : /\ o \in G \ (W \cup Thread) => mk[o] = "black" /\ hp.mark[o] = "gray"
                     /\ o \notin G \ (W \cup Thread) => mk[o] = hp.mark[o]
  BY <1>2
<1>9. /\ W \subseteq G /\ \A o \in W : Kind[o] = "table" /\ WeakMode(hp, o) # {}
      /\ E \subseteq G /\ \A o \in E : Kind[o] = "table"
      /\ \A o \in G : Kind[o] = "table" /\ o \notin W => WeakMode(hp, o) = {}
      /\ \A o \in G : Kind[o] = "table" /\ hp.ref[o].val = Nil /\ WeakMode(hp, o) = {} => o \in E
  BY <1>1, <1>2
<1>10. \A o \in G : Traverse(hp, o) \subseteq T
  OBVIOUS
<1>11. T \subseteq Live(hp) \cup {Nil, Dead}
  <2>1. \A o \in G : Traverse(hp, o) \subseteq Live(hp) \cup {Nil, Dead}
    BY <1>0, <1>2, <1>3, TraverseLive
  <2> QED BY <2>1
<1> HIDE DEF X, mk, rf, W, E, T
<1>12. /\ OtherWhite(X) = OtherWhite(hp) /\ OtherWhite(hp) \in White /\ "gray" \notin White
       /\ "black" \notin White /\ "free" \notin White
  BY <1>0, <1>5, WhiteFacts DEF OtherWhite
<1>13. /\ Live(X) = Live(hp) /\ Marked(X) = Marked(hp)
       /\ \A o \in Obj : /\ (X.mark[o] = "free") <=> (hp.mark[o] = "free")
                         /\ IsDead(X, o) <=> IsDead(hp, o)
                         /\ IsWhite(X, o) <=> IsWhite(hp, o)
  BY <1>5, <1>8, <1>12 DEF Live, Marked, IsDead, IsWhite
<1>14. \A o : (IsOpen(X, o) <=> IsOpen(hp, o)) /\ Slot(X, o) = Slot(hp, o)
  BY <1>5 DEF IsOpen, Slot
<1>15. \A o \in Obj : o \in E => hp.mark[o] = "gray" /\ ~IsOpen(hp, o)
  BY <1>0, <1>2, <1>9 DEF Places
<1>16. Fields(X)
  <2>1. X.ref = [o \in Obj |-> IF o \in E THEN RemoveEntry(hp.ref[o]) ELSE hp.ref[o]]
    BY <1>5 DEF rf
  <2>2. \A o \in E : o \in Obj /\ Kind[o] = "table" /\ hp.mark[o] # "free" /\ ~IsOpen(hp, o)
    BY <1>2, <1>9, <1>15
  <2> QED BY <1>0, <1>5, <1>7, <1>13, <2>1, <2>2, EntriesRemoved
<1>17. Places(X)
  BY <1>0, <1>5, <1>7, <1>13, PlacesFrame
<1>18. Edges(X, L)
  <2>1. \A o \in Obj : /\ rf[o].val = hp.ref[o].val
                       /\ rf[o].val # Nil => rf[o].key = hp.ref[o].key
                       /\ \A f \in Field \ {"key"} : rf[o][f] = hp.ref[o][f]
    BY <1>6
  <2> QED BY <1>0, <1>5, <1>13, <1>14, <2>1 DEF Edges, Live
<1>19. Swept(X)
  <2>1. Ahead(X) = Ahead(hp)
    BY <1>5, <1>14 DEF Ahead
  <2> QED BY <1>0, <1>5, <1>13, <2>1 DEF Swept
<1>20. Lists(X)
  <2>1. /\ \A o \in hp.gray \cup hp.grayagain \cup hp.weak : hp.mark[o] = "gray" /\ Waits(o)
        /\ \A o \in Obj : /\ Kind[o] = "thread" \/ IsOpen(hp, o) => hp.mark[o] # "black"
                          /\ Kind[o] = "udata" => hp.mark[o] # "gray"
        /\ \A o \in hp.grayagain : Kind[o] \in {"thread", "table"}
        /\ \A o \in hp.weak : Kind[o] = "table"
        /\ \A o \in Obj : hp.mark[o] = "gray" =>
              o \in hp.gray \cup hp.grayagain \cup hp.weak \/ Kind[o] = "string" \/ IsOpen(hp, o)
        /\ hp.gray \subseteq Obj /\ hp.grayagain \subseteq Obj /\ hp.weak \subseteq Obj
    BY <1>0, HeapFields DEF Lists, Waits
  <2>2. \A o \in gr \cup ag \cup wk : X.mark[o] = "gray" /\ Waits(o) /\ o \in Obj
    <3> SUFFICES ASSUME NEW o \in gr \cup ag \cup wk PROVE X.mark[o] = "gray" /\ Waits(o) /\ o \in Obj
      OBVIOUS
    <3>1. o \in hp.gray \cup hp.grayagain \cup hp.weak
      BY <1>2, <1>9
    <3>2. o \notin G \ (W \cup Thread)
      BY <1>1, <1>2, <1>9
    <3> QED BY <3>1, <3>2, <2>1, <1>5, <1>8
  <2>3. gr \cap ag = {} /\ gr \cap wk = {} /\ ag \cap wk = {}
    BY <1>1, <1>2, <1>9
  <2>4. \A o \in Obj : X.mark[o] = "gray" => o \in gr \cup ag \cup wk \/ Kind[o] = "string" \/ IsOpen(hp, o)
    BY <2>1, <1>5, <1>8
  <2>5. \A o \in Obj : /\ Kind[o] = "thread" \/ IsOpen(hp, o) => X.mark[o] # "black"
                       /\ Kind[o] = "udata" => X.mark[o] # "gray"
    <3>1. \A o \in G \ (W \cup Thread) : Kind[o] # "thread" /\ ~IsOpen(hp, o) /\ Kind[o] # "udata"
      BY <1>0, <1>1, <1>2 DEF Waits, Places
    <3> QED BY <3>1, <2>1, <1>5, <1>8
  <2>6. (\A o \in ag : Kind[o] \in {"thread", "table"}) /\ (\A o \in wk : Kind[o] = "table")
    BY <2>1, <1>1, <1>9
  <2> QED BY <1>5, <1>14, <2>2, <2>3, <2>4, <2>5, <2>6 DEF Lists, Waits
<1>21. FinalizersDone(X, cal, ph, lt)
  <2>1. \A o \in Obj : rf[o].mt = hp.ref[o].mt
    BY <1>6 DEF Field
  <2> QED BY <1>0, <1>5, <1>13, <2>1 DEF FinalizersDone
<1>22. ph = "run" => Colours(X, L, T)
  <2> HAVE ph = "run"
  <2> DEFINE d1 == Marked(hp) \cup {} \cup {Nil, Dead}
             d2 == Marked(X) \cup T \cup {Nil, Dead}
  <2>1. d1 \subseteq d2 /\ T \subseteq d2 /\ Nil \in d2 /\ Dead \in d2
    BY <1>13
  <2>2. Colours(hp, L, {})
    BY <1>0
  <2>3. \A o \in Obj : X.mark[o] = "black" /\ (o \in X.tmudata => X.gcstate = "tmu")
                         => \A f \in Field : X.ref[o][f] \in d2
    <3> SUFFICES ASSUME NEW o \in Obj, X.mark[o] = "black", o \in hp.tmudata => hp.gcstate = "tmu", NEW f \in Field
                 PROVE  rf[o][f] \in d2
      BY <1>5
    <3>1. CASE o \notin G \ (W \cup Thread)
      <4>1. hp.mark[o] = "black"
        BY <3>1, <1>5, <1>8
      <4>2. hp.ref[o][f] \in d1
        BY <4>1, <2>2 DEF Colours
      <4>3. rf[o] = hp.ref[o]
        BY <4>1, <1>6, <1>15
      <4> QED BY <4>2, <4>3, <2>1
    <3>2. CASE o \in G \ (W \cup Thread)
      <4>0. Traverse(hp, o) \subseteq T /\ Waits(o) /\ Kind[o] # "thread"
        BY <3>2, <1>1, <1>2, <1>10
      <4>1. CASE f \notin FieldsOf(o)
        BY <4>1, <1>5, <1>16, <2>1 DEF Fields, WellFormed
      <4>2. CASE Kind[o] = "closure" /\ f \in {"env", "p", "up"}
        <5>1. rf[o] = hp.ref[o]
          BY <4>2, <1>6, <1>9
        <5>2. hp.ref[o][f] \in Traverse(hp, o)
          BY <4>0, <4>2, TraverseIs DEF TraverseClosure
        <5> QED BY <5>1, <5>2, <4>0, <2>1
      <4>3. CASE Kind[o] = "proto" /\ f = "k"
        <5>1. rf[o] = hp.ref[o]
          BY <4>3, <1>6, <1>9
        <5>2. hp.ref[o][f] \in Traverse(hp, o)
          BY <4>0, <4>3, TraverseIs DEF TraverseProto
        <5> QED BY <5>1, <5>2, <4>0, <2>1
      <4>4. CASE Kind[o] = "table" /\ f \in {"mt", "key", "val"}
        <5>1. WeakMode(hp, o) = {}
          BY <3>2, <4>4, <1>9
        <5>2. Traverse(hp, o) = {hp.ref[o].mt} \cup IF hp.ref[o].val = Nil THEN {} ELSE {hp.ref[o].key, hp.ref[o].val}
          BY <4>0, <4>4, <5>1, TraverseIs DEF TraverseTable
        <5>3. CASE hp.ref[o].val = Nil
          <6>1. o \in E
            BY <3>2, <4>4, <5>1, <5>3, <1>9
          <6>2. rf[o].val = Nil /\ rf[o].key \in {Nil, Dead} /\ rf[o].mt = hp.ref[o].mt
            BY <6>1, <1>6 DEF Field
          <6> QED BY <4>0, <4>4, <5>2, <6>2, <2>1
        <5>4. CASE hp.ref[o].val # Nil
          <6>1. rf[o] = hp.ref[o]
            BY <5>4, <1>6
          <6> QED BY <4>0, <4>4, <5>2, <5>4, <6>1, <2>1
        <5> QED BY <5>3, <5>4
      <4> QED BY <4>0, <4>1, <4>2, <4>3, <4>4 DEF Waits, FieldsOf
    <3> QED BY <3>1, <3>2
  <2>4. \A t \in wk : hp.gcstate \in {"weak", "again", "tmu"} =>
          /\ X.ref[t].mt \in d2
          /\ X.ref[t].val # Nil => /\ "k" \in WeakMode(X, t) \/ X.ref[t].key \in d2
                                   /\ "v" \in WeakMode(X, t) \/ X.ref[t].val \in d2
    <3> SUFFICES ASSUME NEW t \in wk, hp.gcstate \in {"weak", "again", "tmu"}
                 PROVE  /\ rf[t].mt \in d2
                        /\ rf[t].val # Nil => /\ "k" \in WeakMode(X, t) \/ rf[t].key \in d2
                                              /\ "v" \in WeakMode(X, t) \/ rf[t].val \in d2
      BY <1>5
    <3>0. t \in Obj
      BY <1>0, <1>2, <1>9, HeapFields
    <3>1. rf[t].mt = hp.ref[t].mt /\ (rf[t].val # Nil => rf[t] = hp.ref[t]) /\ WeakMode(X, t) = WeakMode(hp, t)
      BY <3>0, <1>5, <1>6 DEF WeakMode, Field
    <3>2. CASE t \in hp.weak
      <4>1. /\ hp.ref[t].mt \in d1
            /\ hp.ref[t].val # Nil => /\ "k" \in WeakMode(hp, t) \/ hp.ref[t].key \in d1
                                      /\ "v" \in WeakMode(hp, t) \/ hp.ref[t].val \in d1
        BY <3>2, <2>2 DEF Colours
      <4> QED BY <3>1, <4>1, <2>1
    <3>3. CASE t \in W
      <4>1. Traverse(hp, t) \subseteq T /\ Traverse(hp, t) = TraverseTable(hp, t)
        BY <3>0, <3>3, <1>2, <1>9, <1>10, TraverseIs
      <4>2. /\ hp.ref[t].mt \in TraverseTable(hp, t)
            /\ hp.ref[t].val # Nil => /\ "k" \in WeakMode(hp, t) \/ hp.ref[t].key \in TraverseTable(hp, t)
                                      /\ "v" \in WeakMode(hp, t) \/ hp.ref[t].val \in TraverseTable(hp, t)
        BY DEF TraverseTable
      <4> QED BY <3>1, <4>1, <4>2, <2>1
    <3> QED BY <3>2, <3>3
  <2>5. \A t \in ag : hp.gcstate \in {"again", "tmu"} =>
          /\ Kind[t] = "thread" /\ X.ref[t].env \in d2
          /\ \A i \in Slots : X.stack[t][i] \in d2
    <3> SUFFICES ASSUME NEW t \in ag, hp.gcstate \in {"again", "tmu"}
                 PROVE  Kind[t] = "thread" /\ rf[t].env \in d2 /\ \A i \in Slots : hp.stack[t][i] \in d2
      BY <1>5
    <3>1. CASE t \in hp.grayagain
      <4>1. Kind[t] = "thread" /\ hp.ref[t].env \in d1 /\ \A i \in Slots : hp.stack[t][i] \in d1
        BY <3>1, <2>2 DEF Colours
      <4>2. t \in Obj /\ rf[t] = hp.ref[t]
        BY <3>1, <4>1, <1>0, <1>6, <1>9, HeapFields
      <4> QED BY <4>1, <4>2, <2>1
    <3>2. CASE t \in G \cap Thread
      <4>1. Kind[t] = "thread" /\ t \in Obj /\ rf[t] = hp.ref[t]
        BY <3>2, <1>1, <1>6, <1>9
      <4>2. Traverse(hp, t) \subseteq T /\ Traverse(hp, t) = TraverseStack(hp, t)
        BY <3>2, <4>1, <1>2, <1>10, TraverseIs
      <4>3. hp.ref[t].env \in TraverseStack(hp, t) /\ \A i \in Slots : hp.stack[t][i] \in TraverseStack(hp, t)
        BY DEF TraverseStack
      <4> QED BY <4>1, <4>2, <4>3, <2>1
    <3> QED BY <3>1, <3>2
  <2>6. /\ Main \in d2
        /\ hp.gcstate \in AtomicStages =>
             \A o \in Obj : X.mark[o] = "gray" /\ IsOpen(X, o) => Slot(X, o) \in d2
        /\ hp.gcstate \in {"weak", "again", "tmu"} => L \in d2 /\ X.ref[Main].mt \in d2
        /\ hp.gcstate = "tmu" => hp.tmudata \subseteq d2
    <3>1. Main \in d1 /\ (hp.gcstate = "tmu" => hp.tmudata \subseteq d1)
      BY <2>2 DEF Colours
    <3>2. hp.gcstate \in AtomicStages => \A o \in Obj : hp.mark[o] = "gray" /\ IsOpen(hp, o) => Slot(hp, o) \in d1
      BY <2>2 DEF Colours
    <3>3. hp.gcstate \in {"weak", "again", "tmu"} => L \in d1 /\ hp.ref[Main].mt \in d1
      BY <2>2 DEF Colours
    <3>4. rf[Main] = hp.ref[Main]
      BY HeapAssumption, <1>6, <1>9
    <3>5. \A o \in Obj : X.mark[o] = "gray" => hp.mark[o] = "gray"
      BY <1>5, <1>8
    <3> HIDE DEF d1, d2
    <3> QED BY <1>5, <1>14, <2>1, <3>1, <3>2, <3>3, <3>4, <3>5
  <2> HIDE DEF d1, d2, ag, wk
  <2> QED BY <1>5, <2>3, <2>4, <2>5, <2>6 DEF Colours, d2
<1>23. HInv(X, L, T, cal, ph, lt)
  BY <1>0, <1>5, <1>7, <1>16, <1>17, <1>18, <1>19, <1>20, <1>21, <1>22 DEF HInv
<1>24. X.gcstate \in MarkStates /\ T \subseteq Live(X) \cup {Nil, Dead}
  BY <1>5, <1>11, <1>13
<1>25. HInv(MarkAll(X, T), L, {}, cal, ph, lt)
  BY <1>23, <1>24, MarkAllKeeps
<1> QED BY <1>4, <1>25

LEMMA NewMarksFree ==
  ASSUME NEW hp, NEW L, NEW S, NEW P, NEW cal, NEW ph, NEW lt, HInv(hp, L, P, cal, ph, lt),
         hp.gcstate \in MarkStates, S \subseteq Live(hp) \cup {Nil, Dead}
  PROVE  /\ NewMarks(hp, S) \cap (hp.gray \cup hp.grayagain \cup hp.weak) = {}
         /\ \A o \in NewMarks(hp, S) : ~IsDead(hp, o)
<1> DEFINE N == NewMarks(hp, S)
<1>1. N \subseteq Live(hp) /\ \A o \in N : IsWhite(hp, o)
  BY NewMarksAre DEF HInv
<1>2. \A o \in hp.gray \cup hp.grayagain \cup hp.weak : hp.mark[o] = "gray"
  BY DEF HInv, Lists
<1> QED BY <1>1, <1>2 DEF IsWhite, White, Live

\* It does not matter whether gcstate is set before or after marking.
LEMMA MarkThenState ==
  ASSUME NEW hp \in Heap, NEW st, NEW L, NEW S, NEW cal, NEW ph, NEW lt,
         HInv([hp EXCEPT !.gcstate = st], L, S, cal, ph, lt), st \in MarkStates,
         S \subseteq Live(hp) \cup {Nil, Dead}
  PROVE  HInv([MarkAll(hp, S) EXCEPT !.gcstate = st], L, {}, cal, ph, lt)
<1> DEFINE X == [hp EXCEPT !.gcstate = st]
           N == NewMarks(hp, S)
<1>1. /\ X.gcstate = st /\ X.mark = hp.mark /\ X.ref = hp.ref /\ X.open = hp.open /\ X.stack = hp.stack
      /\ X.gray = hp.gray /\ X.grayagain = hp.grayagain /\ X.weak = hp.weak
      /\ X.currentwhite = hp.currentwhite
  BY DEF Heap
<1>2. X \in Heap
  BY DEF HInv
<1>3. Live(X) = Live(hp) /\ \A o : (IsDead(X, o) <=> IsDead(hp, o)) /\ (IsWhite(X, o) <=> IsWhite(hp, o))
  <2> HIDE DEF X
  <2> QED BY <1>1 DEF Live, IsDead, IsWhite, OtherWhite
<1>4. NewMarks(X, S) = N
  <2> HIDE DEF X
  <2>1. \A u : UpValue(X, u) = UpValue(hp, u)
    BY <1>1 DEF UpValue
  <2> QED BY <1>1, <2>1 DEF NewMarks, IsWhite
<1>5. HInv(X, L, S, cal, ph, lt) /\ X.gcstate \in MarkStates /\ S \subseteq Live(X) \cup {Nil, Dead}
  BY <1>1, <1>3
<1>6. NewMarks(X, S) \cap (X.gray \cup X.grayagain \cup X.weak) = {} /\ \A o \in NewMarks(X, S) : ~IsDead(X, o)
  <2> HIDE DEF X
  <2> QED BY <1>5, NewMarksFree
<1>10. HInv(MarkAll(X, S), L, {}, cal, ph, lt)
  <2> HIDE DEF X
  <2> QED BY <1>5, MarkAllKeeps
<1>7. MarkAll(hp, S) =
              [hp EXCEPT !.gray = @ \cup {o \in N : Waits(o)},
                         !.mark = [o \in Obj |-> IF o \in N THEN Colour(hp, o) ELSE @[o]]]
  <2>1. N \cap (hp.gray \cup hp.grayagain \cup hp.weak) = {} /\ \A o \in N : ~IsDead(hp, o)
    <3> HIDE DEF X, N
    <3> QED BY <1>1, <1>3, <1>4, <1>6
  <2> QED BY <2>1, MarkAllIs
<1>8. [o \in Obj |-> IF o \in N THEN Colour(X, o) ELSE X.mark[o]]
        = [o \in Obj |-> IF o \in N THEN Colour(hp, o) ELSE hp.mark[o]]
  <2> HIDE DEF X, N
  <2> QED BY <1>1 DEF Colour
<1>9. [MarkAll(hp, S) EXCEPT !.gcstate = st] = MarkAll(X, S)
  <2> DEFINE gr == {o \in N : Waits(o)}
             mk == [o \in Obj |-> IF o \in N THEN Colour(hp, o) ELSE hp.mark[o]]
  <2>1. MarkAll(X, S) = [X EXCEPT !.gray = X.gray \cup gr, !.mark = mk]
    <3> HIDE DEF X
    <3>1. MarkAll(X, S) =
              [X EXCEPT !.gray = @ \cup {o \in NewMarks(X, S) : Waits(o)},
                        !.mark = [o \in Obj |-> IF o \in NewMarks(X, S) THEN Colour(X, o) ELSE @[o]]]
      BY <1>2, <1>6, MarkAllIs
    <3> HIDE DEF N
    <3> QED BY <1>4, <1>8, <3>1
  <2>2. MarkAll(hp, S) = [hp EXCEPT !.gray = hp.gray \cup gr, !.mark = mk]
    BY <1>7
  <2> HIDE DEF gr, mk
  <2> QED BY <1>1, <2>1, <2>2 DEF Heap
<1> QED BY <1>10, <1>9

LEMMA MarkRootKeeps ==
  ASSUME NEW hp, NEW L, NEW cal, NEW ph, NEW lt, HInv(hp, L, {}, cal, ph, lt), hp.gcstate \in {"pause", "finalize"}
  PROVE  HInv(MarkRoot(hp), L, {}, cal, ph, lt)
<1> DEFINE Y == [hp EXCEPT !.gray = {}, !.grayagain = {}, !.weak = {}]
           X == [Y EXCEPT !.gcstate = "propagate"]
           S == {Main, hp.ref[Main].env, hp.ref[Main].mt}
<1>0. /\ hp \in Heap /\ L \in Thread /\ ~hp.bad /\ Fields(hp) /\ Places(hp) /\ Edges(hp, L) /\ Swept(hp)
      /\ Lists(hp) /\ FinalizersDone(hp, cal, ph, lt)
  BY DEF HInv
<1>1. MarkRoot(hp) = [MarkAll(Y, S) EXCEPT !.gcstate = "propagate"]
  BY DEF MarkRoot
<1>2. /\ X.gcstate = "propagate" /\ X.mark = hp.mark /\ X.ref = hp.ref /\ X.open = hp.open /\ X.stack = hp.stack
      /\ X.gray = {} /\ X.grayagain = {} /\ X.weak = {} /\ X.bad = hp.bad
      /\ X.currentwhite = hp.currentwhite
      /\ X.tosweep = hp.tosweep /\ X.tosweepstr = hp.tosweepstr /\ X.rootgc = hp.rootgc
      /\ X.tmudata = hp.tmudata /\ X.finalized = hp.finalized /\ Y.mark = hp.mark /\ Y.currentwhite = hp.currentwhite
  BY <1>0 DEF Heap
<1>3. X \in Heap /\ Y \in Heap
  BY <1>0 DEF Heap, GCStates, MarkStates
<1> HIDE DEF X, Y
<1>4. /\ Live(X) = Live(hp) /\ Live(Y) = Live(hp) /\ Marked(X) = Marked(hp)
      /\ \A o : /\ IsDead(X, o) <=> IsDead(hp, o)
                /\ IsWhite(X, o) <=> IsWhite(hp, o)
                /\ IsOpen(X, o) <=> IsOpen(hp, o)
                /\ Slot(X, o) = Slot(hp, o)
  BY <1>2 DEF Live, Marked, IsDead, IsWhite, OtherWhite, IsOpen, Slot
<1>5. S \subseteq Live(hp) \cup {Nil, Dead}
  BY <1>0 DEF Edges, Field
<1>6. Ahead(hp) = {} /\ Ahead(X) = {} /\ Marked(hp) \subseteq hp.tmudata
  BY <1>0, <1>2 DEF Swept, Ahead, SweepStates, MarkStates, AtomicStages
<1>7. \A o \in hp.tmudata : o \in Obj /\ Kind[o] = "udata" /\ hp.mark[o] # "gray"
  BY <1>0, HeapFields DEF Places, Lists
<1>8. Fields(X)
  BY <1>0, <1>2, <1>4 DEF Fields, WellFormed
<1>9. Places(X)
  BY <1>0, <1>2, <1>3, PlacesFrame
<1>10. Edges(X, L)
  BY <1>0, <1>2, <1>4 DEF Edges
<1>11. Swept(X)
  BY <1>0, <1>2, <1>4, <1>6 DEF Swept, SweepStates, MarkStates
<1>12. Lists(X)
  <2>1. \A o \in Obj : hp.mark[o] # "gray"
    BY <1>6, <1>7 DEF Marked
  <2> QED BY <1>0, <1>2, <1>4, <2>1 DEF Lists
<1>13. FinalizersDone(X, cal, ph, lt)
  BY <1>0, <1>2, <1>4 DEF FinalizersDone
<1>14. Colours(X, L, S)
  <2>1. \A o \in Obj : hp.mark[o] = "black" => o \in hp.tmudata
    BY <1>6 DEF Marked
  <2> QED BY <1>2, <2>1 DEF Colours, AtomicStages
<1>15. HInv(X, L, S, cal, ph, lt)
  BY <1>0, <1>2, <1>3, <1>8, <1>9, <1>10, <1>11, <1>12, <1>13, <1>14 DEF HInv
<1> QED BY <1>1, <1>3, <1>4, <1>5, <1>15, MarkThenState, SMTT(30) DEF X, MarkStates

\* A state that differs in lists and in what is done of atomic.
LEMMA ListsFrame ==
  ASSUME NEW hp, NEW g, NEW L, NEW P, NEW cal, NEW ph, NEW lt, HInv(hp, L, P, cal, ph, lt),
         g \in Heap, hp.gcstate \in MarkStates, g.gcstate \in MarkStates \ {"tmu"},
         g.mark = hp.mark, g.ref = hp.ref, g.open = hp.open, g.stack = hp.stack, g.bad = hp.bad,
         g.currentwhite = hp.currentwhite, g.tosweep = hp.tosweep, g.tosweepstr = hp.tosweepstr,
         g.rootgc = hp.rootgc, g.tmudata = hp.tmudata, g.finalized = hp.finalized
  PROVE  /\ L \in Thread /\ ~g.bad /\ Fields(g) /\ Places(g) /\ Edges(g, L) /\ Swept(g)
         /\ FinalizersDone(g, cal, ph, lt)
         /\ Live(g) = Live(hp) /\ Marked(g) = Marked(hp)
         /\ \A o : (IsOpen(g, o) <=> IsOpen(hp, o)) /\ Slot(g, o) = Slot(hp, o) /\ WeakMode(g, o) = WeakMode(hp, o)
<1>0. /\ hp \in Heap /\ L \in Thread /\ ~hp.bad /\ Fields(hp) /\ Places(hp) /\ Edges(hp, L) /\ Swept(hp)
      /\ Lists(hp) /\ FinalizersDone(hp, cal, ph, lt)
  BY DEF HInv
<1>1. /\ Live(g) = Live(hp) /\ Marked(g) = Marked(hp)
      /\ \A o : /\ IsDead(g, o) <=> IsDead(hp, o)
                /\ IsWhite(g, o) <=> IsWhite(hp, o)
                /\ IsOpen(g, o) <=> IsOpen(hp, o)
                /\ Slot(g, o) = Slot(hp, o) /\ WeakMode(g, o) = WeakMode(hp, o)
  BY DEF Live, Marked, IsDead, IsWhite, OtherWhite, IsOpen, Slot, WeakMode
<1>2. Fields(g)
  BY <1>0, <1>1 DEF Fields, WellFormed
<1>3. Places(g)
  BY <1>0, PlacesFrame
<1>4. Edges(g, L)
  BY <1>0, <1>1 DEF Edges
<1>5. Swept(g)
  <2>1. Ahead(g) = Ahead(hp)
    BY <1>1 DEF Ahead
  <2>2. hp.gcstate \notin SweepStates /\ hp.gcstate # "sweepstring"
    BY DEF SweepStates, MarkStates, AtomicStages
  <2> QED BY <1>0, <1>1, <2>1, <2>2 DEF Swept
<1>6. FinalizersDone(g, cal, ph, lt)
  BY <1>0, <1>1 DEF FinalizersDone
<1> QED BY <1>0, <1>1, <1>2, <1>3, <1>4, <1>5, <1>6

LEMMA AtomicUpvalsKeeps ==
  ASSUME NEW hp, NEW L, NEW cal, NEW ph, NEW lt, HInv(hp, L, {}, cal, ph, lt), hp.gcstate = "propagate"
  PROVE  HInv(AtomicUpvals(hp), L, {}, cal, ph, lt)
<1> DEFINE X == [hp EXCEPT !.gcstate = "upvals"]
           U == {u \in On("upval") : hp.open[u] # Closed /\ hp.mark[u] = "gray"}
           S == {UpValue(hp, uv) : uv \in U}
<1>0. /\ hp \in Heap /\ L \in Thread /\ Places(hp) /\ Edges(hp, L) /\ Lists(hp)
      /\ ph = "run" => Colours(hp, L, {})
  BY DEF HInv, MarkStates
<1>1. AtomicUpvals(hp) = [MarkAll(hp, S) EXCEPT !.gcstate = "upvals"]
  BY DEF AtomicUpvals, RemarkUpvals
<1>2. /\ X.gcstate = "upvals" /\ X.mark = hp.mark /\ X.ref = hp.ref /\ X.open = hp.open /\ X.stack = hp.stack
      /\ X.gray = hp.gray /\ X.grayagain = hp.grayagain /\ X.weak = hp.weak /\ X.bad = hp.bad
      /\ X.currentwhite = hp.currentwhite
      /\ X.tosweep = hp.tosweep /\ X.tosweepstr = hp.tosweepstr /\ X.rootgc = hp.rootgc
      /\ X.tmudata = hp.tmudata /\ X.finalized = hp.finalized
  BY <1>0 DEF Heap
<1>3. X \in Heap
  BY <1>0 DEF Heap, GCStates, MarkStates, AtomicStages
<1>4. "propagate" \in MarkStates /\ "upvals" \in MarkStates \ {"tmu"}
  BY DEF MarkStates, AtomicStages
<1> HIDE DEF X
<1>5. /\ L \in Thread /\ ~X.bad /\ Fields(X) /\ Places(X) /\ Edges(X, L) /\ Swept(X)
      /\ FinalizersDone(X, cal, ph, lt)
      /\ Live(X) = Live(hp) /\ Marked(X) = Marked(hp)
      /\ \A o : (IsOpen(X, o) <=> IsOpen(hp, o)) /\ Slot(X, o) = Slot(hp, o) /\ WeakMode(X, o) = WeakMode(hp, o)
  BY <1>2, <1>3, <1>4, ListsFrame
<1>6. U = {u \in Obj : IsOpen(hp, u) /\ hp.mark[u] = "gray"} /\ \A u \in U : UpValue(hp, u) = Slot(hp, u)
  <2>1. On("upval") = {o \in Obj : Kind[o] = "upval"}
    BY OnKinds DEF Kinds
  <2>2. \A o \in Obj : IsOpen(hp, o) => Kind[o] = "upval"
    BY <1>0 DEF Places
  <2> QED BY <1>0, <2>1, <2>2, OpenFacts DEF IsOpen
<1>7. S \subseteq Live(hp) \cup {Nil, Dead}
  <2>1. \A u \in U : u \in Live(hp)
    BY <1>0, <1>6, WhiteFacts DEF Marked
  <2>2. \A u \in U : UpValue(hp, u) \in Live(hp) \cup {Nil}
    BY <1>0, <1>6, <2>1 DEF Edges
  <2> QED BY <2>2
<1>8. Lists(X)
  BY <1>0, <1>2, <1>4, <1>5 DEF Lists
<1>9. ph = "run" => Colours(X, L, S)
  <2> HAVE ph = "run"
  <2>1. \A u \in Obj : X.mark[u] = "gray" /\ IsOpen(X, u) => Slot(X, u) \in S
    BY <1>2, <1>5, <1>6
  <2>2. Colours(hp, L, {}) BY <1>0
  <2>3. \A o \in Obj : X.mark[o] = "black" /\ o \notin X.tmudata
                         => \A f \in Field : X.ref[o][f] \in Marked(X) \cup S \cup {Nil, Dead}
    BY <1>2, <1>5, <2>2 DEF Colours
  <2>4. Main \in Marked(X) \cup S \cup {Nil, Dead}
    BY <1>2, <1>5, <2>2 DEF Colours
  <2> HIDE DEF S
  <2> QED BY <1>2, <2>1, <2>3, <2>4 DEF Colours
<1>10. HInv(X, L, S, cal, ph, lt)
  BY <1>3, <1>5, <1>8, <1>9 DEF HInv
<1> HIDE DEF S
<1> QED BY <1>0, <1>1, <1>4, <1>7, <1>10, MarkThenState DEF X

LEMMA AtomicWeakKeeps ==
  ASSUME NEW hp, NEW L, NEW cal, NEW ph, NEW lt, HInv(hp, L, {}, cal, ph, lt), hp.gcstate = "upvals", hp.gray = {}
  PROVE  HInv(AtomicWeak(hp, L), L, {}, cal, ph, lt)
<1> DEFINE Y == [hp EXCEPT !.gray = hp.weak, !.weak = {}]
           X == [Y EXCEPT !.gcstate = "weak"]
           S == {L, hp.ref[Main].mt}
<1>0. /\ hp \in Heap /\ L \in Thread /\ Places(hp) /\ Edges(hp, L) /\ Lists(hp)
      /\ ph = "run" => Colours(hp, L, {})
  BY DEF HInv, MarkStates, AtomicStages
<1>1. AtomicWeak(hp, L) = [MarkAll(Y, S) EXCEPT !.gcstate = "weak"]
  BY DEF AtomicWeak
<1>2. /\ X.gcstate = "weak" /\ X.mark = hp.mark /\ X.ref = hp.ref /\ X.open = hp.open /\ X.stack = hp.stack
      /\ X.gray = hp.weak /\ X.grayagain = hp.grayagain /\ X.weak = {} /\ X.bad = hp.bad
      /\ X.currentwhite = hp.currentwhite
      /\ X.tosweep = hp.tosweep /\ X.tosweepstr = hp.tosweepstr /\ X.rootgc = hp.rootgc
      /\ X.tmudata = hp.tmudata /\ X.finalized = hp.finalized /\ Y.mark = hp.mark /\ Y.currentwhite = hp.currentwhite
  BY <1>0 DEF Heap
<1>3. X \in Heap /\ Y \in Heap
  BY <1>0, ZenonT(30) DEF Heap, GCStates, MarkStates, AtomicStages
<1>4. "upvals" \in MarkStates /\ "weak" \in MarkStates \ {"tmu"}
  BY DEF MarkStates, AtomicStages
<1> HIDE DEF X, Y
<1>5. /\ L \in Thread /\ ~X.bad /\ Fields(X) /\ Places(X) /\ Edges(X, L) /\ Swept(X)
      /\ FinalizersDone(X, cal, ph, lt)
      /\ Live(X) = Live(hp) /\ Marked(X) = Marked(hp)
      /\ \A o : (IsOpen(X, o) <=> IsOpen(hp, o)) /\ Slot(X, o) = Slot(hp, o) /\ WeakMode(X, o) = WeakMode(hp, o)
  <2>1. HInv(hp, L, {}, cal, ph, lt) /\ hp.gcstate \in MarkStates /\ X.gcstate \in MarkStates \ {"tmu"}
    BY <1>2, <1>4
  <2>2. X \in Heap /\ X.mark = hp.mark /\ X.ref = hp.ref /\ X.open = hp.open /\ X.stack = hp.stack /\ X.bad = hp.bad
        /\ X.currentwhite = hp.currentwhite /\ X.tosweep = hp.tosweep /\ X.tosweepstr = hp.tosweepstr
        /\ X.rootgc = hp.rootgc /\ X.tmudata = hp.tmudata /\ X.finalized = hp.finalized
    BY <1>2, <1>3
  <2> QED BY <2>1, <2>2, ListsFrame, ZenonT(60)
<1>6. Live(Y) = Live(hp) /\ S \subseteq Live(hp) \cup {Nil, Dead}
  <2>1. Live(Y) = Live(hp) BY <1>2 DEF Live, IsDead, OtherWhite
  <2> QED BY <1>0, <2>1 DEF Edges, Field
<1>7. Lists(X)
  BY <1>0, <1>2, <1>4, <1>5 DEF Lists
<1>8. ph = "run" => Colours(X, L, S)
  <2> HAVE ph = "run"
  <2>2. Colours(hp, L, {}) BY <1>0
  <2> DEFINE d == Marked(X) \cup S \cup {Nil, Dead}
  <2>3. Marked(hp) \cup {} \cup {Nil, Dead} \subseteq d BY <1>5
  <2>4. \A o \in Obj : X.mark[o] = "black" /\ o \notin X.tmudata => \A f \in Field : X.ref[o][f] \in d
    BY <1>2, <2>2, <2>3 DEF Colours
  <2>5. Main \in d
    BY <2>2, <2>3 DEF Colours
  <2>6. \A u \in Obj : X.mark[u] = "gray" /\ IsOpen(X, u) => Slot(X, u) \in d
    BY <1>2, <1>5, <2>2, <2>3 DEF Colours, AtomicStages
  <2>7. L \in d /\ X.ref[Main].mt \in d
    BY <1>2
  <2> HIDE DEF d
  <2> QED BY <1>2, <2>4, <2>5, <2>6, <2>7 DEF Colours, d
<1>9. HInv(X, L, S, cal, ph, lt)
  BY <1>3, <1>5, <1>7, <1>8 DEF HInv
<1> HIDE DEF S
<1> QED BY <1>3, <1>1, <1>4, <1>6, <1>9, MarkThenState DEF X

LEMMA AtomicAgainKeeps ==
  ASSUME NEW hp, NEW L, NEW cal, NEW ph, NEW lt, HInv(hp, L, {}, cal, ph, lt), hp.gcstate = "weak", hp.gray = {}
  PROVE  HInv(AtomicAgain(hp), L, {}, cal, ph, lt)
<1> DEFINE X == AtomicAgain(hp)
<1>0. /\ hp \in Heap /\ L \in Thread /\ Places(hp) /\ Edges(hp, L) /\ Lists(hp)
      /\ ph = "run" => Colours(hp, L, {})
  BY DEF HInv, MarkStates, AtomicStages
<1>2. /\ X.gcstate = "again" /\ X.mark = hp.mark /\ X.ref = hp.ref /\ X.open = hp.open /\ X.stack = hp.stack
      /\ X.gray = hp.grayagain /\ X.grayagain = {} /\ X.weak = hp.weak /\ X.bad = hp.bad
      /\ X.currentwhite = hp.currentwhite
      /\ X.tosweep = hp.tosweep /\ X.tosweepstr = hp.tosweepstr /\ X.rootgc = hp.rootgc
      /\ X.tmudata = hp.tmudata /\ X.finalized = hp.finalized
  BY <1>0 DEF Heap, AtomicAgain
<1>3. X \in Heap
  BY <1>0 DEF Heap, GCStates, MarkStates, AtomicStages, AtomicAgain
<1>4. "weak" \in MarkStates /\ "again" \in MarkStates \ {"tmu"}
  BY DEF MarkStates, AtomicStages
<1> HIDE DEF X
<1>5. /\ L \in Thread /\ ~X.bad /\ Fields(X) /\ Places(X) /\ Edges(X, L) /\ Swept(X)
      /\ FinalizersDone(X, cal, ph, lt)
      /\ Live(X) = Live(hp) /\ Marked(X) = Marked(hp)
      /\ \A o : (IsOpen(X, o) <=> IsOpen(hp, o)) /\ Slot(X, o) = Slot(hp, o) /\ WeakMode(X, o) = WeakMode(hp, o)
  BY <1>2, <1>3, <1>4, ListsFrame, ZenonT(30)
<1>7. Lists(X)
  BY <1>0, <1>2, <1>4, <1>5 DEF Lists
<1>8. ph = "run" => Colours(X, L, {})
  <2> HAVE ph = "run"
  <2>2. Colours(hp, L, {}) BY <1>0
  <2> QED BY <1>2, <1>5, <2>2 DEF Colours, AtomicStages
<1> QED BY <1>3, <1>5, <1>7, <1>8 DEF HInv, X

\* Userdata that are out of reach and have a finalizer are kept, with all they refer to.
LEMMA AtomicTmuKeeps ==
  ASSUME NEW hp, NEW L, NEW cal, NEW ph, NEW lt, HInv(hp, L, {}, cal, ph, lt), hp.gcstate = "again"
  PROVE  HInv(AtomicTmu(hp), L, {}, cal, ph, lt)
<1> DEFINE sep  == {u \in hp.rootgc \cap On("udata") : (IsWhite(hp, u) \/ FALSE) /\ u \notin hp.finalized}
           gone == {u \in sep : hp.ref[u].mt \in HasGC}
           tm   == hp.tmudata \cup gone
           rt   == hp.rootgc \ gone
           fi   == hp.finalized \cup sep
           mk   == [o \in Obj |-> IF o \in tm THEN hp.currentwhite ELSE hp.mark[o]]
           Z    == [hp EXCEPT !.tmudata = tm, !.rootgc = rt, !.finalized = fi]
           Y    == [Z EXCEPT !.mark = mk]
           X    == [Y EXCEPT !.gcstate = "tmu"]
<1>0. /\ hp \in Heap /\ L \in Thread /\ ~hp.bad /\ Fields(hp) /\ Places(hp) /\ Edges(hp, L) /\ Swept(hp)
      /\ Lists(hp) /\ FinalizersDone(hp, cal, ph, lt)
      /\ ph = "run" => Colours(hp, L, {})
  BY DEF HInv, MarkStates, AtomicStages
<1>1. AtomicTmu(hp) = [MarkAll(Y, tm) EXCEPT !.gcstate = "tmu"]
  <2>1. SeparateUdata(hp, FALSE) = Z
    BY DEF SeparateUdata
  <2>2. Z.tmudata = tm /\ Z.currentwhite = hp.currentwhite /\ Z.mark = hp.mark
    <3> HIDE DEF tm, rt, fi
    <3> QED BY <1>0 DEF Heap
  <2>3. MarkTmu(Z) = MarkAll([Z EXCEPT !.mark = [o \in Obj |-> IF o \in Z.tmudata THEN Z.currentwhite ELSE @[o]]], Z.tmudata)
    BY DEF MarkTmu
  <2>4. MarkTmu(Z) = MarkAll(Y, tm)
    <3> HIDE DEF Z, tm
    <3> QED BY <2>2, <2>3
  <2> QED BY <2>1, <2>4 DEF AtomicTmu
<1>2. /\ sep \subseteq hp.rootgc /\ sep \subseteq Obj /\ gone \subseteq sep
      /\ \A u \in sep : Kind[u] = "udata" /\ IsWhite(hp, u) /\ u \notin hp.finalized
      /\ \A u \in hp.rootgc : Kind[u] = "udata" /\ IsWhite(hp, u) /\ u \notin hp.finalized => u \in sep
      /\ \A u \in gone : hp.ref[u].mt \in HasGC
      /\ \A u \in sep \ gone : hp.ref[u].mt \notin HasGC
  <2>1. On("udata") = {o \in Obj : Kind[o] = "udata"}
    BY OnKinds DEF Kinds
  <2> QED BY <1>0, <2>1, HeapFields
<1>3. /\ tm \subseteq Obj /\ rt \subseteq Obj /\ fi \subseteq Obj
      /\ mk \in [Obj -> White \cup {"gray", "black", "free"}]
  BY <1>0, <1>2, HeapFields
<1>4. /\ X.gcstate = "tmu" /\ X.mark = mk /\ X.ref = hp.ref /\ X.open = hp.open /\ X.stack = hp.stack
      /\ X.gray = hp.gray /\ X.grayagain = hp.grayagain /\ X.weak = hp.weak /\ X.bad = hp.bad
      /\ X.currentwhite = hp.currentwhite
      /\ X.tosweep = hp.tosweep /\ X.tosweepstr = hp.tosweepstr /\ X.rootgc = rt
      /\ X.tmudata = tm /\ X.finalized = fi /\ Y.mark = mk /\ Y.currentwhite = hp.currentwhite
  <2> HIDE DEF mk, tm, rt, fi
  <2> QED BY <1>0 DEF Heap
<1>5. X \in Heap /\ Y \in Heap
  <2> HIDE DEF mk, tm, rt, fi
  <2> QED BY <1>0, <1>3, ZenonT(30) DEF Heap, GCStates, MarkStates, AtomicStages
<1>6. /\ \A o \in Obj : /\ o \in tm => mk[o] = hp.currentwhite
                        /\ o \notin tm => mk[o] = hp.mark[o]
      /\ \A o : o \in tm <=> o \in hp.tmudata \/ o \in gone
      /\ \A o : o \in rt <=> o \in hp.rootgc /\ o \notin gone
      /\ \A o : o \in fi <=> o \in hp.finalized \/ o \in sep
  OBVIOUS
<1> HIDE DEF X, Y, mk, tm, rt, fi, sep, gone
<1>7. /\ OtherWhite(X) = OtherWhite(hp) /\ OtherWhite(hp) # hp.currentwhite /\ hp.currentwhite \in White
      /\ OtherWhite(hp) \in White /\ "gray" \notin White /\ "black" \notin White /\ "free" \notin White
      /\ White = {hp.currentwhite, OtherWhite(hp)}
  BY <1>0, <1>4, WhiteFacts, HeapFields DEF OtherWhite
<1>8. tm \subseteq Live(hp) /\ \A u \in tm : Kind[u] = "udata" /\ u \in fi
  <2>1. Ahead(hp) = {}
    BY <1>0 DEF Swept, Ahead, SweepStates
  <2>2. \A o \in Obj : ~IsDead(hp, o)
    BY <1>0, <2>1 DEF Swept
  <2>3. \A o \in sep : o \in Live(hp)
    BY <1>2, <1>7, <2>2 DEF Live, IsWhite
  <2>4. \A u \in hp.tmudata : Kind[u] = "udata" /\ u \in hp.finalized /\ u \in Live(hp)
    BY <1>0 DEF Places, Edges
  <2> QED BY <1>2, <1>6, <2>3, <2>4
<1>9. /\ Live(X) = Live(hp) /\ Live(Y) = Live(hp)
      /\ \A o \in Obj : (X.mark[o] = "free") <=> (hp.mark[o] = "free")
      /\ \A o \in Obj : IsDead(X, o) => IsDead(hp, o)
      /\ \A o \in Obj : IsWhite(X, o) => IsWhite(hp, o) \/ o \in tm
  <2>1. \A o \in tm : hp.mark[o] # "free" /\ ~IsDead(hp, o) BY <1>8 DEF Live
  <2>2. OtherWhite(Y) = OtherWhite(hp) BY <1>4 DEF OtherWhite
  <2> QED BY <1>4, <1>6, <1>7, <2>1, <2>2 DEF Live, IsDead, IsWhite
<1>10. \A o : (IsOpen(X, o) <=> IsOpen(hp, o)) /\ Slot(X, o) = Slot(hp, o) /\ WeakMode(X, o) = WeakMode(hp, o)
  BY <1>4 DEF IsOpen, Slot, WeakMode
<1>11. Fields(X)
  BY <1>0, <1>4, <1>9, <1>10 DEF Fields, WellFormed
<1>12. Places(X)
  <2>1. \A o \in Obj : IsOpen(hp, o) => hp.open[o][1] \in Obj
    BY <1>0, OpenFacts, ThreadIs
  <2>2. Main \in rt
    BY <1>0, <1>2, <1>6, HeapAssumption DEF Places
  <2>3. \A o \in rt \cup tm \cup fi \cup hp.tosweepstr : X.mark[o] # "free"
    BY <1>0, <1>2, <1>6, <1>9, HeapFields DEF Places
  <2>4. \A o \in rt : o \notin tm /\ Kind[o] # "string" /\ ~IsOpen(X, o)
    BY <1>0, <1>6, <1>10 DEF Places
  <2>5. (\A o \in fi : Kind[o] = "udata") /\ tm \subseteq fi
    BY <1>0, <1>2, <1>6, <1>8 DEF Places
  <2>6. hp.tosweep \subseteq rt \cup tm
    BY <1>0, <1>6 DEF Places
  <2>7. \A o \in Obj : X.mark[o] # "free" /\ Kind[o] # "string" /\ ~IsOpen(X, o) => o \in rt \cup tm
    BY <1>0, <1>6, <1>9, <1>10 DEF Places
  <2>8. \A o \in Obj : IsOpen(X, o) => Kind[o] = "upval" /\ X.mark[o] # "free" /\ X.mark[hp.open[o][1]] # "free"
    BY <1>0, <1>9, <1>10, <2>1 DEF Places
  <2>9. \A t \in Thread, i \in Slots : X.mark[t] = "free" => hp.stack[t][i] = Nil
    BY <1>0, <1>9, ThreadIs DEF Places
  <2>10. \A o \in hp.tosweepstr : Kind[o] = "string"
    BY <1>0 DEF Places
  <2> QED BY <1>4, <2>2, <2>3, <2>4, <2>5, <2>6, <2>7, <2>8, <2>9, <2>10 DEF Places
<1>13. Edges(X, L)
  BY <1>0, <1>4, <1>8, <1>9, <1>10 DEF Edges
<1>14. Swept(X)
  <2>1. Ahead(X) = Ahead(hp)
    BY <1>4, <1>10 DEF Ahead
  <2>2. hp.gcstate \notin SweepStates /\ hp.gcstate # "sweepstring" /\ "tmu" \in MarkStates
    BY DEF SweepStates, MarkStates, AtomicStages
  <2> QED BY <1>0, <1>4, <1>9, <2>1, <2>2 DEF Swept
<1>15. Lists(X)
  <2>0. "again" \in MarkStates /\ "tmu" \in MarkStates
    BY DEF MarkStates, AtomicStages
  <2>1. \A o \in hp.gray \cup hp.grayagain \cup hp.weak : o \in Obj /\ o \notin tm
    BY <1>0, <1>8, HeapFields DEF Lists
  <2>2. \A o \in Obj : X.mark[o] \in {"gray", "black"} => X.mark[o] = hp.mark[o]
    BY <1>4, <1>6, <1>7
  <2>3. \A o \in hp.gray \cup hp.grayagain \cup hp.weak : X.mark[o] = hp.mark[o]
    BY <1>4, <1>6, <2>1
  <2> QED BY <1>0, <1>4, <1>10, <2>0, <2>2, <2>3 DEF Lists
<1>16. FinalizersDone(X, cal, ph, lt)
  <2> SUFFICES ASSUME NEW u \in Obj, Kind[u] = "udata", X.mark[u] # "free"
               PROVE  /\ cal[u] = IF hp.ref[u].mt \in HasGC /\ u \in fi /\ u \notin tm THEN 1 ELSE 0
                      /\ u \in tm => hp.ref[u].mt \in HasGC
                      /\ IsDead(X, u) \/ IsWhite(X, u) \/ (ph = "closing" /\ u \notin lt) => u \in fi
    BY <1>4 DEF FinalizersDone
  <2>1. hp.mark[u] # "free"
    BY <1>9
  <2>2. /\ cal[u] = IF hp.ref[u].mt \in HasGC /\ u \in hp.finalized /\ u \notin hp.tmudata THEN 1 ELSE 0
        /\ u \in hp.tmudata => hp.ref[u].mt \in HasGC
        /\ IsDead(hp, u) \/ (ph = "closing" /\ u \notin lt) => u \in hp.finalized
    BY <1>0, <2>1 DEF FinalizersDone
  <2>3. IsWhite(X, u) => u \in fi
    <3>1. ~IsOpen(hp, u)
      BY <1>0 DEF Places
    <3>2. u \in hp.rootgc \cup hp.tmudata
      BY <1>0, <2>1, <3>1 DEF Places
    <3> QED BY <3>2, <1>2, <1>6, <1>8, <1>9
  <2> QED BY <2>2, <2>3, <1>2, <1>6, <1>9
<1>17. ph = "run" => Colours(X, L, tm)
  <2> HAVE ph = "run"
  <2> DEFINE d1 == Marked(hp) \cup {} \cup {Nil, Dead}
             d2 == Marked(X) \cup tm \cup {Nil, Dead}
  <2>1. d1 \subseteq d2 /\ tm \subseteq d2
    BY <1>4, <1>6 DEF Marked
  <2>2. Colours(hp, L, {})
    BY <1>0
  <2>3. \A o \in Obj : X.mark[o] = "black" => hp.mark[o] = "black" /\ o \notin hp.tmudata
    BY <1>4, <1>6, <1>7
  <2>4. \A o \in Obj : X.mark[o] = "gray" => hp.mark[o] = "gray"
    BY <1>4, <1>6, <1>7
  <2>5. \A o \in Obj : X.mark[o] = "black" => \A f \in Field : X.ref[o][f] \in d1
    BY <1>4, <2>2, <2>3 DEF Colours
  <2>6. \A o \in Obj : X.mark[o] = "gray" /\ IsOpen(X, o) => Slot(X, o) \in d1
    BY <1>10, <2>2, <2>4 DEF Colours, AtomicStages
  <2>7. /\ L \in d1 /\ X.ref[Main].mt \in d1 /\ Main \in d1
        /\ \A t \in X.weak : /\ X.ref[t].mt \in d1
                             /\ X.ref[t].val # Nil =>
                                  /\ "k" \in WeakMode(X, t) \/ X.ref[t].key \in d1
                                  /\ "v" \in WeakMode(X, t) \/ X.ref[t].val \in d1
        /\ \A t \in X.grayagain : /\ Kind[t] = "thread" /\ X.ref[t].env \in d1
                                  /\ \A i \in Slots : X.stack[t][i] \in d1
    BY <1>4, <1>10, <2>2 DEF Colours
  <2> HIDE DEF d1, d2
  <2> QED BY <1>4, <2>1, <2>5, <2>6, <2>7 DEF Colours, d2
<1>18. HInv(X, L, tm, cal, ph, lt)
  BY <1>0, <1>4, <1>5, <1>11, <1>12, <1>13, <1>14, <1>15, <1>16, <1>17 DEF HInv
<1> QED BY <1>1, <1>5, <1>8, <1>9, <1>18, MarkThenState DEF X, MarkStates, AtomicStages

LEMMA ColoursMore ==
  ASSUME NEW hp, NEW L, NEW S, NEW cal, NEW ph, NEW lt, HInv(hp, L, {}, cal, ph, lt)
  PROVE  HInv(hp, L, S, cal, ph, lt)
<1>1. ASSUME Colours(hp, L, {}) PROVE Colours(hp, L, S)
  <2> DEFINE d1 == Marked(hp) \cup {} \cup {Nil, Dead}
             d2 == Marked(hp) \cup S \cup {Nil, Dead}
  <2>1. d1 \subseteq d2
    OBVIOUS
  <2>2. /\ \A o \in Obj : hp.mark[o] = "black" /\ (o \in hp.tmudata => hp.gcstate = "tmu")
                            => \A f \in Field : hp.ref[o][f] \in d1
        /\ Main \in d1
        /\ hp.gcstate \in AtomicStages =>
             \A o \in Obj : hp.mark[o] = "gray" /\ IsOpen(hp, o) => Slot(hp, o) \in d1
        /\ hp.gcstate \in {"weak", "again", "tmu"} =>
             /\ L \in d1 /\ hp.ref[Main].mt \in d1
             /\ \A t \in hp.weak :
                  /\ hp.ref[t].mt \in d1
                  /\ hp.ref[t].val # Nil =>
                       /\ "k" \in WeakMode(hp, t) \/ hp.ref[t].key \in d1
                       /\ "v" \in WeakMode(hp, t) \/ hp.ref[t].val \in d1
        /\ hp.gcstate \in {"again", "tmu"} =>
             \A t \in hp.grayagain : /\ Kind[t] = "thread" /\ hp.ref[t].env \in d1
                                     /\ \A i \in Slots : hp.stack[t][i] \in d1
        /\ hp.gcstate = "tmu" => hp.tmudata \subseteq d1
    BY <1>1 DEF Colours
  <2> HIDE DEF d1, d2
  <2> QED BY <2>1, <2>2 DEF Colours, d2
<1> QED BY <1>1 DEF HInv

LEMMA StringMarks ==
  ASSUME NEW hp, NEW S, S \subseteq {o \in Obj : Kind[o] = "string"}
  PROVE  NewMarks(hp, S) = {o \in S : IsWhite(hp, o)}
<1>1. On("udata") = {o \in Obj : Kind[o] = "udata"} /\ On("upval") = {o \in Obj : Kind[o] = "upval"}
  BY OnKinds DEF Kinds
<1> DEFINE A == {o \in S \cap Obj : IsWhite(hp, o)}
           B == {o \in {UpValue(hp, u) : u \in A \cap On("upval")} \cap Obj : IsWhite(hp, o)}
           C == {o \in (UNION {{hp.ref[u].mt, hp.ref[u].env} : u \in (A \cup B) \cap On("udata")}) \cap Obj : IsWhite(hp, o)}
<1>2. NewMarks(hp, S) = A \cup B \cup C
  BY DEF NewMarks
<1>3. A \cap On("upval") = {} /\ A \cap On("udata") = {}
  BY <1>1
<1>4. B = {}
  BY <1>3
<1>5. (A \cup B) \cap On("udata") = {}
  BY <1>3, <1>4
<1>6. C = {}
  BY <1>5
<1>7. A = {o \in S : IsWhite(hp, o)}
  OBVIOUS
<1> HIDE DEF A, B, C
<1> QED BY <1>2, <1>4, <1>6, <1>7

\* At the end of the mark phase everything that is still white is out of reach: it may be
\* swept.  Only weak tables refer to such objects, and those entries are removed.
LEMMA AtomicEndKeeps ==
  ASSUME NEW hp, NEW L, NEW cal, NEW lt, HInv(hp, L, {}, cal, "run", lt), hp.gcstate = "tmu", hp.gray = {}
  PROVE  HInv(AtomicEnd(hp), L, {}, cal, "run", lt)
<1> DEFINE e(t) == hp.ref[t]
           used == {t \in hp.weak : e(t).val # Nil}
           C == {t \in used : IsCleared(hp, e(t).key, TRUE) \/ IsCleared(hp, e(t).val, FALSE)}
           S0 == UNION {{e(t).key} \cup (IF IsCleared(hp, e(t).key, TRUE) THEN {} ELSE {e(t).val}) : t \in used}
           S == S0 \cap On("string")
           A == MarkAll(hp, S)
           rf == [o \in Obj |-> IF o \in C THEN RemoveEntry(A.ref[o]) ELSE A.ref[o]]
           g1 == ClearTable(hp)
           g == AtomicEnd(hp)
           str == Alive(g1) \cap On("string")
<1>0. /\ hp \in Heap /\ L \in Thread /\ ~hp.bad /\ Fields(hp) /\ Places(hp) /\ Edges(hp, L) /\ Swept(hp)
      /\ Lists(hp) /\ hp.gcstate \in MarkStates
  BY DEF HInv, MarkStates, AtomicStages
<1>1. On("string") = {o \in Obj : Kind[o] = "string"}
  BY OnKinds DEF Kinds
<1>2. /\ \A t \in hp.weak : t \in Obj /\ t \in Marked(hp) /\ t \in Live(hp) /\ Kind[t] = "table" /\ hp.mark[t] = "gray"
      /\ \A t \in used : t \in hp.weak
  BY <1>0, HeapFields, WhiteFacts DEF Lists, Marked
<1>3. /\ \A t \in used : e(t).val \in Live(hp) /\ e(t).key \in Live(hp) \cup {Nil, Dead}
  BY <1>0, <1>2 DEF Edges, Field
<1>4. S \subseteq {o \in Obj : Kind[o] = "string"} /\ S \subseteq Live(hp) \cup {Nil, Dead}
  <2>1. S0 \subseteq Live(hp) \cup {Nil, Dead}
    BY <1>3, ZenonT(30)
  <2> QED BY <1>1, <2>1
<1>5. /\ \A t \in used : e(t).key \in On("string") => e(t).key \in S
      /\ \A t \in used : e(t).val \in On("string") /\ ~IsCleared(hp, e(t).key, TRUE) => e(t).val \in S
  <2> DEFINE part(t) == {e(t).key} \cup (IF IsCleared(hp, e(t).key, TRUE) THEN {} ELSE {e(t).val})
  <2>1. \A t \in used : part(t) \subseteq S0
    OBVIOUS
  <2>2. \A t \in used : e(t).key \in part(t) /\ (~IsCleared(hp, e(t).key, TRUE) => e(t).val \in part(t))
    OBVIOUS
  <2> HIDE DEF part, used, S0
  <2> QED BY <2>1, <2>2
<1>6. C \subseteq used /\ \A t \in used \ C : ~IsCleared(hp, e(t).key, TRUE) /\ ~IsCleared(hp, e(t).val, FALSE)
  OBVIOUS
<1>7. g1 = [A EXCEPT !.ref = rf, !.cleared = (C # {})]
  BY DEF ClearTable
<1> HIDE DEF S, S0, C
<1>8. HInv(A, L, {}, cal, "run", lt)
  <2>1. HInv(hp, L, S, cal, "run", lt)
    BY ColoursMore
  <2> QED BY <2>1, <1>0, <1>4, MarkAllKeeps
<1>9. /\ NewMarks(hp, S) = {o \in S : IsWhite(hp, o)}
      /\ A = [hp EXCEPT !.gray = @ \cup {o \in NewMarks(hp, S) : Waits(o)},
                        !.mark = [o \in Obj |-> IF o \in NewMarks(hp, S) THEN Colour(hp, o) ELSE @[o]]]
  <2>1. HInv(hp, L, S, cal, "run", lt)
    BY ColoursMore
  <2>2. /\ NewMarks(hp, S) \cap (hp.gray \cup hp.grayagain \cup hp.weak) = {}
        /\ \A o \in NewMarks(hp, S) : ~IsDead(hp, o)
    BY <2>1, <1>0, <1>4, NewMarksFree
  <2>3. NewMarks(hp, S) = {o \in S : IsWhite(hp, o)}
    BY <1>4, StringMarks
  <2>4. A = [hp EXCEPT !.gray = @ \cup {o \in NewMarks(hp, S) : Waits(o)},
                       !.mark = [o \in Obj |-> IF o \in NewMarks(hp, S) THEN Colour(hp, o) ELSE @[o]]]
    BY <1>0, <2>2, MarkAllIs
  <2> QED BY <2>3, <2>4
<1>10. /\ A.gray = {} /\ A.ref = hp.ref /\ A.weak = hp.weak /\ A.grayagain = hp.grayagain
       /\ A.gcstate = "tmu" /\ A.tosweep = hp.tosweep
       /\ \A o \in Obj : /\ hp.mark[o] \in {"gray", "black"} => A.mark[o] \in {"gray", "black"}
                         /\ o \in S /\ IsWhite(hp, o) => A.mark[o] \in {"gray", "black"}
  <2> DEFINE N == NewMarks(hp, S)
             gr == {o \in N : Waits(o)}
             mk == [o \in Obj |-> IF o \in N THEN Colour(hp, o) ELSE hp.mark[o]]
  <2>1. gr = {}
    BY <1>4, <1>9 DEF Waits
  <2>2. \A o \in Obj : mk[o] = IF o \in N THEN Colour(hp, o) ELSE hp.mark[o]
    OBVIOUS
  <2>3. A = [hp EXCEPT !.gray = hp.gray \cup gr, !.mark = mk]
    BY <1>9
  <2> HIDE DEF gr, mk, A
  <2>4. A.gray = hp.gray \cup gr /\ A.mark = mk /\ A.ref = hp.ref /\ A.weak = hp.weak /\ A.grayagain = hp.grayagain
        /\ A.gcstate = hp.gcstate /\ A.tosweep = hp.tosweep
    BY <2>3, <1>0 DEF Heap
  <2> QED BY <2>1, <2>2, <2>4, <1>9 DEF Colour
<1>11. /\ A \in Heap /\ ~A.bad /\ Fields(A) /\ Places(A) /\ Edges(A, L) /\ Swept(A)
       /\ Lists(A) /\ FinalizersDone(A, cal, "run", lt) /\ Colours(A, L, {})
  BY <1>8, <1>10 DEF HInv, MarkStates, AtomicStages
<1> HIDE DEF A
<1>12. g = [g1 EXCEPT !.currentwhite = OtherWhite(g1), !.gcstate = "sweepstring", !.tosweepstr = str, !.tosweep = g1.rootgc]
  BY DEF AtomicEnd
<1>13. /\ g1.currentwhite = A.currentwhite /\ g1.mark = A.mark /\ g1.rootgc = A.rootgc
       /\ OtherWhite(g1) = OtherWhite(A)
  <2>1. g1.currentwhite = A.currentwhite /\ g1.mark = A.mark /\ g1.rootgc = A.rootgc
    <3> HIDE DEF rf
    <3> QED BY <1>7, <1>11 DEF Heap
  <2> QED BY <2>1 DEF OtherWhite
<1>14. rf \in [Obj -> [Field -> Obj \cup {Nil, Dead}]]
  <2>1. \A o \in Obj : A.ref[o] \in [Field -> Obj \cup {Nil, Dead}]
    BY <1>11, HeapFields
  <2>2. \A o \in Obj : RemoveEntry(A.ref[o]) \in [Field -> Obj \cup {Nil, Dead}]
    BY <2>1, RemoveEntryIs
  <2> QED BY <2>1, <2>2
<1>15. str = {o \in Obj : A.mark[o] # "free" /\ Kind[o] = "string"}
  BY <1>1, <1>13 DEF Alive
<1> HIDE DEF g, g1, rf, str
<1>16. /\ g.currentwhite = OtherWhite(A) /\ g.gcstate = "sweepstring" /\ g.tosweepstr = str
       /\ g.tosweep = A.rootgc /\ g.mark = A.mark /\ g.ref = rf /\ g.open = A.open /\ g.stack = A.stack
       /\ g.gray = A.gray /\ g.grayagain = A.grayagain /\ g.weak = A.weak /\ g.bad = A.bad
       /\ g.rootgc = A.rootgc /\ g.tmudata = A.tmudata /\ g.finalized = A.finalized
  BY <1>7, <1>11, <1>12, <1>13 DEF Heap
<1>17. g \in Heap
  <2>1. OtherWhite(A) \in White
    BY <1>11, WhiteFacts
  <2>2. str \subseteq Obj
    BY <1>15
  <2>3. A.rootgc \subseteq Obj
    BY <1>11, HeapFields
  <2>4. (C # {}) \in BOOLEAN
    OBVIOUS
  <2>5. g1 \in Heap
    BY <1>7, <1>11, <1>14, <2>4 DEF Heap
  <2> QED BY <1>12, <1>13, <2>1, <2>2, <2>3, <2>5 DEF Heap, GCStates, SweepStates
<1>18. /\ White = {A.currentwhite, OtherWhite(A)} /\ A.currentwhite # OtherWhite(A)
       /\ OtherWhite(g) = A.currentwhite
       /\ "gray" \notin White /\ "black" \notin White /\ "free" \notin White
  <2>1. A.currentwhite \in White /\ White = {A.currentwhite, OtherWhite(A)} /\ A.currentwhite # OtherWhite(A)
       /\ "gray" \notin White /\ "black" \notin White /\ "free" \notin White
    BY <1>11, WhiteFacts, HeapFields
  <2> QED BY <2>1, <1>16 DEF OtherWhite, White
<1>19. /\ \A o \in Obj : ~IsDead(A, o)
       /\ A.mark \in [Obj -> White \cup {"gray", "black", "free"}]
  <2>1. Ahead(A) = {}
    BY <1>10, <1>11 DEF Swept, Ahead, SweepStates
  <2> QED BY <1>11, <2>1, HeapFields DEF Swept
<1>20. /\ Live(g) = Marked(A) /\ Marked(g) = Marked(A)
       /\ \A o \in Obj : IsDead(g, o) <=> IsWhite(A, o)
       /\ \A o : (IsOpen(g, o) <=> IsOpen(A, o)) /\ Slot(g, o) = Slot(A, o)
  BY <1>16, <1>18, <1>19 DEF Live, Marked, IsDead, IsWhite, IsOpen, Slot
<1>21. \A t \in C : t \in Obj /\ Kind[t] = "table" /\ A.mark[t] # "free" /\ ~IsOpen(A, t)
  <2>1. \A t \in C : t \in Obj /\ Kind[t] = "table" /\ hp.mark[t] = "gray"
    BY <1>2, <1>6
  <2>2. \A t \in C : A.mark[t] \in {"gray", "black"}
    BY <2>1, <1>10
  <2> QED BY <2>1, <2>2, <1>11 DEF Places
<1>22. /\ Fields(g)
       /\ \A o \in Obj : /\ o \in C => /\ g.ref[o].val = Nil /\ g.ref[o].key \in {Nil, Dead}
                                       /\ \A f \in Field \ {"val", "key"} : g.ref[o][f] = A.ref[o][f]
                         /\ o \notin C => g.ref[o] = A.ref[o]
  <2>1. g.ref = [o \in Obj |-> IF o \in C THEN RemoveEntry(A.ref[o]) ELSE A.ref[o]]
    BY <1>16 DEF rf
  <2>2. A \in Heap /\ g \in Heap /\ Fields(A) /\ g.open = A.open
    BY <1>11, <1>16, <1>17
  <2>3. \A o \in Obj : (g.mark[o] = "free") <=> (A.mark[o] = "free")
    BY <1>16
  <2>4. Fields(g)
    BY <1>21, <2>1, <2>2, <2>3, EntriesRemoved
  <2>5. \A o \in Obj : A.ref[o] \in [Field -> Obj \cup {Nil, Dead}]
    BY <2>2, HeapFields
  <2> QED BY <2>1, <2>4, <2>5, RemoveEntryIs
<1>23. \A t \in used \ C : /\ A.ref[t].val \in Marked(A) \cup {Nil}
                           /\ A.ref[t].key \in Marked(A) \cup {Nil, Dead}
  <2> SUFFICES ASSUME NEW t \in used \ C
               PROVE  e(t).val \in Marked(A) \cup {Nil} /\ e(t).key \in Marked(A) \cup {Nil, Dead}
    BY <1>10
  <2>0. Live(hp) \subseteq Obj /\ \A o \in Live(hp) : IsWhite(hp, o) \/ o \in Marked(hp)
    BY <1>0, WhiteFacts DEF Live
  <2>1. ~IsCleared(hp, e(t).key, TRUE) /\ ~IsCleared(hp, e(t).val, FALSE)
    BY <1>6
  <2>2. e(t).val \in Live(hp) /\ e(t).key \in Live(hp) \cup {Nil, Dead}
    BY <1>3
  <2>3. \A o \in Obj : o \in Marked(hp) \/ (o \in S /\ IsWhite(hp, o)) => o \in Marked(A)
    BY <1>10 DEF Marked
  <2>4. ASSUME e(t).key \in Live(hp) PROVE e(t).key \in Marked(A)
    <3>1. CASE e(t).key \in On("string")
      BY <3>1, <1>5, <2>0, <2>3, <2>4
    <3>2. CASE e(t).key \notin On("string")
      <4>1. ~IsWhite(hp, e(t).key)
        BY <3>2, <2>0, <2>1, <2>4, HeapAssumption DEF IsCleared
      <4> QED BY <4>1, <2>0, <2>3, <2>4
    <3> QED BY <3>1, <3>2
  <2>5. e(t).val \in Marked(A)
    <3>1. CASE e(t).val \in On("string")
      BY <3>1, <1>5, <2>0, <2>1, <2>2, <2>3
    <3>2. CASE e(t).val \notin On("string")
      <4>1. ~IsWhite(hp, e(t).val)
        BY <3>2, <2>0, <2>1, <2>2, HeapAssumption DEF IsCleared
      <4> QED BY <4>1, <2>0, <2>2, <2>3
    <3> QED BY <3>1, <3>2
  <2> QED BY <2>2, <2>4, <2>5
<1>24. /\ Main \in Marked(A) /\ L \in Marked(A) /\ A.tmudata \subseteq Marked(A)
       /\ A.ref[Main].mt \in Marked(A) \cup {Nil, Dead}
       /\ \A o \in Obj : A.mark[o] = "black" => \A f \in Field : A.ref[o][f] \in Marked(A) \cup {Nil, Dead}
       /\ \A o \in Obj : A.mark[o] = "gray" /\ IsOpen(A, o) => Slot(A, o) \in Marked(A) \cup {Nil, Dead}
       /\ \A t \in A.weak : A.ref[t].mt \in Marked(A) \cup {Nil, Dead}
       /\ \A t \in A.grayagain : /\ Kind[t] = "thread" /\ A.ref[t].env \in Marked(A) \cup {Nil, Dead}
                                 /\ \A i \in Slots : A.stack[t][i] \in Marked(A) \cup {Nil, Dead}
  <2> DEFINE d == Marked(A) \cup {} \cup {Nil, Dead}
  <2>1. /\ Main \in d /\ L \in d /\ A.tmudata \subseteq d /\ A.ref[Main].mt \in d
        /\ \A o \in Obj : A.mark[o] = "black" => \A f \in Field : A.ref[o][f] \in d
        /\ \A o \in Obj : A.mark[o] = "gray" /\ IsOpen(A, o) => Slot(A, o) \in d
        /\ \A t \in A.weak : A.ref[t].mt \in d
        /\ \A t \in A.grayagain : /\ Kind[t] = "thread" /\ A.ref[t].env \in d
                                  /\ \A i \in Slots : A.stack[t][i] \in d
    <3>1. Colours(A, L, {}) /\ A.gcstate = "tmu"
      BY <1>10, <1>11
    <3> HIDE DEF d
    <3> QED BY <3>1 DEF Colours, d, AtomicStages
  <2>2. Main \notin {Nil, Dead} /\ L \notin {Nil, Dead} /\ \A u \in A.tmudata : u \notin {Nil, Dead}
    BY <1>0, <1>11, HeapAssumption, HeapFields, ThreadIs, ZenonT(30)
  <2>3. d = Marked(A) \cup {Nil, Dead}
    OBVIOUS
  <2> HIDE DEF d
  <2> QED BY <2>1, <2>2, <2>3
<1>25. \A o \in Marked(A) : /\ o \in Obj /\ o \in Live(A)
                            /\ A.mark[o] = "black" \/ o \in A.grayagain \/ o \in A.weak \/ Kind[o] = "string" \/ IsOpen(A, o)
  <2>1. "tmu" \in MarkStates
    BY DEF MarkStates, AtomicStages
  <2> QED BY <1>10, <1>11, <2>1, WhiteFacts DEF Lists, Marked
<1>26. \A o \in Marked(A), f \in Field \ {"key", "val"} : A.ref[o][f] \in Marked(A) \cup {Nil, Dead}
  <2> SUFFICES ASSUME NEW o \in Marked(A), NEW f \in Field \ {"key", "val"}
               PROVE  A.ref[o][f] \in Marked(A) \cup {Nil, Dead}
    OBVIOUS
  <2>0. o \in Obj /\ (f \notin FieldsOf(o) => A.ref[o][f] = Nil)
    BY <1>11, <1>25 DEF Fields, WellFormed
  <2>1. CASE A.mark[o] = "black"
    BY <2>0, <2>1, <1>24
  <2>2. CASE o \in A.grayagain
    <3>1. Kind[o] = "thread"
      BY <2>2, <1>24
    <3>2. FieldsOf(o) \subseteq IF o = Main THEN {"mt", "env"} ELSE {"env"}
      BY <3>1 DEF FieldsOf
    <3> QED BY <2>0, <2>2, <3>2, <1>24
  <2>3. CASE o \in A.weak
    <3>1. Kind[o] = "table"
      BY <2>3, <1>2, <1>10
    <3>2. FieldsOf(o) = {"mt", "key", "val"}
      BY <3>1 DEF FieldsOf
    <3> QED BY <2>0, <2>3, <3>2, <1>24
  <2>4. CASE Kind[o] = "string"
    BY <2>0, <2>4 DEF FieldsOf
  <2>5. CASE IsOpen(A, o)
    BY <2>0, <2>5, <1>11 DEF Fields, WellFormed, NoFields
  <2> QED BY <2>1, <2>2, <2>3, <2>4, <2>5, <1>25
<1>27. \A o \in Marked(A) : o \notin C => /\ A.ref[o].val \in Marked(A) \cup {Nil, Dead}
                                          /\ A.ref[o].val # Nil => A.ref[o].key \in Marked(A) \cup {Nil, Dead}
  <2> SUFFICES ASSUME NEW o \in Marked(A), o \notin C, A.ref[o].val # Nil
               PROVE  /\ A.ref[o].val \in Marked(A) \cup {Nil, Dead}
                      /\ A.ref[o].key \in Marked(A) \cup {Nil, Dead}
    OBVIOUS
  <2>0. o \in Obj /\ Kind[o] = "table" /\ ~IsOpen(A, o)
    <3>1. o \in Obj /\ "val" \in FieldsOf(o)
      BY <1>11, <1>25 DEF Fields, WellFormed, Field
    <3>2. Kind[o] = "table"
      BY <3>1, HeapAssumption DEF FieldsOf
    <3> QED BY <3>1, <3>2, <1>11 DEF Places
  <2>1. CASE A.mark[o] = "black"
    BY <2>0, <2>1, <1>24 DEF Field
  <2>2. CASE o \in A.weak
    <3>1. o \in used \ C
      BY <2>2, <1>10
    <3> QED BY <3>1, <1>23
  <2>3. o \notin A.grayagain
    BY <2>0, <1>24
  <2> QED BY <2>0, <2>1, <2>2, <2>3, <1>25
<1>28. Places(g)
  <2>1. \A o \in str : o \in Obj /\ g.mark[o] # "free" /\ Kind[o] = "string"
    BY <1>15, <1>16
  <2> QED BY <1>11, <1>16, <1>20, <2>1 DEF Places
<1>29. Edges(g, L)
  <2>0. Marked(A) \subseteq Obj /\ Nil \notin Obj /\ Dead \notin Obj /\ Nil # Dead
    BY HeapAssumption DEF Marked
  <2>1. \A o \in Marked(A) : \A f \in Field \ {"key"} : g.ref[o][f] \in Marked(A) \cup {Nil}
    <3> SUFFICES ASSUME NEW o \in Marked(A), NEW f \in Field \ {"key"}
                 PROVE  g.ref[o][f] \in Marked(A) \cup {Nil}
      OBVIOUS
    <3>1. A.ref[o][f] # Dead
      BY <1>11, <1>25, <2>0 DEF Edges, Live
    <3>2. CASE o \in C
      BY <3>1, <3>2, <1>22, <1>26, <2>0
    <3>3. CASE o \notin C
      BY <3>1, <3>3, <1>22, <1>26, <1>27, <2>0
    <3> QED BY <3>2, <3>3
  <2>2. \A o \in Marked(A) : g.ref[o].val # Nil => g.ref[o].key \in Marked(A) \cup {Nil, Dead}
    BY <1>22, <1>27, <2>0
  <2>3. \A o \in Marked(A) : IsOpen(A, o) => Slot(A, o) \in Marked(A) \cup {Nil}
    <3> SUFFICES ASSUME NEW o \in Marked(A), IsOpen(A, o) PROVE Slot(A, o) \in Marked(A) \cup {Nil}
      OBVIOUS
    <3>1. A.mark[o] = "gray"
      BY <1>11, <2>0 DEF Lists, Marked
    <3>2. Slot(A, o) \in Marked(A) \cup {Nil, Dead}
      BY <3>1, <1>24, <2>0
    <3>3. Slot(A, o) # Dead
      BY <1>11, <2>0, OpenFacts DEF Value
    <3> QED BY <3>2, <3>3
  <2>4. \A t \in Thread, i \in Slots : t \in Marked(A) => A.stack[t][i] \in Marked(A) \cup {Nil}
    <3> SUFFICES ASSUME NEW t \in Thread, NEW i \in Slots, t \in Marked(A) PROVE A.stack[t][i] \in Marked(A) \cup {Nil}
      OBVIOUS
    <3>1. Kind[t] = "thread" /\ t \in Obj
      BY ThreadIs
    <3>2. A.mark[t] # "black" /\ ~IsOpen(A, t)
      BY <3>1, <1>11 DEF Lists, Places
    <3>3. t \notin A.weak
      BY <3>1, <1>2, <1>10
    <3>4. t \in A.grayagain
      BY <3>1, <3>2, <3>3, <1>25
    <3>5. A.stack[t][i] \in Value
      BY <1>11, HeapFields
    <3> QED BY <3>4, <3>5, <1>24, <2>0 DEF Value
  <2> QED BY <1>16, <1>20, <1>24, <2>1, <2>2, <2>3, <2>4 DEF Edges
<1>30. Swept(g)
  <2>1. \A o \in Obj : A.mark[o] # "free" => o \in A.tmudata \cup Ahead(g)
    <3> SUFFICES ASSUME NEW o \in Obj, A.mark[o] # "free" PROVE o \in A.tmudata \cup Ahead(g)
      OBVIOUS
    <3>1. CASE Kind[o] = "string"
      BY <3>1, <1>15, <1>16 DEF Ahead
    <3>2. CASE Kind[o] # "string" /\ ~IsOpen(A, o)
      BY <3>2, <1>11, <1>16 DEF Ahead, Places
    <3>3. CASE IsOpen(A, o)
      <4> DEFINE t == A.open[o][1]
      <4>1. t \in Obj /\ Kind[t] = "thread" /\ A.mark[t] # "free"
        BY <3>3, <1>11, OpenFacts, ThreadIs DEF Places
      <4>2. ~IsOpen(A, t) /\ t \notin A.tmudata
        BY <4>1, <1>11 DEF Places
      <4>3. t \in A.rootgc
        BY <4>1, <4>2, <1>11 DEF Places
      <4> QED BY <3>3, <4>3, <1>16, <1>20 DEF Ahead
    <3> QED BY <3>1, <3>2, <3>3
  <2>2. \A o \in Obj : IsDead(g, o) => o \in Ahead(g)
    <3>1. \A o \in Obj : IsWhite(A, o) => A.mark[o] # "free" /\ o \notin Marked(A)
      BY <1>18 DEF IsWhite, Marked
    <3> QED BY <3>1, <2>1, <1>20, <1>24
  <2>3. Marked(g) \subseteq g.tmudata \cup Ahead(g)
    BY <2>1, <1>16, <1>20 DEF Marked
  <2> QED BY <2>2, <2>3, <1>16 DEF Swept, SweepStates
<1>31. Lists(g)
  BY <1>11, <1>16, <1>20 DEF Lists, MarkStates, AtomicStages
<1>32. FinalizersDone(g, cal, "run", lt)
  <2> SUFFICES ASSUME NEW u \in Obj, Kind[u] = "udata", A.mark[u] # "free"
               PROVE  /\ cal[u] = IF A.ref[u].mt \in HasGC /\ u \in A.finalized /\ u \notin A.tmudata THEN 1 ELSE 0
                      /\ u \in A.tmudata => A.ref[u].mt \in HasGC
                      /\ IsDead(g, u) => u \in A.finalized
    <3>1. \A u \in Obj : Kind[u] = "udata" => g.ref[u] = A.ref[u]
      BY <1>21, <1>22
    <3> QED BY <3>1, <1>16 DEF FinalizersDone
  <2> QED BY <1>10, <1>11, <1>20 DEF FinalizersDone
<1> QED BY <1>0, <1>11, <1>16, <1>17, <1>22, <1>28, <1>29, <1>30, <1>31, <1>32 DEF HInv, g, MarkStates, AtomicStages

\* The slots of a stack are written without a barrier: threads are never black.
LEMMA StackKeeps ==
  ASSUME NEW hp, NEW L, NEW cal, NEW ph, NEW lt, HInv(hp, L, {}, cal, ph, lt),
         ph = "run" => hp.gcstate \notin AtomicStages,
         NEW t \in Thread, hp.mark[t] # "free", NEW s \in [Slots -> Value],
         \A i \in Slots : s[i] \in Live(hp) \cup {Nil} \/ s[i] = hp.stack[t][i]
  PROVE  HInv([hp EXCEPT !.stack = [hp.stack EXCEPT ![t] = s]], L, {}, cal, ph, lt)
<1> DEFINE st == [hp.stack EXCEPT ![t] = s]
           g == [hp EXCEPT !.stack = st]
<1>0. /\ hp \in Heap /\ L \in Thread /\ ~hp.bad /\ Fields(hp) /\ Places(hp) /\ Edges(hp, L) /\ Swept(hp)
      /\ Lists(hp) /\ FinalizersDone(hp, cal, ph, lt)
      /\ ph = "run" /\ hp.gcstate \in MarkStates => Colours(hp, L, {})
  BY DEF HInv
<1>1. st \in [Thread -> [Slots -> Value]] /\ st[t] = s /\ \A x \in Thread : x # t => st[x] = hp.stack[x]
  BY <1>0, HeapFields
<1> HIDE DEF st
<1>2. /\ g.mark = hp.mark /\ g.gray = hp.gray /\ g.gcstate = hp.gcstate /\ g.currentwhite = hp.currentwhite
      /\ g.bad = hp.bad /\ g.ref = hp.ref /\ g.open = hp.open /\ g.stack = st
      /\ g.grayagain = hp.grayagain /\ g.weak = hp.weak /\ g.tosweep = hp.tosweep
      /\ g.tosweepstr = hp.tosweepstr /\ g.rootgc = hp.rootgc /\ g.tmudata = hp.tmudata
      /\ g.finalized = hp.finalized
  BY <1>0 DEF Heap
<1>3. g \in Heap
  BY <1>0, <1>1 DEF Heap
<1> HIDE DEF g
<1>4. /\ Live(g) = Live(hp) /\ Marked(g) = Marked(hp)
      /\ \A o : /\ IsDead(g, o) <=> IsDead(hp, o)
                /\ IsWhite(g, o) <=> IsWhite(hp, o)
                /\ IsOpen(g, o) <=> IsOpen(hp, o)
                /\ WeakMode(g, o) = WeakMode(hp, o)
  BY <1>2 DEF Live, Marked, IsDead, IsWhite, OtherWhite, IsOpen, WeakMode
<1>5. Fields(g)
  BY <1>0, <1>2, <1>4 DEF Fields, WellFormed
<1>6. Places(g)
  <2>1. \A x \in Thread, i \in Slots : g.mark[x] = "free" => g.stack[x][i] = Nil
    BY <1>0, <1>1, <1>2 DEF Places
  <2> QED BY <1>0, <1>2, <1>4, <2>1 DEF Places
<1>7. Edges(g, L)
  <2>1. \A x \in Thread, i \in Slots : x \in Live(hp) => st[x][i] \in Live(hp) \cup {Nil}
    BY <1>0, <1>1 DEF Edges
  <2>2. \A o \in Live(hp) : IsOpen(hp, o) => Slot(g, o) \in Live(hp) \cup {Nil}
    <3> SUFFICES ASSUME NEW o \in Live(hp), IsOpen(hp, o) PROVE Slot(g, o) \in Live(hp) \cup {Nil}
      OBVIOUS
    <3> DEFINE x == hp.open[o][1]
               i == hp.open[o][2]
    <3>1. x \in Thread /\ i \in Slots
      BY <1>0, OpenFacts DEF Live
    <3>2. hp.stack[x][i] \in Live(hp) \cup {Nil}
      BY <1>0 DEF Edges, Slot
    <3>3. Slot(g, o) = st[x][i]
      BY <1>2 DEF Slot
    <3> QED BY <1>1, <3>1, <3>2, <3>3
  <2> QED BY <1>0, <1>2, <1>4, <2>1, <2>2 DEF Edges
<1>8. Swept(g)
  <2>1. Ahead(g) = Ahead(hp)
    BY <1>2, <1>4 DEF Ahead
  <2> QED BY <1>0, <1>2, <1>4, <2>1 DEF Swept
<1>9. Lists(g)
  BY <1>0, <1>2, <1>4 DEF Lists
<1>10. FinalizersDone(g, cal, ph, lt)
  BY <1>0, <1>2, <1>4 DEF FinalizersDone
<1>11. ph = "run" /\ g.gcstate \in MarkStates => Colours(g, L, {})
  BY <1>0, <1>2, <1>4 DEF Colours, AtomicStages
<1> QED BY <1>0, <1>2, <1>3, <1>5, <1>6, <1>7, <1>8, <1>9, <1>10, <1>11 DEF HInv, g, st

\* What an object may be made with.
NewFields(o, r) ==
    /\ \A f \in Field : f \notin FieldsOf(o) => r[f] = Nil
    /\ r.mt = Nil /\ r.val = Nil /\ r.v = Nil /\ r.k = Nil /\ r.key = Nil
    /\ r.env = Nil \/ (r.env \in Obj /\ Kind[r.env] = "table")
    /\ r.p = Nil \/ (r.p \in Obj /\ Kind[r.p] = "proto")
    /\ r.up = Nil \/ (r.up \in Obj /\ Kind[r.up] = "upval")
    /\ Kind[o] = "closure" => r.up # Nil

\* New objects are white and refer to live ones.
LEMMA NewObjectKeeps ==
  ASSUME NEW hp, NEW L, NEW cal, NEW cal2, NEW ph, NEW lt, NEW lt2, HInv(hp, L, {}, cal, ph, lt), hp.gcstate \notin AtomicStages,
         NEW o \in Obj, hp.mark[o] = "free", Kind[o] \notin {"upval", "string"},
         NEW r \in [Field -> Live(hp) \cup {Nil}], NewFields(o, r),
         \A u \in Obj \ {o} : cal2[u] = cal[u],
         Kind[o] = "udata" => cal2[o] = 0,
         lt \subseteq lt2, Kind[o] = "udata" /\ ph = "closing" => o \in lt2
  PROVE  /\ HInv([hp EXCEPT !.mark = [hp.mark EXCEPT ![o] = hp.currentwhite], !.rootgc = @ \cup {o},
                            !.ref = [hp.ref EXCEPT ![o] = r]], L, {}, cal2, ph, lt2)
<1> DEFINE mk == [hp.mark EXCEPT ![o] = hp.currentwhite]
           rf == [hp.ref EXCEPT ![o] = r]
           rt == hp.rootgc \cup {o}
           g == [hp EXCEPT !.mark = mk, !.rootgc = rt, !.ref = rf]
<1>0. /\ hp \in Heap /\ L \in Thread /\ ~hp.bad /\ Fields(hp) /\ Places(hp) /\ Edges(hp, L) /\ Swept(hp)
      /\ Lists(hp) /\ FinalizersDone(hp, cal, ph, lt)
      /\ ph = "run" /\ hp.gcstate \in MarkStates => Colours(hp, L, {})
  BY DEF HInv
<1>1. /\ mk \in [Obj -> White \cup {"gray", "black", "free"}] /\ mk[o] = hp.currentwhite
      /\ \A x \in Obj : x # o => mk[x] = hp.mark[x]
      /\ rf \in [Obj -> [Field -> Obj \cup {Nil, Dead}]] /\ rf[o] = r
      /\ \A x \in Obj : x # o => rf[x] = hp.ref[x]
      /\ rt \subseteq Obj /\ \A x : x \in rt <=> x \in hp.rootgc \/ x = o
  BY <1>0, HeapFields DEF Live
<1> HIDE DEF mk, rf, rt
<1>2. /\ g.mark = mk /\ g.gray = hp.gray /\ g.gcstate = hp.gcstate /\ g.currentwhite = hp.currentwhite
      /\ g.bad = hp.bad /\ g.ref = rf /\ g.open = hp.open /\ g.stack = hp.stack
      /\ g.grayagain = hp.grayagain /\ g.weak = hp.weak /\ g.tosweep = hp.tosweep
      /\ g.tosweepstr = hp.tosweepstr /\ g.rootgc = rt /\ g.tmudata = hp.tmudata
      /\ g.finalized = hp.finalized
  BY <1>0 DEF Heap
<1>3. g \in Heap
  BY <1>0, <1>1 DEF Heap
<1> HIDE DEF g
<1>4. /\ OtherWhite(g) = OtherWhite(hp) /\ OtherWhite(hp) # hp.currentwhite /\ hp.currentwhite \in White
      /\ OtherWhite(hp) \in White /\ "gray" \notin White /\ "black" \notin White /\ "free" \notin White
  BY <1>0, <1>2, WhiteFacts, HeapFields DEF OtherWhite
<1>5. /\ Live(g) = Live(hp) \cup {o} /\ Marked(g) = Marked(hp)
      /\ \A x \in Obj : IsDead(g, x) <=> IsDead(hp, x)
      /\ \A x : (IsOpen(g, x) <=> IsOpen(hp, x)) /\ Slot(g, x) = Slot(hp, x)
      /\ \A x \in Obj : g.mark[x] \in {"gray", "black"} => x # o
  BY <1>1, <1>2, <1>4 DEF Live, Marked, IsDead, IsOpen, Slot
<1>6. /\ ~IsOpen(hp, o) /\ o \notin hp.rootgc /\ o \notin hp.tmudata /\ o \notin hp.finalized /\ o \notin hp.tosweepstr
      /\ o \notin Live(hp)
  BY <1>0 DEF Places, Live
<1>7. Fields(g)
  <2>1. WellFormed(o, r) /\ (Kind[o] = "closure" => r.up # Nil) /\ mk[o] # "free"
    BY <1>1, <1>4 DEF NewFields, WellFormed, Value
  <2> QED BY <1>0, <1>1, <1>2, <1>5, <1>6, <2>1 DEF Fields, WellFormed
<1>8. Places(g)
  <2>0. \A x \in Obj : mk[x] = "free" <=> hp.mark[x] = "free" /\ x # o
    BY <1>1, <1>4
  <2>1. \A x \in Obj : IsOpen(hp, x) => hp.open[x][1] \in Obj /\ mk[hp.open[x][1]] # "free"
    <3>1. \A x \in Obj : IsOpen(hp, x) => hp.open[x][1] \in Obj
      BY <1>0, OpenFacts, ThreadIs
    <3> QED BY <1>0, <2>0, <3>1 DEF Places
  <2>2. \A x \in rt \cup hp.tmudata \cup hp.finalized \cup hp.tosweepstr : mk[x] # "free"
    BY <1>0, <1>1, <2>0, HeapFields DEF Places
  <2>3. \A x \in rt : x \notin hp.tmudata /\ Kind[x] # "string" /\ ~IsOpen(hp, x)
    BY <1>0, <1>1, <1>6 DEF Places
  <2>4. Main \in rt /\ hp.tosweep \subseteq rt \cup hp.tmudata
    BY <1>0, <1>1 DEF Places
  <2>5. \A x \in Obj : mk[x] # "free" /\ Kind[x] # "string" /\ ~IsOpen(hp, x) => x \in rt \cup hp.tmudata
    BY <1>0, <1>1, <2>0 DEF Places
  <2>6. \A x \in Obj : IsOpen(hp, x) => Kind[x] = "upval" /\ mk[x] # "free" /\ mk[hp.open[x][1]] # "free"
    BY <1>0, <2>0, <2>1 DEF Places
  <2>7. \A x \in Thread, i \in Slots : mk[x] = "free" => hp.stack[x][i] = Nil
    BY <1>0, <2>0, ThreadIs DEF Places
  <2> QED BY <1>0, <1>2, <1>5, <2>2, <2>3, <2>4, <2>5, <2>6, <2>7 DEF Places
<1>9. Edges(g, L)
  <2>1. \A x \in Live(g) : \A f \in Field \ {"key"} : rf[x][f] \in Live(g) \cup {Nil}
    BY <1>0, <1>1, <1>5 DEF Edges, Live
  <2>2. \A x \in Live(g) : rf[x].val # Nil => rf[x].key \in Live(g) \cup {Nil, Dead}
    BY <1>0, <1>1, <1>5 DEF Edges, Live, NewFields
  <2>3. \A x \in Live(g) : IsOpen(hp, x) => Slot(hp, x) \in Live(g) \cup {Nil}
    BY <1>0, <1>5, <1>6 DEF Edges
  <2>4. \A t \in Thread, i \in Slots : t \in Live(g) => hp.stack[t][i] \in Live(g) \cup {Nil}
    <3>1. \A t \in Thread, i \in Slots : t = o => hp.stack[t][i] = Nil
      BY <1>0 DEF Places
    <3> QED BY <1>0, <1>5, <3>1 DEF Edges
  <2> QED BY <1>0, <1>2, <1>5, <2>1, <2>2, <2>3, <2>4 DEF Edges
<1>10. Swept(g)
  <2>1. Ahead(g) = Ahead(hp)
    BY <1>2, <1>5 DEF Ahead
  <2> QED BY <1>0, <1>2, <1>5, <2>1 DEF Swept
<1>11. Lists(g)
  <2>1. \A x \in Obj : g.mark[x] \in {"gray", "black"} => g.mark[x] = hp.mark[x]
    BY <1>1, <1>2, <1>5
  <2>2. \A x \in hp.gray \cup hp.grayagain \cup hp.weak : x \in Obj /\ (hp.mark[x] = "gray" => g.mark[x] = "gray")
    BY <1>0, <1>1, <1>2, HeapFields
  <2> QED BY <1>0, <1>2, <1>5, <2>1, <2>2 DEF Lists
<1>12. FinalizersDone(g, cal2, ph, lt2)
  <2> SUFFICES ASSUME NEW u \in Obj, Kind[u] = "udata", mk[u] # "free"
               PROVE  /\ cal2[u] = IF rf[u].mt \in HasGC /\ u \in hp.finalized /\ u \notin hp.tmudata THEN 1 ELSE 0
                      /\ u \in hp.tmudata => rf[u].mt \in HasGC
                      /\ IsDead(g, u) \/ (ph = "closing" /\ u \notin lt2) => u \in hp.finalized
    BY <1>2 DEF FinalizersDone, AtomicStages
  <2>1. CASE u = o
    <3>1. ~IsDead(g, o)
      BY <1>1, <1>2, <1>4 DEF IsDead
    <3> QED BY <2>1, <3>1, <1>6
  <2>2. CASE u # o
    BY <2>2, <1>0, <1>1, <1>5 DEF FinalizersDone
  <2> QED BY <2>1, <2>2
<1>13. ph = "run" /\ g.gcstate \in MarkStates => Colours(g, L, {})
  <2>1. \A x \in Obj : g.mark[x] = "black" => hp.mark[x] = "black" /\ g.ref[x] = hp.ref[x]
    BY <1>1, <1>2, <1>5
  <2> QED BY <1>0, <1>2, <1>5, <2>1 DEF Colours, AtomicStages
<1> QED BY <1>0, <1>2, <1>3, <1>7, <1>8, <1>9, <1>10, <1>11, <1>12, <1>13 DEF HInv, g, mk, rf, rt

\* A field is written.  What is stored must be marked, or be marked at once, if the object is black.
LEMMA WriteKeeps ==
  ASSUME NEW hp, NEW L, NEW P, NEW cal, NEW ph, NEW lt, HInv(hp, L, {}, cal, ph, lt), hp.gcstate \notin AtomicStages,
         NEW x \in Live(hp), ~IsOpen(hp, x), NEW f \in Field \ {"up"}, NEW v \in Live(hp) \cup {Nil},
         WellFormed(x, [hp.ref[x] EXCEPT ![f] = v]),
         f = "val" /\ v # Nil => hp.ref[x].key \in Live(hp) \cup {Nil, Dead},
         f = "mt" /\ Kind[x] = "udata" => x \notin hp.finalized,
         hp.mark[x] = "black" /\ x \notin hp.tmudata => v \in Marked(hp) \cup P \cup {Nil}
  PROVE  HInv([hp EXCEPT !.ref = [hp.ref EXCEPT ![x] = [hp.ref[x] EXCEPT ![f] = v]]], L, P, cal, ph, lt)
<1> DEFINE r == [hp.ref[x] EXCEPT ![f] = v]
           rf == [hp.ref EXCEPT ![x] = r]
           g == [hp EXCEPT !.ref = rf]
<1>0. /\ hp \in Heap /\ L \in Thread /\ ~hp.bad /\ Fields(hp) /\ Places(hp) /\ Edges(hp, L) /\ Swept(hp)
      /\ Lists(hp) /\ FinalizersDone(hp, cal, ph, lt)
      /\ ph = "run" /\ hp.gcstate \in MarkStates => Colours(hp, L, {})
  BY DEF HInv
<1>1. /\ x \in Obj /\ rf \in [Obj -> [Field -> Obj \cup {Nil, Dead}]] /\ rf[x] = r
      /\ \A o \in Obj : o # x => rf[o] = hp.ref[o]
      /\ r[f] = v /\ \A d \in Field : d # f => r[d] = hp.ref[x][d]
      /\ Live(hp) \subseteq Obj
  <2>1. x \in Obj /\ v \in Obj \cup {Nil, Dead} /\ Live(hp) \subseteq Obj
    BY DEF Live
  <2>2. hp.ref[x] \in [Field -> Obj \cup {Nil, Dead}] /\ hp.ref \in [Obj -> [Field -> Obj \cup {Nil, Dead}]]
    BY <1>0, <2>1, HeapFields
  <2>3. r \in [Field -> Obj \cup {Nil, Dead}] /\ r[f] = v /\ \A d \in Field : d # f => r[d] = hp.ref[x][d]
    BY <2>1, <2>2
  <2> HIDE DEF r
  <2> QED BY <2>1, <2>2, <2>3
<1>2. WellFormed(x, r)
  OBVIOUS
<1> HIDE DEF r, rf
<1>3. /\ g.gcstate = hp.gcstate /\ g.currentwhite = hp.currentwhite /\ g.bad = hp.bad /\ g.mark = hp.mark
      /\ g.ref = rf /\ g.open = hp.open /\ g.stack = hp.stack /\ g.gray = hp.gray
      /\ g.grayagain = hp.grayagain /\ g.weak = hp.weak /\ g.tosweep = hp.tosweep /\ g.tosweepstr = hp.tosweepstr
      /\ g.rootgc = hp.rootgc /\ g.tmudata = hp.tmudata /\ g.finalized = hp.finalized
  BY <1>0 DEF Heap
<1>4. g \in Heap
  BY <1>0, <1>1 DEF Heap
<1> HIDE DEF g
<1>5. /\ Live(g) = Live(hp) /\ Marked(g) = Marked(hp)
      /\ \A o : /\ IsDead(g, o) <=> IsDead(hp, o)
                /\ IsWhite(g, o) <=> IsWhite(hp, o)
                /\ IsOpen(g, o) <=> IsOpen(hp, o)
                /\ Slot(g, o) = Slot(hp, o)
  BY <1>3 DEF Live, Marked, IsDead, IsWhite, OtherWhite, IsOpen, Slot
<1>6. Fields(g)
  <2>1. r.up = hp.ref[x].up
    BY <1>1 DEF Field
  <2>2. hp.mark[x] # "free" /\ ~IsOpen(hp, x)
    BY DEF Live
  <2> QED BY <1>0, <1>1, <1>2, <1>3, <1>5, <2>1, <2>2 DEF Fields
<1>7. Places(g)
  BY <1>0, <1>3, <1>4, PlacesFrame
<1>8. Edges(g, L)
  <2>1. \A o \in Live(hp) : \A d \in Field \ {"key"} : rf[o][d] \in Live(hp) \cup {Nil}
    BY <1>0, <1>1 DEF Edges
  <2>2. r.val # Nil => r.key \in Live(hp) \cup {Nil, Dead}
    <3>1. "val" \in Field /\ "key" \in Field
      BY DEF Field
    <3>2. CASE f = "key"
      BY <3>1, <3>2, <1>1
    <3>3. CASE f = "val"
      BY <3>1, <3>3, <1>1
    <3>4. CASE f # "key" /\ f # "val"
      BY <3>1, <3>4, <1>0, <1>1 DEF Edges
    <3> QED BY <3>2, <3>3, <3>4
  <2>3. \A o \in Live(hp) : rf[o].val # Nil => rf[o].key \in Live(hp) \cup {Nil, Dead}
    BY <1>0, <1>1, <2>2 DEF Edges
  <2> QED BY <1>0, <1>3, <1>5, <2>1, <2>3 DEF Edges
<1>9. Swept(g)
  <2>1. Ahead(g) = Ahead(hp)
    BY <1>3, <1>5 DEF Ahead
  <2> QED BY <1>0, <1>3, <1>5, <2>1 DEF Swept
<1>10. Lists(g)
  BY <1>0, <1>3, <1>5 DEF Lists
<1>11. FinalizersDone(g, cal, ph, lt)
  <2>1. \A u \in Obj : Kind[u] = "udata" => rf[u].mt = hp.ref[u].mt \/ u \notin hp.finalized
    BY <1>1 DEF Field
  <2>2. hp.tmudata \subseteq hp.finalized
    BY <1>0 DEF Places
  <2> QED BY <1>0, <1>3, <1>5, <2>1, <2>2 DEF FinalizersDone
<1>12. ph = "run" /\ g.gcstate \in MarkStates => Colours(g, L, P)
  <2> SUFFICES ASSUME ph = "run", g.gcstate \in MarkStates PROVE Colours(g, L, P)
    OBVIOUS
  <2>1. Colours(hp, L, {}) /\ hp.gcstate = "propagate"
    BY <1>0, <1>3 DEF MarkStates
  <2>2. \A o \in Obj : hp.mark[o] = "black" /\ o \notin hp.tmudata
          => \A d \in Field : hp.ref[o][d] \in Marked(hp) \cup {Nil, Dead}
    BY <2>1 DEF Colours
  <2>3. \A o \in Obj : hp.mark[o] = "black" /\ o \notin hp.tmudata
          => \A d \in Field : rf[o][d] \in Marked(hp) \cup P \cup {Nil, Dead}
    BY <2>2, <1>1
  <2>4. Main \in Marked(hp) \cup P \cup {Nil, Dead}
    BY <2>1 DEF Colours
  <2> QED BY <1>3, <1>5, <2>1, <2>3, <2>4 DEF Colours, AtomicStages
<1> QED BY <1>0, <1>3, <1>4, <1>6, <1>7, <1>8, <1>9, <1>10, <1>11, <1>12 DEF HInv, g, rf, r

\* A black table goes back to the lists of gray objects.
LEMMA RegrayKeeps ==
  ASSUME NEW hp, NEW L, NEW cal, NEW ph, NEW lt, HInv(hp, L, {}, cal, ph, lt), hp.gcstate \notin AtomicStages,
         NEW t \in Obj, Kind[t] = "table", hp.mark[t] = "black"
  PROVE  HInv([hp EXCEPT !.mark = [hp.mark EXCEPT ![t] = "gray"], !.grayagain = @ \cup {t}], L, {}, cal, ph, lt)
<1> DEFINE mk == [hp.mark EXCEPT ![t] = "gray"]
           ag == hp.grayagain \cup {t}
           g == [hp EXCEPT !.mark = mk, !.grayagain = ag]
<1>0. /\ hp \in Heap /\ L \in Thread /\ ~hp.bad /\ Fields(hp) /\ Places(hp) /\ Edges(hp, L) /\ Swept(hp)
      /\ Lists(hp) /\ FinalizersDone(hp, cal, ph, lt)
      /\ ph = "run" /\ hp.gcstate \in MarkStates => Colours(hp, L, {})
  BY DEF HInv
<1>1. /\ mk \in [Obj -> White \cup {"gray", "black", "free"}] /\ mk[t] = "gray"
      /\ \A x \in Obj : x # t => mk[x] = hp.mark[x]
      /\ ag \subseteq Obj /\ \A x : x \in ag <=> x \in hp.grayagain \/ x = t
  BY <1>0, HeapFields
<1> HIDE DEF mk, ag
<1>2. /\ g.gcstate = hp.gcstate /\ g.currentwhite = hp.currentwhite /\ g.bad = hp.bad /\ g.mark = mk
      /\ g.ref = hp.ref /\ g.open = hp.open /\ g.stack = hp.stack /\ g.gray = hp.gray
      /\ g.grayagain = ag /\ g.weak = hp.weak /\ g.tosweep = hp.tosweep /\ g.tosweepstr = hp.tosweepstr
      /\ g.rootgc = hp.rootgc /\ g.tmudata = hp.tmudata /\ g.finalized = hp.finalized
  BY <1>0 DEF Heap
<1>3. g \in Heap
  BY <1>0, <1>1 DEF Heap
<1> HIDE DEF g
<1>4. OtherWhite(g) = OtherWhite(hp) /\ OtherWhite(hp) \in White /\ "gray" \notin White /\ "black" \notin White
  BY <1>0, <1>2, WhiteFacts DEF OtherWhite
<1>5. /\ Live(g) = Live(hp) /\ Marked(g) = Marked(hp)
      /\ \A o \in Obj : /\ IsDead(g, o) <=> IsDead(hp, o)
                        /\ IsWhite(g, o) <=> IsWhite(hp, o)
                        /\ (g.mark[o] = "free") <=> (hp.mark[o] = "free")
      /\ \A o : (IsOpen(g, o) <=> IsOpen(hp, o)) /\ Slot(g, o) = Slot(hp, o)
  BY <1>1, <1>2, <1>4 DEF Live, Marked, IsDead, IsWhite, IsOpen, Slot
<1>6. Fields(g)
  BY <1>0, <1>2, <1>5 DEF Fields
<1>7. Places(g)
  BY <1>0, <1>2, <1>3, <1>5, PlacesFrame
<1>8. Edges(g, L)
  BY <1>0, <1>2, <1>5 DEF Edges
<1>9. Swept(g)
  <2>1. Ahead(g) = Ahead(hp)
    BY <1>2, <1>5 DEF Ahead
  <2> QED BY <1>0, <1>2, <1>5, <2>1 DEF Swept
<1>10. Lists(g)
  <2>1. /\ t \notin hp.gray /\ t \notin hp.grayagain /\ t \notin hp.weak /\ ~IsOpen(hp, t)
        /\ hp.gray \subseteq Obj /\ hp.grayagain \subseteq Obj /\ hp.weak \subseteq Obj
    BY <1>0, HeapFields DEF Lists
  <2>2. \A o \in hp.gray \cup ag \cup hp.weak : /\ o # t => mk[o] = hp.mark[o] /\ o \in hp.gray \cup hp.grayagain \cup hp.weak
                                                /\ mk[t] = "gray" /\ Kind[t] = "table"
    BY <1>1, <2>1
  <2>3. \A o \in hp.gray \cup ag \cup hp.weak :
          mk[o] # "black" /\ Kind[o] \in {"closure", "table", "thread", "proto"}
    BY <1>0, <2>2 DEF Lists
  <2>4. \A o \in Obj : /\ Kind[o] = "thread" \/ IsOpen(hp, o) => mk[o] # "black"
                       /\ Kind[o] = "udata" => mk[o] # "gray"
    BY <1>0, <1>1 DEF Lists
  <2>5. ASSUME hp.gcstate \in MarkStates
        PROVE  /\ hp.gray \cap ag = {} /\ hp.gray \cap hp.weak = {} /\ ag \cap hp.weak = {}
               /\ \A o \in hp.gray \cup ag \cup hp.weak : mk[o] = "gray"
               /\ \A o \in ag : Kind[o] \in {"thread", "table"}
               /\ \A o \in hp.weak : Kind[o] = "table"
               /\ \A o \in Obj : mk[o] = "gray" =>
                    o \in hp.gray \cup ag \cup hp.weak \/ Kind[o] = "string" \/ IsOpen(hp, o)
    BY <1>0, <1>1, <2>1, <2>2, <2>5 DEF Lists
  <2> QED BY <1>2, <1>5, <2>3, <2>4, <2>5 DEF Lists
<1>11. FinalizersDone(g, cal, ph, lt)
  BY <1>0, <1>2, <1>5 DEF FinalizersDone
<1>12. ph = "run" /\ g.gcstate \in MarkStates => Colours(g, L, {})
  <2>1. \A o \in Obj : mk[o] = "black" => hp.mark[o] = "black"
    BY <1>1
  <2> QED BY <1>0, <1>2, <1>5, <2>1 DEF Colours, AtomicStages
<1> QED BY <1>0, <1>2, <1>3, <1>6, <1>7, <1>8, <1>9, <1>10, <1>11, <1>12 DEF HInv, g, mk, ag

\* While sweeping, an object may get white at any time.
LEMMA WhitenKeeps ==
  ASSUME NEW hp, NEW L, NEW cal, NEW ph, NEW lt, HInv(hp, L, {}, cal, ph, lt), hp.gcstate \notin MarkStates,
         NEW S, S \subseteq Live(hp)
  PROVE  HInv([hp EXCEPT !.mark = [o \in Obj |-> IF o \in S THEN hp.currentwhite ELSE hp.mark[o]]], L, {}, cal, ph, lt)
<1> DEFINE mk == [o \in Obj |-> IF o \in S THEN hp.currentwhite ELSE hp.mark[o]]
           g == [hp EXCEPT !.mark = mk]
<1>0. /\ hp \in Heap /\ L \in Thread /\ ~hp.bad /\ Fields(hp) /\ Places(hp) /\ Edges(hp, L) /\ Swept(hp)
      /\ Lists(hp) /\ FinalizersDone(hp, cal, ph, lt)
      /\ ph = "run" /\ hp.gcstate \in MarkStates => Colours(hp, L, {})
  BY DEF HInv
<1>1. /\ mk \in [Obj -> White \cup {"gray", "black", "free"}] /\ \A x \in S : mk[x] = hp.currentwhite
      /\ \A x \in Obj : x \notin S => mk[x] = hp.mark[x]
  BY <1>0, HeapFields DEF Live
<1> HIDE DEF mk
<1>2. /\ g.gcstate = hp.gcstate /\ g.currentwhite = hp.currentwhite /\ g.bad = hp.bad /\ g.mark = mk
      /\ g.ref = hp.ref /\ g.open = hp.open /\ g.stack = hp.stack /\ g.gray = hp.gray
      /\ g.grayagain = hp.grayagain /\ g.weak = hp.weak /\ g.tosweep = hp.tosweep /\ g.tosweepstr = hp.tosweepstr
      /\ g.rootgc = hp.rootgc /\ g.tmudata = hp.tmudata /\ g.finalized = hp.finalized
  BY <1>0 DEF Heap
<1>3. g \in Heap
  BY <1>0, <1>1 DEF Heap
<1> HIDE DEF g
<1>4. /\ OtherWhite(g) = OtherWhite(hp) /\ OtherWhite(hp) # hp.currentwhite /\ hp.currentwhite \in White
      /\ OtherWhite(hp) \in White /\ "gray" \notin White /\ "black" \notin White /\ "free" \notin White
  BY <1>0, <1>2, WhiteFacts, HeapFields DEF OtherWhite
<1>5. /\ Live(g) = Live(hp) /\ Marked(g) \subseteq Marked(hp)
      /\ \A o \in Obj : /\ IsDead(g, o) <=> IsDead(hp, o)
                        /\ (g.mark[o] = "free") <=> (hp.mark[o] = "free")
      /\ \A o : (IsOpen(g, o) <=> IsOpen(hp, o)) /\ Slot(g, o) = Slot(hp, o)
  BY <1>1, <1>2, <1>4 DEF Live, Marked, IsDead, IsOpen, Slot
<1>6. Fields(g)
  BY <1>0, <1>2, <1>5 DEF Fields
<1>7. Places(g)
  BY <1>0, <1>2, <1>3, <1>5, PlacesFrame
<1>8. Edges(g, L)
  BY <1>0, <1>2, <1>5 DEF Edges
<1>9. Swept(g)
  <2>1. Ahead(g) = Ahead(hp)
    BY <1>2, <1>5 DEF Ahead
  <2> QED BY <1>0, <1>2, <1>5, <2>1 DEF Swept
<1>10. Lists(g)
  <2>1. \A o \in Obj : mk[o] \in {"gray", "black"} => mk[o] = hp.mark[o]
    BY <1>1, <1>4
  <2>2. hp.gray \subseteq Obj /\ hp.grayagain \subseteq Obj /\ hp.weak \subseteq Obj
    BY <1>0, HeapFields
  <2> QED BY <1>0, <1>2, <1>5, <2>1, <2>2 DEF Lists
<1>11. FinalizersDone(g, cal, ph, lt)
  <2>1. hp.gcstate # "tmu"
    BY DEF MarkStates, AtomicStages
  <2> QED BY <1>0, <1>2, <1>5, <2>1 DEF FinalizersDone
<1> QED BY <1>0, <1>2, <1>3, <1>6, <1>7, <1>8, <1>9, <1>10, <1>11 DEF HInv, g, mk

\* Nothing is black in the phases without marks, except userdata that wait for their finalizers.
LEMMA QuietPhases ==
  ASSUME NEW hp, Swept(hp), hp.gcstate \in {"finalize", "pause"}, NEW o \in Obj, hp.mark[o] = "black"
  PROVE  o \in hp.tmudata
<1>1. Ahead(hp) = {}
  BY DEF Swept, Ahead, SweepStates
<1>2. Marked(hp) \subseteq hp.tmudata
  BY <1>1 DEF Swept, MarkStates, AtomicStages
<1> QED BY <1>2 DEF Marked

\* The barrier of tables (luaC_barrierback): a field is written, and the table is traversed again.
LEMMA BarrierBackKeeps ==
  ASSUME NEW hp, NEW L, NEW cal, NEW ph, NEW lt, HInv(hp, L, {}, cal, ph, lt), hp.gcstate \notin AtomicStages,
         NEW x \in Live(hp), ~IsOpen(hp, x), NEW f \in Field \ {"up"}, NEW v \in Live(hp) \cup {Nil},
         WellFormed(x, [hp.ref[x] EXCEPT ![f] = v]),
         f = "val" /\ v # Nil => hp.ref[x].key \in Live(hp) \cup {Nil, Dead},
         f = "mt" /\ Kind[x] = "udata" => x \notin hp.finalized,
         Kind[x] = "table"
  PROVE  HInv(BarrierBack([hp EXCEPT !.ref = [hp.ref EXCEPT ![x] = [hp.ref[x] EXCEPT ![f] = v]]], x, v), L, {}, cal, ph, lt)
<1> DEFINE rf == [hp.ref EXCEPT ![x] = [hp.ref[x] EXCEPT ![f] = v]]
           X == [hp EXCEPT !.ref = rf]
           mk == [hp.mark EXCEPT ![x] = "gray"]
           R == [hp EXCEPT !.mark = mk, !.grayagain = @ \cup {x}]
<1>0. /\ hp \in Heap /\ L \in Thread /\ ~hp.bad /\ Fields(hp) /\ Places(hp) /\ Edges(hp, L) /\ Swept(hp)
      /\ Lists(hp) /\ FinalizersDone(hp, cal, ph, lt)
      /\ ph = "run" /\ hp.gcstate \in MarkStates => Colours(hp, L, {})
  BY DEF HInv
<1>1. x \in Obj /\ Live(hp) \subseteq Obj /\ Nil \notin Obj
  BY HeapAssumption DEF Live
<1>2. X.mark = hp.mark /\ X.gcstate = hp.gcstate /\ X.gray = hp.gray /\ X.grayagain = hp.grayagain /\ X.weak = hp.weak
  <2> HIDE DEF rf
  <2> QED BY <1>0 DEF Heap
<1>3. CASE v = Nil \/ ~IsWhite(hp, v) \/ hp.mark[x] # "black"
  <2>1. BarrierBack(X, x, v) = X
    <3> HIDE DEF X
    <3> QED BY <1>2, <1>3 DEF BarrierBack, IsWhite
  <2>2. hp.mark[x] = "black" /\ x \notin hp.tmudata => v \in Marked(hp) \cup {} \cup {Nil}
    BY <1>0, <1>3, WhiteFacts
  <2>3. HInv(X, L, {}, cal, ph, lt)
    BY <2>2, WriteKeeps
  <2> QED BY <2>1, <2>3
<1>4. CASE ~(v = Nil \/ ~IsWhite(hp, v) \/ hp.mark[x] # "black")
  <2>1. hp.gcstate \notin {"finalize", "pause"}
    BY <1>0, <1>1, <1>4, QuietPhases DEF Places
  <2>2. {x} \cap (hp.gray \cup hp.grayagain \cup hp.weak) = {}
    BY <1>0, <1>4 DEF Lists
  <2>3. BarrierBack(X, x, v) = [R EXCEPT !.ref = rf]
    <3> HIDE DEF rf
    <3> DEFINE Y == [X EXCEPT !.mark[x] = "gray"]
               Z == [Y EXCEPT !["grayagain"] = @ \cup {x}]
    <3>1. LuaAssert(X, X.gcstate \notin {"finalize", "pause"}) = X
      BY <1>2, <2>1 DEF LuaAssert
    <3>2. BarrierBack(X, x, v) = Link(Y, "grayagain", {x})
      <4>1. ~(v = Nil \/ ~IsWhite(X, v) \/ X.mark[x] # "black")
        <5> HIDE DEF X
        <5> QED BY <1>2, <1>4 DEF IsWhite
      <4> HIDE DEF X
      <4> QED BY <3>1, <4>1 DEF BarrierBack
    <3>3. Y.gray = hp.gray /\ Y.grayagain = hp.grayagain /\ Y.weak = hp.weak
      BY <1>0 DEF Heap
    <3>4. Link(Y, "grayagain", {x}) = Z
      <4> HIDE DEF Y
      <4> QED BY <2>2, <3>3 DEF Link, LuaAssert
    <3>5. Z = [R EXCEPT !.ref = rf]
      BY <1>0 DEF Heap
    <3> QED BY <3>2, <3>4, <3>5
  <2>4. HInv(R, L, {}, cal, ph, lt)
    BY <1>1, <1>4, RegrayKeeps
  <2>5. /\ R.mark = mk /\ R.ref = hp.ref /\ R.gcstate = hp.gcstate /\ R.currentwhite = hp.currentwhite
        /\ R.open = hp.open /\ R.finalized = hp.finalized
    <3> HIDE DEF mk
    <3> QED BY <1>0 DEF Heap
  <2>6. mk[x] = "gray" /\ \A o \in Obj : o # x => mk[o] = hp.mark[o]
    BY <1>0, <1>1, HeapFields
  <2> HIDE DEF R, mk
  <2>7. Live(R) = Live(hp)
    <3>1. OtherWhite(R) = OtherWhite(hp) /\ OtherWhite(hp) \in White
      BY <1>0, <2>5, WhiteFacts DEF OtherWhite
    <3> QED BY <2>5, <2>6, <3>1, <1>4 DEF Live, IsDead, White
  <2>8. ~IsOpen(R, x)
    BY <2>5 DEF IsOpen
  <2>9. HInv([R EXCEPT !.ref = [R.ref EXCEPT ![x] = [R.ref[x] EXCEPT ![f] = v]]], L, {}, cal, ph, lt)
    BY <2>4, <2>5, <2>6, <2>7, <2>8, WriteKeeps
  <2> QED BY <2>3, <2>5, <2>9
<1> QED BY <1>3, <1>4

\* The barrier of other objects (luaC_barrierf): what is stored is marked, or the object gets white.
LEMMA BarrierKeeps ==
  ASSUME NEW hp, NEW L, NEW cal, NEW ph, NEW lt, HInv(hp, L, {}, cal, ph, lt), hp.gcstate \notin AtomicStages,
         NEW x \in Live(hp), ~IsOpen(hp, x), NEW f \in Field \ {"up"}, NEW v \in Live(hp) \cup {Nil},
         WellFormed(x, [hp.ref[x] EXCEPT ![f] = v]),
         f = "val" /\ v # Nil => hp.ref[x].key \in Live(hp) \cup {Nil, Dead},
         f = "mt" /\ Kind[x] = "udata" => x \notin hp.finalized
  PROVE  HInv(Barrier([hp EXCEPT !.ref = [hp.ref EXCEPT ![x] = [hp.ref[x] EXCEPT ![f] = v]]], x, v), L, {}, cal, ph, lt)
<1> DEFINE rf == [hp.ref EXCEPT ![x] = [hp.ref[x] EXCEPT ![f] = v]]
           X == [hp EXCEPT !.ref = rf]
           W == {x}
           mk == [o \in Obj |-> IF o \in W THEN hp.currentwhite ELSE hp.mark[o]]
           R == [hp EXCEPT !.mark = mk]
<1>0. /\ hp \in Heap /\ L \in Thread /\ ~hp.bad /\ Fields(hp) /\ Places(hp) /\ Edges(hp, L) /\ Swept(hp)
      /\ Lists(hp) /\ FinalizersDone(hp, cal, ph, lt)
      /\ ph = "run" /\ hp.gcstate \in MarkStates => Colours(hp, L, {})
  BY DEF HInv
<1>1. x \in Obj /\ Live(hp) \subseteq Obj /\ Nil \notin Obj
  BY HeapAssumption DEF Live
<1>2. /\ X.mark = hp.mark /\ X.gcstate = hp.gcstate /\ X.currentwhite = hp.currentwhite
      /\ X.tmudata = hp.tmudata
  <2> HIDE DEF rf
  <2> QED BY <1>0 DEF Heap
<1>3. CASE v = Nil \/ ~IsWhite(hp, v) \/ hp.mark[x] # "black"
  <2>1. Barrier(X, x, v) = X
    <3> HIDE DEF X
    <3> QED BY <1>2, <1>3 DEF Barrier, IsWhite
  <2>2. hp.mark[x] = "black" /\ x \notin hp.tmudata => v \in Marked(hp) \cup {} \cup {Nil}
    BY <1>0, <1>3, WhiteFacts
  <2>3. HInv(X, L, {}, cal, ph, lt)
    BY <2>2, WriteKeeps
  <2> QED BY <2>1, <2>3
<1>4. CASE ~(v = Nil \/ ~IsWhite(hp, v) \/ hp.mark[x] # "black")
  <2>0. v \in Live(hp) /\ v \in Obj
    BY <1>1, <1>4
  <2>1. /\ hp.gcstate \in {"finalize", "pause"} => x \in hp.tmudata
        /\ ~IsDead(hp, v)
    BY <1>0, <1>1, <1>4, <2>0, QuietPhases DEF Live
  <2>2. LuaAssert(X, ~IsDead(X, v) /\ (X.gcstate \in {"finalize", "pause"} => x \in X.tmudata)) = X
    <3> HIDE DEF X
    <3> QED BY <1>2, <2>1 DEF LuaAssert, IsDead, OtherWhite
  <2>3. Barrier(X, x, v) = IF X.gcstate = "propagate" THEN MarkAll(X, {v}) ELSE [X EXCEPT !.mark[x] = X.currentwhite]
    <3>1. ~(v = Nil \/ ~IsWhite(X, v) \/ X.mark[x] # "black")
      <4> HIDE DEF X
      <4> QED BY <1>2, <1>4 DEF IsWhite
    <3> HIDE DEF X
    <3> QED BY <2>2, <3>1 DEF Barrier
  <2>4. CASE hp.gcstate = "propagate"
    <3> DEFINE S == {v}
    <3>1. HInv(X, L, S, cal, ph, lt)
      BY WriteKeeps
    <3>2. X.gcstate \in MarkStates /\ S \subseteq Live(X) \cup {Nil, Dead} /\ Barrier(X, x, v) = MarkAll(X, S)
      <4> HIDE DEF X
      <4> QED BY <1>2, <2>0, <2>3, <2>4 DEF MarkStates, Live, IsDead, OtherWhite
    <3> HIDE DEF X, S
    <3>3. HInv(Barrier(X, x, v), L, {}, cal, ph, lt)
      BY <3>1, <3>2, MarkAllKeeps
    <3> QED BY <3>3 DEF X
  <2>5. CASE hp.gcstate # "propagate"
    <3>1. hp.gcstate \notin MarkStates
      BY <2>5 DEF MarkStates
    <3>2. HInv(R, L, {}, cal, ph, lt)
      <4>1. W \subseteq Live(hp)
        OBVIOUS
      <4> HIDE DEF W
      <4> QED BY <3>1, <4>1, WhitenKeeps
    <3>3. /\ R.mark = mk /\ R.ref = hp.ref /\ R.gcstate = hp.gcstate /\ R.currentwhite = hp.currentwhite
          /\ R.open = hp.open /\ R.finalized = hp.finalized
      <4> HIDE DEF mk
      <4> QED BY <1>0 DEF Heap
    <3>4. mk[x] = hp.currentwhite /\ (\A o \in Obj : o # x => mk[o] = hp.mark[o]) /\ [hp.mark EXCEPT ![x] = hp.currentwhite] = mk
      BY <1>0, <1>1, HeapFields
    <3>5. Barrier(X, x, v) = [R EXCEPT !.ref = rf]
      <4>1. Barrier(X, x, v) = [X EXCEPT !.mark[x] = hp.currentwhite]
        <5> HIDE DEF X
        <5> QED BY <1>2, <2>3, <2>5
      <4> HIDE DEF rf, mk
      <4> QED BY <1>0, <4>1, <3>4 DEF Heap
    <3> HIDE DEF R, mk
    <3>6. Live(R) = Live(hp) /\ R.mark[x] # "black"
      <4>1. OtherWhite(R) = OtherWhite(hp) /\ OtherWhite(hp) # hp.currentwhite /\ hp.currentwhite \in White
        BY <1>0, <3>3, WhiteFacts, HeapFields DEF OtherWhite
      <4> QED BY <1>4, <3>3, <3>4, <4>1 DEF Live, IsDead, White
    <3>7. ~IsOpen(R, x)
      BY <3>3 DEF IsOpen
    <3>8. R.gcstate \notin AtomicStages
      BY <3>3
    <3>9. HInv([R EXCEPT !.ref = [R.ref EXCEPT ![x] = [R.ref[x] EXCEPT ![f] = v]]], L, {}, cal, ph, lt)
      BY <3>2, <3>3, <3>6, <3>7, <3>8, WriteKeeps
    <3> QED BY <3>3, <3>5, <3>9
  <2> QED BY <2>4, <2>5
<1> QED BY <1>3, <1>4

\* A string or an open upvalue that is free or dead is used (again): it gets white.
LEMMA ReviveKeeps ==
  ASSUME NEW hp, NEW L, NEW cal, NEW ph, NEW lt, HInv(hp, L, {}, cal, ph, lt), hp.gcstate \notin AtomicStages,
         NEW o \in Obj, hp.mark[o] = "free" \/ IsDead(hp, o), Kind[o] \in {"upval", "string"},
         NEW w \in {Closed} \cup (Thread \X Slots),
         Kind[o] = "string" => w = Closed,
         Kind[o] = "upval" => w # Closed /\ w[1] \in Live(hp),
         hp.mark[o] # "free" => w = hp.open[o]
  PROVE  HInv([hp EXCEPT !.mark = [hp.mark EXCEPT ![o] = hp.currentwhite],
                         !.open = [hp.open EXCEPT ![o] = w]], L, {}, cal, ph, lt)
<1> DEFINE mk == [hp.mark EXCEPT ![o] = hp.currentwhite]
           op == [hp.open EXCEPT ![o] = w]
           g == [hp EXCEPT !.mark = mk, !.open = op]
<1>0. /\ hp \in Heap /\ L \in Thread /\ ~hp.bad /\ Fields(hp) /\ Places(hp) /\ Edges(hp, L) /\ Swept(hp)
      /\ Lists(hp) /\ FinalizersDone(hp, cal, ph, lt)
      /\ ph = "run" /\ hp.gcstate \in MarkStates => Colours(hp, L, {})
  BY DEF HInv
<1>1. /\ mk \in [Obj -> White \cup {"gray", "black", "free"}] /\ mk[o] = hp.currentwhite
      /\ \A x \in Obj : x # o => mk[x] = hp.mark[x]
      /\ op \in [Obj -> {Closed} \cup (Thread \X Slots)] /\ op[o] = w
      /\ \A x \in Obj : x # o => op[x] = hp.open[x]
  BY <1>0, HeapFields
<1> HIDE DEF mk, op
<1>2. /\ g.gcstate = hp.gcstate /\ g.currentwhite = hp.currentwhite /\ g.bad = hp.bad /\ g.mark = mk
      /\ g.ref = hp.ref /\ g.open = op /\ g.stack = hp.stack /\ g.gray = hp.gray
      /\ g.grayagain = hp.grayagain /\ g.weak = hp.weak /\ g.tosweep = hp.tosweep /\ g.tosweepstr = hp.tosweepstr
      /\ g.rootgc = hp.rootgc /\ g.tmudata = hp.tmudata /\ g.finalized = hp.finalized
  BY <1>0 DEF Heap
<1>3. g \in Heap
  BY <1>0, <1>1 DEF Heap
<1> HIDE DEF g
<1>4. /\ OtherWhite(g) = OtherWhite(hp) /\ OtherWhite(hp) # hp.currentwhite /\ hp.currentwhite \in White
      /\ OtherWhite(hp) \in White /\ "gray" \notin White /\ "black" \notin White /\ "free" \notin White
  BY <1>0, <1>2, WhiteFacts, HeapFields DEF OtherWhite
<1>5. /\ Live(g) = Live(hp) \cup {o} /\ Marked(g) = Marked(hp)
      /\ \A x \in Obj : IsDead(g, x) => IsDead(hp, x)
      /\ \A x \in Obj : x # o => (IsOpen(g, x) <=> IsOpen(hp, x)) /\ Slot(g, x) = Slot(hp, x)
      /\ \A x \in Obj : g.mark[x] \in {"gray", "black"} => x # o
      /\ IsOpen(g, o) <=> w # Closed
  BY <1>1, <1>2, <1>4 DEF Live, Marked, IsDead, IsOpen, Slot
<1>6. IsOpen(g, o) => w[1] \in Thread /\ w[2] \in Slots /\ w[1] \in Live(hp) /\ Slot(g, o) = hp.stack[w[1]][w[2]]
  BY <1>1, <1>2, <1>5 DEF Slot
<1>7. /\ hp.ref[o] = NoFields \/ (Kind[o] = "string" /\ \A f \in Field : hp.ref[o][f] = Nil)
      /\ o \notin hp.rootgc /\ o \notin hp.tmudata /\ o \notin hp.finalized /\ o \notin Live(hp)
      /\ Kind[o] = "upval" => hp.ref[o] = NoFields
      /\ o \notin Thread
  <2>1. Kind[o] = "upval" => hp.ref[o] = NoFields
    <3>1. hp.mark[o] = "free" \/ (Kind[o] = "upval" => IsOpen(hp, o))
      BY DEF IsOpen
    <3> QED BY <1>0, <3>1 DEF Fields
  <2>2. Kind[o] = "string" => \A f \in Field : hp.ref[o][f] = Nil
    BY <1>0 DEF Fields, WellFormed, FieldsOf
  <2>3. o \notin hp.rootgc
    <3>1. CASE hp.mark[o] = "free"
      BY <1>0, <3>1 DEF Places
    <3>2. CASE hp.mark[o] # "free" /\ Kind[o] = "upval"
      BY <1>0, <3>2 DEF Places, IsOpen
    <3>3. CASE Kind[o] = "string"
      BY <1>0, <3>3 DEF Places
    <3> QED BY <3>1, <3>2, <3>3
  <2>4. o \notin hp.tmudata /\ o \notin hp.finalized
    BY <1>0 DEF Places
  <2>5. o \notin Live(hp)
    BY DEF Live
  <2>6. o \notin Thread
    BY ThreadIs
  <2> QED BY <2>1, <2>2, <2>3, <2>4, <2>5, <2>6
<1>8. Fields(g)
  <2>1. Kind[o] # "closure" /\ mk[o] # "free" /\ (IsOpen(g, o) => Kind[o] = "upval")
    BY <1>1, <1>4, <1>5
  <2> QED BY <1>0, <1>1, <1>2, <1>5, <1>7, <2>1 DEF Fields
<1>9. Places(g)
  <2>0. \A x \in Obj : mk[x] = "free" <=> hp.mark[x] = "free" /\ x # o
    BY <1>1, <1>4
  <2>1. \A x \in Obj : IsOpen(g, x) => Kind[x] = "upval" /\ mk[x] # "free" /\ op[x][1] \in Obj /\ mk[op[x][1]] # "free"
    <3>1. \A x \in Obj : IsOpen(hp, x) => hp.open[x][1] \in Obj
      BY <1>0, OpenFacts, ThreadIs
    <3>2. IsOpen(g, o) => Kind[o] = "upval" /\ op[o][1] \in Obj /\ hp.mark[op[o][1]] # "free"
      BY <1>1, <1>5, <1>6 DEF Live
    <3> QED BY <1>0, <1>1, <1>5, <2>0, <3>1, <3>2 DEF Places
  <2>2. \A x \in hp.rootgc \cup hp.tmudata \cup hp.finalized \cup hp.tosweepstr : mk[x] # "free"
    BY <1>0, <2>0, HeapFields DEF Places
  <2>3. \A x \in hp.rootgc : x \notin hp.tmudata /\ Kind[x] # "string" /\ ~IsOpen(g, x)
    BY <1>0, <1>5, <1>7, HeapFields DEF Places
  <2>5. \A x \in Obj : mk[x] # "free" /\ Kind[x] # "string" /\ ~IsOpen(g, x) => x \in hp.rootgc \cup hp.tmudata
    BY <1>0, <1>5, <2>0 DEF Places
  <2>7. \A x \in Thread, i \in Slots : mk[x] = "free" => hp.stack[x][i] = Nil
    BY <1>0, <2>0, ThreadIs DEF Places
  <2> QED BY <1>0, <1>2, <2>1, <2>2, <2>3, <2>5, <2>7 DEF Places
<1>10. Edges(g, L)
  <2>1. \A x \in Live(g) : \A f \in Field \ {"key"} : hp.ref[x][f] \in Live(g) \cup {Nil}
    BY <1>0, <1>5, <1>7 DEF Edges, NoFields
  <2>2. \A x \in Live(g) : hp.ref[x].val # Nil => hp.ref[x].key \in Live(g) \cup {Nil, Dead}
    <3>1. hp.ref[o].val = Nil
      BY <1>7 DEF NoFields, Field
    <3> QED BY <1>0, <1>5, <3>1 DEF Edges
  <2>3. \A x \in Live(g) : IsOpen(g, x) => Slot(g, x) \in Live(g) \cup {Nil}
    <3>1. IsOpen(g, o) => Slot(g, o) \in Live(hp) \cup {Nil}
      BY <1>0, <1>6 DEF Edges
    <3>2. Live(hp) \subseteq Obj
      BY DEF Live
    <3> QED BY <1>0, <1>5, <3>1, <3>2 DEF Edges
  <2>4. \A t \in Thread, i \in Slots : t \in Live(g) => hp.stack[t][i] \in Live(g) \cup {Nil}
    BY <1>0, <1>5, <1>7 DEF Edges
  <2> QED BY <1>0, <1>2, <1>5, <2>1, <2>2, <2>3, <2>4 DEF Edges
<1>11. Swept(g)
  <2>1. Ahead(hp) \subseteq Ahead(g)
    <3>1. \A x \in Obj : IsOpen(hp, x) => IsOpen(g, x) /\ op[x] = hp.open[x]
      <4>1. IsOpen(hp, o) => hp.mark[o] # "free"
        BY <1>0 DEF Places
      <4> QED BY <1>1, <1>2, <4>1 DEF IsOpen
    <3> QED BY <1>2, <3>1 DEF Ahead
  <2> QED BY <1>0, <1>2, <1>5, <2>1 DEF Swept
<1>12. Lists(g)
  <2>1. \A x \in Obj : g.mark[x] \in {"gray", "black"} => g.mark[x] = hp.mark[x] /\ (IsOpen(g, x) <=> IsOpen(hp, x))
    BY <1>1, <1>2, <1>5
  <2>2. \A x \in hp.gray \cup hp.grayagain \cup hp.weak : x \in Obj /\ (hp.mark[x] = "gray" => g.mark[x] = "gray")
    <3>1. hp.mark[o] # "gray"
      BY <1>4 DEF IsDead
    <3> QED BY <1>0, <1>1, <1>2, <3>1, HeapFields
  <2> QED BY <1>0, <1>2, <2>1, <2>2 DEF Lists
<1>13. FinalizersDone(g, cal, ph, lt)
  <2>1. \A u \in Obj : Kind[u] = "udata" => u # o /\ g.mark[u] = hp.mark[u]
    BY <1>1, <1>2
  <2> QED BY <1>0, <1>2, <1>5, <2>1 DEF FinalizersDone, AtomicStages
<1>14. ph = "run" /\ g.gcstate \in MarkStates => Colours(g, L, {})
  <2>1. \A x \in Obj : g.mark[x] = "black" => hp.mark[x] = "black"
    BY <1>1, <1>2, <1>5
  <2> QED BY <1>0, <1>2, <1>5, <2>1 DEF Colours, AtomicStages
<1> QED BY <1>0, <1>2, <1>3, <1>8, <1>9, <1>10, <1>11, <1>12, <1>13, <1>14 DEF HInv, g, mk, op

\* What closing the upvalues of O does to the heap, before the values P are marked.
ClosedUp(hp, O, c, mk, op, rf, Y, P) ==
    /\ c = IF hp.gcstate = "propagate" THEN "black" ELSE hp.currentwhite
    /\ mk = [o \in Obj |-> IF o \in O /\ IsDead(hp, o) THEN "free"
                           ELSE IF o \in O /\ hp.mark[o] = "gray" THEN c ELSE hp.mark[o]]
    /\ op = [o \in Obj |-> IF o \in O THEN Closed ELSE hp.open[o]]
    /\ rf = [o \in Obj |-> IF o \notin O THEN hp.ref[o] ELSE IF IsDead(hp, o) THEN NoFields
                           ELSE [hp.ref[o] EXCEPT !.v = UpValue(hp, o)]]
    /\ Y = [hp EXCEPT !.open = op, !.mark = mk, !.ref = rf,
                      !.rootgc = hp.rootgc \cup {o \in O : ~IsDead(hp, o)}]
    /\ P = {rf[o].v : o \in {x \in O : hp.mark[x] = "gray"}}

\* The open upvalues of O get values of their own, those that are dead are freed: what is left is to
\* mark the values P of those that get black.
LEMMA CloseBase ==
  ASSUME NEW hp, NEW L, NEW cal, NEW ph, NEW lt, HInv(hp, L, {}, cal, ph, lt), hp.gcstate \notin AtomicStages,
         NEW O, O \subseteq {o \in Obj : IsOpen(hp, o)}, NEW c, NEW mk, NEW op, NEW rf, NEW Y, NEW P,
         ClosedUp(hp, O, c, mk, op, rf, Y, P), \A o \in O : hp.mark[o] = "gray" => Slot(hp, o) \in P
  PROVE  HInv(Y, L, P, cal, ph, lt) /\ Live(Y) = Live(hp)
<1> DEFINE rt == hp.rootgc \cup {o \in O : ~IsDead(hp, o)}
           g == [hp EXCEPT !.open = op, !.mark = mk, !.ref = rf, !.rootgc = rt]
<1>m. /\ c = IF hp.gcstate = "propagate" THEN "black" ELSE hp.currentwhite
      /\ mk = [o \in Obj |-> IF o \in O /\ IsDead(hp, o) THEN "free"
                             ELSE IF o \in O /\ hp.mark[o] = "gray" THEN c ELSE hp.mark[o]]
      /\ op = [o \in Obj |-> IF o \in O THEN Closed ELSE hp.open[o]]
      /\ rf = [o \in Obj |-> IF o \notin O THEN hp.ref[o] ELSE IF IsDead(hp, o) THEN NoFields
                             ELSE [hp.ref[o] EXCEPT !.v = UpValue(hp, o)]]
      /\ Y = [hp EXCEPT !.open = op, !.mark = mk, !.ref = rf,
                        !.rootgc = hp.rootgc \cup {o \in O : ~IsDead(hp, o)}]
      /\ P = {rf[o].v : o \in {x \in O : hp.mark[x] = "gray"}}
  BY DEF ClosedUp
<1>0. /\ hp \in Heap /\ L \in Thread /\ ~hp.bad /\ Fields(hp) /\ Places(hp) /\ Edges(hp, L) /\ Swept(hp)
      /\ Lists(hp) /\ FinalizersDone(hp, cal, ph, lt)
      /\ ph = "run" /\ hp.gcstate \in MarkStates => Colours(hp, L, {})
  BY DEF HInv
<1>a. \A o \in O : /\ o \in Obj /\ IsOpen(hp, o) /\ Kind[o] = "upval" /\ hp.ref[o] = NoFields
                 /\ hp.mark[o] # "free" /\ hp.mark[o] # "black" /\ UpValue(hp, o) = Slot(hp, o)
                 /\ Slot(hp, o) \in Value /\ (o \in Live(hp) => Slot(hp, o) \in Live(hp) \cup {Nil})
  <2>1. \A o \in O : UpValue(hp, o) = Slot(hp, o) /\ Slot(hp, o) \in Value
    BY <1>0, OpenFacts
  <2> QED BY <1>0, <2>1 DEF Fields, Places, Lists, Edges
<1>b. c \in White \cup {"black"} /\ c = IF hp.gcstate = "propagate" THEN "black" ELSE hp.currentwhite
  BY <1>0, <1>m, HeapFields
<1>c. NoFields \in [Field -> Obj \cup {Nil, Dead}] /\ \A f \in Field : NoFields[f] = Nil
  BY DEF NoFields
<1>d. \A o \in O : ~IsDead(hp, o) => /\ rf[o] \in [Field -> Obj \cup {Nil, Dead}]
                                     /\ rf[o].v = Slot(hp, o)
                                     /\ \A f \in Field : f # "v" => rf[o][f] = Nil
  <2> SUFFICES ASSUME NEW o \in O, ~IsDead(hp, o)
               PROVE  /\ rf[o] \in [Field -> Obj \cup {Nil, Dead}] /\ rf[o].v = Slot(hp, o)
                      /\ \A f \in Field : f # "v" => rf[o][f] = Nil
    OBVIOUS
  <2>1. rf[o] = [NoFields EXCEPT !.v = Slot(hp, o)]
    BY <1>a, <1>m
  <2>2. Slot(hp, o) \in Obj \cup {Nil, Dead}
    BY <1>a DEF Value
  <2>3. "v" \in Field
    BY DEF Field
  <2> QED BY <1>c, <2>1, <2>2, <2>3
<1>e. /\ \A o \in O : IsDead(hp, o) => rf[o] = NoFields /\ mk[o] = "free"
      /\ \A o \in Obj : o \notin O => rf[o] = hp.ref[o] /\ mk[o] = hp.mark[o] /\ op[o] = hp.open[o]
      /\ \A o \in O : op[o] = Closed
      /\ \A o \in O : ~IsDead(hp, o) => mk[o] = IF hp.mark[o] = "gray" THEN c ELSE hp.mark[o]
  BY <1>a, <1>m
<1>1. /\ mk \in [Obj -> White \cup {"gray", "black", "free"}]
      /\ op \in [Obj -> {Closed} \cup (Thread \X Slots)]
      /\ rf \in [Obj -> [Field -> Obj \cup {Nil, Dead}]]
      /\ rt \subseteq Obj /\ \A x : x \in rt <=> x \in hp.rootgc \/ (x \in O /\ ~IsDead(hp, x))
  <2>1. mk \in [Obj -> White \cup {"gray", "black", "free"}] /\ op \in [Obj -> {Closed} \cup (Thread \X Slots)]
    BY <1>0, <1>b, <1>m, HeapFields
  <2>2. rt \subseteq Obj /\ \A x : x \in rt <=> x \in hp.rootgc \/ (x \in O /\ ~IsDead(hp, x))
    BY <1>0, <1>a, HeapFields
  <2>3. \A o \in Obj : rf[o] \in [Field -> Obj \cup {Nil, Dead}]
    <3> SUFFICES ASSUME NEW o \in Obj PROVE rf[o] \in [Field -> Obj \cup {Nil, Dead}]
      OBVIOUS
    <3>1. CASE o \notin O
      <4>1. rf[o] = hp.ref[o] /\ hp.ref \in [Obj -> [Field -> Obj \cup {Nil, Dead}]]
        BY <3>1, <1>0, <1>e, HeapFields
      <4> QED BY <4>1
    <3>2. CASE o \in O /\ IsDead(hp, o)
      <4>1. rf[o] = NoFields
        BY <3>2, <1>e
      <4> QED BY <4>1, <1>c
    <3>3. CASE o \in O /\ ~IsDead(hp, o)
      BY <3>3, <1>d
    <3> QED BY <3>1, <3>2, <3>3
  <2> QED BY <1>m, <2>1, <2>2, <2>3
<1> HIDE DEF rt
<1>2. /\ g.gcstate = hp.gcstate /\ g.currentwhite = hp.currentwhite /\ g.bad = hp.bad /\ g.mark = mk
      /\ g.ref = rf /\ g.open = op /\ g.stack = hp.stack /\ g.gray = hp.gray
      /\ g.grayagain = hp.grayagain /\ g.weak = hp.weak /\ g.tosweep = hp.tosweep /\ g.tosweepstr = hp.tosweepstr
      /\ g.rootgc = rt /\ g.tmudata = hp.tmudata /\ g.finalized = hp.finalized
  BY <1>0 DEF Heap
<1>3. g \in Heap
  BY <1>0, <1>1 DEF Heap
<1> HIDE DEF g
<1>4. /\ OtherWhite(g) = OtherWhite(hp) /\ OtherWhite(hp) # hp.currentwhite /\ hp.currentwhite \in White
      /\ OtherWhite(hp) \in White /\ "gray" \notin White /\ "black" \notin White /\ "free" \notin White
  BY <1>0, <1>2, WhiteFacts, HeapFields DEF OtherWhite
<1>5. \A x \in Obj : /\ (mk[x] = "free") <=> (hp.mark[x] = "free" \/ (x \in O /\ IsDead(hp, x)))
                     /\ IsDead(g, x) <=> (IsDead(hp, x) /\ x \notin O)
                     /\ mk[x] = "gray" <=> (hp.mark[x] = "gray" /\ x \notin O)
                     /\ mk[x] = "black" <=> (hp.mark[x] = "black" \/ (x \in O /\ hp.mark[x] = "gray" /\ hp.gcstate = "propagate"))
                     /\ IsOpen(g, x) <=> (IsOpen(hp, x) /\ x \notin O)
                     /\ IsOpen(g, x) => op[x] = hp.open[x] /\ Slot(g, x) = Slot(hp, x)
  <2>1. \A x \in Obj : (mk[x] = "free") <=> (hp.mark[x] = "free" \/ (x \in O /\ IsDead(hp, x)))
    BY <1>2, <1>4, <1>a, <1>b, <1>e, SMTT(30) DEF IsDead
  <2>2. \A x \in Obj : IsDead(g, x) <=> (IsDead(hp, x) /\ x \notin O)
    BY <1>2, <1>4, <1>a, <1>b, <1>e, SMTT(30) DEF IsDead
  <2>3. \A x \in Obj : mk[x] = "gray" <=> (hp.mark[x] = "gray" /\ x \notin O)
    BY <1>2, <1>4, <1>a, <1>b, <1>e, SMTT(30) DEF IsDead
  <2>4. \A x \in Obj : mk[x] = "black" <=> (hp.mark[x] = "black" \/ (x \in O /\ hp.mark[x] = "gray" /\ hp.gcstate = "propagate"))
    BY <1>2, <1>4, <1>a, <1>b, <1>e, SMTT(30) DEF IsDead
  <2>5. \A x \in Obj : IsOpen(g, x) <=> (IsOpen(hp, x) /\ x \notin O)
    BY <1>2, <1>4, <1>a, <1>b, <1>e, SMTT(30) DEF IsOpen
  <2>6. \A x \in Obj : IsOpen(g, x) => op[x] = hp.open[x] /\ Slot(g, x) = Slot(hp, x)
    BY <1>2, <1>4, <1>a, <1>b, <1>e, SMTT(30) DEF IsOpen, Slot
  <2> QED BY <2>1, <2>2, <2>3, <2>4, <2>5, <2>6
<1>6. Live(g) = Live(hp)
  BY <1>2, <1>5 DEF Live
<1>7. Fields(g)
  <2>1. \A o \in O : WellFormed(o, rf[o]) /\ (mk[o] = "free" => rf[o] = NoFields) /\ ~IsOpen(g, o) /\ Kind[o] # "closure"
    <3> SUFFICES ASSUME NEW o \in O PROVE WellFormed(o, rf[o]) /\ (mk[o] = "free" => rf[o] = NoFields)
      BY <1>5, <1>a
    <3>1. CASE IsDead(hp, o)
      <4>1. WellFormed(o, NoFields)
        BY <1>c DEF WellFormed, Field, Value
      <4> QED BY <3>1, <4>1, <1>e
    <3>2. CASE ~IsDead(hp, o)
      <4>1. mk[o] # "free" /\ Kind[o] = "upval" /\ Slot(hp, o) \in Value
        BY <3>2, <1>5, <1>a
      <4>2. FieldsOf(o) = {"v"}
        BY <4>1 DEF FieldsOf
      <4> HIDE DEF Value
      <4>3. Nil \in Value
        BY DEF Value
      <4> QED BY <3>2, <4>1, <4>2, <4>3, <1>d DEF WellFormed, Field
    <3> QED BY <3>1, <3>2
  <2>2. \A o \in Obj : o \notin O => /\ WellFormed(o, rf[o])
                                     /\ Kind[o] = "closure" /\ mk[o] # "free" => rf[o].up # Nil
                                     /\ mk[o] = "free" \/ IsOpen(g, o) => rf[o] = NoFields
    BY <1>0, <1>5, <1>e DEF Fields
  <2> QED BY <1>2, <2>1, <2>2 DEF Fields
<1>8. Places(g)
  <2>1. \A x \in Obj : IsOpen(g, x) => Kind[x] = "upval" /\ mk[x] # "free" /\ op[x][1] \in Obj /\ mk[op[x][1]] # "free"
    <3>1. \A x \in Obj : IsOpen(hp, x) => hp.open[x][1] \in Obj /\ hp.open[x][1] \notin O
      BY <1>0, <1>a, OpenFacts, ThreadIs
    <3> QED BY <1>0, <1>5, <3>1 DEF Places
  <2>2. \A x \in rt \cup hp.tmudata \cup hp.finalized \cup hp.tosweepstr : mk[x] # "free"
    <3>1. \A x \in hp.rootgc \cup hp.tmudata \cup hp.finalized \cup hp.tosweepstr : x \in Obj /\ x \notin O /\ hp.mark[x] # "free"
      <4>1. \A x \in hp.rootgc \cup hp.tmudata \cup hp.finalized \cup hp.tosweepstr : x \in Obj
        BY <1>0, HeapFields
      <4>2. \A x \in hp.rootgc : x \notin O
        BY <1>0, <1>a DEF Places
      <4>3. \A x \in hp.tmudata \cup hp.finalized \cup hp.tosweepstr : x \notin O
        BY <1>0, <1>a DEF Places
      <4> QED BY <1>0, <4>1, <4>2, <4>3 DEF Places
    <3>2. \A x \in O : ~IsDead(hp, x) => mk[x] # "free"
      BY <1>5, <1>a
    <3> QED BY <1>1, <1>e, <3>1, <3>2
  <2>3. \A x \in rt : x \notin hp.tmudata /\ Kind[x] # "string" /\ ~IsOpen(g, x)
    <3>1. \A x \in hp.tmudata : Kind[x] = "udata"
      BY <1>0 DEF Places
    <3>2. \A x \in hp.rootgc : x \in Obj
      BY <1>0, HeapFields
    <3> QED BY <1>0, <1>1, <1>5, <1>a, <3>1, <3>2 DEF Places
  <2>4. Main \in rt /\ hp.tosweep \subseteq rt \cup hp.tmudata
    BY <1>0, <1>1 DEF Places
  <2>5. \A x \in Obj : mk[x] # "free" /\ Kind[x] # "string" /\ ~IsOpen(g, x) => x \in rt \cup hp.tmudata
    BY <1>0, <1>1, <1>5, <1>e DEF Places
  <2>7. \A x \in Thread, i \in Slots : mk[x] = "free" => hp.stack[x][i] = Nil
    <3>1. \A x \in Thread : x \in Obj /\ x \notin O
      BY <1>a, ThreadIs
    <3> QED BY <1>0, <1>5, <3>1 DEF Places
  <2> QED BY <1>0, <1>2, <2>1, <2>2, <2>3, <2>4, <2>5, <2>7 DEF Places
<1>9. Edges(g, L)
  <2>0. Live(hp) \subseteq Obj /\ \A x \in Live(hp) : ~IsDead(hp, x)
    BY DEF Live
  <2>1. \A x \in Live(hp) : \A f \in Field \ {"key"} : rf[x][f] \in Live(hp) \cup {Nil}
    <3> SUFFICES ASSUME NEW x \in Live(hp), NEW f \in Field \ {"key"} PROVE rf[x][f] \in Live(hp) \cup {Nil}
      OBVIOUS
    <3>1. CASE x \in O
      <4>1. rf[x].v \in Live(hp) \cup {Nil} /\ (f # "v" => rf[x][f] = Nil)
        <5>1. ~IsDead(hp, x) /\ Slot(hp, x) \in Live(hp) \cup {Nil}
          BY <3>1, <1>a, <2>0
        <5>2. rf[x].v = Slot(hp, x) /\ (\A d \in Field : d # "v" => rf[x][d] = Nil)
          BY <3>1, <1>d, <5>1
        <5> QED BY <5>1, <5>2
      <4> QED BY <4>1
    <3>2. CASE x \notin O
      <4>1. rf[x] = hp.ref[x]
        BY <3>2, <1>e, <2>0
      <4> QED BY <4>1, <1>0 DEF Edges
    <3> QED BY <3>1, <3>2
  <2>2. \A x \in Live(hp) : rf[x].val # Nil => rf[x].key \in Live(hp) \cup {Nil, Dead}
    BY <1>0, <1>d, <1>e, <2>0 DEF Edges, Field
  <2>3. \A x \in Live(hp) : IsOpen(g, x) => Slot(g, x) \in Live(hp) \cup {Nil}
    BY <1>0, <1>5, <2>0 DEF Edges
  <2> QED BY <1>0, <1>2, <1>6, <2>1, <2>2, <2>3 DEF Edges
<1>10. Swept(g)
  <2>1. \A x \in Obj : x \notin O /\ x \in Ahead(hp) => x \in Ahead(g)
    BY <1>2, <1>5 DEF Ahead
  <2>2. \A x \in Obj : IsDead(g, x) => x \in Ahead(g)
    BY <1>0, <1>5, <2>1 DEF Swept
  <2>3. hp.gcstate \notin MarkStates => Marked(g) \subseteq hp.tmudata \cup Ahead(g)
    <3>1. hp.gcstate \notin MarkStates => \A x \in Marked(g) : x \in Marked(hp) /\ x \notin O /\ x \in Obj
      BY <1>2, <1>5, <1>a DEF Marked, MarkStates
    <3> QED BY <1>0, <3>1, <2>1 DEF Swept
  <2> QED BY <1>0, <1>2, <2>2, <2>3 DEF Swept
<1>11. Lists(g)
  <2>1. \A x \in hp.gray \cup hp.grayagain \cup hp.weak : x \in Obj /\ x \notin O /\ mk[x] = hp.mark[x]
    <3>1. \A x \in hp.gray \cup hp.grayagain \cup hp.weak : x \in Obj /\ Kind[x] # "upval"
      BY <1>0, HeapFields DEF Lists
    <3> QED BY <1>a, <1>e, <3>1
  <2>2. \A x \in Obj : /\ Kind[x] = "thread" \/ IsOpen(g, x) => mk[x] # "black"
                       /\ Kind[x] = "udata" => mk[x] # "gray"
    <3>1. \A x \in Obj : Kind[x] = "thread" => x \notin O
      BY <1>a
    <3> QED BY <1>0, <1>5, <3>1 DEF Lists
  <2>3. hp.gcstate \in MarkStates => \A x \in Obj : mk[x] = "gray" =>
              x \in hp.gray \cup hp.grayagain \cup hp.weak \/ Kind[x] = "string" \/ IsOpen(g, x)
    BY <1>0, <1>5 DEF Lists
  <2> QED BY <1>0, <1>2, <2>1, <2>2, <2>3 DEF Lists
<1>12. FinalizersDone(g, cal, ph, lt)
  <2>1. \A u \in Obj : Kind[u] = "udata" => u \notin O
    BY <1>a
  <2> QED BY <1>0, <1>2, <1>5, <1>e, <2>1 DEF FinalizersDone, AtomicStages
<1>13. ph = "run" /\ g.gcstate \in MarkStates => Colours(g, L, P)
  <2> SUFFICES ASSUME ph = "run", hp.gcstate = "propagate" PROVE Colours(g, L, P)
    BY <1>2 DEF MarkStates
  <2>1. Marked(hp) \subseteq Marked(g)
    BY <1>2, <1>5 DEF Marked
  <2>2. \A x \in Obj : hp.mark[x] = "black" /\ x \notin hp.tmudata => \A f \in Field : hp.ref[x][f] \in Marked(hp) \cup {} \cup {Nil, Dead}
    BY <1>0 DEF Colours, MarkStates
  <2>3. \A x \in Obj : mk[x] = "black" /\ x \notin hp.tmudata => \A f \in Field : rf[x][f] \in Marked(g) \cup P \cup {Nil, Dead}
    <3> SUFFICES ASSUME NEW x \in Obj, mk[x] = "black", x \notin hp.tmudata, NEW f \in Field
                 PROVE  rf[x][f] \in Marked(g) \cup P \cup {Nil, Dead}
      OBVIOUS
    <3>1. CASE x \in O
      <4>1. hp.mark[x] = "gray" /\ ~IsDead(hp, x)
        BY <3>1, <1>4, <1>5, <1>a DEF IsDead
      <4>2. rf[x].v \in P /\ (f # "v" => rf[x][f] = Nil)
        BY <3>1, <4>1, <1>d
      <4> QED BY <4>2
    <3>2. CASE x \notin O
      <4>1. hp.mark[x] = "black" /\ rf[x] = hp.ref[x]
        BY <3>2, <1>5, <1>e
      <4> QED BY <4>1, <2>1, <2>2
    <3> QED BY <3>1, <3>2
  <2>4. Main \in Marked(g) \cup P \cup {Nil, Dead}
    BY <1>0, <2>1 DEF Colours, MarkStates
  <2> QED BY <1>2, <2>3, <2>4 DEF Colours, AtomicStages
<1>14. Y = g
  BY <1>m DEF g, rt
<1> QED BY <1>0, <1>2, <1>14, <1>3, <1>6, <1>7, <1>8, <1>9, <1>10, <1>11, <1>12, <1>13 DEF HInv
\* Marking leaves everything but the colours and gray alone, and frees nothing.
LEMMA MarkAllFrame ==
  ASSUME NEW hp \in Heap, NEW S
  PROVE  /\ MarkAll(hp, S).stack = hp.stack /\ MarkAll(hp, S).gcstate = hp.gcstate
         /\ \A o \in Obj : hp.mark[o] # "free" => MarkAll(hp, S).mark[o] # "free"
<1> DEFINE N == NewMarks(hp, S)
           G == {o \in N : Kind[o] \in {"closure", "table", "thread", "proto"}}
           B == {o \in N : Kind[o] = "udata" \/ (Kind[o] = "upval" /\ hp.open[o] = Closed)}
           p == \A o \in N : ~IsDead(hp, o)
           A == LuaAssert(hp, p)
           Y == Link(A, "gray", G)
<1>1. MarkAll(hp, S) =
        [Y EXCEPT !.mark = [o \in Obj |-> IF o \in B THEN "black" ELSE IF o \in N THEN "gray" ELSE @[o]]]
  BY DEF MarkAll, NewMarks
<1>2. A \in Heap /\ A.stack = hp.stack /\ A.gcstate = hp.gcstate /\ A.mark = hp.mark
  <2> HIDE DEF p
  <2>1. A = hp \/ A = [hp EXCEPT !.bad = TRUE]
    BY DEF LuaAssert
  <2> HIDE DEF A
  <2> QED BY <2>1, ZenonT(30) DEF Heap
<1>3. G \subseteq Obj
  BY DEF NewMarks
<1> HIDE DEF A, G, B, N
<1>4. Y \in Heap /\ Y.stack = hp.stack /\ Y.gcstate = hp.gcstate /\ Y.mark = hp.mark
  <2> DEFINE q == G \cap (A.gray \cup A.grayagain \cup A.weak) = {}
             Z == LuaAssert(A, q)
  <2>1. Y = [Z EXCEPT !["gray"] = @ \cup G]
    BY DEF Link
  <2>2. Z \in Heap /\ Z.stack = hp.stack /\ Z.gcstate = hp.gcstate /\ Z.mark = hp.mark
    <3> HIDE DEF q
    <3>1. Z = A \/ Z = [A EXCEPT !.bad = TRUE]
      BY DEF LuaAssert
    <3> HIDE DEF Z
    <3> QED BY <1>2, <3>1, ZenonT(30) DEF Heap
  <2> HIDE DEF Z, Y
  <2> QED BY <1>3, <2>1, <2>2 DEF Heap
<1> HIDE DEF Y
<1> QED BY <1>1, <1>4 DEF Heap

\* luaF_close does what CloseBase describes, and then marks the values of what got black.
LEMMA CloseUpvalsIs ==
  ASSUME NEW hp \in Heap, Lists(hp), Swept(hp), Places(hp), NEW t, NEW level,
         NEW c, NEW mk, NEW op, NEW rf, NEW Y, NEW P,
         ClosedUp(hp, OpenOf(hp, t, level), c, mk, op, rf, Y, P)
  PROVE  CloseUpvals(hp, t, level) = IF hp.gcstate = "propagate" THEN MarkAll(Y, P) ELSE Y
<1> DEFINE O == OpenOf(hp, t, level)
<1>m. /\ c = IF hp.gcstate = "propagate" THEN "black" ELSE hp.currentwhite
      /\ mk = [o \in Obj |-> IF o \in O /\ IsDead(hp, o) THEN "free"
                             ELSE IF o \in O /\ hp.mark[o] = "gray" THEN c ELSE hp.mark[o]]
      /\ op = [o \in Obj |-> IF o \in O THEN Closed ELSE hp.open[o]]
      /\ rf = [o \in Obj |-> IF o \notin O THEN hp.ref[o] ELSE IF IsDead(hp, o) THEN NoFields
                             ELSE [hp.ref[o] EXCEPT !.v = UpValue(hp, o)]]
      /\ Y = [hp EXCEPT !.open = op, !.mark = mk, !.ref = rf,
                        !.rootgc = hp.rootgc \cup {o \in O : ~IsDead(hp, o)}]
      /\ P = {rf[o].v : o \in {x \in O : hp.mark[x] = "gray"}}
  BY DEF ClosedUp
<1> USE <1>m
<1> DEFINE D == {o \in O : IsDead(hp, o)}
           p == \A o \in O : hp.mark[o] # "black"
           A == LuaAssert(hp, p)
           X == [A EXCEPT !.open = [o \in Obj |-> IF o \in O THEN Closed ELSE @[o]],
                          !.mark = [o \in Obj |-> IF o \in D THEN "free" ELSE @[o]],
                          !.ref  = [o \in Obj |-> IF o \in D THEN NoFields
                                                  ELSE IF o \in O THEN [@[o] EXCEPT !.v = UpValue(hp, o)]
                                                  ELSE @[o]]]
           U == O \ D
           m0 == [o \in Obj |-> IF o \in D THEN "free" ELSE hp.mark[o]]
           r0 == [o \in Obj |-> IF o \in D THEN NoFields
                                ELSE IF o \in O THEN [hp.ref[o] EXCEPT !.v = UpValue(hp, o)]
                                ELSE hp.ref[o]]
<1>1. CloseUpvals(hp, t, level) = LinkUpvals(X, U)
  BY DEF CloseUpvals
<1>2. \A o \in O : o \in Obj /\ IsOpen(hp, o) /\ hp.mark[o] # "black" /\ hp.mark[o] # "free"
  <2>1. \A o \in O : o \in Obj /\ IsOpen(hp, o)
    BY OnKinds DEF OpenOf, IsOpen, Kinds
  <2> QED BY <2>1 DEF Lists, Places
<1>3. A = hp
  <2>1. p
    BY <1>2
  <2> HIDE DEF p
  <2> QED BY <2>1 DEF LuaAssert
<1>4. X = [hp EXCEPT !.open = op, !.mark = m0, !.ref = r0]
  <2> HIDE DEF A, D
  <2> QED BY <1>3 DEF Heap
<1>5. r0 = rf
  BY DEF D
<1> HIDE DEF A
<1>6. X.mark = m0 /\ X.ref = rf /\ X.gcstate = hp.gcstate /\ X.currentwhite = hp.currentwhite /\ X.rootgc = hp.rootgc
  <2> HIDE DEF X, m0, r0
  <2> QED BY <1>4, <1>5 DEF Heap
<1> DEFINE G == {uv \in U : X.mark[uv] = "gray"}
           g1 == [X EXCEPT !.rootgc = @ \cup U]
           q == G = {} \/ X.gcstate \notin {"finalize", "pause"}
           B == LuaAssert(g1, q)
           m1 == [g1 EXCEPT !.mark = [o \in Obj |-> IF o \in G THEN "black" ELSE @[o]]]
           m2 == [B EXCEPT !.mark = [o \in Obj |-> IF o \in G THEN X.currentwhite ELSE @[o]]]
           V == {X.ref[uv].v : uv \in G}
<1>7. LinkUpvals(X, U) = IF X.gcstate = "propagate" THEN MarkAll(m1, V) ELSE m2
  <2> HIDE DEF X, U
  <2> QED BY DEF LinkUpvals
<1>8. G = {x \in O : hp.mark[x] = "gray"}
  <2>1. \A o \in Obj : m0[o] = IF o \in D THEN "free" ELSE hp.mark[o]
    OBVIOUS
  <2>2. \A o \in O : hp.mark[o] = "gray" => o \notin D
    BY WhiteFacts DEF IsDead
  <2> HIDE DEF X, m0, D
  <2> QED BY <1>2, <1>6, <2>1, <2>2
<1>9. U = {o \in O : ~IsDead(hp, o)}
  OBVIOUS
<1>10. g1 = [hp EXCEPT !.open = op, !.mark = m0, !.ref = rf, !.rootgc = hp.rootgc \cup {o \in O : ~IsDead(hp, o)}]
  <2> HIDE DEF X, m0, r0, U
  <2> QED BY <1>4, <1>5, <1>6, <1>9 DEF Heap
<1>11. g1.mark = m0
  <2> HIDE DEF m0
  <2> QED BY <1>10 DEF Heap
<1>12. hp.gcstate # "propagate" => B = g1
  <2>1. hp.gcstate \in {"finalize", "pause"} => G = {}
    <3> SUFFICES ASSUME hp.gcstate \in {"finalize", "pause"}, NEW x \in O, hp.mark[x] = "gray" PROVE FALSE
      <4> HIDE DEF G
      <4> QED BY <1>8
    <3>1. Ahead(hp) = {}
      BY DEF Swept, Ahead, SweepStates
    <3>2. x \in hp.tmudata
      BY <3>1, <1>2 DEF Swept, MarkStates, AtomicStages, Marked
    <3>3. x \in Obj /\ IsOpen(hp, x)
      BY <1>2
    <3> QED BY <3>2, <3>3 DEF Places
  <2>2. q
    <3> HIDE DEF G, X
    <3> QED BY <1>6, <2>1
  <2> HIDE DEF q
  <2> QED BY <2>2 DEF LuaAssert
<1>13. CASE hp.gcstate = "propagate"
  <2>1. [o \in Obj |-> IF o \in G THEN "black" ELSE m0[o]] = mk
    <3>1. \A o \in Obj : (IF o \in G THEN "black" ELSE m0[o]) = mk[o]
      <4> HIDE DEF G
      <4> QED BY <1>8, <1>13, WhiteFacts DEF IsDead
    <3> HIDE DEF G, m0
    <3> QED BY <3>1
  <2>2. m1 = [g1 EXCEPT !.mark = mk]
    <3> HIDE DEF g1, G, m0
    <3> QED BY <1>11, <2>1
  <2>3. m1 = Y
    <3> HIDE DEF m0, g1, m1
    <3> QED BY <1>10, <2>2 DEF Heap
  <2>4. V = P
    <3>1. V = {rf[uv].v : uv \in G}
      <4> HIDE DEF X, G
      <4> QED BY <1>6
    <3> HIDE DEF V, G
    <3> QED BY <1>8, <3>1
  <2> HIDE DEF m1, V, X, m2
  <2> QED BY <1>1, <1>6, <1>7, <1>13, <2>3, <2>4
<1>14. CASE hp.gcstate # "propagate"
  <2>1. [o \in Obj |-> IF o \in G THEN X.currentwhite ELSE m0[o]] = mk
    <3>1. \A o \in Obj : (IF o \in G THEN hp.currentwhite ELSE m0[o]) = mk[o]
      <4> HIDE DEF G
      <4> QED BY <1>8, <1>14, WhiteFacts DEF IsDead
    <3> HIDE DEF G, m0, X
    <3> QED BY <1>6, <3>1
  <2>2. m2 = [g1 EXCEPT !.mark = mk]
    <3> HIDE DEF g1, G, m0, B, X
    <3> QED BY <1>11, <1>12, <1>14, <2>1
  <2>3. m2 = Y
    <3> HIDE DEF m0, g1, m2
    <3> QED BY <1>10, <2>2 DEF Heap
  <2> HIDE DEF m1, V, X, m2
  <2> QED BY <1>1, <1>6, <1>7, <1>14, <2>3
<1> QED BY <1>13, <1>14
\* luaF_close keeps the heap in order, whatever the collector is doing.
LEMMA CloseKeeps ==
  ASSUME NEW hp, NEW L, NEW cal, NEW ph, NEW lt, HInv(hp, L, {}, cal, ph, lt), hp.gcstate \notin AtomicStages,
         NEW t \in Thread, NEW level, NEW R, R = CloseUpvals(hp, t, level)
  PROVE  /\ HInv(R, L, {}, cal, ph, lt) /\ R.stack = hp.stack /\ R.gcstate = hp.gcstate
         /\ hp.mark[t] # "free" => R.mark[t] # "free"
         /\ hp.gcstate # "propagate" =>
              /\ R.mark[t] = hp.mark[t] /\ R.currentwhite = hp.currentwhite
              /\ R.tosweep = hp.tosweep /\ R.tosweepstr = hp.tosweepstr
              /\ \A o \in Obj : IsOpen(R, o) => o \notin OpenOf(hp, t, level) /\ R.open[o] = hp.open[o]
<1> DEFINE O == OpenOf(hp, t, level)
           c == IF hp.gcstate = "propagate" THEN "black" ELSE hp.currentwhite
           mk == [o \in Obj |-> IF o \in O /\ IsDead(hp, o) THEN "free"
                                ELSE IF o \in O /\ hp.mark[o] = "gray" THEN c ELSE hp.mark[o]]
           op == [o \in Obj |-> IF o \in O THEN Closed ELSE hp.open[o]]
           rf == [o \in Obj |-> IF o \notin O THEN hp.ref[o] ELSE IF IsDead(hp, o) THEN NoFields
                                ELSE [hp.ref[o] EXCEPT !.v = UpValue(hp, o)]]
           Y == [hp EXCEPT !.open = op, !.mark = mk, !.ref = rf,
                           !.rootgc = hp.rootgc \cup {o \in O : ~IsDead(hp, o)}]
           P == {rf[o].v : o \in {x \in O : hp.mark[x] = "gray"}}
<1>0. /\ hp \in Heap /\ L \in Thread /\ ~hp.bad /\ Fields(hp) /\ Places(hp) /\ Edges(hp, L) /\ Swept(hp)
      /\ Lists(hp) /\ FinalizersDone(hp, cal, ph, lt)
      /\ ph = "run" /\ hp.gcstate \in MarkStates => Colours(hp, L, {})
  BY DEF HInv
<1>m. ClosedUp(hp, O, c, mk, op, rf, Y, P)
  BY DEF ClosedUp
<1>1. R = IF hp.gcstate = "propagate" THEN MarkAll(Y, P) ELSE Y
  <2> HIDE DEF c, mk, op, rf, Y, P
  <2> QED BY <1>0, <1>m, CloseUpvalsIs
<1>2. O \subseteq {o \in Obj : IsOpen(hp, o)} /\ \A o \in O : Kind[o] = "upval"
  BY OnKinds DEF OpenOf, IsOpen, Kinds
<1>3. \A o \in O : hp.mark[o] = "gray" => o \in Obj /\ rf[o].v = Slot(hp, o) /\ Slot(hp, o) \in Live(hp) \cup {Nil} /\ Slot(hp, o) \in P
  <2> SUFFICES ASSUME NEW o \in O, hp.mark[o] = "gray"
               PROVE  o \in Obj /\ rf[o].v = Slot(hp, o) /\ Slot(hp, o) \in Live(hp) \cup {Nil} /\ Slot(hp, o) \in P
    OBVIOUS
  <2>1. o \in Obj /\ IsOpen(hp, o) /\ ~IsDead(hp, o) /\ o \in Live(hp)
    BY <1>0, <1>2, WhiteFacts DEF IsDead, Live
  <2>2. UpValue(hp, o) = Slot(hp, o) /\ Slot(hp, o) \in Live(hp) \cup {Nil}
    BY <1>0, <2>1, OpenFacts DEF Edges
  <2>3. rf[o] = [hp.ref[o] EXCEPT !.v = UpValue(hp, o)]
    <3> HIDE DEF O
    <3> QED BY <2>1
  <2>4. hp.ref[o] \in [Field -> Obj \cup {Nil, Dead}] /\ "v" \in Field
    BY <1>0, <2>1, HeapFields DEF Field
  <2>5. rf[o].v = Slot(hp, o)
    <3> HIDE DEF rf
    <3> QED BY <2>2, <2>3, <2>4
  <2>6. rf[o].v \in P
    <3> HIDE DEF O, rf
    <3> QED OBVIOUS
  <2> QED BY <2>1, <2>2, <2>5, <2>6
<1>4. P \subseteq Live(hp) \cup {Nil, Dead}
  <2> HIDE DEF O, rf
  <2> QED BY <1>3
<1>5. HInv(Y, L, P, cal, ph, lt) /\ Live(Y) = Live(hp)
  <2>1. \A o \in O : hp.mark[o] = "gray" => Slot(hp, o) \in P
    BY <1>3
  <2> HIDE DEF O, c, mk, op, rf, P, Y
  <2> QED BY <1>2, <1>m, <2>1, CloseBase
<1>6. /\ Y.stack = hp.stack /\ Y.gcstate = hp.gcstate /\ Y.tosweep = hp.tosweep /\ Y.tosweepstr = hp.tosweepstr
      /\ Y.mark = mk /\ Y.open = op /\ Y.currentwhite = hp.currentwhite
  <2> HIDE DEF O, c, mk, op, rf
  <2> QED BY <1>0 DEF Heap
<1>7. mk[t] = hp.mark[t]
  <2>1. t \in Obj /\ t \notin O
    BY <1>2, ThreadIs
  <2> HIDE DEF O, c
  <2> QED BY <2>1
<1>8. \A o \in Obj : op[o] # Closed => o \notin O /\ op[o] = hp.open[o]
  <2> HIDE DEF O
  <2> QED OBVIOUS
<1>9. CASE hp.gcstate = "propagate"
  <2> HIDE DEF Y, P, O, c, mk, op, rf
  <2>1. R = MarkAll(Y, P)
    BY <1>1, <1>9
  <2>2. Y.gcstate \in MarkStates /\ P \subseteq Live(Y) \cup {Nil, Dead}
    BY <1>4, <1>5, <1>6, <1>9 DEF MarkStates
  <2>3. HInv(R, L, {}, cal, ph, lt)
    BY <1>5, <2>1, <2>2, MarkAllKeeps
  <2>4. Y \in Heap /\ t \in Obj
    BY <1>5, ThreadIs DEF HInv
  <2> QED BY <1>6, <1>7, <1>9, <2>1, <2>3, <2>4, MarkAllFrame
<1>10. CASE hp.gcstate # "propagate"
  <2> HIDE DEF Y, P, O, c, mk, op, rf
  <2>1. R = Y
    BY <1>1, <1>10
  <2>2. Y \in Heap
    BY <1>5 DEF HInv
  <2>3. HInv(Y, L, {}, cal, ph, lt)
    <3>1. Y.gcstate \notin MarkStates
      BY <1>6, <1>10 DEF MarkStates
    <3> QED BY <1>5, <3>1 DEF HInv
  <2> QED BY <1>6, <1>7, <1>8, <2>1, <2>3 DEF IsOpen, O
<1> QED BY <1>9, <1>10

TakenFrom(hp, S, g) ==
    g = [SweepPlain(hp, S) EXCEPT !.tosweep = hp.tosweep \ S, !.tosweepstr = hp.tosweepstr \ S]

SweptTo(hp, S, g) ==
    /\ g.currentwhite = hp.currentwhite /\ g.stack = hp.stack /\ g.gcstate = hp.gcstate
    /\ \A o \in Obj : o \notin S => g.mark[o] = hp.mark[o] /\ g.open[o] = hp.open[o]
    /\ \A o \in S : g.mark[o] = IF IsDead(hp, o) THEN "free" ELSE hp.currentwhite
    /\ \A o \in S : IsOpen(g, o) => ~IsDead(hp, o) /\ g.open[o] = hp.open[o]

\* Sweeping the objects of S, and taking them off what is to be swept.  Threads come after their open
\* upvalues, and if they are to be freed, after their upvalues are closed and their stacks gone.
LEMMA SweepKeeps ==
  ASSUME NEW hp, NEW L, NEW cal, NEW ph, NEW lt, HInv(hp, L, {}, cal, ph, lt), hp.gcstate \in SweepStates,
         NEW S, S \subseteq Alive(hp),
         \A o \in Obj : IsOpen(hp, o) /\ hp.open[o][1] \in S =>
            /\ ~IsDead(hp, hp.open[o][1]) /\ ~IsDead(hp, o) /\ o \notin Marked(hp),
         \A t \in Thread, i \in Slots : t \in S /\ IsDead(hp, t) => hp.stack[t][i] = Nil,
         NEW g, TakenFrom(hp, S, g)
  PROVE  /\ HInv(g, L, {}, cal, ph, lt)
         /\ SweptTo(hp, S, g)
<1> DEFINE D == {o \in S : IsDead(hp, o)}
           mk == [o \in Obj |-> IF o \in D THEN "free" ELSE IF o \in S THEN hp.currentwhite ELSE hp.mark[o]]
           rf == [o \in Obj |-> IF o \in D THEN NoFields ELSE hp.ref[o]]
           op == [o \in Obj |-> IF o \in D THEN Closed ELSE hp.open[o]]
           rt == hp.rootgc \ D
           fi == hp.finalized \ D
           ts == hp.tosweep \ S
           tt == hp.tosweepstr \ S
           q == [hp EXCEPT !.mark = mk, !.ref = rf, !.open = op, !.rootgc = rt, !.finalized = fi, !.tosweep = ts, !.tosweepstr = tt]
<1>0. /\ hp \in Heap /\ L \in Thread /\ ~hp.bad /\ Fields(hp) /\ Places(hp) /\ Edges(hp, L) /\ Swept(hp)
      /\ Lists(hp) /\ FinalizersDone(hp, cal, ph, lt)
      /\ ph = "run" /\ hp.gcstate \in MarkStates => Colours(hp, L, {})
  BY DEF HInv
<1>a. S \subseteq Obj /\ D \subseteq Obj /\ D \subseteq S /\ Main \notin D /\ \A o \in S : hp.mark[o] # "free"
  BY <1>0 DEF Alive, Edges, Live
<1>b. g = q
  <2>1. {o \in S : IsDead(hp, o) /\ o # Main} = D
    BY <1>a
  <2>2. SweepPlain(hp, S) = [hp EXCEPT !.mark = mk, !.ref = rf, !.open = op, !.rootgc = rt, !.finalized = fi]
    <3> HIDE DEF D
    <3> QED BY <2>1, <1>0, ZenonT(30) DEF SweepPlain, Heap
  <2> HIDE DEF D, mk, rf, op, rt, fi
  <2> QED BY <2>2, <1>0 DEF Heap, TakenFrom
<1>c. \A o \in D : IsDead(hp, o) /\ o \in S
  OBVIOUS
<1>d. \A o \in S : o \in D <=> IsDead(hp, o)
  OBVIOUS
<1>e. NoFields \in [Field -> Obj \cup {Nil, Dead}] /\ \A o : WellFormed(o, NoFields)
  BY DEF NoFields, WellFormed, Value, Field
<1> HIDE DEF D
<1>1. /\ mk \in [Obj -> White \cup {"gray", "black", "free"}] /\ (\A o \in D : mk[o] = "free")
      /\ (\A o \in S : o \notin D => mk[o] = hp.currentwhite)
      /\ (\A o \in Obj : o \notin S => mk[o] = hp.mark[o])
      /\ op \in [Obj -> {Closed} \cup (Thread \X Slots)] /\ (\A o \in D : op[o] = Closed)
      /\ (\A o \in Obj : o \notin D => op[o] = hp.open[o])
      /\ rf \in [Obj -> [Field -> Obj \cup {Nil, Dead}]] /\ (\A o \in D : rf[o] = NoFields)
      /\ (\A o \in Obj : o \notin D => rf[o] = hp.ref[o])
      /\ rt \subseteq Obj /\ (\A x : x \in rt <=> x \in hp.rootgc /\ x \notin D)
      /\ fi \subseteq Obj /\ (\A x : x \in fi <=> x \in hp.finalized /\ x \notin D)
      /\ ts \subseteq Obj /\ (\A x : x \in ts <=> x \in hp.tosweep /\ x \notin S)
      /\ tt \subseteq Obj /\ (\A x : x \in tt <=> x \in hp.tosweepstr /\ x \notin S)
  BY <1>0, <1>a, <1>e, HeapFields
<1> HIDE DEF mk, rf, op, rt, fi, ts, tt
<1>f. /\ q.gcstate = hp.gcstate /\ q.currentwhite = hp.currentwhite /\ q.bad = hp.bad /\ q.mark = mk
      /\ q.ref = rf /\ q.open = op /\ q.stack = hp.stack /\ q.gray = hp.gray
      /\ q.grayagain = hp.grayagain /\ q.weak = hp.weak /\ q.tosweep = ts /\ q.tosweepstr = tt
      /\ q.rootgc = rt /\ q.tmudata = hp.tmudata /\ q.finalized = fi
  BY <1>0 DEF Heap
<1>g. q \in Heap
  BY <1>0, <1>1 DEF Heap
<1> HIDE DEF q
<1>2. /\ g.gcstate = hp.gcstate /\ g.currentwhite = hp.currentwhite /\ g.bad = hp.bad /\ g.mark = mk
      /\ g.ref = rf /\ g.open = op /\ g.stack = hp.stack /\ g.gray = hp.gray
      /\ g.grayagain = hp.grayagain /\ g.weak = hp.weak /\ g.tosweep = ts /\ g.tosweepstr = tt
      /\ g.rootgc = rt /\ g.tmudata = hp.tmudata /\ g.finalized = fi
  BY <1>b, <1>f
<1>3. g \in Heap
  BY <1>b, <1>g
<1>4. /\ OtherWhite(g) = OtherWhite(hp) /\ OtherWhite(hp) # hp.currentwhite /\ hp.currentwhite \in White
      /\ OtherWhite(hp) \in White /\ "gray" \notin White /\ "black" \notin White /\ "free" \notin White
  BY <1>0, <1>2, WhiteFacts, HeapFields DEF OtherWhite
<1>5. \A x \in Obj : /\ (mk[x] = "free") <=> (hp.mark[x] = "free" \/ x \in D)
                     /\ IsDead(g, x) <=> (IsDead(hp, x) /\ x \notin S)
                     /\ mk[x] = "gray" <=> (hp.mark[x] = "gray" /\ x \notin S)
                     /\ mk[x] = "black" <=> (hp.mark[x] = "black" /\ x \notin S)
                     /\ IsOpen(g, x) <=> (IsOpen(hp, x) /\ x \notin D)
                     /\ IsOpen(g, x) => op[x] = hp.open[x] /\ Slot(g, x) = Slot(hp, x)
  <2> SUFFICES ASSUME NEW x \in Obj
               PROVE /\ (mk[x] = "free") <=> (hp.mark[x] = "free" \/ x \in D)
                     /\ (mk[x] = OtherWhite(hp)) <=> (IsDead(hp, x) /\ x \notin S)
                     /\ mk[x] = "gray" <=> (hp.mark[x] = "gray" /\ x \notin S)
                     /\ mk[x] = "black" <=> (hp.mark[x] = "black" /\ x \notin S)
                     /\ (op[x] # Closed) <=> (IsOpen(hp, x) /\ x \notin D)
                     /\ op[x] # Closed => op[x] = hp.open[x]
    BY <1>2, <1>4 DEF IsDead, IsOpen, Slot
  <2>1. CASE x \in D
    BY <2>1, <1>1, <1>4, <1>a DEF IsDead, IsOpen
  <2>2. CASE x \in S /\ x \notin D
    BY <2>2, <1>1, <1>4, <1>a, <1>d DEF IsDead, IsOpen
  <2>3. CASE x \notin S
    BY <2>3, <1>1, <1>4, <1>a DEF IsDead, IsOpen
  <2> QED BY <2>1, <2>2, <2>3
<1>6. Live(g) = Live(hp) /\ \A x \in Live(hp) : x \in Obj /\ x \notin D
  <2>1. \A x \in Live(hp) : x \in Obj /\ x \notin D
    BY <1>c DEF Live
  <2>2. \A x \in Obj : x \in Live(g) <=> x \in Live(hp)
    <3>1. \A x \in Obj : x \in S => x \in D \/ ~IsDead(hp, x)
      BY <1>d
    <3> QED BY <1>2, <1>5, <1>a, <1>c, <3>1 DEF Live
  <2> QED BY <2>1, <2>2 DEF Live
<1>7. Fields(g)
  <2>1. \A o \in D : WellFormed(o, rf[o]) /\ mk[o] = "free" /\ rf[o] = NoFields
    BY <1>1, <1>e
  <2>2. \A o \in Obj : o \notin D => /\ WellFormed(o, rf[o])
                                     /\ Kind[o] = "closure" /\ mk[o] # "free" => rf[o].up # Nil
                                     /\ mk[o] = "free" \/ IsOpen(g, o) => rf[o] = NoFields
    BY <1>0, <1>1, <1>5 DEF Fields
  <2> QED BY <1>2, <2>1, <2>2 DEF Fields
<1>8. \A x \in hp.tmudata : x \in Obj /\ x \notin D
  BY <1>0, <1>6 DEF Edges
<1>9. Places(g)
  <2>1. \A x \in Obj : IsOpen(g, x) => Kind[x] = "upval" /\ mk[x] # "free" /\ op[x][1] \in Obj /\ mk[op[x][1]] # "free"
    <3>1. \A x \in Obj : IsOpen(hp, x) => hp.open[x][1] \in Obj
      BY <1>0, OpenFacts, ThreadIs
    <3>2. \A x \in Obj : IsOpen(hp, x) => hp.open[x][1] \notin D
      BY <1>c
    <3> QED BY <1>0, <1>5, <3>1, <3>2 DEF Places
  <2>2. \A x \in rt \cup hp.tmudata \cup fi \cup tt : mk[x] # "free"
    <3>1. \A x \in rt \cup hp.tmudata \cup fi \cup tt : x \in Obj /\ x \notin D /\ hp.mark[x] # "free"
      BY <1>0, <1>1, <1>8, <1>a DEF Places
    <3> QED BY <1>5, <3>1
  <2>3. \A x \in rt : x \notin hp.tmudata /\ Kind[x] # "string" /\ ~IsOpen(g, x)
    BY <1>0, <1>1, <1>5 DEF Places
  <2>4. Main \in rt /\ ts \subseteq rt \cup hp.tmudata
    BY <1>0, <1>1, <1>a DEF Places
  <2>5. \A x \in Obj : mk[x] # "free" /\ Kind[x] # "string" /\ ~IsOpen(g, x) => x \in rt \cup hp.tmudata
    BY <1>0, <1>1, <1>5 DEF Places
  <2>6. /\ \A x \in fi : Kind[x] = "udata"
        /\ hp.tmudata \subseteq fi
        /\ \A x \in tt : Kind[x] = "string"
    BY <1>0, <1>1, <1>8 DEF Places
  <2>7. \A x \in Thread, i \in Slots : mk[x] = "free" => hp.stack[x][i] = Nil
    <3>1. \A x \in Thread : x \in Obj
      BY ThreadIs
    <3> QED BY <1>0, <1>5, <1>c, <3>1 DEF Places
  <2> QED BY <1>2, <2>1, <2>2, <2>3, <2>4, <2>5, <2>6, <2>7 DEF Places
<1>10. Edges(g, L)
  <2>1. \A x \in Live(hp) : rf[x] = hp.ref[x]
    BY <1>1, <1>6
  <2>2. \A x \in Live(hp) : IsOpen(g, x) => IsOpen(hp, x) /\ Slot(g, x) = Slot(hp, x)
    BY <1>5, <1>6
  <2> QED BY <1>0, <1>2, <1>6, <2>1, <2>2 DEF Edges
<1>11. Swept(g)
  <2>1. \A x \in Obj : x \notin S /\ (IsDead(hp, x) \/ x \in Marked(hp)) /\ x \in Ahead(hp) => x \in Ahead(g)
    <3> SUFFICES ASSUME NEW x \in Obj, x \notin S, IsDead(hp, x) \/ x \in Marked(hp), x \in Ahead(hp)
                 PROVE  x \in Ahead(g)
      OBVIOUS
    <3>1. CASE x \in hp.tosweep \cup hp.tosweepstr
      BY <3>1, <1>1, <1>2 DEF Ahead
    <3>2. CASE IsOpen(hp, x) /\ hp.open[x][1] \in hp.tosweep
      <4>1. hp.open[x][1] \notin S
        BY <3>2
      <4>2. x \notin D
        BY <1>a
      <4>3. IsOpen(g, x) /\ op[x][1] \in ts
        BY <3>2, <4>1, <4>2, <1>1, <1>5
      <4> QED BY <4>3, <1>2 DEF Ahead
    <3> QED BY <3>1, <3>2 DEF Ahead
  <2>2. \A x \in Obj : IsDead(g, x) => x \in Ahead(g)
    BY <1>0, <1>5, <2>1 DEF Swept
  <2>3. Marked(g) \subseteq hp.tmudata \cup Ahead(g)
    <3>1. \A x \in Marked(g) : x \in Marked(hp) /\ x \notin S /\ x \in Obj
      BY <1>2, <1>5 DEF Marked
    <3>2. hp.gcstate \notin MarkStates
      BY DEF SweepStates, MarkStates, AtomicStages
    <3> QED BY <1>0, <3>1, <3>2, <2>1 DEF Swept
  <2>4. hp.tosweepstr = {} => tt = {}
    BY <1>1
  <2> QED BY <1>0, <1>2, <2>2, <2>3, <2>4 DEF Swept
<1>12. Lists(g)
  <2>1. g.gcstate \notin MarkStates
    BY <1>2 DEF SweepStates, MarkStates, AtomicStages
  <2>2. \A x \in hp.gray \cup hp.grayagain \cup hp.weak : x \in Obj
    BY <1>0, HeapFields
  <2> QED BY <1>0, <1>2, <1>5, <2>1, <2>2 DEF Lists
<1>13. FinalizersDone(g, cal, ph, lt)
  <2>1. hp.gcstate # "tmu"
    BY DEF SweepStates
  <2> QED BY <1>0, <1>1, <1>2, <1>5, <2>1 DEF FinalizersDone
<1>14. g.gcstate \notin MarkStates
  BY <1>2 DEF SweepStates, MarkStates, AtomicStages
<1>15. HInv(g, L, {}, cal, ph, lt)
  BY <1>0, <1>2, <1>3, <1>7, <1>9, <1>10, <1>11, <1>12, <1>13, <1>14 DEF HInv
<1>16. \A o \in Obj : o \notin S => g.mark[o] = hp.mark[o] /\ g.open[o] = hp.open[o]
  BY <1>1, <1>2, <1>a
<1>17. \A o \in S : g.mark[o] = IF IsDead(hp, o) THEN "free" ELSE hp.currentwhite
  BY <1>1, <1>2, <1>d
<1>18. \A o \in S : IsOpen(g, o) => ~IsDead(hp, o) /\ g.open[o] = hp.open[o]
  BY <1>2, <1>5, <1>a, <1>d
<1> QED BY <1>2, <1>15, <1>16, <1>17, <1>18 DEF SweptTo
\* What SweepPlain leaves alone.
LEMMA SweepPlainFrame ==
  ASSUME NEW hp \in Heap, NEW S, S \subseteq Obj
  PROVE  /\ SweepPlain(hp, S) \in Heap
         /\ SweepPlain(hp, S).tosweep = hp.tosweep /\ SweepPlain(hp, S).tosweepstr = hp.tosweepstr
<1> DEFINE D == {o \in S : IsDead(hp, o) /\ o # Main}
           mk == [o \in Obj |-> IF o \in D THEN "free" ELSE IF o \in S THEN hp.currentwhite ELSE hp.mark[o]]
           rf == [o \in Obj |-> IF o \in D THEN NoFields ELSE hp.ref[o]]
           op == [o \in Obj |-> IF o \in D THEN Closed ELSE hp.open[o]]
           rt == hp.rootgc \ D
           fi == hp.finalized \ D
           q == [hp EXCEPT !.mark = mk, !.ref = rf, !.open = op, !.rootgc = rt, !.finalized = fi]
<1>1. SweepPlain(hp, S) = q
  <2>1. SweepPlain(hp, S) = [hp EXCEPT !.mark = [o \in Obj |-> IF o \in D THEN "free" ELSE IF o \in S THEN hp.currentwhite ELSE @[o]],
                   !.ref  = [o \in Obj |-> IF o \in D THEN NoFields ELSE @[o]],
                   !.open = [o \in Obj |-> IF o \in D THEN Closed ELSE @[o]],
                   !.rootgc = @ \ D, !.finalized = @ \ D]
    BY DEF SweepPlain
  <2> HIDE DEF D
  <2> QED BY <2>1 DEF Heap
<1>2. NoFields \in [Field -> Obj \cup {Nil, Dead}]
  BY DEF NoFields
<1> HIDE DEF D
<1>3. /\ mk \in [Obj -> White \cup {"gray", "black", "free"}] /\ op \in [Obj -> {Closed} \cup (Thread \X Slots)]
      /\ rf \in [Obj -> [Field -> Obj \cup {Nil, Dead}]] /\ rt \subseteq Obj /\ fi \subseteq Obj
  BY <1>2, HeapFields
<1> HIDE DEF mk, rf, op, rt, fi
<1>4. q \in Heap /\ q.tosweep = hp.tosweep /\ q.tosweepstr = hp.tosweepstr
  BY <1>3 DEF Heap
<1> HIDE DEF q
<1> QED BY <1>1, <1>4

LEMMA TakenOff ==
  ASSUME NEW r \in Heap, NEW S
  PROVE  /\ r.tosweepstr \cap S = {} =>
              [r EXCEPT !.tosweep = @ \ S] = [r EXCEPT !.tosweep = r.tosweep \ S, !.tosweepstr = r.tosweepstr \ S]
         /\ r.tosweep \cap S = {} =>
              [r EXCEPT !.tosweepstr = @ \ S] = [r EXCEPT !.tosweep = r.tosweep \ S, !.tosweepstr = r.tosweepstr \ S]
         /\ r.tosweep \cap S = {} /\ r.tosweepstr \cap S = {} =>
              r = [r EXCEPT !.tosweep = r.tosweep \ S, !.tosweepstr = r.tosweepstr \ S]
<1>1. r.tosweepstr \cap S = {} => r.tosweepstr \ S = r.tosweepstr
  OBVIOUS
<1>2. r.tosweep \cap S = {} => r.tosweep \ S = r.tosweep
  OBVIOUS
<1> QED BY <1>1, <1>2, ZenonT(30) DEF Heap

\* sweeplist takes one object that is not a thread; strings are swept likewise.
LEMMA SweepOneKeeps ==
  ASSUME NEW hp, NEW L, NEW cal, NEW ph, NEW lt, HInv(hp, L, {}, cal, ph, lt), hp.gcstate \in SweepStates,
         NEW o \in hp.tosweep \cup hp.tosweepstr, o \notin Thread
  PROVE  /\ o \in hp.tosweep => HInv([SweepPlain(hp, {o}) EXCEPT !.tosweep = @ \ {o}], L, {}, cal, ph, lt)
         /\ o \in hp.tosweepstr => HInv([SweepPlain(hp, {o}) EXCEPT !.tosweepstr = @ \ {o}], L, {}, cal, ph, lt)
<1> DEFINE S == {o}
           r == SweepPlain(hp, S)
           g == [r EXCEPT !.tosweep = hp.tosweep \ S, !.tosweepstr = hp.tosweepstr \ S]
<1>0. /\ hp \in Heap /\ L \in Thread /\ ~hp.bad /\ Fields(hp) /\ Places(hp) /\ Edges(hp, L) /\ Swept(hp)
      /\ Lists(hp) /\ FinalizersDone(hp, cal, ph, lt)
      /\ ph = "run" /\ hp.gcstate \in MarkStates => Colours(hp, L, {})
  BY DEF HInv
<1>1. /\ o \in Obj /\ o \in Alive(hp)
      /\ o \in hp.tosweep => o \notin hp.tosweepstr
  BY <1>0, HeapFields DEF Places, Alive
<1>2. \A x \in Obj : IsOpen(hp, x) => hp.open[x][1] \notin S
  BY <1>0, OpenFacts
<1>3. HInv(g, L, {}, cal, ph, lt)
  <2>1. S \subseteq Alive(hp) /\ \A t \in Thread : t \notin S
    BY <1>1
  <2>2. TakenFrom(hp, S, g)
    BY DEF TakenFrom
  <2> HIDE DEF S, g
  <2> QED BY <1>2, <2>1, <2>2, SweepKeeps
<1>4. r \in Heap /\ r.tosweep = hp.tosweep /\ r.tosweepstr = hp.tosweepstr
  <2>1. S \subseteq Obj
    BY <1>1
  <2> HIDE DEF S
  <2> QED BY <1>0, <2>1, SweepPlainFrame
<1>5. o \in hp.tosweep => hp.tosweepstr \cap S = {}
  BY <1>1
<1>6. o \in hp.tosweepstr => hp.tosweep \cap S = {}
  BY <1>1
<1>7. o \in hp.tosweep => [r EXCEPT !.tosweep = @ \ S] = g
  <2> HIDE DEF S, r
  <2> QED BY <1>4, <1>5, TakenOff
<1>8. o \in hp.tosweepstr => [r EXCEPT !.tosweepstr = @ \ S] = g
  <2> HIDE DEF S, r
  <2> QED BY <1>4, <1>6, TakenOff, ZenonT(30)
<1>9. /\ o \in hp.tosweep => HInv([r EXCEPT !.tosweep = @ \ S], L, {}, cal, ph, lt)
      /\ o \in hp.tosweepstr => HInv([r EXCEPT !.tosweepstr = @ \ S], L, {}, cal, ph, lt)
  <2> HIDE DEF S, r, g
  <2> QED BY <1>3, <1>7, <1>8
<1> QED BY <1>9 DEF S, r

LEMMA SweepPlainStack ==
  ASSUME NEW hp \in Heap, NEW S, S \subseteq Obj, NEW st
  PROVE  SweepPlain([hp EXCEPT !.stack = st], S) = [SweepPlain(hp, S) EXCEPT !.stack = st]
<1> DEFINE D == {o \in S : IsDead(hp, o) /\ o # Main}
           mk == [o \in Obj |-> IF o \in D THEN "free" ELSE IF o \in S THEN hp.currentwhite ELSE hp.mark[o]]
           rf == [o \in Obj |-> IF o \in D THEN NoFields ELSE hp.ref[o]]
           op == [o \in Obj |-> IF o \in D THEN Closed ELSE hp.open[o]]
           X == [hp EXCEPT !.stack = st]
           DX == {o \in S : IsDead(X, o) /\ o # Main}
<1>1. X.mark = hp.mark /\ X.currentwhite = hp.currentwhite /\ X.ref = hp.ref /\ X.open = hp.open /\ X.rootgc = hp.rootgc
      /\ X.finalized = hp.finalized
  BY DEF Heap
<1>2. DX = D
  <2> HIDE DEF X
  <2> QED BY <1>1 DEF IsDead, OtherWhite
<1>3. SweepPlain(hp, S) = [hp EXCEPT !.mark = mk, !.ref = rf, !.open = op, !.rootgc = hp.rootgc \ D, !.finalized = hp.finalized \ D]
  <2>1. SweepPlain(hp, S) = [hp EXCEPT !.mark = [o \in Obj |-> IF o \in D THEN "free" ELSE IF o \in S THEN hp.currentwhite ELSE @[o]],
                   !.ref  = [o \in Obj |-> IF o \in D THEN NoFields ELSE @[o]],
                   !.open = [o \in Obj |-> IF o \in D THEN Closed ELSE @[o]],
                   !.rootgc = @ \ D, !.finalized = @ \ D]
    BY DEF SweepPlain
  <2> HIDE DEF D
  <2> QED BY <2>1 DEF Heap
<1>4. SweepPlain(X, S) = [X EXCEPT !.mark = mk, !.ref = rf, !.open = op, !.rootgc = hp.rootgc \ D, !.finalized = hp.finalized \ D]
  <2>1. SweepPlain(X, S) = [X EXCEPT !.mark = [o \in Obj |-> IF o \in DX THEN "free" ELSE IF o \in S THEN X.currentwhite ELSE X.mark[o]],
                   !.ref  = [o \in Obj |-> IF o \in DX THEN NoFields ELSE X.ref[o]],
                   !.open = [o \in Obj |-> IF o \in DX THEN Closed ELSE X.open[o]],
                   !.rootgc = X.rootgc \ DX, !.finalized = X.finalized \ DX]
    <3>1. X = [hp EXCEPT !.stack = st]
      OBVIOUS
    <3>2. {"mark", "ref", "open", "rootgc", "finalized"} \subseteq DOMAIN X
      BY DEF Heap
    <3> HIDE DEF X
    <3> QED BY <3>2 DEF SweepPlain
  <2> HIDE DEF X, D, DX
  <2> QED BY <1>1, <1>2, <2>1
<1> HIDE DEF D, DX, mk, rf, op
<1> QED BY <1>3, <1>4 DEF Heap
LEMMA AllOpen ==
  ASSUME NEW hp \in Heap, Places(hp), NEW t \in Thread, NEW o \in Obj
  PROVE  o \in OpenOf(hp, t, 0) <=> IsOpen(hp, o) /\ hp.open[o][1] = t
<1>1. IsOpen(hp, o) => o \in On("upval") /\ hp.open[o][2] \in Nat
  BY OpenFacts, OnKinds, HeapAssumption DEF Places, Kinds
<1> QED BY <1>1 DEF OpenOf, IsOpen

\* A thread is swept with its open upvalues; if it is freed they are closed first.
LEMMA SweepThreadKeeps ==
  ASSUME NEW hp, NEW L, NEW cal, NEW ph, NEW lt, HInv(hp, L, {}, cal, ph, lt), hp.gcstate \in SweepStates,
         NEW t \in hp.tosweep, t \in Thread
  PROVE  HInv([SweepThread(hp, t) EXCEPT !.tosweep = @ \ {t}], L, {}, cal, ph, lt)
<1> DEFINE O == OpenOf(hp, t, 0)
           g1 == SweepPlain(hp, O)
           T == {t}
<1>0. /\ hp \in Heap /\ L \in Thread /\ ~hp.bad /\ Fields(hp) /\ Places(hp) /\ Edges(hp, L) /\ Swept(hp)
      /\ Lists(hp) /\ FinalizersDone(hp, cal, ph, lt)
      /\ ph = "run" /\ hp.gcstate \in MarkStates => Colours(hp, L, {})
  BY DEF HInv
<1>1. \A o \in O : o \in Obj /\ IsOpen(hp, o) /\ Kind[o] = "upval" /\ hp.mark[o] # "free"
  <2>1. O \subseteq Obj
    BY OnKinds DEF OpenOf, Kinds
  <2> QED BY <1>0, <2>1, AllOpen DEF Places
<1>2. /\ t \in Obj /\ t \notin O /\ t \notin hp.tosweepstr /\ hp.mark[t] # "free"
      /\ hp.tosweep \cap O = {} /\ hp.tosweepstr \cap O = {}
  <2>1. t \in Obj /\ Kind[t] = "thread"
    BY ThreadIs
  <2>2. \A o \in hp.tosweep : ~IsOpen(hp, o)
    <3>1. \A o \in hp.tmudata : o \in Obj /\ Kind[o] = "udata"
      BY <1>0, HeapFields DEF Places
    <3> QED BY <1>0, <3>1 DEF Places
  <2>3. \A o \in hp.tosweepstr : Kind[o] = "string"
    BY <1>0 DEF Places
  <2>4. hp.mark[t] # "free"
    BY <1>0 DEF Places
  <2> QED BY <1>1, <2>1, <2>2, <2>3, <2>4
<1>3. O \subseteq Obj /\ O \subseteq Alive(hp)
  BY <1>1 DEF Alive
<1>4. /\ HInv(g1, L, {}, cal, ph, lt)
      /\ g1.currentwhite = hp.currentwhite /\ g1.stack = hp.stack /\ g1.gcstate = hp.gcstate
      /\ \A o \in Obj : o \notin O => g1.mark[o] = hp.mark[o] /\ g1.open[o] = hp.open[o]
      /\ \A o \in O : g1.mark[o] = IF IsDead(hp, o) THEN "free" ELSE hp.currentwhite
      /\ \A o \in O : IsOpen(g1, o) => ~IsDead(hp, o) /\ g1.open[o] = hp.open[o]
      /\ g1.tosweep = hp.tosweep /\ g1.tosweepstr = hp.tosweepstr
  <2>1. g1 \in Heap /\ g1.tosweep = hp.tosweep /\ g1.tosweepstr = hp.tosweepstr
    BY <1>0, <1>3, SweepPlainFrame
  <2>2. g1 = [g1 EXCEPT !.tosweep = hp.tosweep \ O, !.tosweepstr = hp.tosweepstr \ O]
    <3> HIDE DEF g1, O
    <3> QED BY <2>1, <1>2, TakenOff
  <2>3. \A o \in Obj : IsOpen(hp, o) => hp.open[o][1] \notin O
    BY <1>0, <1>1, OpenFacts, ThreadIs
  <2>4. \A x \in Thread : x \notin O
    BY <1>1, ThreadIs
  <2>5. TakenFrom(hp, O, g1)
    <3> HIDE DEF O
    <3> QED BY <2>2 DEF TakenFrom
  <2>6. \A o \in Obj : IsOpen(hp, o) /\ hp.open[o][1] \in O =>
            ~IsDead(hp, hp.open[o][1]) /\ ~IsDead(hp, o) /\ o \notin Marked(hp)
    BY <2>3
  <2>7. \A x \in Thread, i \in Slots : x \in O /\ IsDead(hp, x) => hp.stack[x][i] = Nil
    BY <2>4
  <2> HIDE DEF O, g1
  <2>8. HInv(g1, L, {}, cal, ph, lt) /\ SweptTo(hp, O, g1)
    BY <1>3, <2>5, <2>6, <2>7, SweepKeeps
  <2> QED BY <2>1, <2>8 DEF SweptTo
<1> HIDE DEF g1
<1>5. /\ g1 \in Heap /\ Places(g1) /\ Edges(g1, L) /\ (IsDead(g1, t) <=> IsDead(hp, t))
      /\ t \in Thread /\ g1.gcstate \notin AtomicStages /\ g1.gcstate # "propagate" /\ g1.gcstate \in SweepStates
  BY <1>2, <1>4 DEF HInv, IsDead, OtherWhite, SweepStates, AtomicStages
<1>6. CASE IsDead(hp, t)
  <2> DEFINE g2 == CloseUpvals(g1, t, 0)
             ns == [i \in Slots |-> Nil]
             st == [g2.stack EXCEPT ![t] = ns]
             g3 == [g2 EXCEPT !.stack = st]
             r == SweepPlain(g3, T)
             g == [r EXCEPT !.tosweep = g3.tosweep \ T, !.tosweepstr = g3.tosweepstr \ T]
  <2>1. t # Main
    BY <1>0, <1>6 DEF Edges, Live
  <2>2. SweepThread(hp, t) = [SweepPlain(g2, T) EXCEPT !.stack[t] = ns]
    BY <1>6, <2>1 DEF SweepThread, g1
  <2>3. /\ HInv(g2, L, {}, cal, ph, lt) /\ g2.stack = g1.stack /\ g2.gcstate = g1.gcstate
        /\ g2.mark[t] = g1.mark[t] /\ g2.currentwhite = g1.currentwhite
        /\ g2.tosweep = g1.tosweep /\ g2.tosweepstr = g1.tosweepstr
        /\ \A o \in Obj : IsOpen(g2, o) => o \notin OpenOf(g1, t, 0) /\ g2.open[o] = g1.open[o]
    <3> HIDE DEF g2
    <3>1. g2 = CloseUpvals(g1, t, 0)
      BY DEF g2
    <3> QED BY <1>4, <1>5, <3>1, CloseKeeps
  <2> HIDE DEF g2
  <2>4. g2 \in Heap /\ g2.mark[t] # "free"
    BY <1>2, <1>4, <2>3 DEF HInv
  <2>5. ns \in [Slots -> Value] /\ \A i \in Slots : ns[i] = Nil
    BY DEF Value
  <2>6. HInv(g3, L, {}, cal, ph, lt)
    <3>1. g2.gcstate \notin AtomicStages
      BY <1>5, <2>3
    <3> HIDE DEF ns
    <3> QED BY <1>5, <2>3, <2>4, <2>5, <3>1, StackKeeps
  <2>7. /\ g3.mark = g2.mark /\ g3.open = g2.open /\ g3.currentwhite = g2.currentwhite /\ g3.gcstate = g2.gcstate
        /\ g3.tosweep = g2.tosweep /\ g3.tosweepstr = g2.tosweepstr /\ g3.stack = st /\ g3 \in Heap
    <3>1. g3 \in Heap
      BY <2>6 DEF HInv
    <3> HIDE DEF st
    <3> QED BY <2>4, <3>1 DEF Heap
  <2>8. \A i \in Slots : st[t][i] = Nil
    <3>1. g2.stack \in [Thread -> [Slots -> Value]]
      BY <2>4, HeapFields
    <3> HIDE DEF ns
    <3> QED BY <2>5, <3>1
  <2>9. \A o \in Obj : IsOpen(g3, o) => g3.open[o][1] \notin T
    <3> SUFFICES ASSUME NEW o \in Obj, IsOpen(g3, o) PROVE g3.open[o][1] # t
      OBVIOUS
    <3>1. IsOpen(g2, o) /\ g3.open[o] = g2.open[o]
      BY <2>7 DEF IsOpen
    <3>2. o \notin OpenOf(g1, t, 0) /\ g2.open[o] = g1.open[o]
      BY <2>3, <3>1
    <3>3. IsOpen(g1, o)
      BY <3>1, <3>2 DEF IsOpen
    <3>4. g1.open[o][1] # t
      BY <1>5, <3>2, <3>3, AllOpen
    <3> QED BY <3>1, <3>2, <3>4
  <2>10. HInv(g, L, {}, cal, ph, lt)
    <3>1. T \subseteq Alive(g3) /\ g3.gcstate \in SweepStates
      BY <1>2, <1>5, <2>3, <2>4, <2>7 DEF Alive
    <3>2. \A x \in Thread, i \in Slots : x \in T /\ IsDead(g3, x) => g3.stack[x][i] = Nil
      BY <2>7, <2>8
    <3>3. TakenFrom(g3, T, g)
      BY DEF TakenFrom
    <3> HIDE DEF g3, T, g
    <3> QED BY <2>6, <2>9, <3>1, <3>2, <3>3, SweepKeeps
  <2>11. r = [SweepPlain(g2, T) EXCEPT !.stack = st]
    <3>1. T \subseteq Obj
      BY <1>2
    <3> HIDE DEF T, st
    <3> QED BY <2>4, <3>1, SweepPlainStack
  <2>12. r = SweepThread(hp, t)
    <3>1. SweepPlain(g2, T).stack = g2.stack
      BY <2>4 DEF SweepPlain, Heap
    <3> HIDE DEF T, r, ns
    <3> QED BY <2>2, <2>11, <3>1
  <2>13. r \in Heap /\ r.tosweep = g3.tosweep /\ r.tosweepstr = g3.tosweepstr
    <3>1. T \subseteq Obj
      BY <1>2
    <3> HIDE DEF T, g3
    <3> QED BY <2>7, <3>1, SweepPlainFrame
  <2>14. [r EXCEPT !.tosweep = @ \ T] = g
    <3>1. r.tosweepstr \cap T = {}
      BY <1>2, <1>4, <2>3, <2>7, <2>13
    <3> HIDE DEF r, T, g3
    <3> QED BY <2>13, <3>1, TakenOff, ZenonT(30)
  <2>15. HInv([SweepThread(hp, t) EXCEPT !.tosweep = @ \ T], L, {}, cal, ph, lt)
    <3> HIDE DEF r, T, g, g3
    <3> QED BY <2>10, <2>12, <2>14
  <2> QED BY <2>15 DEF T
<1>7. CASE ~IsDead(hp, t)
  <2> DEFINE r == SweepPlain(g1, T)
             g == [r EXCEPT !.tosweep = g1.tosweep \ T, !.tosweepstr = g1.tosweepstr \ T]
  <2>1. SweepThread(hp, t) = r
    BY <1>7 DEF SweepThread, g1
  <2>2. \A o \in Obj : IsOpen(g1, o) /\ g1.open[o][1] \in T => ~IsDead(g1, g1.open[o][1]) /\ ~IsDead(g1, o) /\ o \notin Marked(g1)
    <3> SUFFICES ASSUME NEW o \in Obj, IsOpen(g1, o), g1.open[o][1] = t PROVE ~IsDead(g1, o) /\ o \notin Marked(g1)
      BY <1>5, <1>7
    <3>1. o \in O
      <4>1. CASE o \notin O
        <5>1. IsOpen(hp, o) /\ hp.open[o][1] = t
          BY <4>1, <1>4 DEF IsOpen
        <5> QED BY <5>1, <1>0, AllOpen
      <4> QED BY <4>1
    <3>2. g1.mark[o] = g1.currentwhite
      <4> HIDE DEF O
      <4> QED BY <3>1, <1>4
    <3> QED BY <3>2, <1>5, WhiteFacts DEF IsDead, Marked
  <2>3. HInv(g, L, {}, cal, ph, lt)
    <3>1. T \subseteq Alive(g1)
      BY <1>2, <1>4 DEF Alive
    <3>2. \A x \in Thread, i \in Slots : x \in T /\ IsDead(g1, x) => g1.stack[x][i] = Nil
      BY <1>5, <1>7
    <3>3. TakenFrom(g1, T, g)
      BY DEF TakenFrom
    <3> HIDE DEF T, g
    <3> QED BY <1>4, <1>5, <2>2, <3>1, <3>2, <3>3, SweepKeeps
  <2>4. r \in Heap /\ r.tosweep = g1.tosweep /\ r.tosweepstr = g1.tosweepstr
    <3>1. T \subseteq Obj
      BY <1>2
    <3> HIDE DEF T
    <3> QED BY <1>5, <3>1, SweepPlainFrame
  <2>5. [r EXCEPT !.tosweep = @ \ T] = g
    <3>1. r.tosweepstr \cap T = {}
      BY <1>2, <1>4, <2>4
    <3> HIDE DEF r, T
    <3> QED BY <2>4, <3>1, TakenOff, ZenonT(30)
  <2>6. HInv([SweepThread(hp, t) EXCEPT !.tosweep = @ \ T], L, {}, cal, ph, lt)
    <3> HIDE DEF r, T, g
    <3> QED BY <2>1, <2>3, <2>5
  <2> QED BY <2>6 DEF T
<1> QED BY <1>6, <1>7

\* Another thread runs.
LEMMA RunningKeeps ==
  ASSUME NEW hp, NEW L, NEW cal, NEW ph, NEW lt, HInv(hp, L, {}, cal, ph, lt), hp.gcstate \notin AtomicStages,
         NEW t \in Thread, t \in Live(hp)
  PROVE  HInv(hp, t, {}, cal, ph, lt)
<1>1. Edges(hp, t)
  BY DEF HInv, Edges
<1>2. Colours(hp, L, {}) => Colours(hp, t, {})
  BY DEF Colours, AtomicStages
<1> QED BY <1>1, <1>2 DEF HInv

\* The sweep phases and what comes after them follow one another when nothing is left to sweep.
LEMMA StateKeeps ==
  ASSUME NEW hp, NEW L, NEW cal, NEW ph, NEW lt, HInv(hp, L, {}, cal, ph, lt), hp.gcstate \notin MarkStates,
         NEW s \in GCStates, s \notin MarkStates, s # "sweepstring", hp.tosweepstr = {},
         s # "sweep" => hp.tosweep = {}
  PROVE  HInv([hp EXCEPT !.gcstate = s], L, {}, cal, ph, lt)
<1> DEFINE g == [hp EXCEPT !.gcstate = s]
<1>0. /\ hp \in Heap /\ L \in Thread /\ ~hp.bad /\ Fields(hp) /\ Places(hp) /\ Edges(hp, L) /\ Swept(hp)
      /\ Lists(hp) /\ FinalizersDone(hp, cal, ph, lt)
      /\ ph = "run" /\ hp.gcstate \in MarkStates => Colours(hp, L, {})
  BY DEF HInv
<1>2. /\ g.gcstate = s /\ g.currentwhite = hp.currentwhite /\ g.bad = hp.bad /\ g.mark = hp.mark
      /\ g.ref = hp.ref /\ g.open = hp.open /\ g.stack = hp.stack /\ g.gray = hp.gray
      /\ g.grayagain = hp.grayagain /\ g.weak = hp.weak /\ g.tosweep = hp.tosweep /\ g.tosweepstr = hp.tosweepstr
      /\ g.rootgc = hp.rootgc /\ g.tmudata = hp.tmudata /\ g.finalized = hp.finalized
  BY <1>0 DEF Heap
<1>3. g \in Heap
  BY <1>0 DEF Heap
<1> HIDE DEF g
<1>4. /\ Live(g) = Live(hp) /\ Marked(g) = Marked(hp)
      /\ \A o : /\ IsDead(g, o) <=> IsDead(hp, o)
                /\ IsOpen(g, o) <=> IsOpen(hp, o)
                /\ Slot(g, o) = Slot(hp, o)
  BY <1>2 DEF Live, Marked, IsDead, OtherWhite, IsOpen, Slot
<1>5. Fields(g) /\ Edges(g, L)
  BY <1>0, <1>2, <1>4 DEF Fields, Edges
<1>6. Places(g)
  BY <1>0, <1>2, <1>3, PlacesFrame
<1>7. Swept(g)
  <2>1. Ahead(g) = Ahead(hp)
    BY <1>2, <1>4 DEF Ahead
  <2> QED BY <1>0, <1>2, <1>4, <2>1 DEF Swept, SweepStates
<1>8. Lists(g)
  BY <1>0, <1>2, <1>4 DEF Lists
<1>9. FinalizersDone(g, cal, ph, lt)
  BY <1>0, <1>2, <1>4 DEF FinalizersDone, MarkStates, AtomicStages
<1> QED BY <1>0, <1>2, <1>3, <1>5, <1>6, <1>7, <1>8, <1>9 DEF HInv, g

\* A cycle is given up: everything is to be swept.
LEMMA GiveUpKeeps ==
  ASSUME NEW hp, NEW L, NEW cal, NEW ph, NEW lt, HInv(hp, L, {}, cal, ph, lt), hp.gcstate \in {"pause", "propagate"},
         NEW sw, sw = hp.rootgc, NEW ss, ss = Alive(hp) \cap On("string")
  PROVE  HInv([hp EXCEPT !.tosweep = sw, !.tosweepstr = ss, !.gray = {}, !.grayagain = {}, !.weak = {},
                         !.gcstate = "sweepstring"], L, {}, cal, ph, lt)
<1> DEFINE g == [hp EXCEPT !.tosweep = sw, !.tosweepstr = ss, !.gray = {}, !.grayagain = {}, !.weak = {},
                           !.gcstate = "sweepstring"]
<1>0. /\ hp \in Heap /\ L \in Thread /\ ~hp.bad /\ Fields(hp) /\ Places(hp) /\ Edges(hp, L) /\ Swept(hp)
      /\ Lists(hp) /\ FinalizersDone(hp, cal, ph, lt)
      /\ ph = "run" /\ hp.gcstate \in MarkStates => Colours(hp, L, {})
  BY DEF HInv
<1>1. sw \subseteq Obj /\ ss \subseteq Obj /\ \A o \in Obj : o \in ss <=> hp.mark[o] # "free" /\ Kind[o] = "string"
  BY <1>0, HeapFields, OnKinds DEF Alive, Kinds
<1>2. /\ g.gcstate = "sweepstring" /\ g.currentwhite = hp.currentwhite /\ g.bad = hp.bad /\ g.mark = hp.mark
      /\ g.ref = hp.ref /\ g.open = hp.open /\ g.stack = hp.stack /\ g.gray = {}
      /\ g.grayagain = {} /\ g.weak = {} /\ g.tosweep = sw /\ g.tosweepstr = ss
      /\ g.rootgc = hp.rootgc /\ g.tmudata = hp.tmudata /\ g.finalized = hp.finalized
  BY <1>0 DEF Heap
<1>3. g \in Heap
  BY <1>0, <1>1 DEF Heap, GCStates, SweepStates
<1> HIDE DEF g
<1>4. /\ Live(g) = Live(hp) /\ Marked(g) = Marked(hp)
      /\ \A o : /\ IsDead(g, o) <=> IsDead(hp, o)
                /\ IsOpen(g, o) <=> IsOpen(hp, o)
                /\ Slot(g, o) = Slot(hp, o)
  BY <1>2 DEF Live, Marked, IsDead, OtherWhite, IsOpen, Slot
<1>5. Fields(g) /\ Edges(g, L)
  BY <1>0, <1>2, <1>4 DEF Fields, Edges
<1>6. Places(g)
  <2>1. /\ \A o \in ss : hp.mark[o] # "free" /\ Kind[o] = "string"
        /\ sw \subseteq hp.rootgc \cup hp.tmudata
    BY <1>1
  <2> QED BY <1>0, <1>2, <1>4, <2>1 DEF Places
<1>7. Swept(g)
  <2>1. Ahead(hp) = {}
    BY <1>0 DEF Swept, Ahead, SweepStates
  <2>2. Marked(hp) \subseteq hp.tmudata \cup Ahead(g)
    <3> SUFFICES ASSUME NEW o \in Marked(hp) PROVE o \in hp.tmudata \cup Ahead(g)
      OBVIOUS
    <3>1. o \in Obj /\ hp.mark[o] # "free"
      BY DEF Marked
    <3>2. CASE Kind[o] = "string"
      BY <3>1, <3>2, <1>1, <1>2 DEF Ahead
    <3>3. CASE IsOpen(hp, o)
      <4> DEFINE t == hp.open[o][1]
      <4>1. t \in Obj /\ Kind[t] = "thread" /\ hp.mark[t] # "free"
        BY <1>0, <3>1, <3>3, OpenFacts, ThreadIs DEF Places
      <4>2. ~IsOpen(hp, t) /\ t \notin hp.tmudata
        BY <1>0, <4>1 DEF Places
      <4>3. t \in hp.rootgc
        BY <1>0, <4>1, <4>2 DEF Places
      <4> QED BY <3>1, <3>3, <4>3, <1>2, <1>4 DEF Ahead
    <3>4. CASE Kind[o] # "string" /\ ~IsOpen(hp, o)
      <4>1. o \in hp.rootgc \cup hp.tmudata
        BY <1>0, <3>1, <3>4 DEF Places
      <4> QED BY <4>1, <1>2 DEF Ahead
    <3> QED BY <3>2, <3>3, <3>4
  <2> QED BY <1>0, <1>2, <1>4, <2>1, <2>2 DEF Swept, SweepStates
<1>8. Lists(g)
  BY <1>0, <1>2, <1>4 DEF Lists, MarkStates, AtomicStages
<1>9. FinalizersDone(g, cal, ph, lt)
  BY <1>0, <1>2, <1>4 DEF FinalizersDone
<1>10. g.gcstate \notin MarkStates
  BY <1>2 DEF MarkStates, AtomicStages
<1> QED BY <1>0, <1>2, <1>3, <1>5, <1>6, <1>7, <1>8, <1>9, <1>10 DEF HInv, g

\* A userdata goes back to the list of all objects, white, and its finalizer has been called.
LEMMA FinalizerKeeps ==
  ASSUME NEW hp, NEW L, NEW cal, NEW cal2, NEW ph, NEW lt, HInv(hp, L, {}, cal, ph, lt),
         ph = "run" => hp.gcstate \notin MarkStates,
         NEW u \in hp.tmudata, cal2[u] = 1, \A x \in Obj \ {u} : cal2[x] = cal[x]
  PROVE  HInv([hp EXCEPT !.tmudata = hp.tmudata \ {u}, !.rootgc = hp.rootgc \cup {u},
                         !.mark = [hp.mark EXCEPT ![u] = hp.currentwhite]], L, {}, cal2, ph, lt)
<1> DEFINE tm == hp.tmudata \ {u}
           rt == hp.rootgc \cup {u}
           mk == [hp.mark EXCEPT ![u] = hp.currentwhite]
           g == [hp EXCEPT !.tmudata = tm, !.rootgc = rt, !.mark = mk]
<1>0. /\ hp \in Heap /\ L \in Thread /\ ~hp.bad /\ Fields(hp) /\ Places(hp) /\ Edges(hp, L) /\ Swept(hp)
      /\ Lists(hp) /\ FinalizersDone(hp, cal, ph, lt)
      /\ ph = "run" /\ hp.gcstate \in MarkStates => Colours(hp, L, {})
  BY DEF HInv
<1>a. u \in Obj /\ u \in Live(hp) /\ Kind[u] = "udata" /\ ~IsOpen(hp, u) /\ u \in hp.finalized /\ hp.mark[u] # "free"
      /\ hp.ref[u].mt \in HasGC
  <2>1. u \in Obj /\ u \in Live(hp) /\ Kind[u] = "udata" /\ u \in hp.finalized /\ hp.mark[u] # "free"
    BY <1>0, HeapFields DEF Places, Edges, Live
  <2> QED BY <1>0, <2>1 DEF Places, FinalizersDone
<1>1. /\ mk \in [Obj -> White \cup {"gray", "black", "free"}] /\ mk[u] = hp.currentwhite
      /\ \A x \in Obj : x # u => mk[x] = hp.mark[x]
      /\ rt \subseteq Obj /\ (\A x : x \in rt <=> x \in hp.rootgc \/ x = u)
      /\ tm \subseteq Obj /\ (\A x : x \in tm <=> x \in hp.tmudata /\ x # u)
  BY <1>0, <1>a, HeapFields
<1> HIDE DEF mk, rt, tm
<1>2. /\ g.gcstate = hp.gcstate /\ g.currentwhite = hp.currentwhite /\ g.bad = hp.bad /\ g.mark = mk
      /\ g.ref = hp.ref /\ g.open = hp.open /\ g.stack = hp.stack /\ g.gray = hp.gray
      /\ g.grayagain = hp.grayagain /\ g.weak = hp.weak /\ g.tosweep = hp.tosweep /\ g.tosweepstr = hp.tosweepstr
      /\ g.rootgc = rt /\ g.tmudata = tm /\ g.finalized = hp.finalized
  BY <1>0 DEF Heap
<1>3. g \in Heap
  BY <1>0, <1>1 DEF Heap
<1> HIDE DEF g
<1>4. /\ OtherWhite(g) = OtherWhite(hp) /\ OtherWhite(hp) # hp.currentwhite /\ hp.currentwhite \in White
      /\ OtherWhite(hp) \in White /\ "gray" \notin White /\ "black" \notin White /\ "free" \notin White
  BY <1>0, <1>2, WhiteFacts, HeapFields DEF OtherWhite
<1>5. /\ Live(g) = Live(hp)
      /\ \A x \in Obj : IsDead(g, x) <=> IsDead(hp, x)
      /\ \A x \in Obj : (mk[x] = "free") <=> (hp.mark[x] = "free")
      /\ \A x \in Obj : mk[x] \in {"gray", "black"} => x # u /\ mk[x] = hp.mark[x]
      /\ \A x : (IsOpen(g, x) <=> IsOpen(hp, x)) /\ Slot(g, x) = Slot(hp, x)
  BY <1>1, <1>2, <1>4, <1>a DEF Live, IsDead, IsOpen, Slot
<1>6. Fields(g)
  BY <1>0, <1>2, <1>5 DEF Fields
<1>7. Places(g)
  <2>1. \A x \in rt \cup tm \cup hp.finalized \cup hp.tosweepstr : x \in Obj /\ hp.mark[x] # "free"
    BY <1>0, <1>1, <1>a, HeapFields DEF Places
  <2>2. \A x \in rt : x \notin tm /\ Kind[x] # "string" /\ ~IsOpen(hp, x)
    BY <1>0, <1>1, <1>a DEF Places
  <2>3. Main \in rt /\ tm \subseteq hp.finalized /\ hp.tosweep \subseteq rt \cup tm
    BY <1>0, <1>1 DEF Places
  <2>4. \A x \in Obj : hp.mark[x] # "free" /\ Kind[x] # "string" /\ ~IsOpen(hp, x) => x \in rt \cup tm
    BY <1>0, <1>1 DEF Places
  <2>5. \A x \in Obj : IsOpen(hp, x) => Kind[x] = "upval" /\ mk[x] # "free" /\ hp.open[x][1] \in Obj /\ mk[hp.open[x][1]] # "free"
    <3>1. \A x \in Obj : IsOpen(hp, x) => hp.open[x][1] \in Obj
      BY <1>0, OpenFacts, ThreadIs
    <3> QED BY <1>0, <1>5, <3>1 DEF Places
  <2>6. \A x \in Thread, i \in Slots : mk[x] = "free" => hp.stack[x][i] = Nil
    BY <1>0, <1>5, ThreadIs DEF Places
  <2> QED BY <1>0, <1>2, <1>5, <2>1, <2>2, <2>3, <2>4, <2>5, <2>6 DEF Places
<1>8. Edges(g, L)
  BY <1>0, <1>1, <1>2, <1>5 DEF Edges
<1>9. Swept(g)
  <2>1. Ahead(g) = Ahead(hp)
    BY <1>2, <1>5 DEF Ahead
  <2>2. \A x \in Marked(g) : x \in Marked(hp) /\ x # u
    BY <1>2, <1>5 DEF Marked
  <2> QED BY <1>0, <1>1, <1>2, <1>5, <2>1, <2>2 DEF Swept
<1>10. Lists(g)
  <2>1. \A x \in hp.gray \cup hp.grayagain \cup hp.weak : x \in Obj /\ x # u
    BY <1>0, <1>a, HeapFields DEF Lists
  <2> QED BY <1>0, <1>1, <1>2, <1>5, <2>1 DEF Lists
<1>11. FinalizersDone(g, cal2, ph, lt)
  <2> SUFFICES ASSUME NEW x \in Obj, Kind[x] = "udata", mk[x] # "free"
               PROVE  /\ cal2[x] = IF hp.ref[x].mt \in HasGC /\ x \in hp.finalized /\ x \notin tm THEN 1 ELSE 0
                      /\ x \in tm => hp.ref[x].mt \in HasGC
                      /\ IsDead(g, x) \/ (hp.gcstate = "tmu" /\ IsWhite(g, x)) \/ (ph = "closing" /\ x \notin lt) => x \in hp.finalized
    BY <1>2 DEF FinalizersDone
  <2>1. CASE x = u
    BY <2>1, <1>1, <1>a
  <2>2. CASE x # u
    <3>1. IsWhite(g, x) <=> IsWhite(hp, x)
      BY <2>2, <1>1, <1>2 DEF IsWhite
    <3> QED BY <2>2, <3>1, <1>0, <1>1, <1>5 DEF FinalizersDone
  <2> QED BY <2>1, <2>2
<1> QED BY <1>0, <1>2, <1>3, <1>6, <1>7, <1>8, <1>9, <1>10, <1>11 DEF HInv, g, mk, rt, tm

\* lua_close: all userdata that have a finalizer are put into tmudata.
LEMMA SeparateAllKeeps ==
  ASSUME NEW hp, NEW L, NEW cal, NEW ph, NEW lt, HInv(hp, L, {}, cal, ph, lt), hp.gcstate \notin AtomicStages
  PROVE  /\ HInv(SeparateUdata(hp, TRUE), L, {}, cal, "closing", lt)
         /\ SeparateUdata(hp, TRUE).stack = hp.stack /\ SeparateUdata(hp, TRUE).mark = hp.mark
         /\ SeparateUdata(hp, TRUE).gcstate = hp.gcstate
<1> DEFINE sep == {u \in hp.rootgc \cap On("udata") : (IsWhite(hp, u) \/ TRUE) /\ u \notin hp.finalized}
           gone == {u \in sep : hp.ref[u].mt \in HasGC}
           tm == hp.tmudata \cup gone
           rt == hp.rootgc \ gone
           fi == hp.finalized \cup sep
           g == [hp EXCEPT !.tmudata = tm, !.rootgc = rt, !.finalized = fi]
<1>0. /\ hp \in Heap /\ L \in Thread /\ ~hp.bad /\ Fields(hp) /\ Places(hp) /\ Edges(hp, L) /\ Swept(hp)
      /\ Lists(hp) /\ FinalizersDone(hp, cal, ph, lt)
  BY DEF HInv
<1>a. SeparateUdata(hp, TRUE) = g
  <2>1. SeparateUdata(hp, TRUE) = [hp EXCEPT !.tmudata = @ \cup gone, !.rootgc = @ \ gone, !.finalized = @ \cup sep]
    BY DEF SeparateUdata
  <2> HIDE DEF gone, sep
  <2> QED BY <2>1, <1>0 DEF Heap
<1>b. /\ \A x : x \in sep <=> x \in hp.rootgc /\ Kind[x] = "udata" /\ x \notin hp.finalized
      /\ \A x : x \in gone <=> x \in sep /\ hp.ref[x].mt \in HasGC
      /\ sep \subseteq Obj
  BY <1>0, OnKinds, HeapFields DEF Kinds
<1> HIDE DEF sep, gone
<1>c. \A x \in sep : x \in Live(hp) /\ hp.mark[x] # "free" /\ ~IsOpen(hp, x) /\ x \in Obj
  <2>1. \A x \in sep : x \in Obj /\ hp.mark[x] # "free" /\ ~IsOpen(hp, x)
    BY <1>0, <1>b DEF Places
  <2>2. \A x \in sep : ~IsDead(hp, x)
    BY <1>0, <1>b, <2>1 DEF FinalizersDone
  <2> QED BY <2>1, <2>2 DEF Live
<1>1. /\ tm \subseteq Obj /\ (\A x : x \in tm <=> x \in hp.tmudata \/ x \in gone)
      /\ rt \subseteq Obj /\ (\A x : x \in rt <=> x \in hp.rootgc /\ x \notin gone)
      /\ fi \subseteq Obj /\ (\A x : x \in fi <=> x \in hp.finalized \/ x \in sep)
  BY <1>0, <1>b, HeapFields
<1> HIDE DEF tm, rt, fi
<1>2. /\ g.gcstate = hp.gcstate /\ g.currentwhite = hp.currentwhite /\ g.bad = hp.bad /\ g.mark = hp.mark
      /\ g.ref = hp.ref /\ g.open = hp.open /\ g.stack = hp.stack /\ g.gray = hp.gray
      /\ g.grayagain = hp.grayagain /\ g.weak = hp.weak /\ g.tosweep = hp.tosweep /\ g.tosweepstr = hp.tosweepstr
      /\ g.rootgc = rt /\ g.tmudata = tm /\ g.finalized = fi
  BY <1>0 DEF Heap
<1>3. g \in Heap
  BY <1>0, <1>1 DEF Heap
<1> HIDE DEF g
<1>4. /\ Live(g) = Live(hp) /\ Marked(g) = Marked(hp)
      /\ \A o : /\ IsDead(g, o) <=> IsDead(hp, o)
                /\ IsOpen(g, o) <=> IsOpen(hp, o)
                /\ Slot(g, o) = Slot(hp, o)
  BY <1>2 DEF Live, Marked, IsDead, OtherWhite, IsOpen, Slot
<1>5. Fields(g)
  BY <1>0, <1>2, <1>4 DEF Fields
<1>6. Places(g)
  <2>1. \A x \in rt \cup tm \cup fi \cup hp.tosweepstr : hp.mark[x] # "free"
    BY <1>0, <1>1, <1>b, <1>c DEF Places
  <2>2. \A x \in rt : x \notin tm /\ Kind[x] # "string" /\ ~IsOpen(hp, x)
    BY <1>0, <1>1 DEF Places
  <2>3. Main \in rt
    BY <1>0, <1>1, <1>b, HeapAssumption DEF Places
  <2>4. tm \subseteq fi /\ hp.tosweep \subseteq rt \cup tm /\ \A x \in fi : Kind[x] = "udata"
    BY <1>0, <1>1, <1>b DEF Places
  <2>5. \A x \in Obj : hp.mark[x] # "free" /\ Kind[x] # "string" /\ ~IsOpen(hp, x) => x \in rt \cup tm
    BY <1>0, <1>1 DEF Places
  <2> QED BY <1>0, <1>2, <1>4, <2>1, <2>2, <2>3, <2>4, <2>5 DEF Places
<1>7. Edges(g, L)
  BY <1>0, <1>1, <1>2, <1>4, <1>b, <1>c DEF Edges
<1>8. Swept(g)
  <2>1. Ahead(g) = Ahead(hp)
    BY <1>2, <1>4 DEF Ahead
  <2> QED BY <1>0, <1>1, <1>2, <1>4, <2>1 DEF Swept
<1>9. Lists(g)
  BY <1>0, <1>2, <1>4 DEF Lists
<1>10. FinalizersDone(g, cal, "closing", lt)
  <2> SUFFICES ASSUME NEW x \in Obj, Kind[x] = "udata", hp.mark[x] # "free"
               PROVE  /\ cal[x] = IF hp.ref[x].mt \in HasGC /\ x \in fi /\ x \notin tm THEN 1 ELSE 0
                      /\ x \in tm => hp.ref[x].mt \in HasGC
                      /\ x \in fi
    BY <1>2 DEF FinalizersDone
  <2>1. x \in fi
    <3>1. ~IsOpen(hp, x)
      BY <1>0 DEF Places
    <3>2. x \in hp.rootgc \cup hp.tmudata
      BY <1>0, <3>1 DEF Places
    <3>3. hp.tmudata \subseteq hp.finalized
      BY <1>0 DEF Places
    <3> QED BY <1>1, <1>b, <3>2, <3>3
  <2>2. x \in tm => hp.ref[x].mt \in HasGC
    BY <1>0, <1>1, <1>b DEF FinalizersDone
  <2>3. cal[x] = IF hp.ref[x].mt \in HasGC /\ x \in hp.finalized /\ x \notin hp.tmudata THEN 1 ELSE 0
    BY <1>0 DEF FinalizersDone
  <2>4. CASE x \in sep
    BY <2>1, <2>2, <2>3, <2>4, <1>1, <1>b
  <2>5. CASE x \notin sep
    BY <2>1, <2>2, <2>3, <2>5, <1>1, <1>b
  <2> QED BY <2>1, <2>2, <2>4, <2>5
<1> QED BY <1>0, <1>2, <1>3, <1>5, <1>6, <1>7, <1>8, <1>9, <1>10, <1>a DEF HInv

LEMMA IInvNext ==
  ASSUME IInv, world' = world, phase' \in {"run", "closing"}, called' \in [On("udata") -> {0, 1}],
         HInv(h', cur', {}, called', phase', late')
  PROVE  IInv'
  BY DEF IInv, HInv

\* The steps of the mark phase.
LEMMA MarkingSteps ==
  ASSUME IInv, world' = world, StartCycle \/ FullMark \/ Propagate \/ Atomic
  PROVE  IInv'
<1>1. /\ phase = "run" /\ phase' = phase /\ called' = called /\ late' = late /\ cur' = cur
      /\ called \in [On("udata") -> {0, 1}] /\ HInv(h, cur, {}, called, phase, late)
  BY DEF IInv, StartCycle, FullMark, Propagate, Atomic, Rest
<1>2. HInv(h', cur, {}, called, phase, late)
  <2>1. CASE StartCycle \/ FullMark
    BY <1>1, <2>1, MarkRootKeeps DEF StartCycle, FullMark
  <2>2. CASE Propagate
    <3>1. PICK o \in h.gray : h' = PropagateMark(h, {o})
      BY <2>2 DEF Propagate
    <3>2. h.gcstate \in MarkStates
      BY <2>2 DEF Propagate, MarkStates
    <3> DEFINE G == {o}
    <3>3. h' = PropagateMark(h, G) /\ G \subseteq h.gray
      BY <3>1
    <3> HIDE DEF G
    <3> QED BY <1>1, <3>2, <3>3, PropagateKeeps
  <2>3. CASE Atomic
    <3>1. CASE h.gray # {}
      <4>1. h.gcstate \in MarkStates /\ h' = PropagateMark(h, h.gray)
        BY <2>3, <3>1 DEF Atomic, MarkStates
      <4> QED BY <1>1, <4>1, PropagateKeeps
    <3>2. CASE h.gray = {} /\ h.gcstate = "propagate" /\ h' = AtomicUpvals(h)
      BY <1>1, <3>2, AtomicUpvalsKeeps
    <3>3. CASE h.gray = {} /\ h.gcstate = "upvals" /\ h' = AtomicWeak(h, cur)
      BY <1>1, <3>3, AtomicWeakKeeps
    <3>4. CASE h.gray = {} /\ h.gcstate = "weak" /\ h' = AtomicAgain(h)
      BY <1>1, <3>4, AtomicAgainKeeps
    <3>5. CASE h.gray = {} /\ h.gcstate = "again" /\ h' = AtomicTmu(h)
      BY <1>1, <3>5, AtomicTmuKeeps
    <3>6. CASE h.gray = {} /\ h.gcstate = "tmu" /\ h' = AtomicEnd(h)
      BY <1>1, <3>6, AtomicEndKeeps
    <3> QED BY <2>3, <3>1, <3>2, <3>3, <3>4, <3>5, <3>6 DEF Atomic
  <2> QED BY <2>1, <2>2, <2>3
<1> QED BY <1>1, <1>2, IInvNext

\* The steps of the sweep phases, the end of a cycle and the beginning of a full one.
LEMMA SweepingSteps ==
  ASSUME IInv, world' = world, SweepString \/ Sweep \/ EndCycle \/ FullGC
  PROVE  IInv'
<1>1. /\ phase = "run" /\ phase' = phase /\ called' = called /\ late' = late /\ cur' = cur
      /\ called \in [On("udata") -> {0, 1}] /\ HInv(h, cur, {}, called, phase, late)
  BY DEF IInv, SweepString, Sweep, EndCycle, FullGC, Rest
<1>2. /\ h \in Heap /\ Places(h) /\ Swept(h) /\ h.gcstate \in GCStates
  BY <1>1, HeapFields DEF HInv
<1>3. HInv(h', cur, {}, called, phase, late)
  <2>1. CASE SweepString /\ h.tosweepstr # {}
    <3>1. PICK o \in h.tosweepstr : h' = [SweepPlain(h, {o}) EXCEPT !.tosweepstr = @ \ {o}]
      BY <2>1 DEF SweepString
    <3>2. o \notin Thread /\ h.gcstate \in SweepStates
      BY <1>2, <2>1, ThreadIs DEF Places, SweepString, SweepStates
    <3> QED BY <1>1, <3>1, <3>2, SweepOneKeeps
  <2>2. CASE Sweep /\ h.tosweep # {}
    <3>1. PICK o \in h.tosweep : h' = [SweepList(h, o) EXCEPT !.tosweep = @ \ {o}]
      BY <2>2 DEF Sweep
    <3>2. h.gcstate \in SweepStates
      BY <2>2 DEF Sweep, SweepStates
    <3>3. CASE o \in Thread
      <4>1. SweepList(h, o) = SweepThread(h, o)
        BY <3>3 DEF SweepList
      <4> QED BY <1>1, <3>1, <3>2, <3>3, <4>1, SweepThreadKeeps
    <3>4. CASE o \notin Thread
      <4>1. SweepList(h, o) = SweepPlain(h, {o})
        BY <3>4 DEF SweepList
      <4> QED BY <1>1, <3>1, <3>2, <3>4, <4>1, SweepOneKeeps
    <3> QED BY <3>3, <3>4
  <2>3. CASE SweepString /\ h.tosweepstr = {}
    <3>1. h' = [h EXCEPT !.gcstate = "sweep"] /\ h.gcstate \notin MarkStates
      BY <2>3 DEF SweepString, MarkStates, AtomicStages
    <3>2. "sweep" \in GCStates /\ "sweep" \notin MarkStates
      BY DEF GCStates, SweepStates, MarkStates, AtomicStages
    <3> QED BY <1>1, <2>3, <3>1, <3>2, StateKeeps
  <2>4. CASE Sweep /\ h.tosweep = {}
    <3>1. h' = [h EXCEPT !.gcstate = "finalize"] /\ h.gcstate \notin MarkStates /\ h.tosweepstr = {}
      BY <1>2, <2>4 DEF Sweep, MarkStates, AtomicStages, Swept
    <3>2. "finalize" \in GCStates /\ "finalize" \notin MarkStates
      BY DEF GCStates, MarkStates, AtomicStages
    <3> QED BY <1>1, <2>4, <3>1, <3>2, StateKeeps
  <2>5. CASE EndCycle
    <3>1. h' = [h EXCEPT !.gcstate = "pause"] /\ h.gcstate \notin MarkStates /\ h.tosweepstr = {} /\ h.tosweep = {}
      BY <1>2, <2>5 DEF EndCycle, MarkStates, AtomicStages, Swept, SweepStates
    <3>2. "pause" \in GCStates /\ "pause" \notin MarkStates
      BY DEF GCStates, MarkStates, AtomicStages
    <3> QED BY <1>1, <3>1, <3>2, StateKeeps
  <2>6. CASE FullGC /\ h.gcstate \in {"pause", "propagate"}
    <3> DEFINE sw == h.rootgc
               ss == Alive(h) \cap On("string")
    <3>1. h' = [h EXCEPT !.tosweep = sw, !.tosweepstr = ss, !.gray = {}, !.grayagain = {}, !.weak = {},
                         !.gcstate = "sweepstring"]
      BY <2>6 DEF FullGC
    <3>2. sw = h.rootgc /\ ss = Alive(h) \cap On("string")
      OBVIOUS
    <3> HIDE DEF sw, ss
    <3> QED BY <1>1, <2>6, <3>1, <3>2, GiveUpKeeps
  <2>7. CASE FullGC /\ h.gcstate \notin {"pause", "propagate"}
    BY <1>1, <2>7 DEF FullGC
  <2> QED BY <2>1, <2>2, <2>3, <2>4, <2>5, <2>6, <2>7
<1> QED BY <1>1, <1>3, IInvNext

\* A value is put into a slot of a stack.
LEMMA PutKeeps ==
  ASSUME NEW hp, NEW L, NEW cal, NEW ph, NEW lt, HInv(hp, L, {}, cal, ph, lt),
         ph = "run" => hp.gcstate \notin AtomicStages,
         NEW t \in Thread, hp.mark[t] # "free", NEW i \in Slots, NEW o \in Live(hp) \cup {Nil}, o \in Value
  PROVE  HInv([hp EXCEPT !.stack[t][i] = o], L, {}, cal, ph, lt)
<1> DEFINE s == [hp.stack[t] EXCEPT ![i] = o]
<1>1. hp \in Heap /\ hp.stack \in [Thread -> [Slots -> Value]]
  BY HeapFields DEF HInv
<1>2. s \in [Slots -> Value] /\ s[i] = o /\ \A j \in Slots : j # i => s[j] = hp.stack[t][j]
  <2>1. hp.stack[t] \in [Slots -> Value]
    BY <1>1
  <2> QED BY <2>1
<1>3. [hp EXCEPT !.stack[t][i] = o] = [hp EXCEPT !.stack = [hp.stack EXCEPT ![t] = s]]
  BY <1>1 DEF Heap
<1> HIDE DEF s
<1>4. \A j \in Slots : s[j] \in Live(hp) \cup {Nil} \/ s[j] = hp.stack[t][j]
  BY <1>2
<1>5. HInv([hp EXCEPT !.stack = [hp.stack EXCEPT ![t] = s]], L, {}, cal, ph, lt)
  BY <1>2, <1>4, StackKeeps
<1> QED BY <1>3, <1>5

\* What the program has at hand is live, and never an upvalue.
LEMMA AtHand ==
  ASSUME IInv, phase # "closed"
  PROVE  /\ HInv(h, cur, {}, called, phase, late) /\ h \in Heap /\ cur \in Thread /\ cur \in Obj /\ cur \in Live(h)
         /\ Fields(h) /\ Places(h) /\ Edges(h, cur)
         /\ h.mark[cur] # "free" /\ called \in [On("udata") -> {0, 1}] /\ phase \in {"run", "closing"}
         /\ Top \subseteq Live(h) \cup {Nil} /\ Top \subseteq Value
         /\ Globals \in Live(h) \cup {Nil} /\ Globals \in Value
         /\ Globals = Nil \/ Kind[Globals] = "table"
         /\ Values \subseteq Live(h) /\ Values \subseteq Value /\ Nil \notin Values
         /\ world.slots \subseteq Slots /\ world.fresh \subseteq Obj /\ Live(h) \subseteq Obj
         /\ Nil \notin Obj /\ Main \in Thread
<1>1. /\ HInv(h, cur, {}, called, phase, late) /\ h \in Heap /\ cur \in Thread /\ Fields(h) /\ Places(h) /\ Edges(h, cur)
      /\ called \in [On("udata") -> {0, 1}] /\ phase \in {"run", "closing"} /\ world \in Worlds
  BY DEF IInv, HInv
<1>2. cur \in Live(h) /\ cur \in Obj /\ h.mark[cur] # "free" /\ Live(h) \subseteq Obj /\ Nil \notin Obj /\ Main \in Thread
  BY <1>1, HeapAssumption, ThreadIs DEF Edges, Live
<1>3. \A i \in Slots : h.stack[cur][i] \in Live(h) \cup {Nil} /\ h.stack[cur][i] \in Value
  <2>1. h.stack[cur] \in [Slots -> Value]
    BY <1>1, HeapFields
  <2> QED BY <1>1, <1>2, <2>1 DEF Edges
<1>4. Top \subseteq Live(h) \cup {Nil} /\ Top \subseteq Value
  <2> HIDE DEF Value
  <2> QED BY <1>3 DEF Top, Stack
<1>5. /\ Globals \in Live(h) \cup {Nil} /\ (Globals = Nil \/ Kind[Globals] = "table")
  BY <1>1, <1>2 DEF Globals, Edges, Field, Fields, WellFormed
<1>6. Globals \in Value
  BY <1>2, <1>5 DEF Value
<1>7. Values \subseteq Live(h) /\ Values \subseteq Value /\ Nil \notin Values
  <2> HIDE DEF Value
  <2> QED BY <1>4, <1>5, <1>6 DEF Values
<1>8. world.slots \subseteq Slots /\ world.fresh \subseteq Obj
  BY <1>1, WorldAssumption
<1> QED BY <1>1, <1>2, <1>4, <1>5, <1>6, <1>7, <1>8

LEMMA UpValueLive ==
  ASSUME NEW hp \in Heap, NEW L, Fields(hp), Edges(hp, L), NEW o \in Live(hp), Kind[o] = "upval"
  PROVE  UpValue(hp, o) \in Live(hp) \cup {Nil} /\ UpValue(hp, o) \in Value
<1>1. CASE hp.open[o] = Closed
  <2>1. "v" \in Field \ {"key"} BY DEF Field
  <2> QED BY <1>1, <2>1 DEF UpValue, Edges, Fields, WellFormed, Live
<1>2. CASE hp.open[o] # Closed
  BY <1>2, OpenFacts DEF Edges, IsOpen, Live
<1> QED BY <1>1, <1>2

LEMMA UpOfClosure ==
  ASSUME NEW hp \in Heap, NEW L, Fields(hp), Edges(hp, L), NEW x \in Live(hp), Kind[x] = "closure"
  PROVE  hp.ref[x].up \in Live(hp) /\ Kind[hp.ref[x].up] = "upval"
<1>1. x \in Obj /\ hp.mark[x] # "free" /\ "up" \in Field \ {"key"}
  BY DEF Live, Field
<1>2. hp.ref[x].up # Nil /\ (hp.ref[x].up = Nil \/ Kind[hp.ref[x].up] = "upval")
  BY <1>1 DEF Fields, WellFormed
<1>3. hp.ref[x].up \in Live(hp) \cup {Nil}
  BY <1>1 DEF Edges
<1> QED BY <1>2, <1>3

\* Steps of the program that only change a stack, or resume a thread.
LEMMA StackSteps ==
  ASSUME IInv, world' = world, NEW i \in Slots, NEW x, NEW f, NEW v,
         GetUpval(x, i) \/ Load(x, f, i) \/ Drop(i) \/ Resume(x, i, v)
  PROVE  IInv'
<1>1. CanRun /\ phase' = phase /\ called' = called /\ late' = late
  BY DEF GetUpval, Load, Drop, Resume, Step
<1>2. phase # "closed" /\ h.gcstate \notin AtomicStages
  BY <1>1 DEF CanRun
<1>3. /\ HInv(h, cur, {}, called, phase, late) /\ h \in Heap /\ cur \in Thread /\ h.mark[cur] # "free"
      /\ Fields(h) /\ Edges(h, cur)
      /\ called \in [On("udata") -> {0, 1}] /\ phase \in {"run", "closing"}
      /\ Top \subseteq Live(h) \cup {Nil} /\ Top \subseteq Value
      /\ Values \subseteq Live(h) /\ Live(h) \subseteq Obj /\ Nil \notin Obj /\ Main \in Thread
  BY <1>2, AtHand
<1>4. HInv(h', cur', {}, called, phase, late)
  <2>1. ASSUME NEW o \in Live(h) \cup {Nil}, o \in Value, h' = Put(h, i, o), cur' = cur
        PROVE  HInv(h', cur', {}, called, phase, late)
    BY <1>2, <1>3, <2>1, PutKeeps DEF Put
  <2>2. CASE GetUpval(x, i)
    <3>1. x \in Live(h) /\ Kind[x] = "closure" /\ h' = Put(h, i, UpValue(h, h.ref[x].up)) /\ cur' = cur
      BY <1>3, <2>2, OnKinds DEF GetUpval, Kinds
    <3>2. UpValue(h, h.ref[x].up) \in Live(h) \cup {Nil} /\ UpValue(h, h.ref[x].up) \in Value
      BY <1>3, <3>1, UpOfClosure, UpValueLive
    <3> QED BY <3>1, <3>2, <2>1
  <2>3. CASE Load(x, f, i)
    <3>1. /\ x \in Live(h) /\ x \in Obj /\ f \in {"val", "key", "mt"} /\ h' = Put(h, i, h.ref[x][f]) /\ cur' = cur
          /\ h.ref[x][f] \in Obj /\ (f = "key" => h.ref[x].val # Nil)
      BY <1>3, <2>3 DEF Load
    <3>2. h.ref[x][f] \in Value
      BY <1>3, <3>1, HeapAssumption DEF Fields, WellFormed, Value
    <3>3. h.ref[x][f] \in Live(h)
      <4>1. f # "key" => f \in Field \ {"key"}
        BY <3>1 DEF Field
      <4> QED BY <1>3, <3>1, <4>1, HeapAssumption DEF Edges
    <3> QED BY <3>1, <3>2, <3>3, <2>1
  <2>4. CASE Drop(i)
    <3>1. Nil \in Value /\ h' = Put(h, i, Nil) /\ cur' = cur
      BY <2>4 DEF Drop, Value
    <3> QED BY <3>1, <2>1
  <2>5. CASE Resume(x, i, v)
    <3>1. /\ x \in Thread /\ x \in Live(h) /\ v \in Live(h) \cup {Nil} /\ v \in Value /\ cur' = x
          /\ h' = [h EXCEPT !.stack[x][i] = v]
      BY <1>3, <2>5 DEF Resume, Value
    <3>2. h.mark[x] # "free"
      BY <3>1 DEF Live
    <3>3. HInv(h, x, {}, called, phase, late)
      BY <1>2, <1>3, <3>1, RunningKeeps
    <3> QED BY <1>2, <3>1, <3>2, <3>3, PutKeeps
  <2> QED BY <2>2, <2>3, <2>4, <2>5
<1> QED BY <1>1, <1>3, <1>4, IInvNext

\* A finalizer is called (GCTM).
LEMMA FinalizerStep ==
  ASSUME IInv, world' = world, NEW u \in h.tmudata, NEW i \in Slots, CallGCTM(u, i)
  PROVE  IInv'
<1>1. /\ phase # "closed" /\ phase' = phase /\ cur' = cur /\ (phase = "run" => h.gcstate = "finalize")
      /\ called' = [called EXCEPT ![u] = @ + (IF h.ref[u].mt \in HasGC THEN 1 ELSE 0)]
      /\ late' = late
  BY DEF CallGCTM
<1>2. /\ HInv(h, cur, {}, called, phase, late) /\ h \in Heap /\ cur \in Thread /\ h.mark[cur] # "free"
      /\ Places(h) /\ Edges(h, cur) /\ cur \in Obj
      /\ called \in [On("udata") -> {0, 1}] /\ phase \in {"run", "closing"} /\ Live(h) \subseteq Obj
  BY <1>1, AtHand
<1>3. /\ u \in Obj /\ Kind[u] = "udata" /\ u \in On("udata") /\ h.mark[u] # "free" /\ u # cur /\ u \in Value
  <2>1. u \in Obj /\ Kind[u] = "udata" /\ h.mark[u] # "free"
    BY <1>2, HeapFields DEF Places
  <2> QED BY <1>2, <2>1, OnKinds, ThreadIs DEF Kinds, Value
<1>4. h.ref[u].mt \in HasGC /\ called[u] = 0
  BY <1>2, <1>3 DEF HInv, FinalizersDone
<1>5. called'[u] = 1 /\ (\A x \in Obj \ {u} : called'[x] = called[x]) /\ called' \in [On("udata") -> {0, 1}]
  <2>1. called' = [called EXCEPT ![u] = 1]
    BY <1>1, <1>4
  <2> QED BY <1>2, <1>3, <2>1
<1> DEFINE tm == h.tmudata \ {u}
           rt == h.rootgc \cup {u}
           mk == [h.mark EXCEPT ![u] = h.currentwhite]
           X == [h EXCEPT !.tmudata = tm, !.rootgc = rt, !.mark = mk]
<1>6. HInv(X, cur, {}, called', phase, late)
  <2>1. phase = "run" => h.gcstate \notin MarkStates
    BY <1>1 DEF MarkStates, AtomicStages
  <2> QED BY <1>2, <1>5, <2>1, FinalizerKeeps
<1>7. mk[u] = h.currentwhite /\ mk[cur] = h.mark[cur]
  BY <1>2, <1>3, HeapFields
<1>8. h' = [X EXCEPT !.stack[cur][i] = u]
  <2>1. h' = [h EXCEPT !.tmudata = tm, !.rootgc = rt, !.mark = mk, !.stack[cur][i] = u]
    BY <1>2, <1>4 DEF CallGCTM, Heap
  <2> HIDE DEF tm, rt, mk
  <2> QED BY <1>2, <2>1 DEF Heap
<1>9. X.mark = mk /\ X.currentwhite = h.currentwhite /\ X.gcstate = h.gcstate
  <2> HIDE DEF tm, rt, mk
  <2> QED BY <1>2 DEF Heap
<1> HIDE DEF X
<1>10. u \in Live(X)
  <2>1. X \in Heap /\ X.mark[u] = X.currentwhite
    BY <1>6, <1>7, <1>9 DEF HInv
  <2> QED BY <1>3, <2>1, WhiteFacts
<1>11. HInv([X EXCEPT !.stack[cur][i] = u], cur, {}, called', phase, late)
  <2>1. X.mark[cur] # "free" /\ (phase = "run" => X.gcstate \notin AtomicStages)
    BY <1>1, <1>2, <1>7, <1>9 DEF AtomicStages
  <2> QED BY <1>2, <1>3, <1>6, <1>10, <2>1, PutKeeps
<1> HIDE DEF mk
<1> QED BY <1>1, <1>2, <1>5, <1>8, <1>11, IInvNext

\* A block is left: its upvalues are closed, its slots are no longer used.
LEMMA LeaveBlockStep ==
  ASSUME IInv, world' = world, NEW level, LeaveBlock(level)
  PROVE  IInv'
<1> DEFINE R == CloseUpvals(h, cur, level)
           s == [i \in Slots |-> IF i >= level THEN Nil ELSE R.stack[cur][i]]
<1>1. CanRun /\ phase' = phase /\ called' = called /\ late' = late /\ cur' = cur
  BY DEF LeaveBlock, Step
<1>2. phase # "closed" /\ h.gcstate \notin AtomicStages
  BY <1>1 DEF CanRun
<1>3. /\ HInv(h, cur, {}, called, phase, late) /\ cur \in Thread /\ h.mark[cur] # "free"
      /\ called \in [On("udata") -> {0, 1}] /\ phase \in {"run", "closing"}
  BY <1>2, AtHand
<1>4. h' = [R EXCEPT !.stack[cur] = [i \in Slots |-> IF i >= level THEN Nil ELSE @[i]]]
  BY DEF LeaveBlock
<1>5. HInv(R, cur, {}, called, phase, late) /\ R.gcstate = h.gcstate /\ R.mark[cur] # "free"
  BY <1>2, <1>3, CloseKeeps
<1> HIDE DEF R
<1>6. R \in Heap /\ R.stack \in [Thread -> [Slots -> Value]]
  BY <1>5, HeapFields DEF HInv
<1>7. s \in [Slots -> Value] /\ \A i \in Slots : s[i] \in Live(R) \cup {Nil} \/ s[i] = R.stack[cur][i]
  <2>1. Nil \in Value /\ R.stack[cur] \in [Slots -> Value]
    BY <1>3, <1>6 DEF Value
  <2> HIDE DEF Value
  <2> QED BY <2>1
<1>8. h' = [R EXCEPT !.stack = [R.stack EXCEPT ![cur] = s]]
  BY <1>4, <1>6 DEF Heap
<1> HIDE DEF s
<1>9. HInv(h', cur, {}, called, phase, late)
  BY <1>2, <1>3, <1>5, <1>7, <1>8, StackKeeps
<1> QED BY <1>1, <1>3, <1>9, IInvNext

\* The state is closed (lua_close), and freed.
LEMMA ClosingSteps ==
  ASSUME IInv, world' = world, Close \/ FreeAll
  PROVE  IInv'
<1>1. CASE Close
  <2> DEFINE R == CloseUpvals(h, Main, 0)
             g1 == SeparateUdata(R, TRUE)
             s == [i \in Slots |-> Nil]
  <2>1. /\ phase = "run" /\ h.gcstate \notin AtomicStages /\ phase' = "closing" /\ cur' = Main /\ called' = called /\ late' = late
        /\ h' = [g1 EXCEPT !.stack[Main] = s]
    BY <1>1 DEF Close, CanRun
  <2>2. /\ HInv(h, cur, {}, called, phase, late) /\ Main \in Thread /\ Edges(h, cur)
        /\ called \in [On("udata") -> {0, 1}]
    BY <2>1, AtHand
  <2>3. HInv(h, Main, {}, called, phase, late) /\ h.mark[Main] # "free"
    BY <2>1, <2>2, RunningKeeps DEF Edges, Live
  <2>4. HInv(R, Main, {}, called, phase, late) /\ R.gcstate = h.gcstate /\ R.mark[Main] # "free"
    BY <2>1, <2>2, <2>3, CloseKeeps
  <2> HIDE DEF R
  <2>5. HInv(g1, Main, {}, called, "closing", late) /\ g1.mark[Main] # "free"
    BY <2>1, <2>4, SeparateAllKeeps
  <2> HIDE DEF g1
  <2>6. s \in [Slots -> Value] /\ \A i \in Slots : s[i] \in Live(g1) \cup {Nil} \/ s[i] = g1.stack[Main][i]
    BY DEF Value
  <2>7. h' = [g1 EXCEPT !.stack = [g1.stack EXCEPT ![Main] = s]]
    BY <2>1, <2>5 DEF HInv, Heap
  <2> HIDE DEF s
  <2>8. HInv(h', Main, {}, called, "closing", late)
    BY <2>2, <2>5, <2>6, <2>7, StackKeeps
  <2> QED BY <2>1, <2>2, <2>8, IInvNext
<1>2. CASE FreeAll
  <2>1. phase' = "closed" /\ called' = called /\ late' = late /\ phase = "closing"
    BY <1>2 DEF FreeAll
  <2>2. h \in Heap /\ ~h.bad
    BY <2>1, AtHand DEF IInv
  <2>3. h'.bad = h.bad
    BY <1>2, <2>2 DEF FreeAll, Heap
  <2> QED BY <2>1, <2>2, <2>3 DEF IInv
<1> QED BY <1>1, <1>2

\* An object is made and put on the stack.
LEMMA MadeKeeps ==
  ASSUME NEW hp, NEW L, NEW cal, NEW cal2, NEW ph, NEW lt, NEW lt2, HInv(hp, L, {}, cal, ph, lt), hp.gcstate \notin AtomicStages,
         L \in Live(hp), NEW i \in Slots,
         NEW o \in Obj, hp.mark[o] = "free", Kind[o] \notin {"upval", "string"},
         NEW r \in [Field -> Live(hp) \cup {Nil}], NewFields(o, r),
         \A u \in Obj \ {o} : cal2[u] = cal[u],
         Kind[o] = "udata" => cal2[o] = 0,
         lt \subseteq lt2, Kind[o] = "udata" /\ ph = "closing" => o \in lt2
  PROVE  HInv([hp EXCEPT !.mark = [hp.mark EXCEPT ![o] = hp.currentwhite], !.rootgc = @ \cup {o},
                         !.ref = [hp.ref EXCEPT ![o] = r], !.stack[L][i] = o], L, {}, cal2, ph, lt2)
<1> DEFINE mk == [hp.mark EXCEPT ![o] = hp.currentwhite]
           rf == [hp.ref EXCEPT ![o] = r]
           rt == hp.rootgc \cup {o}
           X == [hp EXCEPT !.mark = mk, !.rootgc = rt, !.ref = rf]
<1>1. HInv(X, L, {}, cal2, ph, lt2)
  <2> DEFINE Y == [hp EXCEPT !.mark = [hp.mark EXCEPT ![o] = hp.currentwhite], !.rootgc = @ \cup {o},
                             !.ref = [hp.ref EXCEPT ![o] = r]]
  <2>1. HInv(Y, L, {}, cal2, ph, lt2)
    BY NewObjectKeeps
  <2>2. Y = X
    <3>1. hp \in Heap
      BY DEF HInv
    <3> QED BY <3>1 DEF Heap
  <2> QED BY <2>1, <2>2
<1>2. hp \in Heap /\ L \in Thread /\ L \in Obj /\ hp.mark[L] # "free"
  BY DEF HInv, Live
<1>3. mk[o] = hp.currentwhite /\ mk[L] # "free"
  BY <1>2, HeapFields
<1> HIDE DEF mk, rf, rt
<1>4. X.mark = mk /\ X.gcstate = hp.gcstate /\ X.currentwhite = hp.currentwhite
  BY <1>2 DEF Heap
<1>5. [X EXCEPT !.stack[L][i] = o] = [hp EXCEPT !.mark = mk, !.rootgc = rt, !.ref = rf, !.stack[L][i] = o]
  BY <1>2 DEF Heap
<1> HIDE DEF X
<1>6. o \in Live(X) /\ o \in Value
  <2>1. X \in Heap
    BY <1>1 DEF HInv
  <2> QED BY <1>3, <1>4, <2>1, WhiteFacts DEF Value
<1>7. HInv([X EXCEPT !.stack[L][i] = o], L, {}, cal2, ph, lt2)
  BY <1>1, <1>2, <1>3, <1>4, <1>6, PutKeeps
<1> QED BY <1>2, <1>5, <1>7 DEF mk, rf, rt, Heap

\* Tables, threads, prototypes and userdata are made.
LEMMA MakingSteps ==
  ASSUME IInv, world' = world, NEW o, NEW i \in Slots, Allocate(o, i) \/ NewUdata(o, i)
  PROVE  IInv'
<1>1. /\ CanRun /\ phase' = phase /\ cur' = cur /\ o \in world.fresh /\ h.mark[o] = "free"
      /\ phase # "closed" /\ h.gcstate \notin AtomicStages
  BY DEF Allocate, NewUdata, Step, CanRun
<1>2. /\ HInv(h, cur, {}, called, phase, late) /\ h \in Heap /\ cur \in Thread /\ cur \in Live(h)
      /\ Fields(h) /\ Edges(h, cur)
      /\ called \in [On("udata") -> {0, 1}] /\ phase \in {"run", "closing"}
      /\ Globals \in Live(h) \cup {Nil} /\ (Globals = Nil \/ Kind[Globals] = "table")
      /\ o \in Obj /\ Live(h) \subseteq Obj
  BY <1>1, AtHand
<1>3. o # Main /\ h.ref[o] = NoFields
  BY <1>1, <1>2 DEF Fields, Edges, Live
<1> DEFINE e == IF Kind[o] \in {"thread", "udata"} THEN Globals ELSE Nil
           r == [NoFields EXCEPT !.env = e]
<1>4. /\ r \in [Field -> Live(h) \cup {Nil}] /\ r.env = e /\ (\A f \in Field : f # "env" => r[f] = Nil)
  BY <1>2 DEF NoFields, Field
<1>5. CASE Allocate(o, i)
  <2>1. Kind[o] \in {"table", "thread", "proto"} /\ called' = called /\ late' = late
    BY <1>5 DEF Allocate, Step
  <2>2. NewFields(o, r)
    BY <1>2, <1>3, <1>4, <2>1 DEF NewFields, FieldsOf, Field
  <2>3. h' = [h EXCEPT !.mark = [h.mark EXCEPT ![o] = h.currentwhite], !.rootgc = @ \cup {o},
                       !.ref = [h.ref EXCEPT ![o] = r], !.stack[cur][i] = o]
    <3>1. [h.ref EXCEPT ![o].env = IF Kind[o] = "thread" THEN Globals ELSE Nil] = [h.ref EXCEPT ![o] = r]
      BY <1>2, <1>3, <2>1, HeapFields
    <3> DEFINE rf == [h.ref EXCEPT ![o] = r]
    <3>2. h' = [h EXCEPT !.mark[o] = h.currentwhite, !.rootgc = @ \cup {o}, !.ref = rf, !.stack[cur][i] = o]
      <4>1. h' = [[h EXCEPT !.mark[o] = h.currentwhite, !.rootgc = @ \cup {o},
                            !.ref[o].env = IF Kind[o] = "thread" THEN Globals ELSE Nil] EXCEPT !.stack[cur][i] = o]
        BY <1>5 DEF Allocate, Put
      <4> DEFINE r2 == [h.ref EXCEPT ![o].env = IF Kind[o] = "thread" THEN Globals ELSE Nil]
      <4>2. h' = [[h EXCEPT !.mark[o] = h.currentwhite, !.rootgc = @ \cup {o}, !.ref = r2] EXCEPT !.stack[cur][i] = o]
        BY <1>2, <4>1 DEF Heap
      <4> HIDE DEF r2, rf
      <4> QED BY <1>2, <3>1, <4>2 DEF Heap, r2, rf
    <3> HIDE DEF rf
    <3>3. h' = [h EXCEPT !.mark = [h.mark EXCEPT ![o] = h.currentwhite], !.rootgc = @ \cup {o},
                         !.ref = rf, !.stack[cur][i] = o]
      BY <1>2, <3>2 DEF Heap
    <3> QED BY <3>3 DEF rf
  <2> HIDE DEF r
  <2>4. HInv(h', cur, {}, called, phase, late)
    BY <1>1, <1>2, <1>4, <2>1, <2>2, <2>3, MadeKeeps
  <2> QED BY <1>1, <1>2, <2>1, <2>4, IInvNext
<1>6. CASE NewUdata(o, i)
  <2>1. /\ Kind[o] = "udata" /\ o \in On("udata") /\ called' = [called EXCEPT ![o] = 0]
        /\ late \subseteq late' /\ (phase = "closing" => o \in late')
    BY <1>6, OnKinds DEF NewUdata, Kinds
  <2>2. NewFields(o, r)
    BY <1>2, <1>3, <1>4, <2>1 DEF NewFields, FieldsOf, Field
  <2>3. h' = [h EXCEPT !.mark = [h.mark EXCEPT ![o] = h.currentwhite], !.rootgc = @ \cup {o},
                       !.ref = [h.ref EXCEPT ![o] = r], !.stack[cur][i] = o]
    <3>1. e = Globals
      BY <2>1
    <3>2. h' = [[h EXCEPT !.mark[o] = h.currentwhite, !.rootgc = @ \cup {o}, !.ref[o] = r] EXCEPT !.stack[cur][i] = o]
      BY <1>6, <3>1 DEF NewUdata, Put
    <3> HIDE DEF r
    <3> QED BY <1>2, <3>2 DEF Heap
  <2>4. (\A u \in Obj \ {o} : called'[u] = called[u]) /\ called'[o] = 0 /\ called' \in [On("udata") -> {0, 1}]
    BY <1>2, <2>1
  <2> HIDE DEF r
  <2> DEFINE cal == called'
             lt == late'
  <2>5. /\ Kind[o] \notin {"upval", "string"} /\ (\A u \in Obj \ {o} : cal[u] = called[u])
        /\ Kind[o] = "udata" => cal[o] = 0
        /\ late \subseteq lt /\ (Kind[o] = "udata" /\ phase = "closing" => o \in lt)
    BY <2>1, <2>4
  <2>6. HInv(h', cur, {}, cal, phase, lt)
    <3> HIDE DEF cal, lt
    <3> QED BY <1>1, <1>2, <1>4, <2>2, <2>3, <2>5, MadeKeeps, ZenonT(30)
  <2> QED BY <1>1, <1>2, <2>4, <2>6, IInvNext
<1> QED BY <1>5, <1>6

\* A string is made, or used again.
LEMMA StringStep ==
  ASSUME IInv, world' = world, NEW o, NEW i \in Slots, NewString(o, i)
  PROVE  IInv'
<1>1. /\ CanRun /\ phase' = phase /\ cur' = cur /\ called' = called /\ late' = late /\ o \in Obj /\ Kind[o] = "string"
      /\ phase # "closed" /\ h.gcstate \notin AtomicStages
  BY OnKinds DEF NewString, Step, CanRun, Kinds
<1>2. /\ HInv(h, cur, {}, called, phase, late) /\ h \in Heap /\ cur \in Thread /\ cur \in Live(h) /\ Places(h)
      /\ called \in [On("udata") -> {0, 1}] /\ phase \in {"run", "closing"} /\ cur \in Obj
  BY <1>1, AtHand
<1> DEFINE m == IF h.mark[o] = "free" \/ IsDead(h, o) THEN h.currentwhite ELSE h.mark[o]
           mk == [h.mark EXCEPT ![o] = m]
           X == [h EXCEPT !.mark = mk]
<1>3. h' = [X EXCEPT !.stack[cur][i] = o]
  <2>1. h' = [[h EXCEPT !.mark[o] = IF @ = "free" \/ IsDead(h, o) THEN h.currentwhite ELSE @] EXCEPT !.stack[cur][i] = o]
    BY DEF NewString, Put
  <2> QED BY <1>2, <2>1 DEF Heap
<1>4. mk[o] = m /\ mk[cur] = h.mark[cur] /\ h.mark[cur] # "free"
  <2>1. cur # o
    BY <1>1, <1>2, ThreadIs
  <2> QED BY <1>1, <1>2, <2>1, HeapFields DEF Live
<1>5. HInv(X, cur, {}, called, phase, late)
  <2>1. CASE h.mark[o] = "free" \/ IsDead(h, o)
    <3> DEFINE mw == [h.mark EXCEPT ![o] = h.currentwhite]
               op == [h.open EXCEPT ![o] = Closed]
    <3>1. HInv([h EXCEPT !.mark = mw, !.open = op], cur, {}, called, phase, late)
      <4>1. h.open[o] = Closed
        BY <1>1, <1>2 DEF Places, IsOpen
      <4>2. Closed \in {Closed} \cup (Thread \X Slots)
        OBVIOUS
      <4> HIDE DEF mw, op
      <4> QED BY <1>1, <1>2, <2>1, <4>1, <4>2, ReviveKeeps DEF mw, op
    <3>2. op = h.open
      <4>1. h.open[o] = Closed
        BY <1>1, <1>2 DEF Places, IsOpen
      <4> QED BY <1>1, <1>2, <4>1, HeapFields
    <3>3. mw = mk
      BY <2>1
    <3> HIDE DEF mw, op, mk
    <3>4. [h EXCEPT !.mark = mw, !.open = op] = X
      BY <1>2, <3>2, <3>3 DEF Heap
    <3> QED BY <3>1, <3>4
  <2>2. CASE ~(h.mark[o] = "free" \/ IsDead(h, o))
    <3>1. mk = h.mark
      BY <1>1, <1>2, <2>2, HeapFields
    <3> HIDE DEF mk
    <3>2. X = h
      BY <1>2, <3>1 DEF Heap
    <3> QED BY <1>2, <3>2
  <2> QED BY <2>1, <2>2
<1>6. X.mark = mk /\ X.currentwhite = h.currentwhite /\ X.gcstate = h.gcstate
  <2> HIDE DEF mk
  <2> QED BY <1>2 DEF Heap
<1>7. o \in Live(X) /\ o \in Value
  <2>1. OtherWhite(X) = OtherWhite(h) /\ OtherWhite(h) # h.currentwhite /\ h.currentwhite # "free"
    <3> HIDE DEF X
    <3> QED BY <1>2, <1>6, WhiteFacts, HeapFields DEF OtherWhite, White
  <2> HIDE DEF X, mk
  <2> QED BY <1>1, <1>4, <1>6, <2>1 DEF Live, IsDead, Value
<1> HIDE DEF X
<1>8. HInv([X EXCEPT !.stack[cur][i] = o], cur, {}, called, phase, late)
  BY <1>1, <1>2, <1>4, <1>5, <1>6, <1>7, PutKeeps
<1> QED BY <1>1, <1>2, <1>3, <1>8, IInvNext

\* A closure is made, with an upvalue that exists already or is made too.
LEMMA ClosureStep ==
  ASSUME IInv, world' = world, NEW o, NEW i \in Slots, NEW k \in Slots, NewClosure(o, i, k)
  PROVE  IInv'
<1> DEFINE old == {uv \in OpenOf(h, cur, k) : h.open[uv][2] = k}
           pr == IF Values \cap On("proto") = {} THEN Nil ELSE CHOOSE p \in Values \cap On("proto") : TRUE
<1>1. /\ CanRun /\ phase' = phase /\ cur' = cur /\ called' = called /\ late' = late /\ o \in Obj /\ Kind[o] = "closure"
      /\ phase # "closed" /\ h.gcstate \notin AtomicStages /\ h.mark[o] = "free"
  BY OnKinds DEF NewClosure, Step, CanRun, Kinds
<1>2. /\ HInv(h, cur, {}, called, phase, late) /\ h \in Heap /\ cur \in Thread /\ cur \in Live(h) /\ Places(h)
      /\ Globals \in Live(h) \cup {Nil} /\ (Globals = Nil \/ Kind[Globals] = "table")
      /\ Values \subseteq Live(h) /\ Live(h) \subseteq Obj
      /\ called \in [On("udata") -> {0, 1}] /\ phase \in {"run", "closing"} /\ cur \in Obj
  BY <1>1, AtHand
<1>3. PICK uv \in IF old # {} THEN old ELSE {u \in On("upval") \cap world.fresh : h.mark[u] = "free"} :
        h' = Put([[h EXCEPT !.mark[o] = h.currentwhite, !.rootgc = @ \cup {o}] EXCEPT
                    !.ref[o] = [NoFields EXCEPT !.up = uv, !.env = Globals, !.p = pr],
                    !.mark[uv] = IF old = {} \/ IsDead(h, uv) THEN h.currentwhite ELSE @,
                    !.open[uv] = <<cur, k>>], i, o)
  BY DEF NewClosure
<1>4. pr \in Live(h) \cup {Nil} /\ (pr = Nil \/ (pr \in Obj /\ Kind[pr] = "proto"))
  <2>1. CASE Values \cap On("proto") = {}
    BY <2>1
  <2>2. CASE Values \cap On("proto") # {}
    <3>1. pr \in Values \cap On("proto")
      BY <2>2
    <3> HIDE DEF pr
    <3> QED BY <3>1, <1>2, OnKinds DEF Kinds
  <2> QED BY <2>1, <2>2
<1>5. /\ uv \in Obj /\ Kind[uv] = "upval" /\ uv # o /\ uv # cur
      /\ old = {} => h.mark[uv] = "free"
      /\ old # {} => IsOpen(h, uv) /\ h.open[uv] = <<cur, k>> /\ h.mark[uv] # "free"
  <2>1. uv \in Obj /\ Kind[uv] = "upval"
    BY <1>3, OnKinds DEF OpenOf, Kinds
  <2>2. old # {} => uv \in old
    BY <1>3
  <2>3. old = {} => h.mark[uv] = "free"
    BY <1>3
  <2>4. old # {} => IsOpen(h, uv) /\ h.open[uv][1] = cur /\ h.open[uv][2] = k
    BY <2>2 DEF OpenOf, IsOpen
  <2>5. old # {} => h.open[uv] = <<cur, k>>
    BY <1>2, <2>1, <2>4, OpenFacts
  <2>6. old # {} => h.mark[uv] # "free"
    BY <1>2, <2>1, <2>4 DEF Places
  <2> QED BY <1>1, <1>2, <2>1, <2>3, <2>4, <2>5, <2>6, ThreadIs
<1> DEFINE w == <<cur, k>>
           m == IF h.mark[uv] = "free" \/ IsDead(h, uv) THEN h.currentwhite ELSE h.mark[uv]
           mu == [h.mark EXCEPT ![uv] = m]
           op == [h.open EXCEPT ![uv] = w]
           A == [h EXCEPT !.mark = mu, !.open = op]
           r == [NoFields EXCEPT !.up = uv, !.env = Globals, !.p = pr]
<1>6. HInv(A, cur, {}, called, phase, late)
  <2>0. w \in Thread \X Slots /\ w # Closed /\ w[1] = cur
    BY <1>2, ClosedNot
  <2>1. CASE h.mark[uv] = "free" \/ IsDead(h, uv)
    <3>1. mu = [h.mark EXCEPT ![uv] = h.currentwhite]
      BY <2>1
    <3>2. h.mark[uv] # "free" => w = h.open[uv]
      BY <1>5
    <3> HIDE DEF w, mu
    <3> QED BY <1>1, <1>2, <1>5, <2>0, <2>1, <3>1, <3>2, ReviveKeeps
  <2>2. CASE ~(h.mark[uv] = "free" \/ IsDead(h, uv))
    <3>1. mu = h.mark /\ op = h.open
      BY <1>2, <1>5, <2>2, HeapFields
    <3> HIDE DEF mu, op
    <3>2. A = h
      BY <1>2, <3>1 DEF Heap
    <3> QED BY <1>2, <3>2
  <2> QED BY <2>1, <2>2
<1>7. mu[o] = "free" /\ mu[uv] = m /\ (\A x \in Obj : x # uv => mu[x] = h.mark[x])
  BY <1>1, <1>2, <1>5, HeapFields
<1>8. A.mark = mu /\ A.currentwhite = h.currentwhite /\ A.gcstate = h.gcstate
  <2> HIDE DEF mu, op
  <2> QED BY <1>2 DEF Heap
<1>9. Live(h) \subseteq Live(A) /\ uv \in Live(A) /\ A \in Heap
  <2>1. OtherWhite(A) = OtherWhite(h) /\ OtherWhite(h) # h.currentwhite /\ h.currentwhite # "free"
    <3> HIDE DEF A
    <3> QED BY <1>2, <1>8, WhiteFacts, HeapFields DEF OtherWhite, White
  <2>2. A \in Heap
    BY <1>6 DEF HInv
  <2> HIDE DEF A, mu
  <2> QED BY <1>5, <1>7, <1>8, <2>1, <2>2 DEF Live, IsDead
<1>10. r \in [Field -> Live(A) \cup {Nil}] /\ r.up = uv /\ r.env = Globals /\ r.p = pr
       /\ \A f \in Field : f \notin {"up", "env", "p"} => r[f] = Nil
  <2>1. uv \in Live(A) \cup {Nil} /\ Globals \in Live(A) \cup {Nil} /\ pr \in Live(A) \cup {Nil}
    BY <1>2, <1>4, <1>9
  <2> HIDE DEF A, pr
  <2> QED BY <2>1 DEF NoFields, Field
<1>11. NewFields(o, r)
  <2>1. FieldsOf(o) = {"env", "p", "up"} /\ uv # Nil
    BY <1>1, <1>5, HeapAssumption DEF FieldsOf
  <2> HIDE DEF r, pr
  <2> QED BY <1>1, <1>2, <1>4, <1>5, <1>10, <2>1 DEF NewFields, Field
<1>12. h' = [A EXCEPT !.mark = [A.mark EXCEPT ![o] = A.currentwhite], !.rootgc = @ \cup {o},
                      !.ref = [A.ref EXCEPT ![o] = r], !.stack[cur][i] = o]
  <2> DEFINE m1 == [h.mark EXCEPT ![o] = h.currentwhite]
             m2 == [m1 EXCEPT ![uv] = IF old = {} \/ IsDead(h, uv) THEN h.currentwhite ELSE @]
             m3 == [mu EXCEPT ![o] = h.currentwhite]
  <2>1. h' = [h EXCEPT !.mark = m2, !.rootgc = h.rootgc \cup {o}, !.ref[o] = r, !.open = op, !.stack[cur][i] = o]
    <3> DEFINE c == old = {} \/ IsDead(h, uv)
               rt == h.rootgc \cup {o}
               Z == [h EXCEPT !.mark[o] = h.currentwhite, !.rootgc = @ \cup {o}]
               Y == [Z EXCEPT !.ref[o] = r, !.mark[uv] = IF c THEN h.currentwhite ELSE @, !.open[uv] = w]
    <3>1. h' = [Y EXCEPT !.stack[cur][i] = o]
      BY <1>3 DEF Put
    <3> HIDE DEF c, r, w
    <3>2. Z = [h EXCEPT !.mark = m1, !.rootgc = rt]
      BY <1>2 DEF Heap
    <3> HIDE DEF m1, rt, Z
    <3>3. Z.mark = m1 /\ Z.ref = h.ref /\ Z.open = h.open
      BY <1>2, <3>2 DEF Heap
    <3> DEFINE n2 == [m1 EXCEPT ![uv] = IF c THEN h.currentwhite ELSE @]
               rf == [h.ref EXCEPT ![o] = r]
    <3>4. Y = [Z EXCEPT !.ref = rf, !.mark = n2, !.open = op]
      BY <1>2, <3>2, <3>3 DEF Heap
    <3>5. n2 = m2
      BY DEF c
    <3> HIDE DEF n2, rf, op, Y, m2
    <3>6. h' = [h EXCEPT !.mark = m2, !.rootgc = rt, !.ref = rf, !.open = op, !.stack[cur][i] = o]
      BY <1>2, <3>1, <3>2, <3>4, <3>5 DEF Heap
    <3> QED BY <1>2, <3>6 DEF rf, rt, Heap
  <2>2. m2 = m3
    <3>1. h.mark \in [Obj -> White \cup {"gray", "black", "free"}]
      BY <1>2, HeapFields
    <3>2. (old = {} \/ IsDead(h, uv)) <=> (h.mark[uv] = "free" \/ IsDead(h, uv))
      BY <1>5
    <3> HIDE DEF old
    <3> QED BY <1>1, <1>5, <3>1, <3>2
  <2> HIDE DEF m2, r, mu, op
  <2>3. A.ref = h.ref
    BY <1>2 DEF Heap
  <2>4. [A EXCEPT !.mark = [A.mark EXCEPT ![o] = A.currentwhite], !.rootgc = @ \cup {o},
                  !.ref = [A.ref EXCEPT ![o] = r], !.stack[cur][i] = o]
          = [h EXCEPT !.mark = m3, !.rootgc = h.rootgc \cup {o}, !.ref[o] = r, !.open = op, !.stack[cur][i] = o]
    BY <1>2, <1>8, <2>3, ZenonT(30) DEF Heap
  <2> QED BY <2>1, <2>2, <2>4
<1> HIDE DEF A, r
<1>13. HInv(h', cur, {}, called, phase, late)
  <2>1. A.mark[o] = "free" /\ A.gcstate \notin AtomicStages /\ cur \in Live(A) /\ Kind[o] \notin {"upval", "string"}
        /\ Kind[o] # "udata" /\ \A u \in Obj \ {o} : called[u] = called[u]
    BY <1>1, <1>2, <1>7, <1>8, <1>9
  <2> QED BY <1>1, <1>6, <1>10, <1>11, <1>12, <2>1, MadeKeeps
<1> QED BY <1>1, <1>2, <1>13, IInvNext

\* A field that an object of its kind has may hold a value of the right kind.
LEMMA WrittenWell ==
  ASSUME NEW hp \in Heap, Fields(hp), NEW x \in Obj, NEW f \in FieldsOf(x), NEW v,
         \/ f = "mt" /\ v \in DOMAIN Mode \cup {Nil}
         \/ f \in {"key", "val", "v", "k"} /\ v \in Value
         \/ f = "env" /\ v \in Obj /\ Kind[v] = "table"
  PROVE  WellFormed(x, [hp.ref[x] EXCEPT ![f] = v]) /\ f \in Field \ {"up"}
<1> DEFINE r == [hp.ref[x] EXCEPT ![f] = v]
<1>1. WellFormed(x, hp.ref[x]) /\ hp.ref[x] \in [Field -> Obj \cup {Nil, Dead}]
  BY HeapFields DEF Fields
<1>2. f \in Field \ {"up"} /\ {"mt", "key", "val", "env", "up", "p", "v", "k"} = Field
  BY DEF Field
<1>3. r[f] = v /\ \A d \in Field : d # f => r[d] = hp.ref[x][d]
  BY <1>1, <1>2
<1> HIDE DEF r
<1>4. \A d \in Field : d \notin FieldsOf(x) => r[d] = Nil
  BY <1>1, <1>3 DEF WellFormed
<1> HIDE DEF Value
<1>5. /\ r.mt \in DOMAIN Mode \cup {Nil}
      /\ \A d \in {"val", "v", "k"} : r[d] \in Value
      /\ r.key \in Value \cup {Dead}
      /\ r.env = Nil \/ (r.env \in Obj /\ Kind[r.env] = "table")
      /\ r.p = Nil \/ (r.p \in Obj /\ Kind[r.p] = "proto")
      /\ r.up = Nil \/ (r.up \in Obj /\ Kind[r.up] = "upval")
  BY <1>1, <1>2, <1>3 DEF WellFormed
<1>6. WellFormed(x, r)
  BY <1>4, <1>5 DEF WellFormed
<1> QED BY <1>2, <1>6 DEF r

LEMMA WriteIs ==
  ASSUME NEW hp \in Heap, NEW x \in Obj, NEW f, NEW v
  PROVE  [hp EXCEPT !.ref[x][f] = v] = [hp EXCEPT !.ref = [hp.ref EXCEPT ![x] = [hp.ref[x] EXCEPT ![f] = v]]]
  BY DEF Heap

\* What luaC_barrierback leaves alone.
LEMMA BarrierBackFrame ==
  ASSUME NEW X \in Heap, NEW x \in Obj, NEW v, NEW R, R = BarrierBack(X, x, v)
  PROVE  /\ R.ref = X.ref /\ R.open = X.open /\ R.gcstate = X.gcstate /\ R.finalized = X.finalized
         /\ Live(R) = Live(X)
<1> DEFINE c == X.gcstate \notin {"finalize", "pause"}
<1>1. ASSUME v = Nil \/ ~IsWhite(X, v) \/ X.mark[x] # "black"
      PROVE  /\ R.ref = X.ref /\ R.open = X.open /\ R.gcstate = X.gcstate /\ R.finalized = X.finalized
             /\ Live(R) = Live(X)
  <2>1. R = X
    BY <1>1 DEF BarrierBack
  <2> QED BY <2>1
<1>2. ASSUME ~(v = Nil \/ ~IsWhite(X, v) \/ X.mark[x] # "black")
      PROVE  /\ R.ref = X.ref /\ R.open = X.open /\ R.gcstate = X.gcstate /\ R.finalized = X.finalized
             /\ Live(R) = Live(X)
  <2> DEFINE Y == LuaAssert(X, c)
             Z == [Y EXCEPT !.mark[x] = "gray"]
             W == LuaAssert(Z, {x} \cap (Z.gray \cup Z.grayagain \cup Z.weak) = {})
  <2>1. R = [W EXCEPT !["grayagain"] = @ \cup {x}]
    BY <1>2 DEF BarrierBack, Link
  <2>2. /\ Y.ref = X.ref /\ Y.open = X.open /\ Y.gcstate = X.gcstate /\ Y.finalized = X.finalized
        /\ Y.mark = X.mark /\ Y.currentwhite = X.currentwhite
        /\ DOMAIN Y = DOMAIN X
    BY DEF Heap, LuaAssert
  <2>3. {"ref", "open", "gcstate", "finalized", "mark", "currentwhite", "bad", "grayagain"} \subseteq DOMAIN X
    BY DEF Heap
  <2> DEFINE mk == [X.mark EXCEPT ![x] = "gray"]
  <2> HIDE DEF Y
  <2>4. /\ Z.ref = X.ref /\ Z.open = X.open /\ Z.gcstate = X.gcstate /\ Z.finalized = X.finalized
        /\ Z.mark = mk /\ Z.currentwhite = X.currentwhite
        /\ DOMAIN Z = DOMAIN X
    BY <2>2, <2>3
  <2> DEFINE d == {x} \cap (Z.gray \cup Z.grayagain \cup Z.weak) = {}
  <2>5. W = LuaAssert(Z, d)
    OBVIOUS
  <2> HIDE DEF Z, mk, d, W
  <2>6. /\ W.ref = X.ref /\ W.open = X.open /\ W.gcstate = X.gcstate /\ W.finalized = X.finalized
        /\ W.mark = mk /\ W.currentwhite = X.currentwhite
        /\ DOMAIN W = DOMAIN X
    BY <2>3, <2>4, <2>5 DEF LuaAssert
  <2>7. /\ R.ref = X.ref /\ R.open = X.open /\ R.gcstate = X.gcstate /\ R.finalized = X.finalized
        /\ R.mark = mk /\ R.currentwhite = X.currentwhite
    BY <2>1, <2>3, <2>6
  <2>8. mk[x] = "gray" /\ (\A o \in Obj : o # x => mk[o] = X.mark[o]) /\ X.mark[x] = "black"
    BY <1>2, HeapFields DEF mk
  <2>9. Live(R) = Live(X)
    <3>1. OtherWhite(R) = OtherWhite(X) /\ OtherWhite(X) \in White
      BY <2>7, WhiteFacts DEF OtherWhite
    <3> QED BY <2>7, <2>8, <3>1 DEF Live, IsDead, White
  <2> QED BY <2>7, <2>9
<1> QED BY <1>1, <1>2

\* A key and a value are stored in a table.
LEMMA TableStep ==
  ASSUME IInv, world' = world, NEW t, NEW k, NEW v, SetTable(t, k, v)
  PROVE  IInv'
<1> DEFINE e == h.ref[t]
           g1 == IF e.key = k THEN h ELSE BarrierBack([h EXCEPT !.ref[t].key = k], t, k)
<1>1. /\ CanRun /\ phase' = phase /\ called' = called /\ late' = late /\ cur' = cur
      /\ t \in Values /\ t \in On("table") /\ k \in Values \cup {Nil} /\ v \in Top \cup {Nil}
      /\ h' = BarrierBack([g1 EXCEPT !.ref[t].val = v], t, v)
  BY DEF SetTable, Step
<1>2. phase # "closed" /\ h.gcstate \notin AtomicStages
  BY <1>1 DEF CanRun
<1>3. /\ HInv(h, cur, {}, called, phase, late) /\ h \in Heap /\ Fields(h) /\ Places(h)
      /\ called \in [On("udata") -> {0, 1}] /\ phase \in {"run", "closing"}
      /\ Top \subseteq Live(h) \cup {Nil} /\ Top \subseteq Value
      /\ Values \subseteq Live(h) /\ Values \subseteq Value /\ Live(h) \subseteq Obj /\ Nil \in Value
  BY <1>2, AtHand DEF Value
<1>4. /\ t \in Live(h) /\ t \in Obj /\ Kind[t] = "table" /\ k \in Live(h) \cup {Nil} /\ k \in Value
      /\ v \in Live(h) \cup {Nil} /\ v \in Value
  <2> HIDE DEF Value
  <2> QED BY <1>1, <1>3, OnKinds DEF Kinds
<1>5. ~IsOpen(h, t) /\ "key" \in FieldsOf(t) /\ "val" \in FieldsOf(t)
  BY <1>3, <1>4 DEF Places, FieldsOf
<1>6. /\ HInv(g1, cur, {}, called, phase, late) /\ g1.gcstate = h.gcstate /\ Live(g1) = Live(h) /\ g1.open = h.open
      /\ g1.ref[t].key = k
  <2>1. CASE e.key = k
    BY <1>3, <2>1
  <2>2. CASE e.key # k
    <3> DEFINE r == [h.ref[t] EXCEPT !["key"] = k]
               rf == [h.ref EXCEPT ![t] = r]
               X == [h EXCEPT !.ref = rf]
               R == BarrierBack(X, t, k)
    <3>1. g1 = R
      <4>1. [h EXCEPT !.ref[t].key = k] = X
        BY <1>3, <1>4, WriteIs
      <4> QED BY <2>2, <4>1
    <3>2. WellFormed(t, r) /\ "key" \in Field \ {"up"}
      BY <1>3, <1>4, <1>5, WrittenWell
    <3>3. HInv(R, cur, {}, called, phase, late)
      BY <1>2, <1>3, <1>4, <1>5, <3>2, BarrierBackKeeps
    <3>4. R.ref = rf /\ R.open = h.open /\ R.gcstate = h.gcstate /\ Live(R) = Live(h)
      <4>1. rf \in [Obj -> [Field -> Obj \cup {Nil, Dead}]]
        <5>1. h.ref \in [Obj -> [Field -> Obj \cup {Nil, Dead}]] /\ h.ref[t] \in [Field -> Obj \cup {Nil, Dead}]
          BY <1>3, <1>4, HeapFields
        <5>2. r \in [Field -> Obj \cup {Nil, Dead}]
          BY <1>3, <1>4, <5>1
        <5> QED BY <5>1, <5>2
      <4> HIDE DEF rf
      <4>2. X \in Heap /\ X.ref = rf /\ X.open = h.open /\ X.gcstate = h.gcstate
            /\ X.mark = h.mark /\ X.currentwhite = h.currentwhite
        BY <1>3, <4>1 DEF Heap
      <4>3. Live(X) = Live(h)
        <5> HIDE DEF X
        <5> QED BY <4>2 DEF Live, IsDead, OtherWhite
      <4>4. R = BarrierBack(X, t, k)
        OBVIOUS
      <4> HIDE DEF X, R
      <4> QED BY <1>4, <4>2, <4>3, <4>4, BarrierBackFrame
    <3>5. rf[t].key = k
      <4>1. h.ref \in [Obj -> [Field -> Obj \cup {Nil, Dead}]] /\ h.ref[t] \in [Field -> Obj \cup {Nil, Dead}]
        BY <1>3, <1>4, HeapFields
      <4> QED BY <1>4, <3>2, <4>1
    <3> HIDE DEF R, rf, g1
    <3> QED BY <3>1, <3>3, <3>4, <3>5
  <2> QED BY <2>1, <2>2
<1> HIDE DEF g1
<1>7. g1 \in Heap /\ Fields(g1)
  BY <1>6 DEF HInv
<1>8. ~IsOpen(g1, t)
  BY <1>5, <1>6 DEF IsOpen
<1> DEFINE r == [g1.ref[t] EXCEPT !["val"] = v]
           X == [g1 EXCEPT !.ref = [g1.ref EXCEPT ![t] = r]]
<1>9. h' = BarrierBack(X, t, v)
  <2>1. [g1 EXCEPT !.ref[t].val = v] = X
    BY <1>4, <1>7, WriteIs
  <2> QED BY <1>1, <2>1
<1>10. WellFormed(t, r) /\ "val" \in Field \ {"up"}
  BY <1>4, <1>5, <1>7, WrittenWell
<1>11. HInv(BarrierBack(X, t, v), cur, {}, called, phase, late)
  BY <1>2, <1>4, <1>6, <1>8, <1>10, BarrierBackKeeps
<1> QED BY <1>1, <1>3, <1>9, <1>11, IInvNext

\* A metatable is set.
LEMMA MetatableStep ==
  ASSUME IInv, world' = world, NEW x, NEW m, SetMetatable(x, m)
  PROVE  IInv'
<1> DEFINE r == [h.ref[x] EXCEPT !["mt"] = m]
           X == [h EXCEPT !.ref = [h.ref EXCEPT ![x] = r]]
<1>1. /\ CanRun /\ phase' = phase /\ called' = called /\ late' = late /\ cur' = cur
      /\ (x \in Values /\ x \in On("table") \cup On("udata")) \/ x = Main
      /\ m \in Values \cup {Nil} /\ m \in DOMAIN Mode \cup {Nil}
      /\ x \in On("udata") => x \notin h.finalized
      /\ h' = CASE x \in On("table") -> BarrierBack([h EXCEPT !.ref[x].mt = m], x, m)
                [] x \in On("udata") -> Barrier([h EXCEPT !.ref[x].mt = m], x, m)
                [] OTHER -> [h EXCEPT !.ref[x].mt = m]
  BY DEF SetMetatable, Step
<1>2. phase # "closed" /\ h.gcstate \notin AtomicStages
  BY <1>1 DEF CanRun
<1>3. /\ HInv(h, cur, {}, called, phase, late) /\ h \in Heap /\ Fields(h) /\ Places(h) /\ Edges(h, cur) /\ Lists(h)
      /\ called \in [On("udata") -> {0, 1}] /\ phase \in {"run", "closing"}
      /\ Values \subseteq Live(h) /\ Live(h) \subseteq Obj
  BY <1>2, AtHand DEF HInv
<1>4. /\ x \in Live(h) /\ x \in Obj /\ m \in Live(h) \cup {Nil}
      /\ (x \in On("table") <=> Kind[x] = "table") /\ (x \in On("udata") <=> Kind[x] = "udata")
      /\ Kind[x] \in {"table", "udata"} \/ (x = Main /\ Kind[x] = "thread")
  <2>1. x \in Live(h) /\ m \in Live(h) \cup {Nil}
    BY <1>1, <1>3 DEF Edges
  <2> QED BY <2>1, <1>1, <1>3, OnKinds, HeapAssumption DEF Kinds
<1>5. ~IsOpen(h, x) /\ "mt" \in FieldsOf(x)
  BY <1>3, <1>4 DEF Places, FieldsOf
<1>6. WellFormed(x, r) /\ "mt" \in Field \ {"up"}
  BY <1>1, <1>3, <1>4, <1>5, WrittenWell
<1>7. [h EXCEPT !.ref[x].mt = m] = X
  BY <1>3, <1>4, WriteIs
<1>8. Kind[x] = "udata" => x \notin h.finalized
  BY <1>1, <1>4
<1>9. HInv(h', cur, {}, called, phase, late)
  <2>1. CASE Kind[x] = "table"
    <3>1. h' = BarrierBack(X, x, m)
      BY <1>1, <1>4, <1>7, <2>1
    <3>2. HInv(BarrierBack(X, x, m), cur, {}, called, phase, late)
      BY <1>2, <1>3, <1>4, <1>5, <1>6, <1>8, <2>1, BarrierBackKeeps
    <3> QED BY <3>1, <3>2
  <2>2. CASE Kind[x] = "udata"
    <3>1. h' = Barrier(X, x, m)
      BY <1>1, <1>4, <1>7, <2>2
    <3>2. HInv(Barrier(X, x, m), cur, {}, called, phase, late)
      BY <1>2, <1>3, <1>4, <1>5, <1>6, <1>8, <2>2, BarrierKeeps
    <3> QED BY <3>1, <3>2
  <2>3. CASE Kind[x] = "thread"
    <3>1. h' = X
      BY <1>1, <1>4, <1>7, <2>3
    <3>2. h.mark[x] # "black"
      BY <1>3, <1>4, <2>3 DEF Lists
    <3>3. HInv(X, cur, {}, called, phase, late)
      BY <1>2, <1>3, <1>4, <1>5, <1>6, <1>8, <2>3, <3>2, WriteKeeps
    <3> QED BY <3>1, <3>3
  <2> QED BY <1>4, <2>1, <2>2, <2>3
<1> QED BY <1>1, <1>3, <1>9, IInvNext

\* An environment, or a constant of a function, is set.
LEMMA FieldStep ==
  ASSUME IInv, world' = world, NEW x, NEW f, NEW v, SetField(x, f, v)
  PROVE  IInv'
<1> DEFINE r == [h.ref[x] EXCEPT ![f] = v]
           X == [h EXCEPT !.ref = [h.ref EXCEPT ![x] = r]]
<1>1. /\ CanRun /\ phase' = phase /\ called' = called /\ late' = late /\ cur' = cur
      /\ x \in Values /\ v \in Top \ {Nil}
      /\ \/ f = "env" /\ Kind[x] \in {"udata", "closure", "thread"} /\ Kind[v] = "table"
         \/ f = "k" /\ Kind[x] = "proto"
      /\ h' = Barrier([h EXCEPT !.ref[x][f] = v], x, v)
  BY DEF SetField, Step
<1>2. phase # "closed" /\ h.gcstate \notin AtomicStages
  BY <1>1 DEF CanRun
<1>3. /\ HInv(h, cur, {}, called, phase, late) /\ h \in Heap /\ Fields(h) /\ Places(h)
      /\ called \in [On("udata") -> {0, 1}] /\ phase \in {"run", "closing"}
      /\ Top \subseteq Live(h) \cup {Nil} /\ Top \subseteq Value
      /\ Values \subseteq Live(h) /\ Live(h) \subseteq Obj
  BY <1>2, AtHand
<1>4. x \in Live(h) /\ x \in Obj /\ v \in Live(h) /\ v \in Obj /\ v \in Value
  <2> HIDE DEF Value
  <2> QED BY <1>1, <1>3
<1>5. ~IsOpen(h, x) /\ f \in FieldsOf(x)
  BY <1>1, <1>3, <1>4 DEF Places, FieldsOf
<1>6. WellFormed(x, r) /\ f \in Field \ {"up"}
  BY <1>1, <1>3, <1>4, <1>5, WrittenWell
<1>7. h' = Barrier(X, x, v)
  <2>1. [h EXCEPT !.ref[x][f] = v] = X
    BY <1>3, <1>4, WriteIs
  <2> QED BY <1>1, <2>1
<1>8. HInv(Barrier(X, x, v), cur, {}, called, phase, late)
  <2>1. f # "val" /\ f # "mt" /\ v \in Live(h) \cup {Nil}
    BY <1>1, <1>4
  <2> QED BY <1>2, <1>3, <1>4, <1>5, <1>6, <2>1, BarrierKeeps
<1> QED BY <1>1, <1>3, <1>7, <1>8, IInvNext

\* An upvalue is assigned to (OP_SETUPVAL), on a stack or in the upvalue itself.
LEMMA UpvalStep ==
  ASSUME IInv, world' = world, ~DebugApi, NEW x, NEW v, NEW owner, SetUpval(x, v, owner)
  PROVE  IInv'
<1> DEFINE uv == h.ref[x].up
           t == h.open[uv][1]
           j == h.open[uv][2]
           g1 == IF h.open[uv] = Closed THEN [h EXCEPT !.ref[uv].v = v] ELSE [h EXCEPT !.stack[t][j] = v]
<1>1. /\ CanRun /\ phase' = phase /\ called' = called /\ late' = late /\ cur' = cur
      /\ x \in Values /\ x \in On("closure") /\ v \in Top \ {Nil} /\ owner = uv
      /\ h' = Barrier(g1, uv, v)
  BY DEF SetUpval, Step
<1>2. phase # "closed" /\ h.gcstate \notin AtomicStages
  BY <1>1 DEF CanRun
<1>3. /\ HInv(h, cur, {}, called, phase, late) /\ h \in Heap /\ Fields(h) /\ Places(h) /\ Edges(h, cur) /\ Lists(h)
      /\ called \in [On("udata") -> {0, 1}] /\ phase \in {"run", "closing"}
      /\ Top \subseteq Live(h) \cup {Nil} /\ Top \subseteq Value
      /\ Values \subseteq Live(h) /\ Live(h) \subseteq Obj
  BY <1>2, AtHand DEF HInv
<1>4. x \in Live(h) /\ Kind[x] = "closure" /\ v \in Live(h) /\ v \in Value
  <2> HIDE DEF Value
  <2> QED BY <1>1, <1>3, OnKinds DEF Kinds
<1>5. uv \in Live(h) /\ uv \in Obj /\ Kind[uv] = "upval"
  BY <1>3, <1>4, UpOfClosure
<1> HIDE DEF uv
<1>6. HInv(h', cur, {}, called, phase, late)
  <2>1. CASE h.open[uv] = Closed
    <3> DEFINE r == [h.ref[uv] EXCEPT !["v"] = v]
               X == [h EXCEPT !.ref = [h.ref EXCEPT ![uv] = r]]
    <3>1. ~IsOpen(h, uv) /\ "v" \in FieldsOf(uv)
      BY <1>5, <2>1 DEF IsOpen, FieldsOf
    <3>2. WellFormed(uv, r) /\ "v" \in Field \ {"up"}
      BY <1>3, <1>4, <1>5, <3>1, WrittenWell
    <3>3. h' = Barrier(X, uv, v)
      <4>1. [h EXCEPT !.ref[uv].v = v] = X
        BY <1>3, <1>5, WriteIs
      <4> QED BY <1>1, <2>1, <4>1
    <3>4. HInv(Barrier(X, uv, v), cur, {}, called, phase, late)
      <4>1. v \in Live(h) \cup {Nil}
        BY <1>4
      <4> QED BY <1>2, <1>3, <1>5, <3>1, <3>2, <4>1, BarrierKeeps
    <3> QED BY <3>3, <3>4
  <2>2. CASE h.open[uv] # Closed
    <3> DEFINE X == [h EXCEPT !.stack[t][j] = v]
    <3>1. IsOpen(h, uv) /\ t \in Thread /\ j \in Slots
      BY <1>3, <1>5, <2>2, OpenFacts DEF IsOpen
    <3>2. h.mark[t] # "free" /\ h.mark[uv] # "black"
      BY <1>3, <1>5, <3>1 DEF Places, Lists
    <3>3. X.mark = h.mark
      BY <1>3 DEF Heap
    <3>4. Barrier(X, uv, v) = X
      <4> HIDE DEF X
      <4> QED BY <3>2, <3>3 DEF Barrier
    <3>5. h' = X
      BY <1>1, <2>2, <3>4
    <3>6. HInv(X, cur, {}, called, phase, late)
      <4>1. v \in Live(h) \cup {Nil}
        BY <1>4
      <4> HIDE DEF t, j
      <4> QED BY <1>2, <1>3, <1>4, <3>1, <3>2, <4>1, PutKeeps
    <3> QED BY <3>5, <3>6
  <2> QED BY <2>1, <2>2
<1> QED BY <1>1, <1>3, <1>6, IInvNext

\* The program starts with a heap of white objects.
LEMMA InitIInv ==
  ASSUME Init
  PROVE  IInv
<1> DEFINE given == world.given \cup {Main}
           mk == [o \in Obj |-> IF o \in given THEN "white0" ELSE "free"]
           rf == [o \in Obj |-> IF o \in given THEN world.ref[o] ELSE NoFields]
           op == [o \in Obj |-> Closed]
           st == [t \in Thread |-> [i \in Slots |-> Nil]]
<1>1. /\ world \in Worlds /\ cur = Main /\ phase = "run" /\ called = [u \in On("udata") |-> 0]
      /\ h = [gcstate |-> "pause", currentwhite |-> "white0", bad |-> FALSE, cleared |-> FALSE,
              mark |-> mk, ref |-> rf, open |-> op, stack |-> st,
              gray |-> {}, grayagain |-> {}, weak |-> {}, tosweep |-> {}, tosweepstr |-> {},
              rootgc |-> given, tmudata |-> {}, finalized |-> {}]
  BY DEF Init
<1>2. /\ world.given \subseteq On("table")
      /\ \A o \in world.given \cup {Main} :
           /\ world.ref[o] \in [Field -> world.given \cup {Nil}]
           /\ world.ref[o].mt \in DOMAIN Mode \cup {Nil}
           /\ \A f \in Field \ (IF o = Main THEN {"mt", "env"} ELSE {"mt", "key", "val"}) : world.ref[o][f] = Nil
  BY <1>1, WorldAssumption
<1>3. /\ Main \in Obj /\ Kind[Main] = "thread" /\ Main \in Thread /\ Main \in given /\ Nil \notin Obj
      /\ On("table") = {o \in Obj : Kind[o] = "table"} /\ On("udata") = {o \in Obj : Kind[o] = "udata"}
      /\ Thread = {o \in Obj : Kind[o] = "thread"}
  BY HeapAssumption, ThreadIs, OnKinds DEF Kinds
<1>4. given \subseteq Obj /\ \A o \in given : Kind[o] = "table" \/ o = Main
  BY <1>2, <1>3
<1>5. /\ \A o \in Obj : mk[o] = IF o \in given THEN "white0" ELSE "free"
      /\ \A o \in Obj : rf[o] = IF o \in given THEN world.ref[o] ELSE NoFields
      /\ \A o \in Obj : op[o] = Closed
      /\ \A t \in Thread, i \in Slots : st[t][i] = Nil
  OBVIOUS
<1>6. /\ mk \in [Obj -> White \cup {"gray", "black", "free"}]
      /\ op \in [Obj -> {Closed} \cup (Thread \X Slots)]
      /\ st \in [Thread -> [Slots -> Value]]
  BY DEF White, Value
<1>7. rf \in [Obj -> [Field -> Obj \cup {Nil, Dead}]]
  <2>1. NoFields \in [Field -> Obj \cup {Nil, Dead}]
    BY DEF NoFields
  <2>2. \A o \in given : world.ref[o] \in [Field -> Obj \cup {Nil, Dead}]
    BY <1>2, <1>4
  <2> QED BY <2>1, <2>2
<1> HIDE DEF given, mk, rf, op, st
<1>8. /\ h.gcstate = "pause" /\ h.currentwhite = "white0" /\ h.bad = FALSE
      /\ h.mark = mk /\ h.ref = rf /\ h.open = op /\ h.stack = st
      /\ h.gray = {} /\ h.grayagain = {} /\ h.weak = {} /\ h.tosweep = {} /\ h.tosweepstr = {}
      /\ h.rootgc = given /\ h.tmudata = {} /\ h.finalized = {}
  BY <1>1
<1>9. h \in Heap
  <2>1. "pause" \in GCStates /\ "white0" \in White /\ given \in SUBSET Obj
    BY <1>4 DEF GCStates, White
  <2> QED BY <1>1, <1>6, <1>7, <2>1 DEF Heap
<1>10. /\ Live(h) = given /\ Marked(h) = {} /\ (\A o \in Obj : ~IsOpen(h, o)) /\ \A o \in Obj : ~IsDead(h, o)
  BY <1>4, <1>5, <1>8 DEF Live, Marked, IsOpen, IsDead, OtherWhite
<1>11. \A o \in Obj : o \in given \/ rf[o] = NoFields
  BY <1>5
<1>12. \A o \in given : rf[o] = world.ref[o]
  BY <1>4, <1>5
<1>13. Fields(h)
  <2> SUFFICES ASSUME NEW o \in Obj
               PROVE  /\ WellFormed(o, rf[o])
                      /\ Kind[o] = "closure" /\ h.mark[o] # "free" => rf[o].up # Nil
                      /\ h.mark[o] = "free" \/ IsOpen(h, o) => rf[o] = NoFields
    BY <1>8 DEF Fields
  <2>1. /\ Kind[o] = "closure" => ~(h.mark[o] # "free")
        /\ h.mark[o] = "free" \/ IsOpen(h, o) => rf[o] = NoFields
    BY <1>3, <1>4, <1>5, <1>8, <1>10
  <2>2. CASE o \in given
    <3>1. /\ rf[o].mt \in DOMAIN Mode \cup {Nil} /\ rf[o] \in [Field -> world.given \cup {Nil}]
          /\ \A f \in Field \ (IF o = Main THEN {"mt", "env"} ELSE {"mt", "key", "val"}) : rf[o][f] = Nil
      BY <1>2, <1>12, <2>2 DEF given
    <3>2. FieldsOf(o) = IF o = Main THEN {"mt", "env"} ELSE {"mt", "key", "val"}
      BY <1>3, <1>4, <2>2 DEF FieldsOf
    <3>3. \A f \in Field : rf[o][f] = Nil \/ (rf[o][f] \in Obj /\ Kind[rf[o][f]] = "table")
      BY <1>2, <1>3, <3>1
    <3>4. /\ \A f \in {"val", "v", "k", "key"} : rf[o][f] \in Value
          /\ \A f \in {"p", "up"} : rf[o][f] = Nil
          /\ rf[o].env = Nil \/ (rf[o].env \in Obj /\ Kind[rf[o].env] = "table")
      BY <3>1, <3>3 DEF Value, Field
    <3>5. WellFormed(o, rf[o])
      <4> HIDE DEF Value
      <4> QED BY <3>1, <3>2, <3>4 DEF WellFormed
    <3> QED BY <2>1, <3>5
  <2>3. CASE o \notin given
    <3>1. \A f \in Field : rf[o][f] = Nil
      BY <1>11, <2>3 DEF NoFields
    <3>2. WellFormed(o, rf[o])
      BY <3>1 DEF WellFormed, Value, Field
    <3> QED BY <2>1, <3>2
  <2> QED BY <2>2, <2>3
<1>14. Places(h)
  BY <1>3, <1>4, <1>5, <1>8, <1>10 DEF Places
<1>15. Edges(h, cur)
  <2>1. \A o \in given : \A f \in Field : rf[o][f] \in given \cup {Nil}
    BY <1>2, <1>12 DEF given
  <2>2. "key" \in Field
    BY DEF Field
  <2>3. ASSUME NEW o \in Live(h)
        PROVE  /\ \A f \in Field \ {"key"} : h.ref[o][f] \in Live(h) \cup {Nil}
               /\ h.ref[o].val # Nil => h.ref[o].key \in Live(h) \cup {Nil, Dead}
               /\ IsOpen(h, o) => Slot(h, o) \in Live(h) \cup {Nil}
    BY <1>4, <1>8, <1>10, <2>1, <2>2
  <2>4. \A t \in Thread, i \in Slots : t \in Live(h) => h.stack[t][i] \in Live(h) \cup {Nil}
    BY <1>5, <1>8
  <2>5. Main \in Live(h) /\ cur \in Live(h) /\ h.tmudata \subseteq Live(h)
    BY <1>1, <1>3, <1>8, <1>10
  <2> QED BY <2>3, <2>4, <2>5 DEF Edges
<1>16. Swept(h)
  BY <1>8, <1>10 DEF Swept
<1>17. Lists(h)
  <2>1. \A o \in Obj : mk[o] \notin {"black", "gray"}
    BY <1>5
  <2> QED BY <1>8, <2>1 DEF Lists, MarkStates, AtomicStages
<1>18. FinalizersDone(h, called, phase, late)
  <2>1. \A o \in Obj : Kind[o] = "udata" => h.mark[o] = "free"
    BY <1>3, <1>4, <1>5, <1>8
  <2> QED BY <2>1 DEF FinalizersDone
<1>19. HInv(h, cur, {}, called, phase, late)
  <2>1. h.gcstate \notin MarkStates
    BY <1>8 DEF MarkStates, AtomicStages
  <2> QED BY <1>1, <1>3, <1>8, <1>9, <1>13, <1>14, <1>15, <1>16, <1>17, <1>18, <2>1 DEF HInv
<1> QED BY <1>1, <1>8, <1>19 DEF IInv

\* Every step keeps the invariant.
LEMMA NextIInv ==
  ASSUME ~DebugApi, IInv, [Next]_vars
  PROVE  IInv'
<1>1. CASE UNCHANGED vars
  BY <1>1 DEF vars, IInv, HInv
<1>2. CASE Next
  <2>1. world' = world /\ world.slots \subseteq Slots
    BY <1>2, WorldAssumption DEF Next, IInv
  <2>2. CASE Collect
    <3>1. CASE \E u \in h.tmudata, i \in world.slots : CallGCTM(u, i)
      <4>1. PICK u \in h.tmudata, i \in world.slots : CallGCTM(u, i)
        BY <3>1
      <4> QED BY <2>1, <4>1, FinalizerStep
    <3>2. CASE ~\E u \in h.tmudata, i \in world.slots : CallGCTM(u, i)
      BY <2>1, <2>2, <3>2, MarkingSteps, SweepingSteps DEF Collect
    <3> QED BY <3>1, <3>2
  <2>3. CASE FullGC
    BY <2>1, <2>3, SweepingSteps
  <2>4. CASE Close \/ FreeAll
    BY <2>1, <2>4, ClosingSteps
  <2>5. CASE Mutate
    <3>1. ASSUME NEW i \in world.slots, NEW o \in world.fresh,
                 \/ Allocate(o, i) \/ NewString(o, i) \/ NewUdata(o, i)
                 \/ \E k \in world.slots : NewClosure(o, i, k)
          PROVE  IInv'
      BY <2>1, <3>1, MakingSteps, StringStep, ClosureStep
    <3>2. ASSUME NEW i \in world.slots, NEW x \in Values,
                 \/ GetUpval(x, i)
                 \/ \E f \in {"val", "key", "mt"} : Load(x, f, i)
                 \/ \E v \in Top \cup {Nil} : Resume(x, i, v)
          PROVE  IInv'
      BY <2>1, <3>2, StackSteps
    <3>3. ASSUME NEW i \in world.slots, Drop(i)
          PROVE  IInv'
      BY <2>1, <3>3, StackSteps
    <3>4. ASSUME NEW i \in world.slots, LeaveBlock(i)
          PROVE  IInv'
      BY <2>1, <3>4, LeaveBlockStep
    <3>5. ASSUME NEW x \in Values, NEW v \in Top \cup {Nil},
                 \/ \E k \in (Values \cap world.keys) \cup {Nil} : SetTable(x, k, v)
                 \/ \E f \in {"env", "k"} : SetField(x, f, v)
                 \/ \E o \in {x, h.ref[x].up} : SetUpval(x, v, o)
          PROVE  IInv'
      BY <2>1, <3>5, TableStep, FieldStep, UpvalStep
    <3>6. ASSUME NEW x, NEW m, SetMetatable(x, m)
          PROVE  IInv'
      BY <2>1, <3>6, MetatableStep
    <3>7. CASE \/ \E i \in world.slots :
                    \/ \E o \in world.fresh :
                         \/ Allocate(o, i) \/ NewString(o, i) \/ NewUdata(o, i)
                         \/ \E k \in world.slots : NewClosure(o, i, k)
                    \/ \E x \in Values :
                         \/ GetUpval(x, i)
                         \/ \E f \in {"val", "key", "mt"} : Load(x, f, i)
                         \/ \E v \in Top \cup {Nil} : Resume(x, i, v)
                    \/ Drop(i) \/ LeaveBlock(i)
      BY <3>1, <3>2, <3>3, <3>4, <3>7
    <3>8. CASE \E x \in Values, v \in Top \cup {Nil} :
                    \/ \E k \in (Values \cap world.keys) \cup {Nil} : SetTable(x, k, v)
                    \/ \E f \in {"env", "k"} : SetField(x, f, v)
                    \/ \E o \in {x, h.ref[x].up} : SetUpval(x, v, o)
      BY <3>5, <3>8
    <3>9. CASE \E x \in (Values \cup {Main}) \cap world.meta, m \in (Values \cap DOMAIN Mode) \cup {Nil} : SetMetatable(x, m)
      BY <3>6, <3>9
    <3>10. CASE Yield
      <4>1. /\ phase # "closed" /\ h.gcstate \notin AtomicStages /\ phase' = phase /\ called' = called /\ late' = late
            /\ h' = h /\ cur' = Main
        BY <3>10 DEF Yield, Step, CanRun
      <4>2. /\ HInv(h, cur, {}, called, phase, late) /\ called \in [On("udata") -> {0, 1}] /\ phase \in {"run", "closing"}
            /\ Main \in Thread /\ Main \in Live(h)
        BY <4>1, AtHand DEF Edges
      <4>3. HInv(h, Main, {}, called, phase, late)
        BY <4>1, <4>2, RunningKeeps
      <4> QED BY <2>1, <4>1, <4>2, <4>3, IInvNext
    <3> QED BY <2>5, <3>7, <3>8, <3>9, <3>10 DEF Mutate
  <2> QED BY <1>2, <2>2, <2>3, <2>4, <2>5 DEF Next
<1> QED BY <1>1, <1>2

LEMMA LeastOf ==
    ASSUME NEW T \in SUBSET Nat, T # {}
    PROVE  \E x \in T : \A y \in T : ~(y < x)
<1>1. PICK x \in T : \A y \in T : ~(<<y, x>> \in OpToRel(<, Nat))
  <2> DEFINE R == OpToRel(<, Nat)
  <2>1. IsWellFoundedOn(R, Nat)
    BY NatLessThanWellFounded
  <2> HIDE DEF R
  <2>2. \E x \in T : \A y \in T : ~(<<y, x>> \in R)
    BY <2>1, WFMin
  <2> QED BY <2>2 DEF R
<1>2. \A y \in T : y < x => <<y, x>> \in OpToRel(<, Nat)
  BY DEF OpToRel
<1> QED BY <1>1, <1>2

\* The steps of Reached: what is added, and the function that adds it n times.
Grow(refs, r) ==
    LET last == (UNION {refs[o] : o \in r.last}) \ r.all
    IN  [all |-> r.all \cup last, last |-> last]
IsReach(f, m, S, refs) ==
    f = [n \in 0..m |-> IF n = 0 THEN [all |-> S, last |-> S] ELSE Grow(refs, f[n - 1])]

LEMMA ReachExists ==
  ASSUME NEW S, NEW refs
  PROVE  \A m \in Nat : \E f : IsReach(f, m, S, refs)
<1> DEFINE T == {m \in Nat : ~\E f : IsReach(f, m, S, refs)}
           start == [all |-> S, last |-> S]
<1>1. ASSUME T # {}
      PROVE  FALSE
  <2>1. PICK m \in T : \A y \in T : ~(y < m)
    BY <1>1, LeastOf
  <2>2. CASE m = 0
    <3> DEFINE f == [n \in 0..0 |-> start]
    <3>1. IsReach(f, 0, S, refs)
      <4> HIDE DEF start
      <4>1. f = [n \in 0..0 |-> IF n = 0 THEN start ELSE Grow(refs, f[n - 1])]
        <5>1. \A n \in 0..0 : n = 0
          OBVIOUS
        <5> QED BY <5>1
      <4> QED BY <4>1 DEF IsReach, start
    <3> QED BY <2>1, <2>2, <3>1
  <2>3. CASE m # 0
    <3>1. m \in Nat /\ m - 1 \in Nat /\ m - 1 \notin T
      BY <2>1, <2>3
    <3>2. PICK f : IsReach(f, m - 1, S, refs)
      BY <3>1
    <3> DEFINE g == [n \in 0..m |-> IF n = m THEN Grow(refs, f[m - 1]) ELSE f[n]]
               F(k, x) == IF x = 0 THEN start ELSE Grow(refs, k[x - 1])
    <3>3. ASSUME NEW n \in 0..m
          PROVE  g[n] = F(g, n)
      <4>1. f = [x \in 0..(m - 1) |-> F(f, x)]
        BY <3>2 DEF IsReach
      <4> HIDE DEF start
      <4>2. CASE n = m
        BY <2>3, <3>1, <4>2
      <4>3. CASE n # m
        <5>1. n \in 0..(m - 1) /\ (n # 0 => n - 1 \in 0..m /\ n - 1 # m)
          BY <3>1, <4>3
        <5>2. f[n] = F(f, n) /\ g[n] = f[n]
          BY <4>1, <4>3, <5>1
        <5>3. n # 0 => g[n - 1] = f[n - 1]
          BY <5>1
        <5> HIDE DEF g
        <5> QED BY <5>2, <5>3
      <4> QED BY <4>2, <4>3
    <3>4. g = [n \in 0..m |-> g[n]]
      OBVIOUS
    <3> HIDE DEF g
    <3>5. g = [n \in 0..m |-> F(g, n)]
      BY <3>3, <3>4
    <3>6. IsReach(g, m, S, refs)
      BY <3>5 DEF IsReach
    <3> QED BY <2>1, <3>6
  <2> QED BY <2>2, <2>3
<1> QED BY <1>1

\* Whatever holds S and, with an object, all it refers to holds all that can be reached from S.
LEMMA ReachedIn ==
  ASSUME NEW S, NEW refs, NEW X, S \subseteq X, \A o \in X : refs[o] \subseteq X
  PROVE  Reached(S, refs) \subseteq X
<1> DEFINE N == Cardinality(Obj)
           reach == CHOOSE f : IsReach(f, N, S, refs)
<1>1. N \in Nat
  BY HeapAssumption, FS_CardinalityType
<1>2. Reached(S, refs) = reach[N].all
  BY DEF Reached, IsReach, Grow
<1> HIDE DEF N
<1>3. IsReach(reach, N, S, refs)
  BY <1>1, ReachExists
<1> HIDE DEF reach
<1>4. reach[0] = [all |-> S, last |-> S] /\ \A n \in 1..N : reach[n] = Grow(refs, reach[n - 1])
  <2> DEFINE F(x) == IF x = 0 THEN [all |-> S, last |-> S] ELSE Grow(refs, reach[x - 1])
  <2>1. reach = [n \in 0..N |-> F(n)]
    BY <1>3 DEF IsReach
  <2>2. \A n \in 0..N : reach[n] = F(n)
    <3> HIDE DEF F
    <3> QED BY <2>1
  <2> QED BY <1>1, <2>2
<1> DEFINE T == {n \in 0..N : ~(reach[n].all \subseteq X /\ reach[n].last \subseteq X)}
<1>5. ASSUME T # {}
      PROVE  FALSE
  <2>1. PICK n \in T : \A y \in T : ~(y < n)
    <3>1. T \in SUBSET Nat
      BY <1>1
    <3> HIDE DEF T
    <3> QED BY <1>5, <3>1, LeastOf
  <2>2. n # 0
    BY <1>4, <2>1
  <2>3. n \in 1..N /\ n - 1 \in 0..N /\ n - 1 < n
    BY <1>1, <2>1, <2>2
  <2>4. reach[n - 1].all \subseteq X /\ reach[n - 1].last \subseteq X
    BY <2>1, <2>3
  <2> DEFINE r == reach[n - 1]
             last == (UNION {refs[o] : o \in r.last}) \ r.all
  <2>5. reach[n] = [all |-> r.all \cup last, last |-> last]
    BY <1>4, <2>3 DEF Grow
  <2>6. last \subseteq X
    <3> HIDE DEF r
    <3> QED BY <2>4 DEF r
  <2> HIDE DEF last, r
  <2>7. reach[n].all \subseteq X /\ reach[n].last \subseteq X
    BY <2>4, <2>5, <2>6 DEF r
  <2> QED BY <2>1, <2>7
<1>6. N \in 0..N
  BY <1>1
<1> QED BY <1>2, <1>5, <1>6

\* What the program can get hold of is live.
LEMMA VisibleLive ==
  ASSUME IInv, phase # "closed"
  PROVE  Visible \subseteq Alive(h)
<1>1. /\ h \in Heap /\ cur \in Thread /\ Fields(h) /\ Edges(h, cur) /\ Main \in Thread
      /\ Live(h) \subseteq Obj /\ Nil \notin Obj
  BY AtHand
<1>2. Roots \subseteq Live(h)
  <2>1. h.ref[Main].mt \in Live(h) \cup {Nil}
    BY <1>1 DEF Edges, Field
  <2> QED BY <1>1, <2>1 DEF Roots, Edges
<1>3. ASSUME NEW o \in Live(h)
      PROVE  Refs(h)[o] \subseteq Live(h)
  <2>1. o \in Obj /\ Dead \notin Obj
    BY <1>1, HeapAssumption
  <2>2. Weak(h, o) \cap Obj \subseteq Live(h)
    <3>1. h.ref[o].val # Nil => h.ref[o].key \in Live(h) \cup {Nil, Dead} /\ h.ref[o].val \in Live(h) \cup {Nil}
      BY <1>1 DEF Edges, Field
    <3> QED BY <1>1, <2>1, <3>1 DEF Weak
  <2>3. Strong(h, o) \cap Obj \subseteq Live(h)
    <3>1. CASE Kind[o] = "upval"
      <4>1. UpValue(h, o) \in Live(h) \cup {Nil}
        BY <1>1, <3>1, UpValueLive
      <4> QED BY <1>1, <3>1, <4>1 DEF Strong
    <3>2. CASE Kind[o] = "udata"
      <4>1. h.ref[o].mt \in Live(h) \cup {Nil} /\ h.ref[o].env \in Live(h) \cup {Nil}
        BY <1>1 DEF Edges, Field
      <4> QED BY <1>1, <3>2, <4>1 DEF Strong
    <3>3. CASE Kind[o] = "string"
      BY <3>3 DEF Strong
    <3>4. CASE Kind[o] \notin {"upval", "udata", "string"}
      <4>1. Strong(h, o) = Traverse(h, o) /\ Waits(o)
        BY <2>1, <3>4, HeapAssumption DEF Strong, Waits
      <4>2. Traverse(h, o) \subseteq Live(h) \cup {Nil, Dead}
        BY <1>1, <4>1, TraverseLive
      <4> QED BY <1>1, <2>1, <4>1, <4>2
    <3> QED BY <3>1, <3>2, <3>3, <3>4
  <2>4. Refs(h)[o] = (Strong(h, o) \cup Weak(h, o)) \cap Obj
    BY <2>1 DEF Refs
  <2> QED BY <2>2, <2>3, <2>4
<1>4. Visible \subseteq Live(h)
  <2> DEFINE refs == Refs(h)
  <2>1. \A o \in Live(h) : refs[o] \subseteq Live(h)
    BY <1>3
  <2> HIDE DEF refs
  <2>2. Reached(Roots, refs) \subseteq Live(h)
    BY <1>2, <2>1, ReachedIn
  <2> QED BY <2>2 DEF Visible, refs
<1> QED BY <1>4 DEF Live, Alive

\* Between the steps of the mark phase no black object refers to a white one.
LEMMA BlackNotWhite ==
  ASSUME IInv
  PROVE  NoBlackToWhite
<1> SUFFICES ASSUME phase = "run", h.gcstate = "propagate",
                    NEW o \in Obj \ h.tmudata, h.mark[o] = "black", NEW v \in Strong(h, o) \cap Obj
             PROVE  ~IsWhite(h, v)
  BY DEF NoBlackToWhite
<1>1. h \in Heap /\ Lists(h) /\ Colours(h, cur, {}) /\ Nil \notin Obj /\ Dead \notin Obj
  BY HeapAssumption DEF IInv, HInv, MarkStates
<1>2. \A f \in Field : h.ref[o][f] \in Marked(h) \cup {Nil, Dead}
  BY <1>1 DEF Colours
<1>3. \E f \in Field : v = h.ref[o][f]
  <2>1. Kind[o] # "thread" /\ ~IsOpen(h, o)
    BY <1>1 DEF Lists
  <2>2. CASE Kind[o] = "upval"
    <3>1. Strong(h, o) = {h.ref[o].v}
      BY <2>1, <2>2 DEF Strong, UpValue, IsOpen
    <3> QED BY <3>1 DEF Field
  <2>3. CASE Kind[o] = "udata"
    <3>1. Strong(h, o) = {h.ref[o].mt, h.ref[o].env}
      BY <2>3 DEF Strong
    <3> QED BY <3>1 DEF Field
  <2>4. CASE Kind[o] = "string"
    BY <2>4 DEF Strong
  <2>5. CASE Kind[o] \notin {"upval", "udata", "string"}
    <3>1. Strong(h, o) = Traverse(h, o) /\ Kind[o] \in {"table", "closure", "proto"}
      BY <2>1, <2>5, HeapAssumption DEF Strong
    <3>2. CASE Kind[o] = "table"
      <4>1. v \in TraverseTable(h, o)
        BY <3>1, <3>2 DEF Traverse
      <4>2. v \in {h.ref[o].mt, h.ref[o].key, h.ref[o].val}
        BY <4>1 DEF TraverseTable
      <4> QED BY <4>2 DEF Field
    <3>3. CASE Kind[o] = "closure"
      <4>1. v \in TraverseClosure(h, o)
        BY <3>1, <3>3 DEF Traverse
      <4> QED BY <4>1 DEF TraverseClosure, Field
    <3>4. CASE Kind[o] = "proto"
      <4>1. v \in TraverseProto(h, o)
        BY <3>1, <3>4 DEF Traverse
      <4> QED BY <4>1 DEF TraverseProto, Field
    <3> QED BY <3>1, <3>2, <3>3, <3>4
  <2> QED BY <2>2, <2>3, <2>4, <2>5
<1> QED BY <1>1, <1>2, <1>3 DEF Marked, IsWhite, White

\* What can be said of any of the heaps that an operation goes through.
Names == {"gcstate", "currentwhite", "bad", "cleared", "mark", "ref", "open", "stack", "gray", "grayagain",
          "weak", "tosweep", "tosweepstr", "rootgc", "tmudata", "finalized"}
Rec(hp) == Names \subseteq DOMAIN hp /\ hp.currentwhite # "free"
SameMarks(hp, g) == Rec(g) /\ g.mark = hp.mark /\ g.currentwhite = hp.currentwhite
\* No userdata is freed between hp and g.
UdataKept(hp, g) == Rec(g) /\ \A u \in Obj : Kind[u] = "udata" /\ g.mark[u] = "free" => hp.mark[u] = "free"

LEMMA HeapIsRec ==
  ASSUME NEW hp \in Heap
  PROVE  Rec(hp)
<1>1. hp.currentwhite # "free"
  BY HeapFields DEF White
<1> QED BY <1>1 DEF Rec, Names, Heap

LEMMA SameMarksKept ==
  ASSUME NEW hp, NEW g, SameMarks(hp, g)
  PROVE  UdataKept(hp, g)
  BY DEF SameMarks, UdataKept

LEMMA SameMarksTrans ==
  ASSUME NEW a, NEW b, NEW c, SameMarks(a, b), SameMarks(b, c)
  PROVE  SameMarks(a, c)
  BY DEF SameMarks

LEMMA KeptTrans ==
  ASSUME NEW a, NEW b, NEW c, UdataKept(a, b), UdataKept(b, c)
  PROVE  UdataKept(a, c)
  BY DEF UdataKept

LEMMA AssertKept ==
  ASSUME NEW hp, Rec(hp), NEW p
  PROVE  SameMarks(hp, LuaAssert(hp, p))
<1>1. CASE p
  BY <1>1 DEF LuaAssert, SameMarks
<1>2. CASE ~p
  BY <1>2 DEF LuaAssert, SameMarks, Rec, Names
<1> QED BY <1>1, <1>2

LEMMA LinkKept ==
  ASSUME NEW hp, Rec(hp), NEW list \in {"gray", "grayagain", "weak"}, NEW S
  PROVE  SameMarks(hp, Link(hp, list, S))
<1> DEFINE c == S \cap (hp.gray \cup hp.grayagain \cup hp.weak) = {}
           g == LuaAssert(hp, c)
<1>1. Link(hp, list, S) = [g EXCEPT ![list] = @ \cup S]
  BY DEF Link
<1> HIDE DEF c
<1>2. SameMarks(hp, g)
  BY AssertKept
<1> HIDE DEF g
<1> QED BY <1>1, <1>2 DEF SameMarks, Rec, Names

LEMMA MarkAllKept ==
  ASSUME NEW hp, Rec(hp), NEW S
  PROVE  UdataKept(hp, MarkAll(hp, S))
<1> DEFINE N == NewMarks(hp, S)
           G == {o \in N : Kind[o] \in {"closure", "table", "thread", "proto"}}
           B == {o \in N : Kind[o] = "udata" \/ (Kind[o] = "upval" /\ hp.open[o] = Closed)}
           c == \A o \in N : ~IsDead(hp, o)
           Y == Link(LuaAssert(hp, c), "gray", G)
           mk == [o \in Obj |-> IF o \in B THEN "black" ELSE IF o \in N THEN "gray" ELSE Y.mark[o]]
<1>1. MarkAll(hp, S) = [Y EXCEPT !.mark = mk]
  BY DEF MarkAll, NewMarks
<1> HIDE DEF c, N, G, B
<1>2. SameMarks(hp, LuaAssert(hp, c))
  BY AssertKept
<1>3. SameMarks(LuaAssert(hp, c), Y)
  BY <1>2, LinkKept DEF SameMarks
<1>4. SameMarks(hp, Y)
  BY <1>2, <1>3, SameMarksTrans
<1> HIDE DEF Y
<1>5. \A o \in Obj : mk[o] = "free" => hp.mark[o] = "free"
  BY <1>4 DEF SameMarks
<1> HIDE DEF mk
<1> QED BY <1>1, <1>4, <1>5 DEF SameMarks, UdataKept, Rec, Names

\* A heap that is changed elsewhere, and then marked.
LEMMA ThenMarked ==
  ASSUME NEW hp, NEW g, UdataKept(hp, g), NEW S
  PROVE  UdataKept(hp, MarkAll(g, S))
  BY MarkAllKept, KeptTrans DEF UdataKept

LEMMA PropagateKept ==
  ASSUME NEW hp, Rec(hp), NEW G
  PROVE  UdataKept(hp, PropagateMark(hp, G))
<1> DEFINE weak  == {t \in G \cap On("table") : WeakMode(hp, t) # {}}
           empty == {t \in G \cap On("table") : hp.ref[t].val = Nil /\ WeakMode(hp, t) # {"k", "v"}}
           c  == \A o \in G : hp.mark[o] = "gray"
           g0 == LuaAssert(hp, c)
           B  == G \ (weak \cup Thread)
           mk == [o \in Obj |-> IF o \in B THEN "black" ELSE g0.mark[o]]
           rf == [o \in Obj |-> IF o \in empty THEN RemoveEntry(g0.ref[o]) ELSE g0.ref[o]]
           g1 == [g0 EXCEPT !.gray = @ \ G, !.mark = mk, !.ref = rf]
           T == G \cap Thread
           S == UNION {Traverse(hp, o) : o \in G}
           g2 == Link(g1, "weak", weak)
           g3 == Link(g2, "grayagain", T)
<1>1. PropagateMark(hp, G) = MarkAll(g3, S)
  BY DEF PropagateMark
<1> HIDE DEF c, weak, empty, S, T, B
<1>2. SameMarks(hp, g0)
  BY AssertKept
<1> HIDE DEF g0
<1>3. \A o \in Obj : mk[o] = "free" => hp.mark[o] = "free"
  BY <1>2 DEF SameMarks
<1> HIDE DEF mk, rf
<1>4. UdataKept(hp, g1)
  BY <1>2, <1>3 DEF SameMarks, UdataKept, Rec, Names
<1> HIDE DEF g1
<1>5. SameMarks(g1, g2)
  BY <1>4, LinkKept DEF UdataKept
<1> HIDE DEF g2
<1>6. SameMarks(g2, g3)
  BY <1>5, LinkKept DEF SameMarks
<1> HIDE DEF g3
<1>7. UdataKept(hp, g3)
  BY <1>4, <1>5, <1>6, SameMarksKept, KeptTrans
<1> QED BY <1>1, <1>7, ThenMarked

LEMMA SeparateMarks ==
  ASSUME NEW hp, Rec(hp), NEW all
  PROVE  SameMarks(hp, SeparateUdata(hp, all))
<1> DEFINE sep  == {u \in hp.rootgc \cap On("udata") : (IsWhite(hp, u) \/ all) /\ u \notin hp.finalized}
           gone == {u \in sep : hp.ref[u].mt \in HasGC}
<1>1. SeparateUdata(hp, all) = [hp EXCEPT !.tmudata = @ \cup gone, !.rootgc = @ \ gone, !.finalized = @ \cup sep]
  BY DEF SeparateUdata
<1> HIDE DEF sep, gone
<1> QED BY <1>1 DEF SameMarks, Rec, Names

LEMMA SweepPlainKept ==
  ASSUME NEW hp, Rec(hp), NEW S, \A o \in S : Kind[o] # "udata"
  PROVE  UdataKept(hp, SweepPlain(hp, S))
<1> DEFINE gone == {o \in S : IsDead(hp, o) /\ o # Main}
           mk == [o \in Obj |-> IF o \in gone THEN "free" ELSE IF o \in S THEN hp.currentwhite ELSE hp.mark[o]]
           rf == [o \in Obj |-> IF o \in gone THEN NoFields ELSE hp.ref[o]]
           op == [o \in Obj |-> IF o \in gone THEN Closed ELSE hp.open[o]]
<1>1. SweepPlain(hp, S) = [hp EXCEPT !.mark = mk, !.ref = rf, !.open = op, !.rootgc = @ \ gone, !.finalized = @ \ gone]
  BY DEF SweepPlain
<1>2. \A u \in Obj : Kind[u] = "udata" => mk[u] = hp.mark[u]
  OBVIOUS
<1> HIDE DEF gone, mk, rf, op
<1> QED BY <1>1, <1>2 DEF UdataKept, Rec, Names

LEMMA CloseUpvalsKept ==
  ASSUME NEW hp, Rec(hp), NEW t, NEW level
  PROVE  UdataKept(hp, CloseUpvals(hp, t, level))
<1> DEFINE open == OpenOf(hp, t, level)
           dead == {uv \in open : IsDead(hp, uv)}
           c  == \A uv \in open : hp.mark[uv] # "black"
           g0 == LuaAssert(hp, c)
           op == [o \in Obj |-> IF o \in open THEN Closed ELSE g0.open[o]]
           mk == [o \in Obj |-> IF o \in dead THEN "free" ELSE g0.mark[o]]
           rf == [o \in Obj |-> IF o \in dead THEN NoFields
                                ELSE IF o \in open THEN [g0.ref[o] EXCEPT !.v = UpValue(hp, o)] ELSE g0.ref[o]]
           g1 == [g0 EXCEPT !.open = op, !.mark = mk, !.ref = rf]
           U  == open \ dead
           g2 == [g1 EXCEPT !.rootgc = @ \cup U]
           gray == {uv \in U : g1.mark[uv] = "gray"}
           vals == {g1.ref[uv].v : uv \in gray}
           mb == [o \in Obj |-> IF o \in gray THEN "black" ELSE g2.mark[o]]
           g3 == [g2 EXCEPT !.mark = mb]
           d  == gray = {} \/ g1.gcstate \notin {"finalize", "pause"}
           g4 == LuaAssert(g2, d)
           mw == [o \in Obj |-> IF o \in gray THEN g1.currentwhite ELSE g4.mark[o]]
           g5 == [g4 EXCEPT !.mark = mw]
<1>1. CloseUpvals(hp, t, level) = LinkUpvals(g1, U)
  BY DEF CloseUpvals
<1>2. \A u \in Obj : Kind[u] = "udata" => u \notin dead
  BY OnKinds DEF OpenOf, Kinds
<1>3. LinkUpvals(g1, U) = IF g1.gcstate = "propagate" THEN MarkAll(g3, vals) ELSE g5
  <2> HIDE DEF g1, U
  <2> QED BY DEF LinkUpvals
<1> HIDE DEF c, open, dead
<1>4. SameMarks(hp, g0)
  BY AssertKept
<1> HIDE DEF g0
<1>5. \A u \in Obj : Kind[u] = "udata" => mk[u] = hp.mark[u]
  BY <1>2, <1>4 DEF SameMarks
<1> HIDE DEF op, mk, rf
<1>6. UdataKept(hp, g1)
  BY <1>4, <1>5 DEF UdataKept, SameMarks, Rec, Names
<1> HIDE DEF g1, U
<1>7. UdataKept(hp, g2) /\ g2.mark = g1.mark
  BY <1>6 DEF UdataKept, Rec, Names
<1> HIDE DEF g2, gray, vals
<1>8. UdataKept(hp, MarkAll(g3, vals))
  <2>1. \A u \in Obj : mb[u] = "free" => g2.mark[u] = "free"
    OBVIOUS
  <2> HIDE DEF mb
  <2>2. UdataKept(hp, g3)
    BY <1>7, <2>1 DEF UdataKept, Rec, Names
  <2> HIDE DEF g3
  <2> QED BY <2>2, ThenMarked
<1>9. UdataKept(hp, g5)
  <2> HIDE DEF d
  <2>1. SameMarks(g2, g4)
    BY <1>7, AssertKept DEF UdataKept
  <2> HIDE DEF g4
  <2>2. \A u \in Obj : mw[u] = "free" => g2.mark[u] = "free"
    BY <1>6, <2>1 DEF SameMarks, UdataKept, Rec
  <2> HIDE DEF mw
  <2> QED BY <1>7, <2>1, <2>2 DEF UdataKept, SameMarks, Rec, Names
<1> QED BY <1>1, <1>3, <1>8, <1>9

\* The collector's marking and the atomic step free nothing.
LEMMA MarkingKept ==
  ASSUME h \in Heap, StartCycle \/ FullMark \/ Propagate \/ Atomic
  PROVE  UdataKept(h, h')
<1>0. Rec(h)
  BY HeapIsRec
<1>1. ASSUME h' = MarkRoot(h)
      PROVE  UdataKept(h, h')
  <2> DEFINE g == [h EXCEPT !.gray = {}, !.grayagain = {}, !.weak = {}]
             S == {Main, h.ref[Main].env, h.ref[Main].mt}
             X == MarkAll(g, S)
  <2>1. h' = [X EXCEPT !.gcstate = "propagate"]
    BY <1>1 DEF MarkRoot
  <2>2. UdataKept(h, g)
    BY <1>0 DEF UdataKept, Rec, Names
  <2> HIDE DEF g, S
  <2>3. UdataKept(h, X)
    BY <2>2, ThenMarked
  <2> HIDE DEF X
  <2> QED BY <2>1, <2>3 DEF UdataKept, Rec, Names
<1>2. CASE StartCycle \/ FullMark
  BY <1>1, <1>2 DEF StartCycle, FullMark
<1>3. CASE Propagate
  <2>1. PICK o \in h.gray : h' = PropagateMark(h, {o})
    BY <1>3 DEF Propagate
  <2> DEFINE G == {o}
  <2> HIDE DEF G
  <2>2. UdataKept(h, PropagateMark(h, G))
    BY <1>0, PropagateKept
  <2> QED BY <2>1, <2>2 DEF G
<1>4. CASE Atomic
  <2>1. CASE h' = AtomicUpvals(h)
    <3> DEFINE S == {UpValue(h, uv) : uv \in {u \in On("upval") : h.open[u] # Closed /\ h.mark[u] = "gray"}}
               X == MarkAll(h, S)
    <3>1. h' = [X EXCEPT !.gcstate = "upvals"]
      BY <2>1 DEF AtomicUpvals, RemarkUpvals
    <3> HIDE DEF S
    <3>2. UdataKept(h, X)
      BY <1>0, MarkAllKept
    <3> HIDE DEF X
    <3> QED BY <3>1, <3>2 DEF UdataKept, Rec, Names
  <2>2. CASE h' = AtomicWeak(h, cur)
    <3> DEFINE g == [h EXCEPT !.gray = h.weak, !.weak = {}]
               S == {cur, h.ref[Main].mt}
               X == MarkAll(g, S)
    <3>1. h' = [X EXCEPT !.gcstate = "weak"]
      BY <2>2 DEF AtomicWeak
    <3>2. UdataKept(h, g)
      BY <1>0 DEF UdataKept, Rec, Names
    <3> HIDE DEF g, S
    <3>3. UdataKept(h, X)
      BY <3>2, ThenMarked
    <3> HIDE DEF X
    <3> QED BY <3>1, <3>3 DEF UdataKept, Rec, Names
  <2>3. CASE h' = AtomicAgain(h)
    BY <1>0, <2>3 DEF AtomicAgain, UdataKept, Rec, Names
  <2>4. CASE h' = AtomicTmu(h)
    <3> DEFINE a == SeparateUdata(h, FALSE)
               mk == [o \in Obj |-> IF o \in a.tmudata THEN a.currentwhite ELSE a.mark[o]]
               g == [a EXCEPT !.mark = mk]
               T == a.tmudata
               X == MarkAll(g, T)
    <3>1. h' = [X EXCEPT !.gcstate = "tmu"]
      BY <2>4 DEF AtomicTmu, MarkTmu
    <3>2. SameMarks(h, a)
      BY <1>0, SeparateMarks
    <3> HIDE DEF a
    <3>3. \A o \in Obj : mk[o] = "free" => h.mark[o] = "free"
      BY <3>2 DEF SameMarks, Rec
    <3> HIDE DEF mk
    <3>4. UdataKept(h, g)
      BY <3>2, <3>3 DEF UdataKept, SameMarks, Rec, Names
    <3> HIDE DEF g, T
    <3>5. UdataKept(h, X)
      BY <3>4, ThenMarked
    <3> HIDE DEF X
    <3> QED BY <3>1, <3>5 DEF UdataKept, Rec, Names
  <2>5. CASE h' = AtomicEnd(h)
    <3>1. PICK S, rf, b : ClearTable(h) = [MarkAll(h, S) EXCEPT !.ref = rf, !.cleared = b]
      BY DEF ClearTable
    <3> DEFINE X == MarkAll(h, S)
               g1 == [X EXCEPT !.ref = rf, !.cleared = b]
               str == Alive(g1) \cap On("string")
    <3>2. h' = [g1 EXCEPT !.currentwhite = OtherWhite(g1), !.gcstate = "sweepstring", !.tosweepstr = str, !.tosweep = g1.rootgc]
      BY <2>5, <3>1 DEF AtomicEnd
    <3>3. UdataKept(h, X)
      BY <1>0, MarkAllKept
    <3> HIDE DEF X
    <3>4. UdataKept(h, g1)
      BY <3>3 DEF UdataKept, Rec, Names
    <3>5. OtherWhite(g1) # "free"
      BY DEF OtherWhite
    <3> HIDE DEF g1, str
    <3> QED BY <3>2, <3>4, <3>5 DEF UdataKept, Rec, Names
  <2>6. CASE h' = PropagateMark(h, h.gray)
    <3> DEFINE G == h.gray
    <3> HIDE DEF G
    <3>1. UdataKept(h, PropagateMark(h, G))
      BY <1>0, PropagateKept
    <3> QED BY <2>6, <3>1 DEF G
  <2> QED BY <1>4, <2>1, <2>2, <2>3, <2>4, <2>5, <2>6 DEF Atomic
<1> QED BY <1>2, <1>3, <1>4

\* Sweeping frees dead userdata only.
LEMMA SweepingFrees ==
  ASSUME h \in Heap, Places(h), SweepString \/ Sweep \/ EndCycle \/ FullGC,
         NEW u \in Obj, Kind[u] = "udata", h.mark[u] # "free", h'.mark[u] = "free"
  PROVE  IsDead(h, u)
<1>0. Rec(h)
  BY HeapIsRec
<1>1. CASE SweepString
  <2>1. CASE h.tosweepstr # {}
    <3>1. PICK o \in h.tosweepstr : h' = [SweepPlain(h, {o}) EXCEPT !.tosweepstr = @ \ {o}]
      BY <1>1, <2>1 DEF SweepString
    <3> DEFINE S == {o}
               X == SweepPlain(h, S)
    <3>2. \A x \in S : Kind[x] # "udata"
      BY DEF Places
    <3> HIDE DEF S
    <3>3. UdataKept(h, X)
      BY <1>0, <3>2, SweepPlainKept
    <3>4. h' = [X EXCEPT !.tosweepstr = @ \ S]
      BY <3>1 DEF S
    <3> HIDE DEF X
    <3> QED BY <3>3, <3>4 DEF UdataKept, Rec, Names
  <2>2. CASE h.tosweepstr = {}
    BY <1>0, <1>1, <2>2 DEF SweepString, Rec, Names
  <2> QED BY <2>1, <2>2
<1>2. CASE Sweep
  <2>1. CASE h.tosweep # {}
    <3>1. PICK o \in h.tosweep : h' = [SweepList(h, o) EXCEPT !.tosweep = @ \ {o}]
      BY <1>2, <2>1 DEF Sweep
    <3> DEFINE S == {o}
    <3>2. CASE o \in Thread
      <4> DEFINE W == OpenOf(h, o, 0)
                 g1 == SweepPlain(h, W)
                 g2 == CloseUpvals(g1, o, 0)
                 g3 == SweepPlain(g2, S)
                 g4 == [g3 EXCEPT !.stack[o] = [i \in Slots |-> Nil]]
                 g5 == SweepPlain(g1, S)
                 X == SweepThread(h, o)
      <4>1. X = g4 \/ X = g5
        BY DEF SweepThread
      <4>2. (\A x \in W : Kind[x] # "udata") /\ (\A x \in S : Kind[x] # "udata")
        BY <3>2, OnKinds, ThreadIs DEF OpenOf, Kinds
      <4>3. h' = [X EXCEPT !.tosweep = @ \ S]
        BY <3>1, <3>2 DEF SweepList
      <4> HIDE DEF S, W
      <4>4. UdataKept(h, g1)
        BY <1>0, <4>2, SweepPlainKept
      <4> HIDE DEF g1
      <4>5. UdataKept(g1, g2)
        BY <4>4, CloseUpvalsKept DEF UdataKept
      <4> HIDE DEF g2
      <4>6. UdataKept(g2, g3)
        BY <4>2, <4>5, SweepPlainKept DEF UdataKept
      <4> HIDE DEF g3
      <4>7. UdataKept(g3, g4)
        BY <4>6 DEF UdataKept, Rec, Names
      <4> HIDE DEF g4
      <4>8. UdataKept(g1, g5)
        BY <4>2, <4>4, SweepPlainKept DEF UdataKept
      <4> HIDE DEF g5, X
      <4>9. UdataKept(h, X)
        BY <4>1, <4>4, <4>5, <4>6, <4>7, <4>8, KeptTrans
      <4> QED BY <4>3, <4>9 DEF UdataKept, Rec, Names
    <3>3. CASE o \notin Thread
      <4> DEFINE gone == {x \in S : IsDead(h, x) /\ x # Main}
                 mk == [x \in Obj |-> IF x \in gone THEN "free" ELSE IF x \in S THEN h.currentwhite ELSE h.mark[x]]
                 rf == [x \in Obj |-> IF x \in gone THEN NoFields ELSE h.ref[x]]
                 op == [x \in Obj |-> IF x \in gone THEN Closed ELSE h.open[x]]
                 X == SweepPlain(h, S)
      <4>1. X = [h EXCEPT !.mark = mk, !.ref = rf, !.open = op, !.rootgc = @ \ gone, !.finalized = @ \ gone]
        BY DEF SweepPlain
      <4>2. h' = [X EXCEPT !.tosweep = @ \ S]
        BY <3>1, <3>3 DEF SweepList
      <4>3. mk[u] = "free" => u \in gone
        BY <1>0 DEF Rec
      <4>4. u \in gone => IsDead(h, u)
        OBVIOUS
      <4> HIDE DEF S, gone, mk, rf, op, X
      <4>5. X.mark = mk /\ Rec(X)
        BY <1>0, <4>1 DEF Rec, Names
      <4>6. h'.mark = mk
        BY <4>2, <4>5 DEF Rec, Names
      <4> QED BY <4>3, <4>4, <4>6
    <3> QED BY <3>2, <3>3
  <2>2. CASE h.tosweep = {}
    BY <1>0, <1>2, <2>2 DEF Sweep, Rec, Names
  <2> QED BY <2>1, <2>2
<1>3. CASE EndCycle
  BY <1>0, <1>3 DEF EndCycle, Rec, Names
<1>4. CASE FullGC
  <2> DEFINE str == Alive(h) \cap On("string")
             X == [h EXCEPT !.tosweep = h.rootgc, !.tosweepstr = str, !.gray = {}, !.grayagain = {}, !.weak = {},
                            !.gcstate = "sweepstring"]
  <2>1. h' = X \/ h' = h
    BY <1>4 DEF FullGC
  <2> HIDE DEF str
  <2> QED BY <1>0, <2>1 DEF Rec, Names
<1> QED BY <1>1, <1>2, <1>3, <1>4

LEMMA BarrierKept ==
  ASSUME NEW hp, Rec(hp), NEW o, NEW v
  PROVE  UdataKept(hp, Barrier(hp, o, v))
<1> DEFINE c == ~IsDead(hp, v) /\ (hp.gcstate \in {"finalize", "pause"} => o \in hp.tmudata)
           g1 == LuaAssert(hp, c)
           S == {v}
           g2 == MarkAll(g1, S)
           g3 == [g1 EXCEPT !.mark[o] = hp.currentwhite]
<1>1. Barrier(hp, o, v) = hp \/ Barrier(hp, o, v) = g2 \/ Barrier(hp, o, v) = g3
  BY DEF Barrier
<1> HIDE DEF c, S
<1>2. SameMarks(hp, g1)
  BY AssertKept
<1> HIDE DEF g1
<1>3. UdataKept(hp, g2)
  BY <1>2, SameMarksKept, ThenMarked
<1> DEFINE mk == [hp.mark EXCEPT ![o] = hp.currentwhite]
<1>4. \A u \in Obj : mk[u] = "free" => hp.mark[u] = "free"
  BY DEF Rec
<1>5. UdataKept(hp, g3)
  <2>1. g3 = [g1 EXCEPT !.mark = mk]
    BY <1>2 DEF SameMarks
  <2> HIDE DEF mk
  <2> QED BY <1>2, <1>4, <2>1 DEF UdataKept, SameMarks, Rec, Names
<1>6. UdataKept(hp, hp)
  BY DEF UdataKept
<1> HIDE DEF g2, g3
<1> QED BY <1>1, <1>3, <1>5, <1>6

LEMMA BarrierBackKept ==
  ASSUME NEW hp, Rec(hp), NEW t, NEW v
  PROVE  UdataKept(hp, BarrierBack(hp, t, v))
<1> DEFINE c == hp.gcstate \notin {"finalize", "pause"}
           g1 == LuaAssert(hp, c)
           g2 == [g1 EXCEPT !.mark[t] = "gray"]
           S == {t}
           g3 == Link(g2, "grayagain", S)
<1>1. BarrierBack(hp, t, v) = hp \/ BarrierBack(hp, t, v) = g3
  BY DEF BarrierBack
<1> HIDE DEF c, S
<1>2. SameMarks(hp, g1)
  BY AssertKept
<1> HIDE DEF g1
<1> DEFINE mk == [hp.mark EXCEPT ![t] = "gray"]
<1>3. \A u \in Obj : mk[u] = "free" => hp.mark[u] = "free"
  OBVIOUS
<1>4. UdataKept(hp, g2)
  <2>1. g2 = [g1 EXCEPT !.mark = mk]
    BY <1>2 DEF SameMarks
  <2> HIDE DEF mk
  <2> QED BY <1>2, <1>3, <2>1 DEF UdataKept, SameMarks, Rec, Names
<1> HIDE DEF g2
<1>5. UdataKept(hp, g3)
  <2>1. SameMarks(g2, g3)
    BY <1>4, LinkKept DEF UdataKept
  <2> QED BY <1>4, <2>1, SameMarksKept, KeptTrans
<1>6. UdataKept(hp, hp)
  BY DEF UdataKept
<1> HIDE DEF g3
<1> QED BY <1>1, <1>5, <1>6

\* Nothing the program does frees a userdata.
LEMMA PuttingKept ==
  ASSUME NEW hp, NEW g, UdataKept(hp, g), NEW t, NEW i, NEW o
  PROVE  UdataKept(hp, [g EXCEPT !.stack[t][i] = o])
  BY DEF UdataKept, Rec, Names

LEMMA ProgramKept ==
  ASSUME h \in Heap, NEW i, NEW o, NEW k, NEW f, NEW v,
         \/ Allocate(o, i) \/ NewString(o, i) \/ NewUdata(o, i) \/ NewClosure(o, i, k)
         \/ GetUpval(o, i) \/ Load(o, f, i) \/ Resume(o, i, v) \/ Drop(i) \/ LeaveBlock(i)
         \/ SetTable(o, k, v) \/ SetField(o, f, v) \/ SetUpval(o, v, k) \/ SetMetatable(o, v) \/ Yield
  PROVE  UdataKept(h, h')
<1>0. Rec(h) /\ UdataKept(h, h) /\ h.mark \in [Obj -> White \cup {"gray", "black", "free"}] /\ h.currentwhite # "free"
  BY HeapIsRec, HeapFields DEF UdataKept, Rec
<1>1. CASE Allocate(o, i)
  <2> DEFINE mk == [h.mark EXCEPT ![o] = h.currentwhite]
             e == IF Kind[o] = "thread" THEN Globals ELSE Nil
             g == [h EXCEPT !.mark = mk, !.rootgc = @ \cup {o}, !.ref[o].env = e]
  <2>1. h' = [g EXCEPT !.stack[cur][i] = o]
    <3>1. h' = Put([h EXCEPT !.mark[o] = h.currentwhite, !.rootgc = @ \cup {o}, !.ref[o].env = e], i, o)
      BY <1>1 DEF Allocate
    <3> HIDE DEF e
    <3> QED BY <3>1 DEF Put
  <2>2. \A u \in Obj : mk[u] = "free" => h.mark[u] = "free"
    BY <1>0
  <2> HIDE DEF mk, e
  <2>3. UdataKept(h, g)
    BY <1>0, <2>2 DEF UdataKept, Rec, Names
  <2> HIDE DEF g
  <2> QED BY <2>1, <2>3, PuttingKept
<1>2. CASE NewString(o, i)
  <2> DEFINE m == IF h.mark[o] = "free" \/ IsDead(h, o) THEN h.currentwhite ELSE h.mark[o]
             mk == [h.mark EXCEPT ![o] = m]
             g == [h EXCEPT !.mark = mk]
  <2>1. h' = [g EXCEPT !.stack[cur][i] = o]
    BY <1>2 DEF NewString, Put
  <2>2. \A u \in Obj : mk[u] = "free" => h.mark[u] = "free"
    BY <1>0
  <2> HIDE DEF mk
  <2>3. UdataKept(h, g)
    BY <1>0, <2>2 DEF UdataKept, Rec, Names
  <2> HIDE DEF g
  <2> QED BY <2>1, <2>3, PuttingKept
<1>3. CASE NewUdata(o, i)
  <2> DEFINE mk == [h.mark EXCEPT ![o] = h.currentwhite]
             r == [NoFields EXCEPT !.env = Globals]
             g == [h EXCEPT !.mark = mk, !.rootgc = @ \cup {o}, !.ref[o] = r]
  <2>1. h' = [g EXCEPT !.stack[cur][i] = o]
    <3>1. h' = Put([h EXCEPT !.mark[o] = h.currentwhite, !.rootgc = @ \cup {o}, !.ref[o] = r], i, o)
      BY <1>3 DEF NewUdata
    <3> HIDE DEF r
    <3> QED BY <3>1 DEF Put
  <2>2. \A u \in Obj : mk[u] = "free" => h.mark[u] = "free"
    BY <1>0
  <2> HIDE DEF mk, r
  <2>3. UdataKept(h, g)
    BY <1>0, <2>2 DEF UdataKept, Rec, Names
  <2> HIDE DEF g
  <2> QED BY <2>1, <2>3, PuttingKept
<1>4. CASE NewClosure(o, i, k)
  <2> DEFINE old == {uv \in OpenOf(h, cur, k) : h.open[uv][2] = k}
             g1 == [h EXCEPT !.mark[o] = h.currentwhite, !.rootgc = @ \cup {o}]
             pr == IF Values \cap On("proto") = {} THEN Nil ELSE CHOOSE p \in Values \cap On("proto") : TRUE
  <2>1. PICK uv : h' = Put([g1 EXCEPT
                              !.ref[o] = [NoFields EXCEPT !.up = uv, !.env = Globals, !.p = pr],
                              !.mark[uv] = IF old = {} \/ IsDead(h, uv) THEN h.currentwhite ELSE @,
                              !.open[uv] = <<cur, k>>], i, o)
    BY <1>4 DEF NewClosure
  <2> DEFINE r == [NoFields EXCEPT !.up = uv, !.env = Globals, !.p = pr]
             c == old = {} \/ IsDead(h, uv)
             w == <<cur, k>>
             m1 == [h.mark EXCEPT ![o] = h.currentwhite]
             m2 == [m1 EXCEPT ![uv] = IF c THEN h.currentwhite ELSE @]
             g2 == [g1 EXCEPT !.ref[o] = r, !.mark[uv] = IF c THEN h.currentwhite ELSE @, !.open[uv] = w]
  <2>2. h' = [g2 EXCEPT !.stack[cur][i] = o]
    BY <2>1 DEF Put
  <2>3. \A u \in Obj : m2[u] = "free" => h.mark[u] = "free"
    <3> HIDE DEF c
    <3> QED BY <1>0
  <2>4. Rec(g1) /\ g1.mark = m1
    BY <1>0 DEF Rec, Names
  <2> HIDE DEF r, c, w, g1, m1
  <2>5. Rec(g2) /\ g2.mark = m2
    BY <2>4 DEF Rec, Names
  <2> HIDE DEF g2, m2
  <2>6. UdataKept(h, g2)
    BY <2>3, <2>5 DEF UdataKept
  <2> QED BY <2>2, <2>6, PuttingKept
<1>5. CASE GetUpval(o, i) \/ Load(o, f, i) \/ Drop(i) \/ Resume(o, i, v)
  <2>1. PICK t, x : h' = [h EXCEPT !.stack[t][i] = x]
    BY <1>5 DEF GetUpval, Load, Drop, Resume, Put
  <2> QED BY <1>0, <2>1, PuttingKept
<1>6. CASE LeaveBlock(i)
  <2> DEFINE g1 == CloseUpvals(h, cur, i)
  <2>1. PICK s : h' = [g1 EXCEPT !.stack[cur] = s]
    BY <1>6 DEF LeaveBlock
  <2>2. UdataKept(h, g1)
    BY <1>0, CloseUpvalsKept
  <2> HIDE DEF g1
  <2> QED BY <2>1, <2>2 DEF UdataKept, Rec, Names
<1>7. CASE SetTable(o, k, v)
  <2> DEFINE e == h.ref[o]
             x1 == [h EXCEPT !.ref[o].key = k]
             b1 == BarrierBack(x1, o, k)
             g1 == IF e.key = k THEN h ELSE b1
             x2 == [g1 EXCEPT !.ref[o].val = v]
  <2>1. h' = BarrierBack(x2, o, v)
    BY <1>7 DEF SetTable
  <2>2. UdataKept(h, x1)
    BY <1>0 DEF UdataKept, Rec, Names
  <2> HIDE DEF x1
  <2>3. UdataKept(x1, b1)
    BY <2>2, BarrierBackKept DEF UdataKept
  <2> HIDE DEF b1
  <2>4. UdataKept(h, g1)
    BY <1>0, <2>2, <2>3, KeptTrans
  <2> HIDE DEF g1
  <2>5. UdataKept(h, x2)
    BY <2>4 DEF UdataKept, Rec, Names
  <2> HIDE DEF x2
  <2>6. UdataKept(x2, BarrierBack(x2, o, v))
    BY <2>5, BarrierBackKept DEF UdataKept
  <2> QED BY <2>1, <2>5, <2>6, KeptTrans
<1>8. CASE SetField(o, f, v)
  <2> DEFINE g == [h EXCEPT !.ref[o][f] = v]
  <2>1. h' = Barrier(g, o, v)
    BY <1>8 DEF SetField
  <2>2. UdataKept(h, g)
    BY <1>0 DEF UdataKept, Rec, Names
  <2> HIDE DEF g
  <2>3. UdataKept(g, Barrier(g, o, v))
    BY <2>2, BarrierKept DEF UdataKept
  <2> QED BY <2>1, <2>2, <2>3, KeptTrans
<1>9. CASE SetUpval(o, v, k)
  <2> DEFINE uv == h.ref[o].up
             a == [h EXCEPT !.ref[uv].v = v]
             b == [h EXCEPT !.stack[h.open[uv][1]][h.open[uv][2]] = v]
             g == IF h.open[uv] = Closed THEN a ELSE b
  <2>1. h' = Barrier(g, k, v)
    BY <1>9 DEF SetUpval
  <2>2. UdataKept(h, a)
    BY <1>0 DEF UdataKept, Rec, Names
  <2>3. UdataKept(h, b)
    BY <1>0 DEF UdataKept, Rec, Names
  <2> HIDE DEF a, b
  <2>4. UdataKept(h, g)
    BY <2>2, <2>3
  <2> HIDE DEF g
  <2>5. UdataKept(g, Barrier(g, k, v))
    BY <2>4, BarrierKept DEF UdataKept
  <2> QED BY <2>1, <2>4, <2>5, KeptTrans
<1>10. CASE SetMetatable(o, v)
  <2> DEFINE g == [h EXCEPT !.ref[o].mt = v]
  <2>1. h' = BarrierBack(g, o, v) \/ h' = Barrier(g, o, v) \/ h' = g
    BY <1>10 DEF SetMetatable
  <2>2. UdataKept(h, g)
    BY <1>0 DEF UdataKept, Rec, Names
  <2> HIDE DEF g
  <2>3. UdataKept(g, Barrier(g, o, v)) /\ UdataKept(g, BarrierBack(g, o, v))
    BY <2>2, BarrierKept, BarrierBackKept DEF UdataKept
  <2> QED BY <2>1, <2>2, <2>3, KeptTrans
<1>11. CASE Yield
  BY <1>0, <1>11 DEF Yield
<1> QED BY <1>1, <1>2, <1>3, <1>4, <1>5, <1>6, <1>7, <1>8, <1>9, <1>10, <1>11

\* A userdata is freed when it is dead, or with the state; its finalizer has been called then.
LEMMA FreedFinalized ==
  ASSUME IInv, [Next]_vars, NEW u \in Obj, Kind[u] = "udata",
         h.mark[u] # "free", h'.mark[u] = "free", h.ref[u].mt \in HasGC, phase # "closed",
         u \notin late
  PROVE  called[u] = 1
<1>1. /\ h \in Heap /\ Places(h) /\ Edges(h, cur) /\ FinalizersDone(h, called, phase, late) /\ Rec(h)
  BY AtHand, HeapIsRec DEF HInv
<1>2. u \in h.finalized /\ u \notin h.tmudata => called[u] = 1
  BY <1>1 DEF FinalizersDone
<1>3. ASSUME IsDead(h, u)
      PROVE  called[u] = 1
  <2>1. u \in h.finalized
    BY <1>1, <1>3 DEF FinalizersDone
  <2>2. u \notin h.tmudata
    BY <1>1, <1>3 DEF Edges, Live
  <2> QED BY <1>2, <2>1, <2>2
<1>4. ASSUME UdataKept(h, h')
      PROVE  FALSE
  BY <1>4 DEF UdataKept
<1>5. CASE UNCHANGED vars
  BY <1>5 DEF vars
<1>6. CASE StartCycle \/ FullMark \/ Propagate \/ Atomic
  BY <1>1, <1>4, <1>6, MarkingKept
<1>7. CASE SweepString \/ Sweep \/ EndCycle \/ FullGC
  BY <1>1, <1>3, <1>7, SweepingFrees
<1>8. ASSUME NEW x \in h.tmudata, NEW i \in world.slots, CallGCTM(x, i)
      PROVE  FALSE
  <2> DEFINE mk == [h.mark EXCEPT ![x] = h.currentwhite]
             y == IF h.ref[x].mt \in HasGC THEN x ELSE h.stack[cur][i]
             g == [h EXCEPT !.tmudata = @ \ {x}, !.rootgc = @ \cup {x}, !.mark = mk]
  <2>1. h' = [g EXCEPT !.stack[cur][i] = y]
    <3>1. h' = [h EXCEPT !.tmudata = @ \ {x}, !.rootgc = @ \cup {x}, !.mark[x] = h.currentwhite,
                         !.stack[cur][i] = IF h.ref[x].mt \in HasGC THEN x ELSE @]
      BY <1>8 DEF CallGCTM
    <3> DEFINE b == h.ref[x].mt \in HasGC
    <3>2. h' = [h EXCEPT !.tmudata = @ \ {x}, !.rootgc = @ \cup {x}, !.mark = mk, !.stack[cur][i] = y]
      <4> HIDE DEF b
      <4> QED BY <1>1, <3>1 DEF Heap, b
    <3> HIDE DEF mk, y
    <3> QED BY <1>1, <3>2 DEF Heap
  <2>2. \A z \in Obj : mk[z] = "free" => h.mark[z] = "free"
    BY <1>1 DEF Rec
  <2> HIDE DEF mk, y
  <2>3. UdataKept(h, g)
    BY <1>1, <2>2 DEF UdataKept, Rec, Names
  <2> HIDE DEF g
  <2>4. UdataKept(h, h')
    BY <2>1, <2>3, PuttingKept
  <2> QED BY <1>4, <2>4
<1>9. CASE Mutate
  BY <1>1, <1>4, <1>9, ProgramKept DEF Mutate
<1>10. CASE Close
  <2> DEFINE a == CloseUpvals(h, Main, 0)
             b == SeparateUdata(a, TRUE)
             s == [i \in Slots |-> Nil]
  <2>1. h' = [b EXCEPT !.stack[Main] = s]
    BY <1>10 DEF Close
  <2>2. UdataKept(h, a)
    BY <1>1, CloseUpvalsKept
  <2> HIDE DEF a
  <2>3. SameMarks(a, b)
    BY <2>2, SeparateMarks DEF UdataKept
  <2> HIDE DEF b, s
  <2>4. UdataKept(h, b)
    BY <2>2, <2>3, SameMarksKept, KeptTrans
  <2>5. UdataKept(h, h')
    BY <2>1, <2>4 DEF UdataKept, Rec, Names
  <2> QED BY <1>4, <2>5
<1>11. CASE FreeAll
  <2>1. phase = "closing" /\ h.tmudata = {}
    BY <1>11 DEF FreeAll
  <2>2. u \in h.finalized
    BY <1>1, <2>1 DEF FinalizersDone
  <2> QED BY <1>2, <2>1, <2>2
<1>12. CASE Next
  BY <1>6, <1>7, <1>8, <1>9, <1>10, <1>11, <1>12 DEF Next, Collect
<1> QED BY <1>5, <1>12

\* Once the state is closed nothing happens any more.
LEMMA ClosedStays ==
  ASSUME IInv, [Next]_vars, phase = "closed"
  PROVE  h' = h /\ called' = called /\ late' = late
<1>1. CASE UNCHANGED vars
  BY <1>1 DEF vars
<1>2. ASSUME Next
      PROVE  FALSE
  <2>1. ~CanRun
    BY DEF CanRun
  <2> QED BY <1>2, <2>1 DEF Next, Collect, StartCycle, Propagate, Atomic, SweepString, Sweep, EndCycle, FullMark,
             CallGCTM, FullGC, Mutate, Close, FreeAll
<1> QED BY <1>1, <1>2

\* The inductive invariant: what holds between any two steps of the collector and the program
\* (singlestep of lgc.c against lapi.c, lvm.c, lfunc.c and lstring.c).
THEOREM HeapKept == ~DebugApi => (Spec => []IInv)
<1> SUFFICES ASSUME ~DebugApi
             PROVE  Spec => []IInv
  OBVIOUS
<1>1. Init => IInv
  BY InitIInv
<1>2. IInv /\ [Next]_vars => IInv'
  BY NextIInv
<1> QED BY <1>1, <1>2, PTL DEF Spec

\* No object that the program can still get hold of is ever freed, whatever it does between the
\* steps of the collector: sweeping (sweeplist, luaF_close, luaE_freethread) only takes dead
\* objects, and live ones refer to live ones, through weak tables too.
THEOREM NothingEverDangles == ~DebugApi => (Spec => []NothingDangles)
<1> SUFFICES ASSUME ~DebugApi
             PROVE  Spec => []NothingDangles
  OBVIOUS
<1>1. IInv => NothingDangles
  BY VisibleLive DEF NothingDangles
<1>2. Spec => []IInv
  BY HeapKept
<1> QED BY <1>1, <1>2, PTL

\* The barriers of lapi.c, lvm.c, ltable.c and lfunc.c keep the colours: no black object refers to a
\* white one while marking goes on, and no lua_assert of lgc.c and lfunc.c fails.
THEOREM MarkingAlwaysSound == ~DebugApi => (Spec => []MarkingSound)
<1> SUFFICES ASSUME ~DebugApi
             PROVE  Spec => []MarkingSound
  OBVIOUS
<1>1. IInv => MarkingSound
  BY BlackNotWhite DEF MarkingSound, AssertionsHold, IInv
<1>2. Spec => []IInv
  BY HeapKept
<1> QED BY <1>1, <1>2, PTL

\* __gc is called at most once for a userdata, and has been called when it is freed, by sweeping
\* or by lua_close (luaC_separateudata, GCTM, luaC_freeall).
THEOREM AlwaysFinalizedBeforeFreed == ~DebugApi => (Spec => FinalizedBeforeFreed)
<1> SUFFICES ASSUME ~DebugApi
             PROVE  Spec => FinalizedBeforeFreed
  OBVIOUS
<1>1. IInv /\ IInv' /\ [Next]_vars =>
        [\A u \in On("udata") :
           /\ called'[u] <= 1
           /\ (h.mark[u] # "free" /\ h'.mark[u] = "free" /\ h.ref[u].mt \in HasGC /\ u \notin late)
                => called[u] = 1]_vars
  <2> SUFFICES ASSUME IInv, IInv', [Next]_vars, NEW u \in On("udata")
               PROVE  /\ called'[u] <= 1
                      /\ (h.mark[u] # "free" /\ h'.mark[u] = "free" /\ h.ref[u].mt \in HasGC /\ u \notin late)
                           => called[u] = 1
    OBVIOUS
  <2>1. u \in Obj /\ Kind[u] = "udata"
    BY OnKinds DEF Kinds
  <2>2. called'[u] \in {0, 1}
    BY DEF IInv
  <2>3. called'[u] <= 1
    BY <2>2
  <2>4. CASE phase = "closed"
    BY <2>3, <2>4, ClosedStays
  <2>5. CASE phase # "closed"
    BY <2>1, <2>3, <2>5, FreedFinalized
  <2> QED BY <2>4, <2>5
<1>2. Spec => []IInv
  BY HeapKept
<1>3. Spec => [][Next]_vars
  BY PTL DEF Spec
<1> QED BY <1>1, <1>2, <1>3, PTL DEF FinalizedBeforeFreed
=============================================================================
