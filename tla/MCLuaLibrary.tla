---------------------------- MODULE MCLuaLibrary ----------------------------
(***************************************************************************)
(* Parts of the Lua runtime side by side: each behaviour is about one of   *)
(* them.  Calls, tables, buffers, references and require take steps; for   *)
(* the algorithms (patterns, sort, precompiled chunks) the steps choose    *)
(* the input, first the pattern, array or function, then the rest.  Calls  *)
(* have the main thread and one coroutine, with limits that are met.       *)
(***************************************************************************)
EXTENDS LuaTable, LuaPatternMeaning, LuaTabLib, LuaChunks, LuaAuxLib, LuaRequire, LuaCalls

CONSTANTS k1, k2, k3, val,     \* keys and the value of a table
          main, co1            \* threads

\* The algorithms, which the configuration gives by the operators of their modules: TLC
\* keeps its statistics for each path of calls from here, and recursive operators have
\* too many of them.
CONSTANTS StrFind(_, _, _, _), \* str_find_aux
          Gmatch(_, _, _),     \* Matches
          Replace(_, _, _, _), \* str_gsub
          Dump(_, _, _),       \* luaU_dump
          Undump(_)            \* luaU_undump

MCKeys == {1, 2, 3, k1, k2}
MCHashStr == [k \in {k1, k2, k3} |-> IF k = k1 THEN 3 ELSE IF k = k2 THEN 7 ELSE 1]
MCHashNum == <<1072693248, 1073741824, 1074266112, 1074790400, 1075052544, 1075314688,
               1075576832, 1075838976>>
\* m1 is a file, m2 has a preload function; s1 and s2 are submodules in the library of
\* a root, and m3 is nowhere.
MCLibrary == [m \in {"m1", "m2", "m3", "s1", "s2"} |-> IF m \in {"s1", "s2"} THEN "root" ELSE m]

VARIABLE input                 \* what is looked at, and the input of an algorithm

-----------------------------------------------------------------------------
(* Patterns and the strings they are matched with *)

Seqs(S, n) == UNION {[1..m -> S] : m \in 0..n}
A   == OneOf(<<"a">>, {"a"})
Dot == OneOf(<<".">>, Chars)
Sets == {A, Dot, OneOf(<<"%", "a">>, {"a", "b"}), OneOf(<<"%", "D">>, {"a", "b", NUL}),
         OneOf(<<"[", "a", "1", "]">>, {"a", "1"}), OneOf(<<"[", "^", "a", "]">>, {"b", "1", NUL}),
         OneOf(<<"[", "a", "-", "b", "]">>, {"a", "b"}), OneOf(<<"[", "]", "b", "]">>, {"b"}),
         OneOf(<<"[", "%", "d", "b", "]">>, {"b", "1"})}
Reps == {"", "?", "*", "+", "-"}

\* Repetitions that compete for the same characters, sets of characters, captures
\* that are opened and closed again while the matcher backs up, the other items.
Repeats  == Seqs({Rep(x, r) : x \in {A, Dot}, r \in {"", "*", "-", "?"}}, 3)
SetItems == {<<Rep(x, r)>> \o q : x \in Sets, r \in Reps, q \in {<<>>, <<A>>, <<Rep(A, "*")>>, <<Dot, End>>}}
Bits == {Pos, Rep(Dot, "*"), Rep(Dot, "-"), Rep(A, "?"), Back(1)}
Captures == {a \in {<<x, Open, y, Close, z>> : x, y, z \in Bits} \cup {<<Open, x, Close, y, z>> : x, y, z \in Bits}
                    \cup {<<Open, x, Open, y, Close, Close, z>> : x, y, z \in Bits}
                    \cup {<<Open, x, Close, Open, y, Close, z>> : x, y, z \in Bits} : WellFormed(a)}
Brackets == {x \in Sets : x.text[1] = "["}
Others   == {a \in Seqs({A, Rep(Dot, "-"), Balanced, End} \cup {Frontier(x) : x \in Brackets}, 3) : WellFormed(a)}
Family == [Repeats |-> Repeats, SetItems |-> SetItems, Captures |-> Captures, Others |-> Others]
Subjects == [Repeats |-> Seqs({"a", "b"}, 3), SetItems |-> Seqs({"a", "b", "1"}, 2),
             Captures |-> {<<>>, <<"a">>, <<"a", "a">>, <<"b", "a", "b">>, <<"a", "b", "a", "b">>},
             Others |-> {<<"a", "a", "b", "b">>, <<"1", "a", "b">>}]

PickPattern ==
    /\ input.part = "patterns"
    /\ \E f \in DOMAIN Family : \E p \in Family[f] : input' = [part |-> "pattern", family |-> f, a |-> p]
PickSubject ==
    /\ input.part = "pattern"
    /\ \E s \in Subjects[input.family], i \in {1, -1}, an \in BOOLEAN :
         /\ input.family = "Others" \/ (i = 1 /\ ~an)
         /\ input' = [part |-> "match", a |-> input.a, s |-> s, init |-> i, anchor |-> an]
-----------------------------------------------------------------------------
(* Arrays, with orders and with relations that are none *)

Numbers == 1..3
Strict(R) == /\ \A x, y \in Numbers : <<x, y>> \in R => <<y, x>> \notin R
             /\ \A x, y, z \in Numbers : <<x, y>> \in R => <<x, z>> \in R \/ <<z, y>> \in R
Orders == {R \in SUBSET (Numbers \X Numbers) : Strict(R)}
Wild   == SUBSET ((1..2) \X (1..2))
Fuel   == 40                   \* bound: rounds of auxsort
Arr(s) == [i \in -1..(Len(s) + 2) |-> IF i \in DOMAIN s THEN s[i] ELSE Absent]

PickArray == /\ input.part = "arrays"
             /\ \E n \in 0..6 : \E s \in [1..n -> IF n <= 5 THEN Numbers ELSE 1..2] :
                  input' = [part |-> "array", s |-> s]
PickOrder == /\ input.part = "array"
             /\ \E R \in Orders \cup (IF \A i \in DOMAIN input.s : input.s[i] <= 2 THEN Wild ELSE {}) :
                  input' = [part |-> "sort", s |-> input.s, lt |-> R]
-----------------------------------------------------------------------------
(* Functions to dump, and what may happen to them on the way *)

Src(s) == <<s, "x">>
Fn(src, code, k, p, dbg) ==
    [source |-> src, linedefined |-> 0, lastlinedefined |-> 3, nups |-> 1, numparams |-> 2, is_vararg |-> 0,
     maxstacksize |-> 2, code |-> code, k |-> k, p |-> p, lineinfo |-> IF dbg THEN code ELSE <<>>,
     locvars |-> IF dbg THEN <<[varname |-> <<"l">>, startpc |-> 0, endpc |-> 1]>> ELSE <<>>,
     upvalues |-> IF dbg THEN <<<<"u", "v">>>> ELSE <<>>]
Leaf(src, dbg) == Fn(src, <<5>>, <<[t |-> "nil", v |-> 0], [t |-> "string", v |-> <<"s">>]>>, <<>>, dbg)
Fns == {Fn(Src("m"), <<1, 2>>, <<[t |-> "number", v |-> 7], [t |-> "boolean", v |-> 1], [t |-> "string", v |-> <<>>]>>,
           p, TRUE) : p \in {<<>>, <<Leaf(Src("m"), TRUE)>>, <<Leaf(Src("o"), TRUE), Leaf(Src("m"), FALSE)>>}}
       \cup {Fn(Src("m"), <<3>>, <<>>, <<Fn(Src("m"), <<4>>, <<>>, <<Leaf(Src("m"), TRUE)>>, TRUE)>>, FALSE)}

Whole == 1000                  \* more blocks, or bytes, than any chunk has
RECURSIVE Cut(_, _)
Cut(bytes, n) == IF Len(bytes) <= n THEN <<bytes>> ELSE <<SubSeq(bytes, 1, n)>> \o Cut(SubSeq(bytes, n + 1, Len(bytes)), n)

PickFunction == input.part = "chunks" /\ \E f \in Fns, strip \in BOOLEAN : input' = [part |-> "dump", f |-> f, strip |-> strip]
PickTransport ==
    /\ input.part = "dump"
    /\ \E left \in 0..20 \cup {Whole}, cut \in {1, 3, Whole}, keep \in {Whole} \cup {10 * n : n \in 1..20} :
         /\ left # Whole => cut = Whole /\ keep = Whole
         /\ input' = [part |-> "chunk", f |-> input.f, strip |-> input.strip, left |-> left, cut |-> cut, keep |-> keep]
-----------------------------------------------------------------------------
Algorithms == PickPattern \/ PickSubject \/ PickArray \/ PickOrder \/ PickFunction \/ PickTransport

Init ==
    /\ TableInit /\ BufferInit /\ RefInit /\ RequireInit /\ CallsInit
    /\ \E p \in {"calls", "table", "buffer", "refs", "require", "patterns", "arrays", "chunks"} :
         /\ p # "table" => t.dummy /\ t.array = <<>>
         /\ input = [part |-> p]

Next ==
    \/ Algorithms /\ UNCHANGED <<tvars, bvars, rvars, qvars, cvars>>
    \/ input.part = "table" /\ TableNext /\ UNCHANGED <<input, bvars, rvars, qvars, cvars>>
    \/ input.part = "buffer" /\ BufferNext /\ UNCHANGED <<input, tvars, rvars, qvars, cvars>>
    \/ input.part = "refs" /\ RefNext /\ UNCHANGED <<input, tvars, bvars, qvars, cvars>>
    \/ input.part = "require" /\ RequireNext /\ UNCHANGED <<input, tvars, bvars, rvars, cvars>>
    \/ input.part = "calls" /\ CallsNext /\ UNCHANGED <<input, tvars, bvars, rvars, qvars>>

Spec == Init /\ [][Next]_<<input, tvars, bvars, rvars, qvars, cvars>>
-----------------------------------------------------------------------------
PatternText(x) == (IF x.anchor THEN <<"^">> ELSE <<>>) \o Text(x.a)
Start(x) == IF x.init < 0 THEN Len(x.s) + 1 + x.init ELSE x.init

\* string.find and string.match find the leftmost match, share out its characters as
\* the items wish, and give the captures of that match, though the matcher backs up
\* through captures it has opened and closed (match, lstrlib.c:365).
FindsPreferred ==
    input.part = "match" =>
        LET x == input
        IN  \A find \in BOOLEAN : StrFind(x.s, PatternText(x), x.init, find)
                                  = Meaning(x.a, x.s, Start(x), x.anchor, ~find)

\* string.gsub puts its replacements around every character of the subject exactly
\* once, and replaces what string.gmatch finds, also where matches are empty.
GsubLosesNothing ==
    input.part = "match" =>
        LET x   == input
            all == Gmatch(x.s, 1, Text(x.a))
        IN  \A max \in {1, Len(x.s) + 1} :
              LET g == Replace(x.s, PatternText(x), <<"(", "%", "0", ")">>, max)
              IN  /\ SelectSeq(g.text, LAMBDA ch : ch \notin {"(", ")"}) = x.s
                  /\ ~x.anchor => g.n = (IF Len(all) > max THEN max ELSE Len(all))

\* Patterns mean in find, match, gmatch and gsub what they say.
PatternsMatch == FindsPreferred /\ GsubLosesNothing

\* table.sort with an order leaves a sorted array; with a comparison function that is
\* no order it still ends, and neither loses an element nor moves one outside the array,
\* or says so with an error (auxsort, ltablib.c:193).
Sorts ==
    input.part = "sort" =>
        LET s == input.s
            r == auxsort(Arr(s), input.lt, 1, Len(s), Fuel)
        IN  /\ r.i # -1
            /\ \A x \in Numbers \cup {Absent} : Cardinality({i \in DOMAIN r.a : r.a[i] = x})
                                               = Cardinality({i \in DOMAIN r.a : Arr(s)[i] = x})
            /\ ~r.err => \A i \in DOMAIN r.a : (r.a[i] = Absent) = (i \notin DOMAIN s)
            /\ input.lt \in Orders => ~r.err /\ \A i, j \in DOMAIN s : i < j => <<r.a[j], r.a[i]>> \notin input.lt

\* table.insert and table.remove shift the elements behind the position by one, each
\* to its neighbour; table.concat then finds them in that order.
Shifts ==
    input.part = "array" =>
        LET s == input.s
        IN  /\ \A p \in 1..(Len(s) + 1) :
                 LET ins == tinsert(Arr(s), p, 9)
                 IN  /\ \A i \in 1..(Len(s) + 1) : ins[i] = (IF i < p THEN s[i] ELSE IF i = p THEN 9 ELSE s[i - 1])
                     /\ LET r == tremove(ins, p) IN r.value = 9 /\ r.a = Arr(s)
                     /\ \A i \in 1..(Len(s) + 1) : LET q == tconcat(ins, 0, i, i) IN ~q.err /\ q.out = <<ins[i]>>
            /\ tconcat(Arr(s), 0, 1, Len(s) + 1).err

\* The functions of ltablib.c keep the elements of an array and put them where they
\* belong.
ArraysKept == Sorts /\ Shifts

\* What a precompiled chunk keeps: everything, or all but the names and lines.
RECURSIVE Stripped(_)
Stripped(f) == [f EXCEPT !.source = Unknown, !.lineinfo = <<>>, !.locvars = <<>>, !.upvalues = <<>>,
                         !.p = [i \in 1..Len(f.p) |-> Stripped(f.p[i])]]
RECURSIVE Depth(_)
Depth(f) == 1 + (IF f.p = <<>> THEN 0 ELSE CHOOSE d \in {Depth(f.p[i]) : i \in DOMAIN f.p} :
                                              \A i \in DOMAIN f.p : Depth(f.p[i]) <= d)
Dumped == Dump(input.f, input.strip, input.left)
Sent   == IF input.keep < Len(Dumped.out) THEN SubSeq(Dumped.out, 1, input.keep) ELSE Dumped.out
Loaded == Undump(Cut(Sent, input.cut))

\* A function that is dumped and loaded again is the same one, whatever the pieces in
\* which the reader hands it out, and the level of C calls is what it was; functions
\* too deep for it are refused.
RoundTrip ==
    input.part = "chunk" /\ input.left = Whole /\ Sent = Dumped.out =>
        IF Depth(input.f) > MaxCCalls THEN Loaded.err = "code too deep"
        ELSE /\ Loaded.err = "" /\ Loaded.level = 0
             /\ Loaded.v = IF input.strip THEN Stripped(input.f) ELSE input.f

\* A chunk that is cut off is never taken for a function (LoadBlock, lundump.c:48).
CutIsRefused == input.part = "chunk" /\ input.left = Whole /\ Sent # Dumped.out => Loaded.err # ""

\* When the writer fails, lua_dump says so and writes nothing after it: what has been
\* written is the beginning of the chunk (DumpBlock, ldump.c:29).
WriterFails ==
    input.part = "chunk" /\ Dumped.status # 0 =>
        LET shown(bytes) == [k \in 1..Len(bytes) |-> ToString(bytes[k])]
        IN  IsPrefix(shown(Dumped.out), shown(Dump(input.f, input.strip, Whole).out))

\* A precompiled chunk comes back as it was or is refused, wherever writing or reading
\* stops.
ChunksReadBack == RoundTrip /\ CutIsRefused /\ WriterFails
=============================================================================
