-------------------------- MODULE LuaPatternMeaning --------------------------
(***************************************************************************)
(* What a pattern means, without backtracking: each item of a pattern      *)
(* takes some characters, and of all ways to share out the string the      *)
(* first item has its wish (as many as possible, or as few), then the      *)
(* second one, and so on.  A pattern is a sequence of items; Text writes   *)
(* it the way a program does.                                              *)
(***************************************************************************)
EXTENDS LuaPatterns, FiniteSets

Chars == {"a", "b", "1"}
OneOf(text, in) == [k |-> "set", text |-> text, in |-> in, rep |-> "", n |-> 0]
Rep(item, r)  == [item EXCEPT !.rep = r]
Open   == [OneOf(<<"(">>, {}) EXCEPT !.k = "open"]
Close  == [OneOf(<<")">>, {}) EXCEPT !.k = "close"]
Pos    == [OneOf(<<"(", ")">>, {}) EXCEPT !.k = "pos"]
End    == [OneOf(<<"$">>, {}) EXCEPT !.k = "end"]
Back(n)   == [OneOf(<<"%", ToString(n)>>, {}) EXCEPT !.k = "back", !.n = n]
Balanced  == [OneOf(<<"%", "b", "a", "b">>, {}) EXCEPT !.k = "bal"]
Frontier(set) == [OneOf(<<"%", "f">> \o set.text, set.in) EXCEPT !.k = "front"]

Text(a) == FoldLeft(LAMBDA t, x : t \o x.text \o (IF x.rep = "" THEN <<>> ELSE <<x.rep>>), <<>>, a)

\* Where item k begins, if the items take w[1], w[2], ... characters from i on.
Begin(i, w, k) == FoldLeft(+, i, SubSeq(w, 1, k - 1))

\* The captures of a pattern: the items that begin them, and the ends.
Opens(a) == SelectSeq([k \in 1..Len(a) |-> k], LAMBDA k : a[k].k \in {"open", "pos"})
Count(a, o, c, k) == Cardinality({x \in o..c : a[x].k = k})
CloseOf(a, o) == CHOOSE c \in o..Len(a) : /\ a[c].k = "close" /\ Count(a, o, c, "open") = Count(a, o, c, "close")
                                          /\ \A d \in o..(c - 1) : Count(a, o, d, "open") > Count(a, o, d, "close")
Captured(a, s, i, w, l) ==
    LET o == Opens(a)[l]
    IN  IF a[o].k = "pos" THEN Position(Begin(i, w, o))
        ELSE String(SubSeq(s, Begin(i, w, o), Begin(i, w, CloseOf(a, o)) - 1))

\* The item after w may take n characters.
Takes(a, s, i, w, n) ==
    LET it == a[Len(w) + 1]
        q  == Begin(i, w, Len(w) + 1)
        t  == SubSeq(s, q, q + n - 1)
        level(m) == Cardinality({x \in 1..m : t[x] = "a"}) - Cardinality({x \in 1..m : t[x] = "b"})
    IN  CASE it.k = "set" -> /\ \A x \in 1..n : t[x] \in it.in
                             /\ it.rep = "" => n = 1
                             /\ it.rep = "?" => n <= 1
                             /\ it.rep = "+" => n >= 1
          [] it.k = "back" -> LET c == Captured(a, s, i, w, it.n) IN c.pos = 0 /\ t = c.str
          [] it.k = "bal"  -> n >= 2 /\ level(n) = 0 /\ \A m \in 1..(n - 1) : level(m) > 0
          [] it.k = "front" -> n = 0 /\ Ch(s, q) \in it.in /\ (IF q = 1 THEN NUL ELSE s[q - 1]) \notin it.in
          [] it.k = "end"  -> n = 0 /\ q = Len(s) + 1
          [] OTHER         -> n = 0

Ways(a, s, i) ==
    FoldLeft(LAMBDA W, k : UNION {{Append(w, n) : n \in {m \in 0..(Len(s) + 1 - Begin(i, w, k)) : Takes(a, s, i, w, m)}}
                                  : w \in W}, {<<>>}, [k \in 1..Len(a) |-> k])

Preferred(a, W) ==
    LET best(V, k) == IF a[k].rep = "-" THEN {w \in V : \A v \in V : w[k] <= v[k]}
                      ELSE {w \in V : \A v \in V : w[k] >= v[k]}
    IN  CHOOSE w \in FoldLeft(best, W, [k \in 1..Len(a) |-> k]) : TRUE

\* The leftmost place where the pattern matches, from init on or only there.
Meaning(a, s, init, anchor, whole) ==
    LET at == {i \in init..(IF anchor THEN init ELSE Len(s) + 1) : Ways(a, s, i) # {}}
        i  == CHOOSE x \in at : \A y \in at : x <= y
        w  == Preferred(a, Ways(a, s, i))
        e  == Begin(i, w, Len(a) + 1)
    IN  IF at = {} THEN NoMatch
        ELSE [from |-> i, to |-> e,
              caps |-> IF Opens(a) = <<>> /\ whole THEN <<String(SubSeq(s, i, e - 1))>>
                       ELSE [l \in 1..Len(Opens(a)) |-> Captured(a, s, i, w, l)]]

\* Patterns without an error: captures are closed, and a reference is to one that is.
WellFormed(a) ==
    /\ Len(Opens(a)) <= MaxCaptures
    /\ Count(a, 1, Len(a), "open") = Count(a, 1, Len(a), "close")
    /\ \A k \in DOMAIN a :
         /\ Count(a, 1, k, "open") >= Count(a, 1, k, "close")
         /\ a[k].k = "open" => k < Len(a) /\ a[k + 1].k # "close"
         /\ a[k].k = "back" => /\ a[k].n <= Len(Opens(SubSeq(a, 1, k - 1)))
                               /\ LET o == Opens(a)[a[k].n] IN a[o].k = "pos" \/ CloseOf(a, o) < k
         /\ a[k].k = "end" => k = Len(a)
=============================================================================
