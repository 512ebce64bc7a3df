----------------------------- MODULE LuaPatterns -----------------------------
(***************************************************************************)
(* The pattern matching of lstrlib.c, which buildsh uses for every line of *)
(* a log and every command.  A string is a sequence of characters; NUL is  *)
(* what a read one past its end gives, and a read further on is an error   *)
(* of the evaluation.  A match is [at, caps]: the position after the match *)
(* (NULL or Error) and the captures as match leaves them.                  *)
(***************************************************************************)
EXTENDS Integers, Sequences, SequencesExt, Folds

CONSTANT MaxCaptures           \* LUA_MAXCAPTURES
ASSUME CapturesAssumption == MaxCaptures \in Nat \ {0}

NULL  == 0
Error == -1
CAP_UNFINISHED == -1
CAP_POSITION   == -2

NUL   == "NUL"
Order == <<NUL, "$", "%", "(", ")", "*", "+", "-", ".", "0", "1", "2", "?", "A", "D", "[", "]", "^", "a", "b",
           "c", "d", "f", "w">>
Code(c)  == CHOOSE n \in DOMAIN Order : Order[n] = c
Ch(s, i) == IF i = Len(s) + 1 THEN NUL ELSE s[i]
Digit    == {"0", "1", "2"}
Class    == [a |-> {"A", "D", "a", "b", "c", "d", "f", "w"}, d |-> Digit,
             w |-> Digit \cup {"A", "D", "a", "b", "c", "d", "f", "w"}]
Lower    == [A |-> "a", D |-> "d"]

ms0 == <<>>
Capture(i, l) == [init |-> i, len |-> l]
Res(at, caps) == [at |-> at, caps |-> caps]

RECURSIVE BracketEnd(_, _), InBracket(_, _, _, _), Balance(_, _, _, _, _), match(_, _, _, _, _),
          Tries(_, _, _, _, _, _), Found(_, _, _, _), Matches(_, _, _), Gsub(_, _, _, _, _, _, _)

BracketEnd(p, j) ==
    IF Ch(p, j) = NUL THEN Error
    ELSE LET k == IF Ch(p, j) = "%" /\ Ch(p, j + 1) # NUL THEN j + 2 ELSE j + 1
         IN  IF Ch(p, k) = "]" THEN k + 1 ELSE BracketEnd(p, k)

classend(p, i) ==
    CASE p[i] = "%" -> IF Ch(p, i + 1) = NUL THEN Error ELSE i + 2
      [] p[i] = "[" -> BracketEnd(p, IF Ch(p, i + 1) = "^" THEN i + 2 ELSE i + 1)
      [] OTHER      -> i + 1

match_class(c, cl) ==
    CASE cl \in DOMAIN Class -> c \in Class[cl]
      [] cl \in DOMAIN Lower -> c \notin Class[Lower[cl]]
      [] OTHER               -> c = cl

\* The loop of matchbracketclass, at p[j] of a set that ends at p[ec].
InBracket(c, p, j, ec) ==
    /\ j < ec
    /\ CASE p[j] = "%" -> match_class(c, p[j + 1]) \/ InBracket(c, p, j + 2, ec)
         [] p[j] # "%" /\ p[j + 1] = "-" /\ j + 2 < ec ->
                Code(c) \in Code(p[j])..Code(p[j + 2]) \/ InBracket(c, p, j + 3, ec)
         [] OTHER -> p[j] = c \/ InBracket(c, p, j + 1, ec)

matchbracketclass(c, p, i, ec) ==
    IF p[i + 1] = "^" THEN ~InBracket(c, p, i + 2, ec) ELSE InBracket(c, p, i + 1, ec)

singlematch(c, p, i, ep) ==
    CASE p[i] = "." -> TRUE
      [] p[i] = "%" -> match_class(c, p[i + 1])
      [] p[i] = "[" -> matchbracketclass(c, p, i, ep - 1)
      [] OTHER      -> p[i] = c

\* The loop of matchbalance.
Balance(s, i, b, e, cont) ==
    IF i > Len(s) THEN NULL
    ELSE IF s[i] = e THEN (IF cont = 1 THEN i + 1 ELSE Balance(s, i + 1, b, e, cont - 1))
    ELSE Balance(s, i + 1, b, e, IF s[i] = b THEN cont + 1 ELSE cont)

matchbalance(s, i, p, j) ==
    IF Ch(p, j) = NUL \/ Ch(p, j + 1) = NUL THEN Error
    ELSE IF Ch(s, i) # p[j] THEN NULL
    ELSE Balance(s, i + 1, p[j], p[j + 1], 1)

\* The loops of max_expand and min_expand: what is left of the pattern is tried
\* after i + n characters, for n from "from" to "to".
Tries(caps, s, p, from, to, rest) ==
    LET r == match(caps, s, from, p, rest)
    IN  IF r.at # NULL \/ from = to THEN r
        ELSE Tries(r.caps, s, p, IF from < to THEN from + 1 ELSE from - 1, to, rest)

Expansion(s, i, p, j, ep) ==
    CHOOSE n \in 0..(Len(s) - i + 1) :
        /\ \A k \in i..(i + n - 1) : singlematch(s[k], p, j, ep)
        /\ i + n > Len(s) \/ ~singlematch(s[i + n], p, j, ep)

max_expand(caps, s, i, p, j, ep) == Tries(caps, s, p, i + Expansion(s, i, p, j, ep), i, ep + 1)
min_expand(caps, s, i, p, j, ep) == Tries(caps, s, p, i, i + Expansion(s, i, p, j, ep), ep + 1)

start_capture(caps, s, i, p, j, what) ==
    IF Len(caps) >= MaxCaptures THEN Res(Error, caps)
    ELSE LET r == match(Append(caps, Capture(i, what)), s, i, p, j)
         IN  IF r.at = NULL THEN Res(NULL, Front(r.caps)) ELSE r

Unfinished(caps) == {l \in DOMAIN caps : caps[l].len = CAP_UNFINISHED}
capture_to_close(caps) == CHOOSE l \in Unfinished(caps) : \A k \in Unfinished(caps) : k <= l

\* end_capture that leaves the capture closed when the rest does not match.
end_captureKeeps(caps, s, i, p, j) ==
    IF Unfinished(caps) = {} THEN Res(Error, caps)
    ELSE LET l == capture_to_close(caps)
         IN  match([caps EXCEPT ![l].len = i - caps[l].init], s, i, p, j)

end_capture(caps, s, i, p, j) ==
    IF Unfinished(caps) = {} THEN Res(Error, caps)
    ELSE LET l == capture_to_close(caps)
             r == match([caps EXCEPT ![l].len = i - caps[l].init], s, i, p, j)
         IN  IF r.at = NULL THEN Res(NULL, [r.caps EXCEPT ![l].len = CAP_UNFINISHED]) ELSE r

check_capture(caps, l) == l \in DOMAIN caps /\ caps[l].len # CAP_UNFINISHED

\* The length CAP_POSITION is a huge one as a size_t.
match_capture(caps, s, i, l) ==
    IF ~check_capture(caps, l) THEN Error
    ELSE LET c == caps[l]
         IN  IF c.len >= 0 /\ Len(s) - i + 1 >= c.len
                /\ SubSeq(s, c.init, c.init + c.len - 1) = SubSeq(s, i, i + c.len - 1)
             THEN i + c.len ELSE NULL

\* Case %b, %f and %1 of match.
Escaped(caps, s, i, p, j) ==
    LET on(at, k) == IF at \in {NULL, Error} THEN Res(at, caps) ELSE match(caps, s, at, p, k)
        ep   == classend(p, j + 2)
        prev == IF i = 1 THEN NUL ELSE s[i - 1]
    IN  CASE p[j + 1] = "b" -> on(matchbalance(s, i, p, j + 2), j + 4)
          [] p[j + 1] \in Digit -> on(match_capture(caps, s, i, Code(p[j + 1]) - Code("0")), j + 2)
          [] p[j + 1] = "f" ->
                IF Ch(p, j + 2) # "[" THEN Res(Error, caps)
                ELSE IF ep = Error THEN Res(Error, caps)
                ELSE on(IF matchbracketclass(prev, p, j + 2, ep - 1)
                           \/ ~matchbracketclass(Ch(s, i), p, j + 2, ep - 1) THEN NULL ELSE i, ep)

\* Case default of match: one item and what comes after it.
Item(caps, s, i, p, j) ==
    LET ep == classend(p, j)
        m  == i <= Len(s) /\ singlematch(s[i], p, j, ep)
    IN  IF ep = Error THEN Res(Error, caps)
        ELSE CASE Ch(p, ep) = "?" ->
                    LET r == match(caps, s, i + 1, p, ep + 1)
                    IN  IF m /\ r.at # NULL THEN r ELSE match(IF m THEN r.caps ELSE caps, s, i, p, ep + 1)
               [] Ch(p, ep) = "*" -> max_expand(caps, s, i, p, j, ep)
               [] Ch(p, ep) = "+" -> IF m THEN max_expand(caps, s, i + 1, p, j, ep) ELSE Res(NULL, caps)
               [] Ch(p, ep) = "-" -> min_expand(caps, s, i, p, j, ep)
               [] OTHER           -> IF m THEN match(caps, s, i + 1, p, ep) ELSE Res(NULL, caps)

match(caps, s, i, p, j) ==
    CASE Ch(p, j) = NUL -> Res(i, caps)
      [] Ch(p, j) = "(" -> IF Ch(p, j + 1) = ")" THEN start_capture(caps, s, i, p, j + 2, CAP_POSITION)
                           ELSE start_capture(caps, s, i, p, j + 1, CAP_UNFINISHED)
      [] Ch(p, j) = ")" -> end_capture(caps, s, i, p, j + 1)
      [] Ch(p, j) = "%" /\ Ch(p, j + 1) \in {"b", "f"} \cup Digit -> Escaped(caps, s, i, p, j)
      [] Ch(p, j) = "$" /\ Ch(p, j + 1) = NUL -> Res(IF i = Len(s) + 1 THEN i ELSE NULL, caps)
      [] OTHER -> Item(caps, s, i, p, j)

\* What a capture is to the program: a string, or a position; Error if it is none.
String(t) == [str |-> t, pos |-> 0]
Position(n) == [str |-> <<>>, pos |-> n]

push_onecapture(caps, l, s, i, e) ==
    IF l > Len(caps) THEN (IF l = 1 THEN String(SubSeq(s, i, e - 1)) ELSE Position(Error))
    ELSE LET c == caps[l]
         IN  CASE c.len = CAP_UNFINISHED -> Position(Error)
               [] c.len = CAP_POSITION   -> Position(c.init)
               [] OTHER                  -> String(SubSeq(s, c.init, c.init + c.len - 1))

push_captures(caps, s, i, e, whole) ==
    [l \in 1..(IF caps = <<>> /\ whole THEN 1 ELSE Len(caps)) |-> push_onecapture(caps, l, s, i, e)]

\* The loop of str_find_aux.
Found(s, i, p, anchor) ==
    LET r == match(ms0, s, i, p, IF anchor THEN 2 ELSE 1)
    IN  IF r.at # NULL THEN [from |-> i, to |-> r.at, caps |-> r.caps]
        ELSE IF i > Len(s) \/ anchor THEN [from |-> 0, to |-> NULL, caps |-> <<>>]
        ELSE Found(s, i + 1, p, anchor)

\* Positions count from the end if they are negative.
posrelat(pos, len) == LET q == IF pos < 0 THEN pos + len + 1 ELSE pos IN IF q >= 0 THEN q ELSE 0

\* lmemfind: the first place of p in s from i on.
lmemfind(s, i, p) ==
    LET at == {k \in i..(Len(s) - Len(p) + 1) : SubSeq(s, k, k + Len(p) - 1) = p}
    IN  IF at = {} THEN NULL ELSE CHOOSE k \in at : \A l \in at : k <= l

Specials == {"^", "$", "*", "+", "?", ".", "(", "[", "%", "-"}
NoMatch  == [from |-> 0, to |-> NULL, caps |-> <<>>]

str_find_aux(s, p, init, find) ==
    LET q == posrelat(init, Len(s)) - 1
        i == IF q < 0 THEN 1 ELSE IF q > Len(s) THEN Len(s) + 1 ELSE q + 1
        k == lmemfind(s, i, p)
        f == Found(s, i, p, Ch(p, 1) = "^")
    IN  IF find /\ \A j \in DOMAIN p : p[j] \notin Specials
        THEN IF k = NULL THEN NoMatch ELSE [from |-> k, to |-> k + Len(p), caps |-> <<>>]
        ELSE IF f.to \in {NULL, Error} THEN [f EXCEPT !.caps = <<>>]
        ELSE [f EXCEPT !.caps = push_captures(f.caps, s, f.from, f.to, ~find)]

\* gmatch_aux until it finds nothing more.
Matches(s, i, p) ==
    LET f == Found(s, i, p, FALSE)
    IN  IF i > Len(s) + 1 \/ f.to \in {NULL, Error} THEN <<>>
        ELSE <<f>> \o Matches(s, IF f.to = f.from THEN f.to + 1 ELSE f.to, p)

\* add_s: %0 is the match, %1 the first capture, %% the character.
add_s(caps, s, i, e, news) ==
    LET value(c) == CASE c \notin Digit -> <<c>>
                      [] c = "0" -> SubSeq(s, i, e - 1)
                      [] OTHER -> push_onecapture(caps, Code(c) - Code("0"), s, i, e).str
        add(b, c) == IF b.esc THEN [esc |-> FALSE, out |-> b.out \o value(c)]
                     ELSE IF c = "%" THEN [b EXCEPT !.esc = TRUE]
                     ELSE [b EXCEPT !.out = Append(@, c)]
        all == FoldLeft(add, [esc |-> FALSE, out |-> <<>>], news)
    IN  IF all.esc THEN Append(all.out, NUL) ELSE all.out

\* The loop of str_gsub.
Gsub(s, i, p, news, max, n, b) ==
    LET anchor == Ch(p, 1) = "^"
        r    == match(ms0, s, i, p, IF anchor THEN 2 ELSE 1)
        hit  == r.at # NULL
        out  == IF hit THEN b \o add_s(r.caps, s, i, r.at, news) ELSE b
        m    == IF hit THEN n + 1 ELSE n
        copy == i <= Len(s) /\ r.at <= i
        next == IF r.at > i THEN r.at ELSE IF copy THEN i + 1 ELSE i
        text == IF copy THEN Append(out, s[i]) ELSE out
    IN  IF n >= max THEN [text |-> b \o SubSeq(s, i, Len(s)), n |-> n]
        ELSE IF r.at = Error THEN [text |-> <<NUL>>, n |-> Error]
        ELSE IF next = i \/ anchor THEN [text |-> text \o SubSeq(s, next, Len(s)), n |-> m]
        ELSE Gsub(s, next, p, news, max, m, text)

str_gsub(s, p, news, max) == LET b == <<>> IN Gsub(s, 1, p, news, max, 0, b)
=============================================================================
