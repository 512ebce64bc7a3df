------------------------------- MODULE LuaLex -------------------------------
(***************************************************************************)
(* The lexical analyzer of llex.c, which reads the text character by       *)
(* character and hands out tokens, one ahead if the parser asks for it.    *)
(* load takes the text from a function, which may change the locale while  *)
(* the text is being read; the analyzer then looks for another decimal     *)
(* point.  Zero bytes in a text are left out (check_next takes one for a   *)
(* member of every set).                                                   *)
(***************************************************************************)
EXTENDS Integers, Sequences, SequencesExt, TLC

CONSTANTS LF, CR, EOZ,         \* characters without a sign
          Reserved,            \* reserved words that occur
          MaxLocales           \* bound: how often the locale is changed
ASSUME LexAssumption == MaxLocales \in Nat

VARIABLES
    ls,        \* text, at, linenumber, buff, decpoint and err of the LexState
    token,     \* the token of the parser
    lookahead, \* the token after it, or TK_EOS
    locale,    \* the decimal point of the C library
    taken,     \* history: tokens the parser has had
    changes    \* history: changes of the locale

xvars == <<ls, token, lookahead, locale, taken, changes>>

Newlines == {LF, CR}
Digit    == {"0", "1", "2", "5", "6"}
Alpha    == {"a", "d", "e", "n", "o", "r", "x", "_"}
Alnum    == Digit \cup Alpha
Tok(t, v) == [tok |-> t, val |-> v]
NoToken   == Tok("none", <<>>)
TK_EOS    == Tok("EOS", <<>>)

current(s) == IF s.at > Len(s.text) THEN EOZ ELSE s.text[s.at]
next(s)    == [s EXCEPT !.at = @ + 1]
save(s, c) == [s EXCEPT !.buff = Append(@, c)]
save_and_next(s) == next(save(s, current(s)))
resetbuffer(s)   == [s EXCEPT !.buff = <<>>]
Is(s, S)   == current(s) \in S
luaX_lexerror(s, msg) == [s EXCEPT !.err = msg]

RECURSIVE SaveWhile(_, _), SkipLine(_)
SaveWhile(s, S) == IF Is(s, S) THEN SaveWhile(save_and_next(s), S) ELSE s
SkipLine(s)     == IF Is(s, Newlines \cup {EOZ}) THEN s ELSE SkipLine(next(s))
check_next(s, S) == IF Is(s, S) THEN save_and_next(s) ELSE s

\* inclinenumber: two different line end characters are one line end.
inclinenumber(s) ==
    LET n == next(s)
        e == IF Is(n, Newlines \ {current(s)}) THEN next(n) ELSE n
    IN  [e EXCEPT !.linenumber = @ + 1]
-----------------------------------------------------------------------------
\* luaO_str2d: a decimal number with the point of the locale, or a hexadecimal one.
All(q, S) == \A i \in DOMAIN q : q[i] \in S
Decimal(q) ==
    \E i, j \in 0..Len(q) :
        /\ i <= j
        /\ LET whole == SubSeq(q, 1, i)
               frac  == SubSeq(q, i + 1, j)
               exp   == SubSeq(q, j + 1, Len(q))
           IN  /\ All(whole, Digit)
               /\ frac # <<>> => frac[1] = locale /\ All(Tail(frac), Digit)
               /\ \E k \in 1..j : q[k] \in Digit
               /\ exp # <<>> => /\ exp[1] = "e"
                                /\ LET e == IF Len(exp) > 1 /\ exp[2] \in {"+", "-"} THEN SubSeq(exp, 3, Len(exp))
                                            ELSE Tail(exp)
                                   IN  e # <<>> /\ All(e, Digit)
luaO_str2d(q) ==
    \/ Decimal(q)
    \/ /\ Len(q) > 2 /\ q[1] = "0" /\ q[2] = "x"
       /\ All(SubSeq(q, 3, Len(q)), Digit \cup {"a", "d", "e"})

buffreplace(q, from, to) == [i \in DOMAIN q |-> IF q[i] = from THEN to ELSE q[i]]

\* trydecpoint that takes the old separator for a point.
trydecpointPoint(s) ==
    LET n == [s EXCEPT !.decpoint = locale, !.buff = buffreplace(s.buff, ".", locale)]
    IN  IF luaO_str2d(n.buff) THEN n ELSE luaX_lexerror(n, "malformed number")

trydecpoint(s) ==
    LET n == [s EXCEPT !.decpoint = locale, !.buff = buffreplace(s.buff, s.decpoint, locale)]
    IN  IF luaO_str2d(n.buff) THEN n ELSE luaX_lexerror(n, "malformed number")

\* The number, as it is written with a point, stands for its value.
read_numeral(s) ==
    LET a == SaveWhile(save_and_next(s), Digit \cup {"."})
        b == IF Is(a, {"e"}) THEN check_next(save_and_next(a), {"+", "-"}) ELSE a
        c == SaveWhile(b, Alnum)
        d == [c EXCEPT !.buff = buffreplace(c.buff, ".", c.decpoint)]
        r == IF luaO_str2d(d.buff) THEN d ELSE trydecpoint(d)
    IN  [s |-> r, t |-> Tok("number", buffreplace(r.buff, r.decpoint, "."))]
-----------------------------------------------------------------------------
skip_sep(s) ==
    LET a     == SaveWhile(save_and_next(s), {"="})
        count == a.at - s.at - 1
    IN  [s |-> a, sep |-> IF current(a) = current(s) THEN count ELSE -count - 1]

\* Old code nested [[...]], which is an error now (LUA_COMPAT_LSTR).
RECURSIVE LongLoop(_, _, _)
LongLoop(s, sep, keep) ==
    LET c == current(s)
        q == skip_sep(s)
        l == inclinenumber(save(s, LF))
    IN  CASE c = EOZ -> luaX_lexerror(s, "unfinished long string")
          [] c = "[" -> IF q.sep # sep THEN LongLoop(q.s, sep, keep)
                        ELSE IF sep = 0 THEN luaX_lexerror(q.s, "nesting of [[...]] is deprecated")
                        ELSE LongLoop(save_and_next(q.s), sep, keep)
          [] c = "]" -> IF q.sep = sep THEN save_and_next(q.s) ELSE LongLoop(q.s, sep, keep)
          [] c \in Newlines -> LongLoop(IF keep THEN l ELSE resetbuffer(l), sep, keep)
          [] OTHER -> LongLoop(IF keep THEN save_and_next(s) ELSE next(s), sep, keep)

\* read_long_string; a comment keeps nothing.
read_long_string(s, sep, keep) ==
    LET a == save_and_next(s)
        r == LongLoop(IF Is(a, Newlines) THEN inclinenumber(a) ELSE a, sep, keep)
    IN  [s |-> r, t |-> Tok("string", SubSeq(r.buff, 3 + sep, Len(r.buff) - 2 - sep))]

\* Three of the seven letters
Escapes == [n |-> LF, r |-> CR, a |-> "BEL"]
UCHAR_MAX == 255
Char(n) == CASE n = 10 -> LF [] n = 13 -> CR [] OTHER -> "char " \o ToString(n)
ValueOf(q) == FoldLeft(LAMBDA n, d : 10 * n + (CHOOSE i \in 0..9 : ToString(i) = d), 0, q)

\* \ddd: up to three digits
ReadByte(s) ==
    LET n == CHOOSE k \in 1..3 : /\ \A i \in 0..(k - 1) : Is([s EXCEPT !.at = @ + i], Digit)
                                 /\ k = 3 \/ ~Is([s EXCEPT !.at = @ + k], Digit)
        c == ValueOf(SubSeq(s.text, s.at, s.at + n - 1))
        a == [s EXCEPT !.at = @ + n]
    IN  IF c > UCHAR_MAX THEN luaX_lexerror(a, "escape sequence too large") ELSE save(a, Char(c))

Escape(s) ==
    LET c == current(s)
    IN  CASE c \in DOMAIN Escapes -> next(save(s, Escapes[c]))
          [] c \in Newlines       -> inclinenumber(save(s, LF))
          [] c = EOZ              -> s
          [] c \in Digit          -> ReadByte(s)
          [] OTHER                -> save_and_next(s)

RECURSIVE StringLoop(_, _)
StringLoop(s, del) ==
    LET c == current(s)
    IN  CASE s.err # "" -> s
          [] s.err = "" /\ c = del -> save_and_next(s)
          [] s.err = "" /\ c \in Newlines \cup {EOZ} -> luaX_lexerror(s, "unfinished string")
          [] s.err = "" /\ c = "\\" -> StringLoop(Escape(next(s)), del)
          [] OTHER -> StringLoop(save_and_next(s), del)

read_string(s, del) ==
    LET r == StringLoop(save_and_next(s), del)
    IN  [s |-> r, t |-> Tok("string", SubSeq(r.buff, 2, Len(r.buff) - 1))]
-----------------------------------------------------------------------------
Single(s, t) == [s |-> s, t |-> Tok(t, <<>>)]
Name(s) == LET r == SaveWhile(save_and_next(s), Alnum)
           IN  [s |-> r, t |-> IF r.buff \in Reserved THEN Tok("reserved", r.buff) ELSE Tok("name", r.buff)]
ReadDots(s) ==
    LET a == check_next(save_and_next(s), {"."})
        b == check_next(a, {"."})
    IN  IF a.at > s.at + 1 THEN IF b.at > a.at THEN Single(b, "...") ELSE Single(a, "..")
        ELSE IF Is(a, Digit) THEN read_numeral(a) ELSE Single(a, ".")

RECURSIVE LexLoop(_)
LexLoop(s) ==
    LET c == current(s)
        n == next(s)
        q == skip_sep(s)
        p == skip_sep(next(n))
    IN  CASE c \in Newlines -> LexLoop(inclinenumber(s))
          [] c = "-" -> IF current(n) # "-" THEN Single(n, "-")
                        ELSE IF Is(next(n), {"["}) /\ p.sep >= 0
                        THEN LET r == read_long_string(resetbuffer(p.s), p.sep, FALSE).s
                             IN  IF r.err = "" THEN LexLoop(resetbuffer(r)) ELSE Single(r, "error")
                        ELSE LexLoop(resetbuffer(SkipLine(next(n))))
          [] c = "[" -> IF q.sep >= 0 THEN read_long_string(q.s, q.sep, TRUE)
                        ELSE IF q.sep = -1 THEN Single(q.s, "[")
                        ELSE Single(luaX_lexerror(q.s, "invalid long string delimiter"), "error")
          [] c \in {"=", "<", ">", "~"} -> IF Is(n, {"="}) THEN Single(next(n), c \o "=") ELSE Single(n, c)
          [] c \in {"\"", "'"} -> read_string(s, c)
          [] c = "." -> ReadDots(s)
          [] c = EOZ -> [s |-> s, t |-> TK_EOS]
          [] c = " " -> LexLoop(n)
          [] c \in Digit -> read_numeral(s)
          [] c \in Alpha \cup {"$"} -> Name(s)
          [] OTHER -> Single(n, c)

llex(s) == LexLoop(resetbuffer(s))
-----------------------------------------------------------------------------
SetInput(text) == [text |-> text, at |-> 1, linenumber |-> 1, buff |-> <<>>, decpoint |-> ".", err |-> ""]

LexInit ==
    /\ ls = SetInput(<<>>) /\ token = TK_EOS /\ lookahead = TK_EOS
    /\ locale = "." /\ taken = <<>> /\ changes = 0

\* luaX_setinput for a text, in one of two locales
luaX_setinput(text) ==
    /\ ls' = SetInput(text) /\ token' = NoToken /\ lookahead' = TK_EOS
    /\ locale' \in {".", ","} /\ taken' = <<>> /\ changes' = 0

Reading == ls.err = "" /\ token # TK_EOS

luaX_next ==
    /\ Reading
    /\ IF lookahead # TK_EOS
       THEN ls' = ls /\ token' = lookahead /\ taken' = Append(taken, lookahead)
       ELSE LET r == llex(ls)
            IN  ls' = r.s /\ token' = r.t /\ taken' = IF r.s.err = "" THEN Append(taken, r.t) ELSE taken
    /\ lookahead' = TK_EOS
    /\ UNCHANGED <<locale, changes>>

luaX_lookahead ==
    /\ Reading /\ lookahead = TK_EOS /\ token # NoToken
    /\ LET r == llex(ls) IN ls' = r.s /\ lookahead' = r.t
    /\ UNCHANGED <<token, locale, taken, changes>>

\* os.setlocale in the function that load reads from
SetLocale ==
    /\ Reading /\ changes < MaxLocales
    /\ locale' = (IF locale = "." THEN "," ELSE ".") /\ changes' = changes + 1
    /\ UNCHANGED <<ls, token, lookahead, taken>>

LexNext == luaX_next \/ luaX_lookahead \/ SetLocale
-----------------------------------------------------------------------------
\* string.format("%q") that writes a line end as it is.
addquotedRaw(s) ==
    LET q(c) == CASE c \in {"\"", "\\"} -> <<"\\", c>> [] c = CR -> <<"\\", "r">>
                  [] OTHER -> <<c>>
    IN  <<"\"">> \o FlattenSeq([i \in DOMAIN s |-> q(s[i])]) \o <<"\"">>

\* addquoted: string.format("%q"), with which save_deps writes .deps.lua
addquoted(s) ==
    LET q(c) == CASE c \in {"\"", "\\", LF} -> <<"\\", c>> [] c = CR -> <<"\\", "r">>
                  [] c = "char 0" -> <<"\\", "0", "0", "0">> [] OTHER -> <<c>>
    IN  <<"\"">> \o FlattenSeq([i \in DOMAIN s |-> q(s[i])]) \o <<"\"">>
=============================================================================
