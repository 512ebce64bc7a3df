------------------------------ MODULE MCLuaVM -------------------------------
(***************************************************************************)
(* Programs for the compiler and the virtual machine, and texts for the    *)
(* lexical analyzer, which are read when one of the programs has ended.    *)
(***************************************************************************)
EXTENDS LuaMeaning, LuaLex

VARIABLE goal                  \* what has been written: toks, lines, and wrong: not a text of Lua

N(x)    == <<"name", x>>
W(x)    == <<x>>                       \* an expression of one word
Op(o)   == <<"op", o>>
I(n)    == <<"num", n>>
C(f, args) == <<"call", N(f), args>>
F(args) == C("f", args)
CallS(f, args) == <<"callstat", C(f, args)>>
Show(ws) == CallS("f", <<ws>>)
Fn(params, b)  == <<"function", <<params, FALSE, b>>>>
FnV(params, b) == <<"function", <<params, TRUE, b>>>>
Local(x, ws)   == <<"local", <<x>>, <<ws>>>>
Ret(ws)        == <<"return", <<ws>>>>
Set1(x, ws)    == <<"assign", <<N(x)>>, <<ws>>>>
Idx(t, k)      == <<"index", N(t), W(k)>>
True == <<"true">>
False == <<"false">>
NilW == <<"nil">>
Dots == <<"dots">>

\* Three operands, each perhaps negated, and two operators: the value, the
\* condition and the jumps of each, in four places.
Leaves == {N("a"), N("z"), F(<<>>)}
Nots == {<<>>, <<Op("not")>>}
Logic == {Op("and"), Op("or"), Op("==")}
Conditions ==
    {n1 \o <<x>> \o <<o1>> \o n2 \o <<y>> \o <<o2>> \o n3 \o <<w>> :
        n1 \in Nots, n2 \in Nots, n3 \in Nots, x \in Leaves, y \in Leaves, w \in {N("a"), False},
        o1 \in Logic, o2 \in Logic}
Prologue == <<<<"local", <<"a", "z">>, <<W(I(7))>>>>>>
InPlaces(e) == Prologue \o
    <<Local("v", e), Show(W(N("v"))), <<"if", <<<<e, <<Show(W(I(1)))>>>>>>, <<<<Show(W(I(2)))>>>>>>,
      Ret(e)>>

\* Arithmetic, comparison and concatenation with constants that are folded.
Terms == {I(2), N("a"), <<"str", <<"s">>>>, F(<<>>)}
Arithmetics ==
    {<<x, o1, y, o2, w>> : x \in Terms, y \in Terms \ {F(<<>>)}, w \in {I(3), N("a")},
        o1 \in {Op("+"), Op("-"), Op("*"), Op(".."), Op("<")}, o2 \in {Op("*"), Op("%"), Op(".."), Op("<="), Op("~=")}}
InValue(e) == Prologue \o <<Local("v", e), Show(W(N("v")))>>

Closures == {
    \* a fresh variable in each round of a loop
    <<Local("t", W(<<"table", <<>>>>)),
      <<"fornum", "i", W(I(1)), W(I(2)), <<>>,
        <<Local("j", <<N("i"), Op("+"), I(1)>>),
          <<"assign", <<Idx("t", N("i"))>>, <<W(Fn(<<>>, <<Set1("j", <<N("j"), Op("+"), I(1)>>), Ret(W(N("j")))>>))>>>>>>>>,
      Show(W(<<"call", Idx("t", I(1)), <<>>>>)), Show(W(<<"call", Idx("t", I(1)), <<>>>>)),
      Show(W(<<"call", Idx("t", I(2)), <<>>>>))>>,
    \* break out of a block with an upvalue, then use its register again
    <<Local("k", W(NilW)),
      <<"while", W(True), <<Local("x", W(I(5))), Set1("k", W(Fn(<<>>, <<Ret(W(N("x")))>>))),
                            <<"if", <<<<W(True), <<<<"break">>>>>>>>, <<>>>>>>>>,
      Local("y", W(I(9))), Show(W(C("k", <<>>)))>>,
    \* repeat, whose condition sees the variables of the block
    <<Local("k", W(NilW)), Local("n", W(I(0))),
      <<"repeat", <<Local("x", W(N("n"))), Set1("k", W(Fn(<<>>, <<Ret(W(N("x")))>>))),
                    Set1("n", <<N("n"), Op("+"), I(1)>>)>>,
        <<N("x"), Op("=="), I(1)>>>>,
      Local("y", W(I(9))), Show(W(C("k", <<>>)))>>,
    <<Local("n", W(I(0))),
      <<"repeat", <<Local("x", W(N("n"))), Set1("n", <<N("n"), Op("+"), I(1)>>), Show(W(N("x")))>>,
        <<N("x"), Op(">="), I(1)>>>>>>,
    \* two functions share a variable, three levels deep
    <<Local("x", W(I(1))),
      <<"localfunc", "p", <<<<>>, FALSE, <<Set1("x", <<N("x"), Op("+"), I(1)>>)>>>>>>,
      <<"localfunc", "q", <<<<>>, FALSE, <<Ret(W(Fn(<<>>, <<Ret(W(N("x")))>>)))>>>>>>,
      CallS("p", <<>>), Show(W(<<"call", C("q", <<>>), <<>>>>)), CallS("p", <<>>), Show(W(N("x")))>>,
    \* a function that calls itself, with a tail call
    <<<<"localfunc", "p", <<<<"n", "s">>, FALSE,
        <<<<"if", <<<<<<N("n"), Op("<"), I(1)>>, <<Ret(W(N("s")))>>>>>>, <<>>>>,
          Ret(W(C("p", <<<<N("n"), Op("-"), I(1)>>, <<N("s"), Op("+"), N("n")>>>>)))>>>>>>,
      Show(W(C("p", <<W(I(2)), W(I(0))>>)))>>,
    \* an upvalue of a function that has returned by a tail call
    <<<<"localfunc", "p", <<<<"n">>, FALSE,
        <<Local("w", W(Fn(<<>>, <<Set1("n", <<N("n"), Op("*"), I(2)>>), Ret(W(N("n")))>>))),
          Ret(W(C("g", <<W(C("w", <<>>)), W(N("w"))>>)))>>>>>>,
      Ret(W(C("p", <<W(I(3))>>)))>>,
    <<<<"localfunc", "q", <<<<"w">>, FALSE, <<Local("r", W(I(4))), Ret(W(C("w", <<>>)))>>>>>>,
      <<"localfunc", "p", <<<<"n">>, FALSE,
        <<Ret(W(C("q", <<W(Fn(<<>>, <<Ret(W(N("n")))>>))>>)))>>>>>>,
      Show(W(C("p", <<W(I(3))>>)))>> }

Varargs == {
    <<Ret(W(Dots))>>, <<Show(W(Dots)), <<"return", <<W(I(1)), W(Dots)>>>>>>,
    <<<<"local", <<"a", "b", "c">>, <<W(Dots)>>>>, CallS("f", <<W(N("a")), W(N("b")), W(N("c"))>>),
      CallS("f", <<W(<<"paren", W(Dots)>>), W(Dots)>>)>>,
    <<<<"localfunc", "p", <<<<"a">>, TRUE, <<<<"return", <<W(Dots), W(N("a")), W(Dots)>>>>>>>>>>,
      CallS("f", <<W(C("p", <<W(I(1)), W(I(2)), W(I(3))>>))>>), CallS("f", <<W(C("p", <<>>))>>)>>,
    <<<<"localfunc", "p", <<<<"a">>, TRUE, <<CallS("f", <<W(N("a")), W(Idx("arg", I(1))), W(Idx("arg", <<"str", <<"n">>>>))>>)>>>>>>,
      CallS("p", <<W(I(1)), W(I(2)), W(I(3))>>), CallS("p", <<>>)>> }

Statements == {
    \* several assignments at once
    <<Local("i", W(I(1))), Local("t", W(<<"table", <<<<"item", W(I(5))>>>>>>)),
      <<"assign", <<N("i"), Idx("t", N("i"))>>, <<<<N("i"), Op("+"), I(1)>>, W(I(20))>>>>,
      CallS("f", <<W(N("i")), W(Idx("t", I(1))), W(Idx("t", I(2)))>>)>>,
    <<Local("i", W(I(1))), Local("t", W(<<"table", <<>>>>)), Local("u", W(N("t"))),
      <<"assign", <<Idx("t", N("i")), N("i"), N("t")>>, <<W(I(4)), W(I(2)), W(NilW)>>>>,
      CallS("f", <<W(N("i")), W(N("t")), W(Idx("u", I(1)))>>)>>,
    <<<<"local", <<"a", "b">>, <<W(I(1)), W(I(2))>>>>, <<"assign", <<N("a"), N("b")>>, <<W(N("b")), W(N("a"))>>>>,
      CallS("f", <<W(N("a")), W(N("b"))>>), <<"assign", <<N("a"), N("b"), N("x")>>, <<W(C("g", <<>>))>>>>,
      CallS("f", <<W(N("a")), W(N("b")), W(N("x"))>>), <<"assign", <<N("a")>>, <<W(I(8)), W(F(<<>>))>>>>, Show(W(N("a")))>>,
    \* nil in two branches and after a jump
    <<<<"local", <<"a", "b">>, <<W(I(1))>>>>, <<"local", <<"c">>, <<>>>>,
      <<"if", <<<<W(N("b")), <<Set1("a", W(NilW))>>>>, <<W(N("a")), <<Set1("c", W(I(3)))>>>>>>, <<<<Set1("c", W(I(4)))>>>>>>,
      <<"local", <<"d">>, <<>>>>, CallS("f", <<W(N("a")), W(N("b")), W(N("c")), W(N("d"))>>)>>,
    <<Local("a", W(I(1))), <<"while", W(N("a")), <<<<"local", <<"b">>, <<>>>>, Show(W(N("b"))), Set1("b", W(I(2))), Show(W(N("b"))),
        <<"if", <<<<<<N("a"), Op("=="), I(2)>>, <<Set1("a", W(NilW))>>>>>>, <<<<Set1("a", W(I(2)))>>>>>>>>>>>>,
    <<<<"local", <<"a">>, <<>>>>, <<"if", <<<<W(True), <<Set1("a", W(NilW))>>>>>>, <<>>>>, <<"local", <<"b", "c">>, <<>>>>,
      CallS("f", <<W(N("b")), W(N("c"))>>)>>,
    <<<<"do", <<<<"local", <<"a", "b">>, <<W(I(1)), W(I(2))>>>>>>>>, <<"local", <<"c">>, <<>>>>,
      <<"if", <<<<W(N("c")), <<<<"local", <<"x">>, <<>>>>>>>>>>, <<>>>>, <<"local", <<"d">>, <<>>>>,
      CallS("f", <<W(N("c")), W(N("d"))>>)>>,
    <<<<"repeat", <<<<"local", <<"a">>, <<>>>>, Show(W(N("a"))), Set1("a", W(I(1))), Set1("x", W(I(3)))>>, W(N("x"))>>>>,
    \* loops
    <<<<"fornum", "i", W(I(3)), W(I(1)), <<Op("neg"), I(1)>>, <<Show(W(N("i"))),
        <<"if", <<<<<<N("i"), Op("<="), I(2)>>, <<<<"break">>>>>>>>, <<>>>>>>>>, Show(W(N("i")))>>,
    <<<<"fornum", "i", W(I(1)), W(<<"str", <<"2">>>>), <<>>, <<Show(<<N("i"), Op(".."), <<"str", <<>>>>>>)>>>>>>,
    <<<<"fornum", "i", W(I(1)), W(NilW), <<>>, <<>>>>>>,
    <<<<"localfunc", "it", <<<<"s", "c">>, FALSE, <<<<"if", <<<<<<N("c"), Op("<"), N("s")>>,
        <<<<"return", <<<<N("c"), Op("+"), I(1)>>, W(N("s"))>>>>>>>>>>, <<>>>>>>>>>>,
      <<"forin", <<"k", "v", "w">>, <<W(N("it")), W(I(2)), W(I(0))>>,
        <<CallS("f", <<W(N("k")), W(N("v")), W(N("w"))>>)>>>>>>,
    <<<<"forin", <<"k">>, <<W(N("h"))>>, <<Show(W(N("k")))>>>>>>,
    <<<<"forin", <<"k", "v">>, <<W(N("g")), W(I(1))>>, <<CallS("g", <<W(N("k")), W(N("v"))>>), <<"break">>>>>>>>,
    \* tables and methods
    <<Local("t", W(<<"table", <<<<"item", W(I(1))>>, <<"pair", W(<<"str", <<"k">>>>), W(F(<<>>))>>, <<"item", W(C("g", <<>>))>>,
        <<"pair", <<I(1), Op("+"), I(4)>>, W(True)>>, <<"item", W(C("g", <<>>))>>>>>>)),
      CallS("f", <<W(Idx("t", I(1))), W(Idx("t", I(2))), W(Idx("t", I(3))), W(Idx("t", I(4))), W(Idx("t", I(5)))>>),
      Show(<<Op("len"), N("t")>>), Show(W(Idx("t", <<"str", <<"k">>>>)))>>,
    <<Local("t", W(<<"table", <<<<"item", W(I(1))>>, <<"item", W(I(2))>>, <<"item", W(I(3))>>, <<"item", W(Dots)>>>>>>)),
      Show(<<Op("len"), N("t")>>), <<"return", <<W(Idx("t", I(3))), W(Idx("t", I(5))), W(Idx("t", I(6)))>>>>>>,
    <<Set1("t", W(<<"table", <<>>>>)),
      <<"funcstat", <<"index", N("t"), W(<<"str", <<"m">>>>)>>, TRUE, <<<<"x">>, FALSE,
        <<<<"assign", <<Idx("self", <<"str", <<"v">>>>)>>, <<W(N("x"))>>>>, Ret(W(N("self")))>>>>>>,
      Show(W(<<"index", <<"method", N("t"), "m", <<W(I(6))>>>>, W(<<"str", <<"v">>>>)>>))>>,
    <<<<"funcstat", N("x"), FALSE, <<<<"n">>, FALSE, <<Ret(<<Op("neg"), N("n")>>)>>>>>>, Show(W(C("x", <<W(<<"str", <<"4">>>>)>>)))>>,
    \* errors, and what stands before them
    <<Show(W(I(1))), Local("a", W(<<"index", N("x"), W(I(1))>>)), Show(W(I(2)))>>,
    <<Show(W(I(1))), CallS("x", <<W(F(<<>>))>>), Show(W(I(2)))>>,
    <<Local("t", W(<<"table", <<>>>>)), <<"assign", <<Idx("t", N("x"))>>, <<W(F(<<>>))>>>>>>,
    <<Local("a", <<Op("len"), I(1)>>)>>,
    <<<<"break">>>>, <<<<"funcstat", N("x"), FALSE, <<<<>>, FALSE, <<Ret(W(Dots))>>>>>>>>,
    \* more constants than operands can name
    <<CallS("f", <<<<I(1), Op("+"), N("x")>>>>)>>,
    <<Local("a", W(I(9))), CallS("f", <<<<N("a"), Op("+"), I(1)>>, <<N("a"), Op("+"), I(2)>>, <<N("a"), Op("+"), I(3)>>,
        <<I(4), Op("-"), N("a")>>, <<N("a"), Op("=="), <<"str", <<"s">>>>, Op("or"), NilW>>>>)>> }

Programs == {InPlaces(e) : e \in Conditions} \cup {InValue(e) : e \in Arithmetics}
            \cup Closures \cup Varargs \cup Statements
MCChunks   == LET chunks == [s \in Programs |-> Loaded(s)] IN chunks
MCMeanings == LET meanings == [s \in Programs |-> Meaning(s)] IN meanings
Results1 == <<1, 2, 0>>
-----------------------------------------------------------------------------
(* Texts: two words with something between and after them *)

Word(t, v, w, lines) == [t |-> Tok(t, v), w |-> w, lines |-> lines]
Plain(t, w) == Word(t, w, w, 0)
Sign(w)     == Word(FoldLeft(LAMBDA a, b : a \o b, "", w), <<>>, w, 0)
Long(v, lines) == Word("string", v, <<"[", "=", "[">> \o v \o <<"]", "=", "]">>, lines)
Words ==
    {Plain("name", <<"a">>), Plain("name", <<"$", "d">>), Plain("reserved", <<"d", "o">>),
     Plain("number", <<"1">>), Plain("number", <<".", "5">>), Plain("number", <<"1", ".", "e", "-", "2">>),
     Plain("number", <<"0", "x", "a", "e">>), Sign(<<"=">>), Sign(<<"=", "=">>), Sign(<<"<", "=">>), Sign(<<"~">>),
     Sign(<<".">>), Sign(<<".", ".">>), Sign(<<".", ".", ".">>), Sign(<<"[">>), Sign(<<"-">>), Sign(<<"(">>),
     Word("string", <<"\"", LF, "a">>, <<"'", "\"", "\\", CR, LF, "a", "'">>, 1),
     Word("string", <<"char 25", "5", LF>>, <<"\"", "\\", "0", "2", "5", "5", "\\", "1", "0", "\"">>, 0),
     Long(<<"]", "]", LF, "[", "[", "\\">>, 1),
     Word("string", <<"a", LF>>, <<"[", "[", CR, "a", CR, LF, "]", "]">>, 2)}
Gap(w, lines) == [w |-> w, lines |-> lines]
Gaps == {Gap(<<>>, 0), Gap(<<" ">>, 0), Gap(<<LF, LF>>, 2), Gap(<<CR, LF>>, 1), Gap(<<"-", "-", "a", "\"", LF>>, 1),
         Gap(<<"-", "-", "[", "=", "a", CR>>, 1), Gap(<<"-", "-", "[", "=", "[", LF, "]", "]", LF, "]", "=", "]">>, 2)}

\* Two characters that belong to one token if they meet.
Meet == (Alnum \X Alnum) \cup (Digit \X {"."}) \cup ({"="} \X {"="}) \cup ({"<", "~"} \X {"="}) \cup ({"."} \X (Digit \cup {"."}))
        \cup {<<"-", "-">>, <<"[", "[">>, <<"[", "=">>}
Apart(v, w) == v # <<>> /\ w # <<>> => <<Last(v), Head(w)>> \notin Meet

\* Texts that are none: numbers, escapes and brackets.
WrongTexts == {<<"1", ".", ".", "2">>, <<"0", "x">>, <<"1", "e">>, <<"1", "e", "+", "a">>, <<"1", "x", "1">>, <<"1", ".", "5", ".">>,
               <<"1", "_">>, <<"\"", "\\", "2", "5", "6", "\"">>, <<"\"", LF, "\"">>, <<"'", "a", "\\">>, <<"[", "=", "a">>,
               <<"[", "[", "[", "[", "]", "]">>, <<"[", "=", "[", "]", "]">>, <<"-", "-", "[", "[", "]">>}
Strings == UNION {[1..n -> {"a", "1", "\"", "\\", LF, CR, "char 0"}] : n \in 0..3}
MCReserved == {<<"d", "o">>}
NoGoal  == [kind |-> "none", toks |-> <<>>, lines |-> 1, wrong |-> FALSE]

ReadText(kind, toks, lines, wrong, text) ==
    /\ goal' = [kind |-> kind, toks |-> toks, lines |-> lines, wrong |-> wrong]
    /\ luaX_setinput(text)

PickText ==
    /\ src = <<Ret(W(Dots))>> /\ m.st = "done" /\ goal = NoGoal
    /\ \/ \E v, w \in Words, g \in Gaps, e \in {Gap(<<>>, 0), Gap(<<CR, LF>>, 1)} :
            /\ Apart(v.w, g.w \o w.w) /\ Apart(g.w, w.w)
            /\ ReadText("words", <<v.t, w.t, TK_EOS>>, 1 + v.lines + g.lines + w.lines + e.lines, FALSE, v.w \o g.w \o w.w \o e.w)
       \/ \E t \in WrongTexts : ReadText("wrong", <<>>, 1, TRUE, t)
       \/ \E s \in Strings : LET q == addquoted(s)
                             IN  \E n \in 1..Len(q) : ReadText("quoted", IF n = Len(q) THEN <<Tok("string", s), TK_EOS>> ELSE <<>>,
                                                               1, n < Len(q), SubSeq(q, 1, n))
    /\ UNCHANGED vmvars

MCInit == VMInit /\ LexInit /\ goal = NoGoal
MCNext == \/ VMNext /\ UNCHANGED <<xvars, goal>>
          \/ PickText
          \/ LexNext /\ UNCHANGED <<vmvars, goal>>
MCSpec == MCInit /\ [][MCNext]_<<vmvars, xvars, goal>>

\* The parser gets the tokens that were written, however they are set apart, whenever
\* it looks ahead and whichever decimal point the C library has at the moment; a text
\* that is none is refused (llex, llex.c; trydecpoint, llex.c:179).
TokensAsWritten ==
    goal.kind \in {"words", "wrong"} =>
        /\ IsPrefix(taken, goal.toks)
        /\ ls.err # "" => goal.wrong
        /\ token = TK_EOS => taken = goal.toks

\* Line numbers, which error messages and debug information show, count every line end
\* once, in strings and comments too, whether it is one character or two.
LinesCounted == goal.kind = "words" /\ token = TK_EOS => ls.linenumber = goal.lines

\* The parser gets what is in the text: the tokens, and their lines.
TextRead == TokensAsWritten /\ LinesCounted

\* What string.format("%q") writes, as save_deps does with commands and paths, is read
\* back as the same string, and when it is cut off (buildsh is killed in save_deps) it
\* is an error and never another string (addquoted, lstrlib.c:696).
QuotedReadsBack ==
    goal.kind = "quoted" =>
        /\ IsPrefix(taken, goal.toks)
        /\ ls.err # "" => goal.wrong
        /\ token = TK_EOS => taken = goal.toks
=============================================================================
