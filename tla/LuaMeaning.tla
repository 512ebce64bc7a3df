----------------------------- MODULE LuaMeaning -----------------------------
(***************************************************************************)
(* What a program means, read off its text, without registers, jumps,      *)
(* frames or upvalues: a variable is a cell of its own each time its        *)
(* declaration is reached, a function keeps the variables around it, and    *)
(* operators bind as the reference manual says.  The code that the parser   *)
(* makes and the virtual machine runs is compared with this.               *)
(***************************************************************************)
EXTENDS LuaVM

CONSTANT Meanings    \* Meanings[s]: the Meaning of the program s

\* Operators of lowest priority split an expression: the last one, or the
\* first of those that associate to the right.
Priority(o) == CASE o = "or" -> 1 [] o = "and" -> 2
                 [] o \in {"<", ">", "<=", ">=", "~=", "=="} -> 3
                 [] o = ".." -> 4 [] o \in {"+", "-"} -> 5 [] o \in {"*", "%"} -> 6
RECURSIVE Tree(_)
Tree(ws) ==
    LET bin == {i \in 2..Len(ws) : IsOp(ws[i]) /\ ~IsOp(ws[i - 1])}
        low == {i \in bin : \A j \in bin : Priority(ws[i][2]) <= Priority(ws[j][2])}
        at  == CHOOSE i \in low : \A j \in low : IF ws[i][2] = ".." THEN i <= j ELSE j <= i
    IN  IF bin # {} THEN <<"bin", ws[at][2], Tree(SubSeq(ws, 1, at - 1)),
                           Tree(SubSeq(ws, at + 1, Len(ws)))>>
        ELSE IF IsOp(ws[1]) THEN <<"un", ws[1][2], Tree(Tail(ws))>> ELSE ws[1]

With(st, v) == [st |-> st, vs |-> <<v>>]
First(vs)   == IF vs = <<>> THEN Nil ELSE vs[1]
One(r) == With(r.st, First(r.vs))
Wrong(st) == With([st EXCEPT !.err = TRUE], Nil)

RECURSIVE Eval(_, _, _), EvalTree(_, _, _), EvalList(_, _, _), Exec(_, _, _), Block(_, _, _),
          Loop(_, _, _, _), CallF(_, _, _)

\* Whether ... is used in a function: in the expressions of its statements.
RECURSIVE HasDots(_)
HasDots(words) ==
    \E i \in 1..Len(words) : LET w == words[i] IN
        \/ w[1] = "dots"
        \/ w[1] = "paren" /\ HasDots(w[2])
        \/ w[1] = "call" /\ \E j \in 1..Len(w[3]) : HasDots(w[3][j])
        \/ w[1] = "table" /\ \E j \in 1..Len(w[2]) : HasDots(w[2][j][2])
UsesDots(b) ==
    \E i \in 1..Len(b) : LET s == b[i] IN
        \/ s[1] = "callstat" /\ HasDots(<<s[2]>>)
        \/ s[1] = "return" /\ \E j \in 1..Len(s[2]) : HasDots(s[2][j])
        \/ s[1] = "local" /\ \E j \in 1..Len(s[3]) : HasDots(s[3][j])

Binary(st, op, a, b) ==
    LET num == Type(a) = "num" /\ Type(b) = "num"
        less(x, y) == IF num THEN With(st, Bool(x[2] < y[2])) ELSE Wrong(st)
        leq(x, y)  == IF num THEN With(st, Bool(x[2] <= y[2])) ELSE Wrong(st)
    IN  CASE op \in DOMAIN Arithmetic -> IF Numeric(a) /\ Numeric(b)
               THEN With(st, Num(NumOp(Arithmetic[op], ToNumber(a), ToNumber(b)))) ELSE Wrong(st)
          [] op = ".." -> IF Stringy(a) /\ Stringy(b) THEN With(st, Str(AsString(a) \o AsString(b)))
                          ELSE Wrong(st)
          [] op = "==" -> With(st, Bool(a = b))
          [] op = "~=" -> With(st, Bool(a # b))
          [] op = "<"  -> less(a, b)
          [] op = ">"  -> less(b, a)
          [] op = "<=" -> leq(a, b)
          [] op = ">=" -> leq(b, a)

UnaryOp(st, op, a) ==
    CASE op = "not" -> With(st, Bool(l_isfalse(a)))
      [] op = "neg" -> IF Numeric(a) THEN With(st, Num(-ToNumber(a))) ELSE Wrong(st)
      [] op = "len" -> CASE Type(a) = "tab" -> With(st, Num(Border(st.tabs[a[2]])))
                         [] Type(a) = "str" -> With(st, Num(Len(a[2])))
                         [] OTHER -> Wrong(st)

\* New variables with values: <<store, environment>>
Declare(st, env, names, vs) ==
    [st |-> [st EXCEPT !.vars = @ \o [i \in 1..Len(names) |-> IF i <= Len(vs) THEN vs[i] ELSE Nil]],
     env |-> [n \in DOMAIN env \cup Range(names) |->
                IF n \in Range(names)
                THEN Len(st.vars) + (CHOOSE i \in 1..Len(names) :
                       names[i] = n /\ \A j \in (i + 1)..Len(names) : names[j] # n)
                ELSE env[n]]]

Index(st, t, k) ==
    IF Type(t) = "tab" THEN With(st, Get(st.tabs[t[2]], k)) ELSE Wrong(st)
Assign(st, env, target, v) ==
    CASE target[1] = "var"  -> [st EXCEPT !.vars[target[2]] = v]
      [] target[1] = "glob" -> [st EXCEPT !.globals = Put(@, Str(<<target[2]>>), v)]
      [] OTHER -> IF Type(target[2]) = "tab" /\ target[3] # Nil
                  THEN [st EXCEPT !.tabs[target[2][2]] = Put(@, target[3], v)]
                  ELSE [st EXCEPT !.err = TRUE]

CallF(st, f, args) ==
    LET h  == HostCall(st.trace, f[2], args)
        c  == st.cl[f[2]]
        ps == IF c.self THEN <<"self">> \o c.fn[1] ELSE c.fn[1]
        extra == SubSeq(args, Len(ps) + 1, Len(args))
        old == c.fn[2] /\ ~UsesDots(c.fn[3])
        d  == Declare(st, c.env, ps, args)
        t  == Put(ListTable(extra), Str(<<"n">>), Num(Len(extra)))
        a  == Declare([d.st EXCEPT !.tabs = IF old THEN Append(@, t) ELSE @], d.env, <<"arg">>,
                      <<IF old THEN <<"tab", Len(st.tabs) + 1>> ELSE Nil>>)
        b  == IF c.fn[2] THEN a ELSE d
        x  == Block(b.st, [v |-> b.env, dots |-> extra], c.fn[3])
    IN  CASE st.err -> [st |-> st, vs |-> <<>>]
          [] ~st.err /\ Type(f) = "host" -> [st |-> [st EXCEPT !.trace = h.trace], vs |-> h.res]
          [] ~st.err /\ Type(f) = "fun"  -> [st |-> x.st, vs |-> x.vs]
          [] OTHER -> Wrong(st)

Closure(st, env, fn, self) ==
    With([st EXCEPT !.cl = Append(@, [fn |-> fn, env |-> env.v, self |-> self])],
         <<"fun", Len(st.cl) + 1>>)

\* Items of a table constructor, in turn
EvalTable(st0, env, items) ==
    LET new == Len(st0.tabs) + 1
        item(a, it) ==
            LET k == One(Eval(a.st, env, it[2]))
                v == One(Eval(k.st, env, it[3]))
                r == Eval(a.st, env, it[2])
                lastone == a.i = Len(items)
            IN  IF it[1] = "pair"
                THEN [a EXCEPT !.st = IF k.vs[1] = Nil THEN Wrong(v.st).st
                                      ELSE [v.st EXCEPT !.tabs[new] = Put(@, k.vs[1], v.vs[1])],
                               !.i = @ + 1]
                ELSE [a EXCEPT !.st = r.st, !.i = @ + 1,
                               !.list = @ \o IF lastone THEN r.vs ELSE <<First(r.vs)>>]
        a == FoldLeft(item, [st |-> [st0 EXCEPT !.tabs = Append(@, <<>>)], i |-> 1, list |-> <<>>], items)
        put(t, i) == Put(t, Num(i), a.list[i])
    IN  With([a.st EXCEPT !.tabs[new] = FoldLeft(put, @, [i \in 1..Len(a.list) |-> i])], <<"tab", new>>)

Eval(st, env, words) == EvalTree(st, env, Tree(words))

EvalTree(st, env, e) ==
    LET a == One(EvalTree(st, env, e[3]))
        b == One(EvalTree(a.st, env, e[4]))
        o == One(EvalTree(st, env, e[2]))
        k == One(Eval(o.st, env, e[3]))
        args == EvalList(o.st, env, e[3])
        u == One(EvalTree(st, env, e[3]))
        f == Index(o.st, o.vs[1], Str(<<e[3]>>))
        margs == EvalList(f.st, env, e[4])
    IN  CASE e[1] \in {"nil"}  -> With(st, Nil)
          [] e[1] = "true"  -> With(st, Bool(TRUE))
          [] e[1] = "false" -> With(st, Bool(FALSE))
          [] e[1] = "num"   -> With(st, Num(e[2]))
          [] e[1] = "str"   -> With(st, Str(e[2]))
          [] e[1] = "dots"  -> [st |-> st, vs |-> env.dots]
          [] e[1] = "name"  -> With(st, IF e[2] \in DOMAIN env.v THEN st.vars[env.v[e[2]]]
                                        ELSE Get(st.globals, Str(<<e[2]>>)))
          [] e[1] = "paren" -> One(Eval(st, env, e[2]))
          [] e[1] = "index" -> Index(k.st, o.vs[1], k.vs[1])
          [] e[1] = "call"  -> CallF(args.st, o.vs[1], args.vs)
          [] e[1] = "method" -> CallF(margs.st, f.vs[1], o.vs \o margs.vs)
          [] e[1] = "table" -> EvalTable(st, env, e[2])
          [] e[1] = "function" -> Closure(st, env, e[2], FALSE)
          [] e[1] = "un"    -> UnaryOp(u.st, e[2], u.vs[1])
          [] e[1] = "bin"   -> CASE e[2] = "and" -> IF l_isfalse(a.vs[1]) THEN a ELSE b
                                 [] e[2] = "or"  -> IF l_isfalse(a.vs[1]) THEN b ELSE a
                                 [] OTHER -> Binary(b.st, e[2], a.vs[1], b.vs[1])

\* All expressions give one value, the last one all it has.
EvalList(st, env, exps) ==
    LET h == Eval(st, env, Head(exps))
        t == EvalList(h.st, env, Tail(exps))
    IN  IF exps = <<>> THEN [st |-> st, vs |-> <<>>]
        ELSE IF Len(exps) = 1 THEN h ELSE [st |-> t.st, vs |-> <<First(h.vs)>> \o t.vs]

Target(st, env, w) ==
    LET o == One(EvalTree(st, env, w[2]))
        k == One(Eval(o.st, env, w[3]))
    IN  IF w[1] = "index" THEN [st |-> k.st, to |-> <<"elem", o.vs[1], k.vs[1]>>]
        ELSE [st |-> st, to |-> IF w[2] \in DOMAIN env.v THEN <<"var", env.v[w[2]]>> ELSE <<"glob", w[2]>>]

\* How a statement ends: go is next, break or return.
Done(st, env) == [st |-> st, env |-> env, go |-> "next", vs |-> <<>>]
Scope(r, env) == [r EXCEPT !.env = env]

\* while, repeat and for: body says what one round does and whether to stop.
Loop(st, env, s, i) ==
    LET c == One(Eval(st, env, s[2]))
        b == Block(c.st, env, s[3])
        r == Block(st, env, s[2])
        q == One(Eval(r.st, r.env, s[3]))
        n == Declare(st, env.v, <<s[2]>>, <<Num(i.at)>>)
        fb == Block(n.st, [env EXCEPT !.v = n.env], s[6])
        g == CallF(st, i.f, <<i.s, i.c>>)
        d == Declare(g.st, env.v, s[2], g.vs)
        gb == Block(d.st, [env EXCEPT !.v = d.env], s[4])
        on(x, again) == CASE x.go = "return" -> Scope(x, env)
                          [] x.go = "break" \/ x.st.err -> Done(x.st, env)
                          [] OTHER -> again
    IN  CASE s[1] = "while" -> IF c.st.err \/ l_isfalse(c.vs[1]) THEN Done(c.st, env)
                               ELSE on(b, Loop(b.st, env, s, i))
          [] s[1] = "repeat" -> on(r, IF q.st.err \/ ~l_isfalse(q.vs[1]) THEN Done(q.st, env)
                                      ELSE Loop(q.st, env, s, i))
          [] s[1] = "fornum" -> IF (i.step > 0 /\ i.at > i.lim) \/ (i.step <= 0 /\ i.at < i.lim)
                                THEN Done(st, env)
                                ELSE on(fb, Loop(fb.st, env, s, [i EXCEPT !.at = @ + i.step]))
          [] s[1] = "forin"  -> IF g.st.err \/ First(g.vs) = Nil THEN Done(g.st, env)
                                ELSE on(gb, Loop(gb.st, env, s, [i EXCEPT !.c = g.vs[1]]))

Exec(st, env, s) ==
    LET vals == EvalList(st, env, s[3])
        dec  == Declare(vals.st, env.v, s[2], vals.vs)
        tgt  == FoldLeft(LAMBDA a, w : LET t == Target(a.st, env, w)
                                       IN  [st |-> t.st, to |-> Append(a.to, t.to)],
                         [st |-> st, to |-> <<>>], s[2])
        rhs  == EvalList(tgt.st, env, s[3])
        put(x, i) == IF x.err THEN x
                     ELSE Assign(x, env, tgt.to[i], IF i <= Len(rhs.vs) THEN rhs.vs[i] ELSE Nil)
        \* the clause of an if that is taken
        pick(a, c) == LET t == One(Eval(a.st, env, c[1]))
                      IN  IF a.hit \/ a.st.err THEN a
                          ELSE [st |-> t.st, hit |-> ~l_isfalse(t.vs[1]), b |-> c[2]]
        if   == FoldLeft(pick, [st |-> st, hit |-> FALSE, b |-> <<>>], s[2])
        n1 == One(Eval(st, env, s[3]))
        n2 == One(Eval(n1.st, env, s[4]))
        n3 == IF s[5] = <<>> THEN With(n2.st, Num(1)) ELSE One(Eval(n2.st, env, s[5]))
        numeric == Numeric(n1.vs[1]) /\ Numeric(n2.vs[1]) /\ Numeric(n3.vs[1])
        at(j) == IF j <= Len(vals.vs) THEN vals.vs[j] ELSE Nil
        self == Declare(st, env.v, <<s[2]>>, <<Nil>>)
        fun  == Closure(self.st, [env EXCEPT !.v = self.env], s[3], FALSE)
        ft   == Target(st, env, s[2])
        fc   == Closure(ft.st, env, s[4], s[3])
        ret  == EvalList(st, env, s[2])
    IN  CASE st.err -> Done(st, env)
          [] ~st.err /\ s[1] = "local" -> Done(dec.st, [env EXCEPT !.v = dec.env])
          [] ~st.err /\ s[1] = "assign" ->
               Done(FoldRight(LAMBDA i, x : put(x, i), [i \in 1..Len(s[2]) |-> i], rhs.st), env)
          [] ~st.err /\ s[1] = "callstat" -> Done(EvalTree(st, env, s[2]).st, env)
          [] ~st.err /\ s[1] = "do" -> Scope(Block(st, env, s[2]), env)
          [] ~st.err /\ s[1] = "if" ->
               IF if.hit \/ s[3] = <<>> THEN IF if.hit THEN Scope(Block(if.st, env, if.b), env)
                                             ELSE Done(if.st, env)
               ELSE Scope(Block(if.st, env, s[3][1]), env)
          [] ~st.err /\ s[1] \in {"while", "repeat"} -> Loop(st, env, s, <<>>)
          [] ~st.err /\ s[1] = "fornum" ->
               IF n3.st.err \/ ~numeric THEN Done(Wrong(n3.st).st, env)
               ELSE Loop(n3.st, env, s, [at |-> ToNumber(n1.vs[1]), lim |-> ToNumber(n2.vs[1]),
                                         step |-> ToNumber(n3.vs[1])])
          [] ~st.err /\ s[1] = "forin" ->
               Loop(vals.st, env, s, [f |-> at(1), s |-> at(2), c |-> at(3)])
          [] ~st.err /\ s[1] = "localfunc" ->
               Done([fun.st EXCEPT !.vars[self.env[s[2]]] = fun.vs[1]], [env EXCEPT !.v = self.env])
          [] ~st.err /\ s[1] = "funcstat" ->
               Done(IF fc.st.err THEN fc.st ELSE Assign(fc.st, env, ft.to, fc.vs[1]), env)
          [] ~st.err /\ s[1] = "return" -> [st |-> ret.st, env |-> env, go |-> "return", vs |-> ret.vs]
          [] ~st.err /\ s[1] = "break" -> [Done(st, env) EXCEPT !.go = "break"]

Block(st, env, b) ==
    FoldLeft(LAMBDA r, s : IF r.go # "next" THEN r ELSE Exec(r.st, r.env, s), Done(st, env), b)

Meaning(s) ==
    LET st == [trace |-> <<>>, vars |-> <<>>, cl |-> <<"main">>, tabs |-> <<>>,
               globals |-> Globals, err |-> FALSE]
        r  == Block(st, [v |-> <<>>, dots |-> ChunkArgs], s)
    IN  [trace |-> r.st.trace, err |-> r.st.err, vs |-> r.vs]

-----------------------------------------------------------------------------
\* The assertions in the parser hold for every program, and the code checker
\* accepts the code: registers are freed in order, jump lists are closed, every
\* operand is in range.
CodeAccepted == ~m.bad

\* What the machine has done so far is a beginning of what the program means,
\* and when it ends it has done all of it, with the same results or an error
\* at the same point.
RunsAsWritten ==
    LET w == Meanings[src]
    IN  /\ IsPrefix(m.trace, w.trace)
        /\ m.st = "done"  => m.trace = w.trace /\ ~w.err /\ m.res = w.vs
        /\ m.st = "error" => m.trace = w.trace /\ w.err

\* top is the end of the frame, but between an instruction that leaves an open
\* number of values and the one that takes them.
TopInPlace == m.st = "running" => m.top = fr.top \/ checkopenop(i0)

\* Closures share a variable while it lives: no two open upvalues are for the
\* same position, and none is left open in a frame that has gone.
UpvaluesShared ==
    \A c, d \in DOMAIN m.cells : m.cells[c].open =>
        /\ m.st = "running" => m.cells[c].at < fr.top
        /\ m.st = "done" => FALSE
        /\ c # d /\ m.cells[d].open => m.cells[c].at # m.cells[d].at

\* The compiler is right about every program: it makes code without breaking its own
\* assertions, the checker of ldebug.c accepts the code, and the code does what the
\* text says (luaY_parser, luaG_checkcode, luaV_execute).
CompiledRight == CodeAccepted /\ RunsAsWritten

\* The stack is in order between any two instructions: its top and the upvalues that
\* point into it (luaD_poscall, luaF_findupval, luaF_close).
FramesInPlace == TopInPlace /\ UpvaluesShared
=============================================================================
