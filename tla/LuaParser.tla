----------------------------- MODULE LuaParser ------------------------------
(***************************************************************************)
(* The parser of the interpreter (lparser.c), which calls the code         *)
(* generator as it reads.                                                  *)
(*                                                                         *)
(* The source is a nested sequence of statements and expressions, whose    *)
(* words the lexer has told apart already; an expression is still flat: a  *)
(* sequence of operands and operators, and the parser finds out how they   *)
(* bind.  The FuncState of the enclosing function is fs.prev.              *)
(***************************************************************************)
EXTENDS LuaCode

hasmultret(k) == k \in {"VCALL", "VVARARG"}

\* open_func
NoFunc == [code |-> <<>>]
open_func(prev) ==
    [prev |-> prev, code |-> <<>>, k |-> <<>>, p |-> <<>>, jpc |-> NO_JUMP, lasttarget |-> -1,
     freereg |-> 0, nactvar |-> 0, actvar |-> <<>>, maxstacksize |-> 2, numparams |-> 0,
     isvararg |-> FALSE, hasarg |-> FALSE, needsarg |-> FALSE, upvalues |-> <<>>, bl |-> <<>>,
     bad |-> FALSE, err |-> FALSE]

\* new_localvar for each of names, then adjustlocalvars
new_localvars(fs, names)   == [fs EXCEPT !.actvar = @ \o names]
adjustlocalvars(fs, nvars) == [fs EXCEPT !.nactvar = @ + nvars]
removevars(fs, level) == [fs EXCEPT !.nactvar = level, !.actvar = SubSeq(@, 1, level)]

searchvar(fs, n) ==
    LET at == {i \in 1..fs.nactvar : fs.actvar[i] = n}
    IN  IF at = {} THEN -1 ELSE (CHOOSE i \in at : \A j \in at : j <= i) - 1

\* markupval: the innermost block that has the variable
markupval(fs, level) ==
    LET has == {i \in 1..Len(fs.bl) : fs.bl[i].nactvar <= level}
    IN  IF has = {} THEN fs
        ELSE [fs EXCEPT !.bl[CHOOSE i \in has : \A j \in has : j <= i].upval = TRUE]

indexupvalue(fs, v) ==
    LET u  == [k |-> v.k, info |-> v.info]
        at == {i \in 1..Len(fs.upvalues) : fs.upvalues[i] = u}
    IN  IF at # {} THEN On(fs, (CHOOSE i \in at : TRUE) - 1)
        ELSE On([fs EXCEPT !.upvalues = Append(@, u)], Len(fs.upvalues))

RECURSIVE singlevaraux(_, _, _)
singlevaraux(fs, n, base) ==
    LET v == searchvar(fs, n)
        o == singlevaraux(fs.prev, n, FALSE)
        u == indexupvalue([fs EXCEPT !.prev = o.fs], o.e)
    IN  IF fs = NoFunc THEN On(fs, init_exp("VGLOBAL", NO_REG))
        ELSE IF v >= 0 THEN On(IF base THEN fs ELSE markupval(fs, v), init_exp("VLOCAL", v))
        ELSE IF o.e.k = "VGLOBAL" THEN On(fs, o.e)
        ELSE On(u.fs, [o.e EXCEPT !.info = u.e, !.k = "VUPVAL"])

singlevar(fs, n) ==
    LET v == singlevaraux(fs, n, TRUE)
        k == addk(v.fs, Str(<<n>>))
    IN  IF v.e.k = "VGLOBAL" THEN On(k.fs, [v.e EXCEPT !.info = k.e]) ELSE v

\* codestring, checkname
codestring(fs, s) == LET k == addk(fs, Str(s)) IN On(k.fs, init_exp("VK", k.e))

adjust_assign(fs, nvars, nexps, e) ==
    LET extra == nvars - nexps
        more  == IF extra + 1 < 0 THEN 0 ELSE extra + 1
        g     == luaK_setreturns(fs, e, more)
        h     == IF e.k # "VVOID" THEN luaK_exp2nextreg(fs, e).fs ELSE fs
    IN  IF hasmultret(e.k) THEN IF more > 1 THEN luaK_reserveregs(g, more - 1) ELSE g
        ELSE IF extra > 0 THEN luaK_nil(luaK_reserveregs(h, extra), h.freereg, extra) ELSE h

enterblock(fs, isbreakable) ==
    lua_assert([fs EXCEPT !.bl = Append(@, [breaklist |-> NO_JUMP, nactvar |-> fs.nactvar,
                                            upval |-> FALSE, isbreakable |-> isbreakable])],
               fs.freereg = fs.nactvar)

leaveblock(fs) ==
    LET bl == Last(fs.bl)
        g  == removevars([fs EXCEPT !.bl = Front(@)], bl.nactvar)
        h  == IF bl.upval THEN luaK_codeABC(g, "CLOSE", bl.nactvar, 0, 0) ELSE g
    IN  luaK_patchtohere(lua_assert([h EXCEPT !.freereg = bl.nactvar],
                                    ~(bl.isbreakable /\ bl.upval)), bl.breaklist)

\* close_func; the Proto
close_func(fs) ==
    LET g == luaK_ret(removevars(fs, 0), 0, 0)
    IN  [code |-> g.code, k |-> g.k, p |-> g.p, maxstacksize |-> g.maxstacksize,
         nups |-> Len(g.upvalues), numparams |-> g.numparams, isvararg |-> g.isvararg,
         hasarg |-> g.hasarg, needsarg |-> g.needsarg]

\* The instructions after CLOSURE say where the upvalues come from.
pushclosure(fs, func) ==
    LET g == luaK_codeABC([fs EXCEPT !.p = Append(@, close_func(func))], "CLOSURE", 0, Len(fs.p), 0)
    IN  On(FoldLeft(LAMBDA h, u : luaK_codeABC(h, IF u.k = "VLOCAL" THEN "MOVE" ELSE "GETUPVAL",
                                               0, u.info, 0), g, func.upvalues),
           init_exp("VRELOCABLE", pc(fs)))
-----------------------------------------------------------------------------
(***************************************************************************)
(* Expressions                                                             *)
(***************************************************************************)

Left  == [o \in {"+", "-", "*", "%", "..", "==", "~=", "<", "<=", ">", ">=", "and", "or"} |->
            CASE o \in {"+", "-"} -> 6 [] o \in {"*", "%"} -> 7 [] o = ".." -> 5
              [] o = "and" -> 2 [] o = "or" -> 1 [] OTHER -> 3]
Right == [Left EXCEPT ![".."] = 4]
UNARY_PRIORITY == 8
Unary == {"not", "neg", "len"}

\* The words of an expression: an operator is a word of its own.
IsOp(w) == w[1] = "op"

RECURSIVE subexpr(_, _, _), simpleexp(_, _), chunk(_, _), explist1(_, _)

expr(fs, words) == LET r == subexpr(fs, words, 0) IN On(r.fs, r.e)

\* The operators that bind stronger than limit; rest: the words not read.
RECURSIVE Operators(_, _, _, _)
Operators(fs, v, rest, limit) ==
    IF rest = <<>> \/ Left[Head(rest)[2]] <= limit THEN [fs |-> fs, e |-> v, rest |-> rest]
    ELSE LET op == Head(rest)[2]
             i  == luaK_infix(fs, op, v)
             r  == subexpr(i.fs, Tail(rest), Right[op])
             p  == luaK_posfix(r.fs, op, i.e, r.e)
         IN  IF p.fs.err THEN [fs |-> p.fs, e |-> p.e, rest |-> <<>>]
             ELSE Operators(p.fs, p.e, r.rest, limit)

subexpr(fs, words, limit) ==
    LET w == Head(words)
        u == subexpr(fs, Tail(words), UNARY_PRIORITY)
        p == luaK_prefix(u.fs, w[2], u.e)
        s == simpleexp(fs, w)
    IN  IF IsOp(w) THEN Operators(p.fs, p.e, u.rest, limit)
        ELSE Operators(s.fs, s.e, Tail(words), limit)

explist1(fs, exps) ==
    LET v == expr(fs, Head(exps))
        n == luaK_exp2nextreg(v.fs, v.e)
    IN  IF Len(exps) = 1 THEN v ELSE IF n.fs.err THEN n ELSE explist1(n.fs, Tail(exps))

\* recfield
recfield(fs, t, key, val) ==
    LET x == expr(fs, key)
        v == luaK_exp2val(x.fs, x.e)
        k == luaK_exp2RK(v.fs, v.e)
        y == expr(k.fs, val)
        r == luaK_exp2RK(y.fs, y.e)
    IN  [luaK_codeABC(r.fs, "SETTABLE", t, RK(k.e), RK(r.e)) EXCEPT !.freereg = fs.freereg]

\* ConsControl: v, nh, na and tostore, with the FuncState.
closelistfield(cc, t) ==
    LET n == luaK_exp2nextreg(cc.fs, cc.v).fs
        full == cc.tostore = LFIELDS_PER_FLUSH
    IN  IF cc.v.k = "VVOID" THEN cc
        ELSE [cc EXCEPT !.fs = IF full THEN luaK_setlist(n, t, cc.na, cc.tostore) ELSE n,
                        !.v.k = "VVOID", !.tostore = IF full THEN 0 ELSE @]

lastlistfield(cc, t) ==
    IF cc.tostore = 0 THEN cc.fs
    ELSE IF hasmultret(cc.v.k)
    THEN luaK_setlist(luaK_setreturns(cc.fs, cc.v, LUA_MULTRET), t, cc.na, LUA_MULTRET)
    ELSE luaK_setlist(IF cc.v.k = "VVOID" THEN cc.fs ELSE luaK_exp2nextreg(cc.fs, cc.v).fs,
                      t, cc.na, cc.tostore)

constructor(fs, items) ==
    LET t  == luaK_exp2nextreg(luaK_codeABC(fs, "NEWTABLE", 0, 0, 0),
                               init_exp("VRELOCABLE", pc(fs)))
        field(cc0, item) ==
            LET cc == closelistfield(cc0, t.e.info)
                v  == expr(cc.fs, item[2])
            IN  IF item[1] = "pair"
                THEN [cc EXCEPT !.fs = recfield(cc.fs, t.e.info, item[2], item[3]), !.nh = @ + 1]
                ELSE [cc EXCEPT !.fs = v.fs, !.v = v.e, !.na = @ + 1, !.tostore = @ + 1]
        cc == FoldLeft(field, [fs |-> t.fs, v |-> init_exp("VVOID", 0), nh |-> 0, na |-> 0,
                               tostore |-> 0], items)
        na == IF cc.tostore > 0 /\ hasmultret(cc.v.k) THEN cc.na - 1 ELSE cc.na
    IN  On(SETARG_C(SETARG_B(lastlistfield(cc, t.e.info), pc(fs), na), pc(fs), cc.nh), t.e)

parlist(fs, params, dots) ==
    LET g == [new_localvars(fs, params \o IF dots THEN <<"arg">> ELSE <<>>) EXCEPT
                !.isvararg = dots, !.hasarg = dots, !.needsarg = dots]
        h == adjustlocalvars(g, Len(params) + IF dots THEN 1 ELSE 0)
    IN  luaK_reserveregs([h EXCEPT !.numparams = IF dots THEN h.nactvar - 1 ELSE h.nactvar], h.nactvar)

\* body; fn: parameters, whether there is ..., statements
body(fs, fn, needself) ==
    LET new == IF needself THEN adjustlocalvars(new_localvars(open_func(fs), <<"self">>), 1)
               ELSE open_func(fs)
        f   == chunk(parlist(new, fn[1], fn[2]), fn[3])
    IN  pushclosure([f.prev EXCEPT !.bad = @ \/ f.bad, !.err = @ \/ f.err], f)

funcargs(fs, f, exps) ==
    LET args == explist1(fs, exps)
        open == exps # <<>> /\ hasmultret(args.e.k)
        g    == IF exps = <<>> THEN fs
                ELSE IF open THEN luaK_setreturns(args.fs, args.e, LUA_MULTRET)
                ELSE luaK_exp2nextreg(args.fs, args.e).fs
        n    == IF open THEN LUA_MULTRET ELSE g.freereg - (f.info + 1)
    IN  On([luaK_codeABC(lua_assert(g, f.k = "VNONRELOC"), "CALL", f.info, n + 1, 2)
              EXCEPT !.freereg = f.info + 1],
           init_exp("VCALL", pc(g)))

\* prefixexp and the steps of primaryexp
primaryexp(fs, w) ==
    LET o == simpleexp(fs, w[2])
        r == luaK_exp2anyreg(o.fs, o.e)
        x == expr(r.fs, w[3])
        v == luaK_exp2val(x.fs, x.e)
        c == codestring(o.fs, <<w[3]>>)
        s == luaK_self(c.fs, o.e, c.e)
        n == luaK_exp2nextreg(o.fs, o.e)
        p == expr(fs, w[2])
    IN  CASE w[1] = "name"   -> singlevar(fs, w[2])
          [] w[1] = "paren"  -> luaK_dischargevars(p.fs, p.e)
          [] w[1] = "index"  -> luaK_indexed(v.fs, r.e, v.e)
          [] w[1] = "method" -> funcargs(s.fs, s.e, w[4])
          [] w[1] = "call"   -> funcargs(n.fs, n.e, w[3])

simpleexp(fs, w) ==
    CASE w[1] = "num"   -> On(fs, [init_exp("VKNUM", 0) EXCEPT !.nval = w[2]])
      [] w[1] = "str"   -> codestring(fs, w[2])
      [] w[1] = "nil"   -> On(fs, init_exp("VNIL", 0))
      [] w[1] = "true"  -> On(fs, init_exp("VTRUE", 0))
      [] w[1] = "false" -> On(fs, init_exp("VFALSE", 0))
      [] w[1] = "dots"  ->
           On(luaK_codeABC([fs EXCEPT !.err = @ \/ ~fs.isvararg, !.needsarg = FALSE], "VARARG", 0, 1, 0),
              init_exp("VVARARG", pc(fs)))
      [] w[1] = "table" -> constructor(fs, w[2])
      [] w[1] = "function" -> body(fs, w[2], FALSE)
      [] OTHER          -> primaryexp(fs, w)
-----------------------------------------------------------------------------
(***************************************************************************)
(* Statements                                                              *)
(***************************************************************************)

block(fs, b) == leaveblock(chunk(enterblock(fs, FALSE), b))

\* check_conflict: earlier targets use a copy of the local variable.
check_conflict(fs, lhs, v) ==
    LET extra == fs.freereg
        hit(w)  == w.k = "VINDEXED" /\ (w.info = v.info \/ w.aux = v.info)
        safe(w) == [w EXCEPT !.info = IF @ = v.info THEN extra ELSE @,
                             !.aux = IF @ = v.info THEN extra ELSE @]
    IN  IF \E i \in 1..Len(lhs) : hit(lhs[i])
        THEN [fs |-> luaK_reserveregs(luaK_codeABC(fs, "MOVE", extra, v.info, 0), 1),
              lhs |-> [i \in 1..Len(lhs) |-> IF hit(lhs[i]) THEN safe(lhs[i]) ELSE lhs[i]]]
        ELSE [fs |-> fs, lhs |-> lhs]

\* The left-hand side of an assignment.
Targets(fs, vars) ==
    FoldLeft(LAMBDA a, w : LET v == primaryexp(a.fs, w)
                               c == IF v.e.k = "VLOCAL" THEN check_conflict(v.fs, a.lhs, v.e)
                                    ELSE [fs |-> v.fs, lhs |-> a.lhs]
                           IN  [fs |-> c.fs, lhs |-> Append(c.lhs, v.e)],
             [fs |-> fs, lhs |-> <<>>], vars)

\* Values are stored from the last variable to the first.
assignment(fs, vars, exps) ==
    LET t  == Targets(fs, vars)
        e  == explist1(t.fs, exps)
        nv == Len(vars)
        ne == Len(exps)
        one == luaK_setoneret(e.fs, e.e)
        adj == adjust_assign(e.fs, nv, ne, e.e)
        g   == IF nv = ne THEN luaK_storevar(one.fs, Last(t.lhs), one.e)
               ELSE IF ne > nv THEN [adj EXCEPT !.freereg = @ - (ne - nv)] ELSE adj
        store(h, v) == luaK_storevar(h, v, init_exp("VNONRELOC", h.freereg - 1))
    IN  FoldLeft(store, g, Reverse(IF nv = ne THEN Front(t.lhs) ELSE t.lhs))

\* cond; l: the jumps for a false condition
cond(fs, words) ==
    LET v == expr(fs, words)
        g == luaK_goiftrue(v.fs, IF v.e.k = "VNIL" THEN [v.e EXCEPT !.k = "VFALSE"] ELSE v.e)
    IN  [fs |-> g.fs, l |-> g.e.f]

breakstat(fs) ==
    LET loops == {i \in 1..Len(fs.bl) : fs.bl[i].isbreakable}
        at == CHOOSE i \in loops : \A j \in loops : j <= i
        g  == IF \E i \in (at + 1)..Len(fs.bl) : fs.bl[i].upval
              THEN luaK_codeABC(fs, "CLOSE", fs.bl[at].nactvar, 0, 0) ELSE fs
        j  == luaK_jump(g)
        c  == luaK_concat(j.fs, j.fs.bl[at].breaklist, j.l)
    IN  IF loops = {} THEN [fs EXCEPT !.err = TRUE]
        ELSE [c.fs EXCEPT !.bl[at].breaklist = c.l]

\* A jump back to a position
Back(fs, target) == LET j == luaK_jump(fs) IN luaK_patchlist(j.fs, j.l, target)

whilestat(fs, words, b) ==
    LET c == cond(luaK_getlabel(fs), words)
    IN  luaK_patchtohere(leaveblock(Back(block(enterblock(c.fs, TRUE), b), pc(fs))), c.l)

repeatstat(fs, b, words) ==
    LET c == cond(chunk(enterblock(enterblock(luaK_getlabel(fs), TRUE), FALSE), b), words)
    IN  leaveblock(IF ~Last(c.fs.bl).upval
                   THEN luaK_patchlist(leaveblock(c.fs), c.l, pc(fs))
                   ELSE Back(leaveblock(luaK_patchtohere(breakstat(c.fs), c.l)), pc(fs)))

\* exp1
exp1(fs, words) == LET v == expr(fs, words) IN luaK_exp2nextreg(v.fs, v.e).fs

forbody(fs, base, nvars, isnum, b) ==
    LET ctl  == adjustlocalvars(fs, 3)
        prep == IF isnum THEN [fs |-> luaK_codeABC(ctl, "FORPREP", base, NO_JUMP, 0), l |-> pc(ctl)]
                ELSE luaK_jump(ctl)
        in   == luaK_reserveregs(adjustlocalvars(enterblock(prep.fs, FALSE), nvars), nvars)
        out  == luaK_patchtohere(leaveblock(block(in, b)), prep.l)
        end  == IF isnum THEN luaK_codeABC(out, "FORLOOP", base, NO_JUMP, 0)
                ELSE luaK_codeABC(out, "TFORLOOP", base, 0, nvars)
    IN  IF isnum THEN luaK_patchlist(end, pc(out), prep.l + 1) ELSE Back(end, prep.l + 1)

fornum(fs, x, init, limit, step, b) ==
    LET v == exp1(exp1(fs, init), limit)
        k == addk(v, Num(1))
        s == IF step # <<>> THEN exp1(v, step)
             ELSE luaK_reserveregs(luaK_codeABC(k.fs, "LOADK", v.freereg, k.e, 0), 1)
    IN  forbody(new_localvars(s, <<"(for index)", "(for limit)", "(for step)", x>>),
                fs.freereg, 1, TRUE, b)

forlist(fs, names, exps, b) ==
    LET e == explist1(fs, exps)
        v == luaK_checkstack(adjust_assign(e.fs, 3, Len(exps), e.e), 3)
    IN  forbody(new_localvars(v, <<"(for generator)", "(for state)", "(for control)">> \o names),
                fs.freereg, Len(names), FALSE, b)

\* ifstat: clauses <<condition, block>>; otherwise: <<block>> or <<>>
ifstat(fs, clauses, otherwise) ==
    LET then(g, c) == LET t == cond(g, c[1]) IN [fs |-> block(t.fs, c[2]), l |-> t.l]
        escape(a) == LET j == luaK_jump(a.fs)
                         c == luaK_concat(j.fs, a.esc, j.l)
                     IN  [fs |-> luaK_patchtohere(c.fs, a.l), esc |-> c.l]
        step(a, c) == LET x == escape(a)
                          t == then(x.fs, c)
                      IN  [fs |-> t.fs, l |-> t.l, esc |-> x.esc]
        first == then(fs, Head(clauses))
        a == FoldLeft(step, [fs |-> first.fs, l |-> first.l, esc |-> NO_JUMP], Tail(clauses))
        x == escape(a)
        c == luaK_concat(a.fs, a.esc, a.l)
    IN  IF otherwise = <<>> THEN luaK_patchtohere(c.fs, c.l)
        ELSE luaK_patchtohere(block(x.fs, otherwise[1]), x.esc)

localfunc(fs, x, fn) ==
    LET g == adjustlocalvars(luaK_reserveregs(new_localvars(fs, <<x>>), 1), 1)
        b == body(g, fn, FALSE)
    IN  luaK_storevar(b.fs, init_exp("VLOCAL", fs.freereg), b.e)

\* The variables are in scope after the expressions.
localstat(fs, names, exps) ==
    LET e == IF exps = <<>> THEN On(fs, init_exp("VVOID", 0)) ELSE explist1(fs, exps)
        g == adjust_assign(e.fs, Len(names), Len(exps), e.e)
    IN  adjustlocalvars(new_localvars(g, names), Len(names))

\* funcstat, funcname
funcstat(fs, var, needself, fn) ==
    LET v == primaryexp(fs, var)
        b == body(v.fs, fn, needself)
    IN  luaK_storevar(b.fs, v.e, b.e)

retstat(fs, exps) ==
    LET e == explist1(fs, exps)
        m == luaK_setreturns(e.fs, e.e, LUA_MULTRET)
        tail == e.e.k = "VCALL" /\ Len(exps) = 1
        any == luaK_exp2anyreg(e.fs, e.e)
        nxt == luaK_exp2nextreg(e.fs, e.e).fs
    IN  CASE exps = <<>> -> luaK_ret(fs, 0, 0)
          [] exps # <<>> /\ hasmultret(e.e.k) ->
               luaK_ret(IF tail THEN lua_assert([m EXCEPT !.code[e.e.info + 1].op = "TAILCALL"],
                                                At(m, e.e.info).a = fs.nactvar) ELSE m,
                        fs.nactvar, LUA_MULTRET)
          [] OTHER -> IF Len(exps) = 1 THEN luaK_ret(any.fs, any.e.info, 1)
                      ELSE luaK_ret(lua_assert(nxt, Len(exps) = nxt.freereg - fs.nactvar),
                                    fs.nactvar, Len(exps))

statement(fs, s) ==
    LET call == primaryexp(fs, s[2])
    IN  CASE s[1] = "if"        -> ifstat(fs, s[2], s[3])
          [] s[1] = "while"     -> whilestat(fs, s[2], s[3])
          [] s[1] = "do"        -> block(fs, s[2])
          [] s[1] = "fornum"    -> leaveblock(fornum(enterblock(fs, TRUE), s[2], s[3], s[4], s[5], s[6]))
          [] s[1] = "forin"     -> leaveblock(forlist(enterblock(fs, TRUE), s[2], s[3], s[4]))
          [] s[1] = "repeat"    -> repeatstat(fs, s[2], s[3])
          [] s[1] = "funcstat"  -> funcstat(fs, s[2], s[3], s[4])
          [] s[1] = "localfunc" -> localfunc(fs, s[2], s[3])
          [] s[1] = "local"     -> localstat(fs, s[2], s[3])
          [] s[1] = "return"    -> retstat(fs, s[2])
          [] s[1] = "break"     -> breakstat(fs)
          [] s[1] = "callstat"  -> SETARG_C(call.fs, call.e.info, 1)
          [] s[1] = "assign"    -> assignment(fs, s[2], s[3])

\* An error ends the parser.
chunk(fs, stats) ==
    LET h == statement(fs, Head(stats))
        g == [lua_assert(h, h.maxstacksize >= h.freereg /\ h.freereg >= h.nactvar)
                EXCEPT !.freereg = h.nactvar]
    IN  IF stats = <<>> \/ fs.err THEN fs
        ELSE IF g.err THEN g ELSE chunk(g, Tail(stats))

\* luaY_parser; f: the Proto
luaY_parser(stats) ==
    LET fs == chunk([open_func(NoFunc) EXCEPT !.isvararg = TRUE], stats)
    IN  [f |-> close_func(fs), bad |-> fs.bad \/ fs.bl # <<>> \/ fs.upvalues # <<>>, err |-> fs.err]
=============================================================================
