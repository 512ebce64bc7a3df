------------------------------ MODULE LuaCode -------------------------------
(***************************************************************************)
(* The code generator of the interpreter (lcode.c).                        *)
(*                                                                         *)
(* A FuncState is a record fs, an expdesc a record e, and a function that   *)
(* changes both returns [fs, e].  Positions in the code count from 0.  Jumps *)
(* that wait for their target form lists that go through the instructions  *)
(* themselves, as in the source.                                           *)
(***************************************************************************)
EXTENDS Integers, Sequences, SequencesExt

CONSTANTS
    MAXSTACK,           \* registers of a function
    MAXINDEXRK,         \* constants that an operand can name
    BITRK,              \* added to the index of a constant in an operand
    LFIELDS_PER_FLUSH   \* list items collected before a SETLIST

ASSUME CodeAssumption ==
    /\ {MAXSTACK, MAXINDEXRK, BITRK, LFIELDS_PER_FLUSH} \subseteq Nat
    /\ MAXSTACK <= BITRK /\ MAXINDEXRK < BITRK /\ LFIELDS_PER_FLUSH > 0

NO_JUMP == -1
NO_REG  == BITRK - 1
LUA_MULTRET == -1

Nil  == <<"nil">>
Bool(b) == <<"bool", b>>
Num(n)  == <<"num", n>>
Str(s)  == <<"str", s>>

ISK(r)    == r >= BITRK
INDEXK(r) == r - BITRK
RKASK(k)  == k + BITRK

\* luaP_opmodes: test, sets A, modes of B and C, format
Modes(o) ==
    CASE o \in {"MOVE", "LOADNIL", "UNM", "NOT", "LEN"} -> <<FALSE, TRUE, "R", "N", "ABC">>
      [] o \in {"LOADK", "GETGLOBAL"}     -> <<FALSE, TRUE, "K", "N", "ABx">>
      [] o = "SETGLOBAL"                  -> <<FALSE, FALSE, "K", "N", "ABx">>
      [] o \in {"LOADBOOL", "NEWTABLE", "CALL", "TAILCALL"} -> <<FALSE, TRUE, "U", "U", "ABC">>
      [] o \in {"GETUPVAL", "VARARG"}     -> <<FALSE, TRUE, "U", "N", "ABC">>
      [] o \in {"SETUPVAL", "RETURN"}     -> <<FALSE, FALSE, "U", "N", "ABC">>
      [] o \in {"GETTABLE", "SELF"}       -> <<FALSE, TRUE, "R", "K", "ABC">>
      [] o = "SETTABLE"                   -> <<FALSE, FALSE, "K", "K", "ABC">>
      [] o \in {"ADD", "SUB", "MUL", "MOD"} -> <<FALSE, TRUE, "K", "K", "ABC">>
      [] o = "CONCAT"                     -> <<FALSE, TRUE, "R", "R", "ABC">>
      [] o = "JMP"                        -> <<FALSE, FALSE, "R", "N", "AsBx">>
      [] o \in {"EQ", "LT", "LE"}         -> <<TRUE, FALSE, "K", "K", "ABC">>
      [] o \in {"TEST", "TESTSET"}        -> <<TRUE, TRUE, "R", "U", "ABC">>
      [] o \in {"FORLOOP", "FORPREP"}     -> <<FALSE, TRUE, "R", "N", "AsBx">>
      [] o = "TFORLOOP"                   -> <<TRUE, FALSE, "N", "U", "ABC">>
      [] o = "SETLIST"                    -> <<FALSE, FALSE, "U", "U", "ABC">>
      [] o = "CLOSE"                      -> <<FALSE, FALSE, "N", "N", "ABC">>
      [] o = "CLOSURE"                    -> <<FALSE, TRUE, "U", "N", "ABx">>
testTMode(o) == Modes(o)[1]

Ins(o, a, b, c) == [op |-> o, a |-> a, b |-> b, c |-> c]
pc(fs)    == Len(fs.code)
At(fs, p) == fs.code[p + 1]
SETARG_A(fs, p, v) == [fs EXCEPT !.code[p + 1].a = v]
SETARG_B(fs, p, v) == [fs EXCEPT !.code[p + 1].b = v]
SETARG_C(fs, p, v) == [fs EXCEPT !.code[p + 1].c = v]

On(fs, e) == [fs |-> fs, e |-> e]
lua_assert(fs, ok) == [fs EXCEPT !.bad = @ \/ ~ok]

init_exp(k, i) == [k |-> k, info |-> i, aux |-> 0, nval |-> 0, t |-> NO_JUMP, f |-> NO_JUMP]
hasjumps(e)  == e.t # e.f
isnumeral(e) == e.k = "VKNUM" /\ e.t = NO_JUMP /\ e.f = NO_JUMP
-----------------------------------------------------------------------------
(***************************************************************************)
(* Jump lists                                                              *)
(***************************************************************************)

fixjump(fs, p, dest) ==
    SETARG_B(lua_assert(fs, dest # NO_JUMP), p, dest - (p + 1))

getjump(fs, p) == IF At(fs, p).b = NO_JUMP THEN NO_JUMP ELSE p + 1 + At(fs, p).b

RECURSIVE Jumps(_, _)
Jumps(fs, list) ==
    IF list = NO_JUMP THEN <<>> ELSE <<list>> \o Jumps(fs, getjump(fs, list))

getjumpcontrol(fs, p) ==
    IF p >= 1 /\ testTMode(At(fs, p - 1).op) THEN p - 1 ELSE p

need_value(fs, list) ==
    \E p \in Range(Jumps(fs, list)) : At(fs, getjumpcontrol(fs, p)).op # "TESTSET"

\* A TESTSET gets its register, or becomes a TEST when the value is not needed.
patchtestreg(fs, node, reg) ==
    LET i == getjumpcontrol(fs, node)
    IN  IF reg # NO_REG /\ reg # At(fs, i).b THEN SETARG_A(fs, i, reg)
        ELSE [fs EXCEPT !.code[i + 1] = Ins("TEST", @.b, 0, @.c)]

IsTestSet(fs, node) == At(fs, getjumpcontrol(fs, node)).op = "TESTSET"

removevalues(fs, list) ==
    FoldLeft(LAMBDA g, p : IF IsTestSet(g, p) THEN patchtestreg(g, p, NO_REG) ELSE g,
             fs, Jumps(fs, list))

patchlistaux(fs, list, vtarget, reg, dtarget) ==
    FoldLeft(LAMBDA g, p : IF IsTestSet(g, p) THEN fixjump(patchtestreg(g, p, reg), p, vtarget)
                           ELSE fixjump(g, p, dtarget),
             fs, Jumps(fs, list))

dischargejpc(fs) ==
    [patchlistaux(fs, fs.jpc, pc(fs), NO_REG, pc(fs)) EXCEPT !.jpc = NO_JUMP]

\* luaK_concat returns the joined list as l.
luaK_concat(fs, l1, l2) ==
    IF l2 = NO_JUMP THEN [fs |-> fs, l |-> l1]
    ELSE IF l1 = NO_JUMP THEN [fs |-> fs, l |-> l2]
    ELSE [fs |-> fixjump(fs, Last(Jumps(fs, l1)), l2), l |-> l1]

luaK_getlabel(fs) == [fs EXCEPT !.lasttarget = pc(fs)]

luaK_patchtohere(fs, list) ==
    LET c == luaK_concat(luaK_getlabel(fs), fs.jpc, list)
    IN  [c.fs EXCEPT !.jpc = c.l]

luaK_patchlist(fs, list, target) ==
    IF target = pc(fs) THEN luaK_patchtohere(fs, list)
    ELSE patchlistaux(lua_assert(fs, target < pc(fs)), list, target, NO_REG, target)

\* luaK_code: jumps to here get their target as the next instruction is known.
luaK_codeABC(fs, o, a, b, c) == [dischargejpc(fs) EXCEPT !.code = Append(@, Ins(o, a, b, c))]

luaK_jump(fs) ==
    luaK_concat(luaK_codeABC([fs EXCEPT !.jpc = NO_JUMP], "JMP", 0, NO_JUMP, 0), pc(fs), fs.jpc)

condjump(fs, o, a, b, c) == luaK_jump(luaK_codeABC(fs, o, a, b, c))

luaK_ret(fs, first, nret) == luaK_codeABC(fs, "RETURN", first, nret + 1, 0)

\* luaK_nil that joins two LOADNILs also across a jump target.
luaK_nilJoins(fs, from, n) ==
    LET last == At(fs, pc(fs) - 1)
    IN  IF pc(fs) = 0 /\ from >= fs.nactvar THEN fs
        ELSE IF pc(fs) > 0 /\ last.op = "LOADNIL" /\ last.a <= from /\ from <= last.b + 1
        THEN IF from + n - 1 > last.b THEN SETARG_B(fs, pc(fs) - 1, from + n - 1) ELSE fs
        ELSE luaK_codeABC(fs, "LOADNIL", from, from + n - 1, 0)

luaK_nil(fs, from, n) ==
    LET last == At(fs, pc(fs) - 1)
        here == pc(fs) > fs.lasttarget
    IN  IF here /\ pc(fs) = 0 /\ from >= fs.nactvar THEN fs
        ELSE IF here /\ pc(fs) > 0 /\ last.op = "LOADNIL" /\ last.a <= from /\ from <= last.b + 1
        THEN IF from + n - 1 > last.b THEN SETARG_B(fs, pc(fs) - 1, from + n - 1) ELSE fs
        ELSE luaK_codeABC(fs, "LOADNIL", from, from + n - 1, 0)
-----------------------------------------------------------------------------
(***************************************************************************)
(* Registers and constants                                                 *)
(***************************************************************************)

luaK_checkstack(fs, n) ==
    IF fs.freereg + n <= fs.maxstacksize THEN fs
    ELSE [fs EXCEPT !.maxstacksize = fs.freereg + n, !.err = @ \/ fs.freereg + n >= MAXSTACK]

luaK_reserveregs(fs, n) == [luaK_checkstack(fs, n) EXCEPT !.freereg = @ + n]

\* Temporary registers are freed in the order opposite to that of their use.
freereg(fs, reg) ==
    IF ISK(reg) \/ reg < fs.nactvar THEN fs
    ELSE lua_assert([fs EXCEPT !.freereg = @ - 1], reg = fs.freereg - 1)

freeexp(fs, e) == IF e.k = "VNONRELOC" THEN freereg(fs, e.info) ELSE fs

\* addk: the index of the constant, as e.
addk(fs, v) ==
    LET known == {i \in 1..Len(fs.k) : fs.k[i] = v}
    IN  IF known # {} THEN On(fs, (CHOOSE i \in known : TRUE) - 1)
        ELSE On([fs EXCEPT !.k = Append(@, v)], Len(fs.k))

luaK_setreturns(fs, e, nresults) ==
    CASE e.k = "VCALL"   -> SETARG_C(fs, e.info, nresults + 1)
      [] e.k = "VVARARG" -> luaK_reserveregs(
                              SETARG_A(SETARG_B(fs, e.info, nresults + 1), e.info, fs.freereg), 1)
      [] OTHER           -> fs

luaK_setoneret(fs, e) ==
    CASE e.k = "VCALL"   -> On(fs, [e EXCEPT !.k = "VNONRELOC", !.info = At(fs, e.info).a])
      [] e.k = "VVARARG" -> On(SETARG_B(fs, e.info, 2), [e EXCEPT !.k = "VRELOCABLE"])
      [] OTHER           -> On(fs, e)

\* An instruction whose target register is open: e stands for its result.
Relocatable(fs, e, o, b, c) ==
    On(luaK_codeABC(fs, o, 0, b, c), [e EXCEPT !.k = "VRELOCABLE", !.info = pc(fs)])

luaK_dischargevars(fs, e) ==
    CASE e.k = "VLOCAL"   -> On(fs, [e EXCEPT !.k = "VNONRELOC"])
      [] e.k = "VUPVAL"   -> Relocatable(fs, e, "GETUPVAL", e.info, 0)
      [] e.k = "VGLOBAL"  -> Relocatable(fs, e, "GETGLOBAL", e.info, 0)
      [] e.k = "VINDEXED" -> Relocatable(freereg(freereg(fs, e.aux), e.info), e,
                                         "GETTABLE", e.info, e.aux)
      [] OTHER            -> luaK_setoneret(fs, e)

discharge2reg(fs, ex, reg) ==
    LET d == luaK_dischargevars(fs, ex)
        g == d.fs
        e == d.e
        k == addk(g, Num(e.nval))
        code == CASE e.k = "VNIL" -> luaK_nil(g, reg, 1)
                  [] e.k \in {"VFALSE", "VTRUE"} ->
                       luaK_codeABC(g, "LOADBOOL", reg, IF e.k = "VTRUE" THEN 1 ELSE 0, 0)
                  [] e.k = "VK" -> luaK_codeABC(g, "LOADK", reg, e.info, 0)
                  [] e.k = "VKNUM" -> luaK_codeABC(k.fs, "LOADK", reg, k.e, 0)
                  [] e.k = "VRELOCABLE" -> SETARG_A(g, e.info, reg)
                  [] e.k = "VNONRELOC" ->
                       IF reg # e.info THEN luaK_codeABC(g, "MOVE", reg, e.info, 0) ELSE g
    IN  IF e.k \in {"VVOID", "VJMP"} THEN d
        ELSE On(code, [e EXCEPT !.info = reg, !.k = "VNONRELOC"])

discharge2anyreg(fs, e) ==
    IF e.k = "VNONRELOC" THEN On(fs, e)
    ELSE discharge2reg(luaK_reserveregs(fs, 1), e, fs.freereg)

\* exp2reg when no test of the expression leaves its value in the register.
LoadBools(fs, e, reg) ==
    LET j  == IF e.k = "VJMP" THEN [fs |-> fs, l |-> NO_JUMP] ELSE luaK_jump(fs)
        pf == luaK_codeABC(luaK_getlabel(j.fs), "LOADBOOL", reg, 0, 1)
        pt == luaK_codeABC(luaK_getlabel(pf), "LOADBOOL", reg, 1, 0)
    IN  [fs |-> luaK_patchtohere(pt, j.l), f |-> pc(j.fs), t |-> pc(pf)]

\* The value goes to reg, whichever of the jumps in the lists t and f is taken.
exp2reg(fs, ex, reg) ==
    LET d == discharge2reg(fs, ex, reg)
        c == IF d.e.k = "VJMP" THEN luaK_concat(d.fs, d.e.t, d.e.info)
             ELSE [fs |-> d.fs, l |-> d.e.t]
        e == [d.e EXCEPT !.t = c.l]
        b == IF need_value(c.fs, e.t) \/ need_value(c.fs, e.f) THEN LoadBools(c.fs, e, reg)
             ELSE [fs |-> c.fs, f |-> NO_JUMP, t |-> NO_JUMP]
        g == luaK_getlabel(b.fs)
        pf == patchlistaux(g, e.f, pc(g), reg, b.f)
    IN  On(IF hasjumps(e) THEN patchlistaux(pf, e.t, pc(g), reg, b.t) ELSE c.fs,
           init_exp("VNONRELOC", reg))

luaK_exp2nextreg(fs, ex) ==
    LET d == luaK_dischargevars(fs, ex)
        g == luaK_reserveregs(freeexp(d.fs, d.e), 1)
    IN  exp2reg(g, d.e, g.freereg - 1)

luaK_exp2anyreg(fs, ex) ==
    LET d == luaK_dischargevars(fs, ex)
    IN  IF d.e.k = "VNONRELOC" /\ ~hasjumps(d.e) THEN d
        ELSE IF d.e.k = "VNONRELOC" /\ d.e.info >= d.fs.nactvar
        THEN exp2reg(d.fs, d.e, d.e.info)
        ELSE luaK_exp2nextreg(d.fs, d.e)

luaK_exp2val(fs, e) ==
    IF hasjumps(e) THEN luaK_exp2anyreg(fs, e) ELSE luaK_dischargevars(fs, e)

\* The value of luaK_exp2RK is RK(e) of the result.
RK(e) == IF e.k = "VK" THEN RKASK(e.info) ELSE e.info
luaK_exp2RK(fs, ex) ==
    LET v == luaK_exp2val(fs, ex)
        k == addk(v.fs, CASE v.e.k = "VNIL" -> Nil [] v.e.k = "VKNUM" -> Num(v.e.nval)
                          [] OTHER -> Bool(v.e.k = "VTRUE"))
    IN  IF v.e.k \in {"VKNUM", "VTRUE", "VFALSE", "VNIL"} /\ Len(v.fs.k) <= MAXINDEXRK
        THEN On(k.fs, [v.e EXCEPT !.k = "VK", !.info = k.e])
        ELSE IF v.e.k = "VK" /\ v.e.info <= MAXINDEXRK THEN v
        ELSE luaK_exp2anyreg(v.fs, v.e)

luaK_storevar(fs, var, ex) ==
    LET any == luaK_exp2anyreg(fs, ex)
        rk  == luaK_exp2RK(fs, ex)
    IN  CASE var.k = "VLOCAL"   -> exp2reg(freeexp(fs, ex), ex, var.info).fs
          [] var.k = "VUPVAL"   ->
               freeexp(luaK_codeABC(any.fs, "SETUPVAL", any.e.info, var.info, 0), any.e)
          [] var.k = "VGLOBAL"  ->
               freeexp(luaK_codeABC(any.fs, "SETGLOBAL", any.e.info, var.info, 0), any.e)
          [] var.k = "VINDEXED" ->
               freeexp(luaK_codeABC(rk.fs, "SETTABLE", var.info, var.aux, RK(rk.e)), rk.e)

luaK_self(fs, ex, key) ==
    LET o == luaK_exp2anyreg(fs, ex)
        g == freeexp(o.fs, o.e)
        k == luaK_exp2RK(luaK_reserveregs(g, 2), key)
    IN  On(freeexp(luaK_codeABC(k.fs, "SELF", g.freereg, o.e.info, RK(k.e)), k.e),
           [o.e EXCEPT !.k = "VNONRELOC", !.info = g.freereg])

luaK_indexed(fs, t, ex) ==
    LET k == luaK_exp2RK(fs, ex)
    IN  On(k.fs, [t EXCEPT !.k = "VINDEXED", !.aux = RK(k.e)])

luaK_setlist(fs, base, nelems, tostore) ==
    [luaK_codeABC(lua_assert(fs, tostore # 0), "SETLIST", base,
                  IF tostore = LUA_MULTRET THEN 0 ELSE tostore,
                  (nelems - 1) \div LFIELDS_PER_FLUSH + 1) EXCEPT !.freereg = base + 1]
-----------------------------------------------------------------------------
(***************************************************************************)
(* Conditions and operators                                                *)
(***************************************************************************)

invertjump(fs, e) ==
    LET p == getjumpcontrol(fs, e.info)
    IN  SETARG_A(lua_assert(fs, At(fs, p).op \in {"EQ", "LT", "LE"}), p, 1 - At(fs, p).a)

\* jumponcond; l: the jump
jumponcond(fs, e, cond) ==
    LET i == At(fs, e.info)
        d == discharge2anyreg(fs, e)
    IN  IF e.k = "VRELOCABLE" /\ i.op = "NOT"
        THEN condjump([fs EXCEPT !.code = Front(@)], "TEST", i.b, 0, 1 - cond)
        ELSE condjump(freeexp(d.fs, d.e), "TESTSET", NO_REG, d.e.info, cond)

luaK_goiftrue(fs, ex) ==
    LET d == luaK_dischargevars(fs, ex)
        j == CASE d.e.k \in {"VK", "VKNUM", "VTRUE"} -> [fs |-> d.fs, l |-> NO_JUMP]
               [] d.e.k = "VJMP" -> [fs |-> invertjump(d.fs, d.e), l |-> d.e.info]
               [] OTHER -> jumponcond(d.fs, d.e, 0)
        c == luaK_concat(j.fs, d.e.f, j.l)
    IN  On(luaK_patchtohere(c.fs, d.e.t), [d.e EXCEPT !.f = c.l, !.t = NO_JUMP])

luaK_goiffalse(fs, ex) ==
    LET d == luaK_dischargevars(fs, ex)
        j == CASE d.e.k \in {"VNIL", "VFALSE"} -> [fs |-> d.fs, l |-> NO_JUMP]
               [] d.e.k = "VJMP" -> [fs |-> d.fs, l |-> d.e.info]
               [] OTHER -> jumponcond(d.fs, d.e, 1)
        c == luaK_concat(j.fs, d.e.t, j.l)
    IN  On(luaK_patchtohere(c.fs, d.e.f), [d.e EXCEPT !.t = c.l, !.f = NO_JUMP])

codenot(fs, ex) ==
    LET d == luaK_dischargevars(fs, ex)
        a == discharge2anyreg(d.fs, d.e)
        r == CASE d.e.k \in {"VNIL", "VFALSE"} -> On(d.fs, [d.e EXCEPT !.k = "VTRUE"])
               [] d.e.k \in {"VK", "VKNUM", "VTRUE"} -> On(d.fs, [d.e EXCEPT !.k = "VFALSE"])
               [] d.e.k = "VJMP" -> On(invertjump(d.fs, d.e), d.e)
               [] OTHER -> Relocatable(freeexp(a.fs, a.e), a.e, "NOT", a.e.info, 0)
    IN  On(removevalues(removevalues(r.fs, r.e.t), r.e.f),
           [r.e EXCEPT !.f = r.e.t, !.t = r.e.f])

\* luai_numadd and others, on integers.
NumOp(op, x, y) ==
    CASE op = "ADD" -> x + y [] op = "SUB" -> x - y [] op = "MUL" -> x * y
      [] op = "MOD" -> IF y > 0 THEN x % y ELSE -((-x) % (-y))
      [] op = "UNM" -> -x

\* constfolding
Foldable(op, e1, e2) ==
    isnumeral(e1) /\ isnumeral(e2) /\ op \notin {"LEN", "CONCAT"} /\ ~(op = "MOD" /\ e2.nval = 0)

codearith(fs, op, e1, e2) ==
    LET unary == op \in {"UNM", "LEN"}
        r2 == IF unary THEN On(fs, e2) ELSE luaK_exp2RK(fs, e2)
        o2 == IF unary THEN 0 ELSE RK(r2.e)
        r1 == luaK_exp2RK(r2.fs, e1)
        o1 == RK(r1.e)
        g  == IF o1 > o2 THEN freeexp(freeexp(r1.fs, r1.e), r2.e)
              ELSE freeexp(freeexp(r1.fs, r2.e), r1.e)
    IN  IF Foldable(op, e1, e2) THEN On(fs, [e1 EXCEPT !.nval = NumOp(op, e1.nval, e2.nval)])
        ELSE Relocatable(g, r1.e, op, o1, o2)

codecomp(fs, op, cond, e1, e2) ==
    LET r1 == luaK_exp2RK(fs, e1)
        r2 == luaK_exp2RK(r1.fs, e2)
        g  == freeexp(freeexp(r2.fs, r2.e), r1.e)
        swap == cond = 0 /\ op # "EQ"
        j  == IF swap THEN condjump(g, op, 1, RK(r2.e), RK(r1.e))
              ELSE condjump(g, op, cond, RK(r1.e), RK(r2.e))
    IN  On(j.fs, [r1.e EXCEPT !.k = "VJMP", !.info = j.l])

luaK_prefix(fs, op, e) ==
    LET zero == init_exp("VKNUM", 0)
        any == luaK_exp2anyreg(fs, e)
    IN  CASE op = "not" -> codenot(fs, e)
          [] op = "neg" -> IF isnumeral(e) THEN codearith(fs, "UNM", e, zero)
                           ELSE codearith(any.fs, "UNM", any.e, zero)
          [] op = "len" -> codearith(any.fs, "LEN", any.e, zero)

Arithmetic == [o \in {"+", "-", "*", "%"} |->
                 CASE o = "+" -> "ADD" [] o = "-" -> "SUB" [] o = "*" -> "MUL" [] o = "%" -> "MOD"]

luaK_infix(fs, op, v) ==
    CASE op = "and" -> luaK_goiftrue(fs, v)
      [] op = "or"  -> luaK_goiffalse(fs, v)
      [] op = ".."  -> luaK_exp2nextreg(fs, v)
      [] op \in DOMAIN Arithmetic /\ isnumeral(v) -> On(fs, v)
      [] OTHER      -> luaK_exp2RK(fs, v)

\* Operands of a chain of concatenations lie in consecutive registers.
Concat(fs, e1, ex) ==
    LET v == luaK_exp2val(fs, ex)
        n == luaK_exp2nextreg(v.fs, v.e)
    IN  IF v.e.k = "VRELOCABLE" /\ At(v.fs, v.e.info).op = "CONCAT"
        THEN On(SETARG_B(freeexp(lua_assert(v.fs, e1.info = At(v.fs, v.e.info).b - 1), e1),
                         v.e.info, e1.info),
                [e1 EXCEPT !.k = "VRELOCABLE", !.info = v.e.info])
        ELSE codearith(n.fs, "CONCAT", e1, n.e)

luaK_posfix(fs, op, e1, e2) ==
    LET d  == luaK_dischargevars(lua_assert(fs, (op = "and" => e1.t = NO_JUMP)
                                            /\ (op = "or" => e1.f = NO_JUMP)), e2)
        cf == luaK_concat(d.fs, d.e.f, e1.f)
        ct == luaK_concat(d.fs, d.e.t, e1.t)
    IN  CASE op = "and" -> On(cf.fs, [d.e EXCEPT !.f = cf.l])
          [] op = "or"  -> On(ct.fs, [d.e EXCEPT !.t = ct.l])
          [] op = ".."  -> Concat(fs, e1, e2)
          [] op \in DOMAIN Arithmetic -> codearith(fs, Arithmetic[op], e1, e2)
          [] op = "=="  -> codecomp(fs, "EQ", 1, e1, e2)
          [] op = "~="  -> codecomp(fs, "EQ", 0, e1, e2)
          [] op = "<"   -> codecomp(fs, "LT", 1, e1, e2)
          [] op = "<="  -> codecomp(fs, "LE", 1, e1, e2)
          [] op = ">"   -> codecomp(fs, "LT", 0, e1, e2)
          [] op = ">="  -> codecomp(fs, "LE", 0, e1, e2)
=============================================================================
