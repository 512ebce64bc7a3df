------------------------------- MODULE LuaVM --------------------------------
(***************************************************************************)
(* The virtual machine (lvm.c, with luaD_precall and luaD_poscall of ldo.c *)
(* and the upvalues of lfunc.c) runs the code that the parser has made.    *)
(*                                                                         *)
(* Values: nil, booleans, integers, strings, tables, Lua functions and      *)
(* functions of the host, which write their arguments to a trace.  There    *)
(* are no metatables here.                                                 *)
(***************************************************************************)
EXTENDS LuaParser

CONSTANTS
    Chunks,       \* Chunks[s]: the state in which the program s is Loaded
    StackSize,    \* bound: values on the Lua stack
    HostResults   \* HostResults[i]: the number of results of host function i

VARIABLES
    src,          \* the program
    m             \* the lua_State

vmvars == <<src, m>>

Type(v) == v[1]
l_isfalse(v) == v = Nil \/ v = Bool(FALSE)

Digits == <<"0", "1", "2", "3", "4", "5", "6", "7", "8", "9">>

\* luaV_tostring
RECURSIVE ToStr(_)
ToStr(n) == IF n < 0 THEN <<"-">> \o ToStr(-n)
            ELSE IF n < 10 THEN <<Digits[n + 1]>> ELSE ToStr(n \div 10) \o <<Digits[(n % 10) + 1]>>

\* luaV_tonumber: also of strings that are numerals
IsNumeral(s) == s # <<>> /\ \A i \in 1..Len(s) : s[i] \in Range(Digits)
ToNumber(v) ==
    IF Type(v) = "str"
    THEN FoldLeft(LAMBDA n, d : 10 * n + (CHOOSE i \in 1..10 : Digits[i] = d) - 1, 0, v[2])
    ELSE v[2]
Numeric(v) == Type(v) = "num" \/ (Type(v) = "str" /\ IsNumeral(v[2]))
Stringy(v) == Type(v) \in {"num", "str"}
AsString(v) == IF Type(v) = "num" THEN ToStr(v[2]) ELSE v[2]

Get(tab, key) == IF key \in DOMAIN tab THEN tab[key] ELSE Nil
Put(tab, key, v) ==
    IF v = Nil THEN [q \in DOMAIN tab \ {key} |-> tab[q]]
    ELSE [q \in DOMAIN tab \cup {key} |-> IF q = key THEN v ELSE tab[q]]
Border(tab) == CHOOSE n \in 0..StackSize :
                 Num(n + 1) \notin DOMAIN tab /\ \A i \in 1..n : Num(i) \in DOMAIN tab
ListTable(s) == FoldLeft(LAMBDA t, i : Put(t, Num(i), s[i]), <<>>, [i \in 1..Len(s) |-> i])

\* A function of the host: the trace gets its arguments, the results are new.
HostCall(trace, i, args) ==
    [trace |-> Append(trace, <<i, args>>),
     res |-> [j \in 1..HostResults[i] |-> Num(10 * (Len(trace) + 1) + j)]]
-----------------------------------------------------------------------------
(***************************************************************************)
(* luaG_checkcode: what close_func asserts of every function               *)
(***************************************************************************)

checkopenop(i) == i.op \in {"CALL", "TAILCALL", "RETURN", "SETLIST"} /\ i.b = 0

checkArgMode(p, r, mode) ==
    CASE mode = "N" -> r = 0 [] mode = "U" -> TRUE [] mode = "R" -> r < p.maxstacksize
      [] mode = "K" -> IF ISK(r) THEN INDEXK(r) < Len(p.k) ELSE r < p.maxstacksize

precheck(p) ==
    /\ p.maxstacksize <= MAXSTACK
    /\ p.numparams + (IF p.hasarg THEN 1 ELSE 0) <= p.maxstacksize
    /\ p.needsarg => p.hasarg
    /\ Last(p.code).op = "RETURN"

\* symbexec of the instruction at n, with no register traced
checkinstruction(p, n) ==
    LET size == Len(p.code)
        i    == p.code[n + 1]
        next == p.code[n + 2]
        md   == Modes(i.op)
        dest == n + 1 + i.b
        reg(r) == r < p.maxstacksize
    IN  /\ reg(i.a)
        /\ md[5] = "ABC" => checkArgMode(p, i.b, md[3]) /\ checkArgMode(p, i.c, md[4])
        /\ md[5] = "ABx" /\ md[3] = "K" => i.b < Len(p.k)
        /\ md[5] = "AsBx" => dest \in 0..(size - 1)
        /\ testTMode(i.op) => n + 2 < size /\ next.op = "JMP"
        /\ i.op = "LOADBOOL" /\ i.c = 1 => n + 2 < size
        /\ i.op \in {"GETUPVAL", "SETUPVAL"} => i.b < p.nups
        /\ i.op \in {"GETGLOBAL", "SETGLOBAL"} => Type(p.k[i.b + 1]) = "str"
        /\ i.op = "SELF" => reg(i.a + 1)
        /\ i.op = "CONCAT" => i.b < i.c
        /\ i.op = "TFORLOOP" => i.c >= 1 /\ reg(i.a + 2 + i.c)
        /\ i.op \in {"FORLOOP", "FORPREP"} => reg(i.a + 3)
        /\ i.op \in {"CALL", "TAILCALL"} =>
             /\ i.b # 0 => reg(i.a + i.b - 1)
             /\ IF i.c = 0 THEN checkopenop(next) ELSE i.c = 1 \/ reg(i.a + i.c - 2)
        /\ i.op = "RETURN" /\ i.b > 1 => reg(i.a + i.b - 2)
        /\ i.op = "SETLIST" => i.b = 0 \/ reg(i.a + i.b)
        /\ i.op = "CLOSURE" =>
             /\ i.b < Len(p.p) /\ n + p.p[i.b + 1].nups < size
             /\ \A j \in 1..p.p[i.b + 1].nups : p.code[n + 1 + j].op \in {"GETUPVAL", "MOVE"}
        /\ i.op = "VARARG" =>
             /\ p.isvararg /\ ~p.needsarg
             /\ IF i.b = 0 THEN checkopenop(next) ELSE i.b = 1 \/ reg(i.a + i.b - 2)

RECURSIVE luaG_checkcode(_)
luaG_checkcode(p) ==
    /\ precheck(p)
    /\ \A n \in 0..(Len(p.code) - 1) : checkinstruction(p, n)
    /\ \A j \in 1..Len(p.p) : luaG_checkcode(p.p[j])
-----------------------------------------------------------------------------
(***************************************************************************)
(* The state: stack, top, frames (CallInfos, the last one runs), cells     *)
(* (UpVals), cl (Lua closures), tabs, globals, trace, and how it ends.     *)
(***************************************************************************)

fr   == Last(m.frames)
cl   == m.cl[fr.cl]
code == cl.p.code
i0   == code[fr.pc + 1]                   \* the instruction
R(r) == m.stack[fr.base + r]
Const(n) == cl.p.k[n + 1]
RKv(r)   == IF ISK(r) THEN Const(INDEXK(r)) ELSE R(r)

Running(ops) == m.st = "running" /\ i0.op \in ops
Go(x, n)  == [x EXCEPT !.frames[Len(x.frames)].pc = @ + n]
Write(x, r, v) == [x EXCEPT !.stack[fr.base + r] = v]
Set(r, v) == Go(Write(m, r, v), 1)
Fail(x)   == [x EXCEPT !.st = "error"]
Step(x)   == m' = x /\ UNCHANGED src

Cell(x, c) == IF x.cells[c].open THEN x.stack[x.cells[c].at] ELSE x.cells[c].v
SetCell(x, c, v) == IF x.cells[c].open THEN [x EXCEPT !.stack[x.cells[c].at] = v]
                    ELSE [x EXCEPT !.cells[c].v = v]

\* luaF_close
luaF_close(x, level) ==
    [x EXCEPT !.cells = [c \in DOMAIN @ |->
        IF @[c].open /\ @[c].at >= level THEN [open |-> FALSE, at |-> @[c].at, v |-> x.stack[@[c].at]]
        ELSE @[c]]]

\* luaF_findupval that does not look for an open one.
luaF_findupvalNew(x, level) ==
    On([x EXCEPT !.cells = Append(@, [open |-> TRUE, at |-> level, v |-> Nil])], Len(x.cells) + 1)

\* luaF_findupval: e is the cell of the stack position, an open one if there is one.
luaF_findupval(x, level) ==
    LET has == {c \in DOMAIN x.cells : x.cells[c].open /\ x.cells[c].at = level}
    IN  IF has # {} THEN On(x, CHOOSE c \in has : TRUE)
        ELSE On([x EXCEPT !.cells = Append(@, [open |-> TRUE, at |-> level, v |-> Nil])],
                Len(x.cells) + 1)

\* luaD_poscall moves the results to where the function was.
Results(x, at, res, wanted) ==
    LET n == IF wanted = LUA_MULTRET THEN Len(res) ELSE wanted
    IN  [x EXCEPT !.stack = [j \in DOMAIN @ |->
                               IF j \in at..(at + n - 1)
                               THEN IF j - at < Len(res) THEN res[j - at + 1] ELSE Nil ELSE @[j]],
                  !.top = at + n]

Slice(x, from, to) == SubSeq([j \in 1..(to - from) |-> x.stack[from + j - 1]], 1, to - from)

\* adjust_varargs: the fixed parameters move above the extra arguments; an old
\* style function finds the extra ones in the table arg.
adjust_varargs(x, p, func, args) ==
    LET actual == IF Len(args) < p.numparams THEN p.numparams ELSE Len(args)
        base   == func + 1 + actual
        fixed(j) == IF j <= Len(args) THEN args[j] ELSE Nil
        extra  == SubSeq(args, p.numparams + 1, Len(args))
        t      == Put(ListTable(extra), Str(<<"n">>), Num(Len(extra)))
    IN  [x |-> [x EXCEPT !.tabs = IF p.needsarg THEN Append(@, t) ELSE @,
                         !.stack = [j \in DOMAIN @ |->
                            IF j \in (func + 1)..(func + p.numparams) THEN Nil
                            ELSE IF j \in base..(base + p.numparams - 1) THEN fixed(j - base + 1)
                            ELSE IF j >= base THEN IF p.needsarg /\ j = base + p.numparams
                                                   THEN <<"tab", Len(x.tabs) + 1>> ELSE Nil
                            ELSE @[j]]],
         base |-> base]

\* luaD_precall of what is at func, with the arguments up to top.
luaD_precall(x, func, nresults, tfor) ==
    LET v    == x.stack[func]
        args == Slice(x, func + 1, x.top)
        h    == HostCall(x.trace, v[2], args)
        p    == x.cl[v[2]].p
        a    == IF p.isvararg THEN adjust_varargs(x, p, func, args)
                ELSE [x |-> [x EXCEPT !.stack = [j \in DOMAIN @ |->
                               IF j >= func + 1 + Len(args) \/ j >= func + 1 + p.numparams
                               THEN Nil ELSE @[j]]],
                      base |-> func + 1]
        f    == [cl |-> v[2], func |-> func, base |-> a.base, top |-> a.base + p.maxstacksize,
                 pc |-> 0, nres |-> nresults, tfor |-> tfor]
    IN  CASE Type(v) = "host" -> Results([x EXCEPT !.trace = h.trace], func, h.res, nresults)
          [] Type(v) = "fun"  -> [a.x EXCEPT !.frames = Append(@, f), !.top = f.top]
          [] OTHER            -> Fail(x)
IsLua(x, func) == Type(x.stack[func]) = "fun"
-----------------------------------------------------------------------------
(***************************************************************************)
(* luaV_execute, by groups of instructions                                 *)
(***************************************************************************)

\* MOVE, LOADK, LOADBOOL, LOADNIL, GETUPVAL, SETUPVAL
Move ==
    /\ Running({"MOVE", "LOADK", "LOADBOOL", "LOADNIL", "GETUPVAL", "SETUPVAL"})
    /\ Step(CASE i0.op = "MOVE"     -> Set(i0.a, R(i0.b))
              [] i0.op = "LOADK"    -> Set(i0.a, Const(i0.b))
              [] i0.op = "LOADBOOL" -> Go(Write(m, i0.a, Bool(i0.b = 1)), 1 + i0.c)
              [] i0.op = "LOADNIL"  -> Go(FoldLeft(LAMBDA x, r : Write(x, r, Nil), m,
                                                   [j \in 1..(i0.b - i0.a + 1) |-> i0.a + j - 1]), 1)
              [] i0.op = "GETUPVAL" -> Set(i0.a, Cell(m, cl.upvals[i0.b + 1]))
              [] i0.op = "SETUPVAL" -> Go(SetCell(m, cl.upvals[i0.b + 1], R(i0.a)), 1))

\* luaV_gettable
GetTable(t, key, reg, x) ==
    IF Type(t) = "tab" THEN Go(Write(x, reg, Get(m.tabs[t[2]], key)), 1) ELSE Fail(x)

\* luaV_settable: nil is not a key.
SetTable(t, key, v) ==
    IF Type(t) = "tab" /\ key # Nil THEN Go([m EXCEPT !.tabs[t[2]] = Put(@, key, v)], 1)
    ELSE Fail(m)

Tables ==
    /\ Running({"GETGLOBAL", "SETGLOBAL", "GETTABLE", "SETTABLE", "NEWTABLE", "SELF"})
    /\ Step(CASE i0.op = "GETGLOBAL" -> Set(i0.a, Get(m.globals, Const(i0.b)))
              [] i0.op = "SETGLOBAL" -> Go([m EXCEPT !.globals = Put(@, Const(i0.b), R(i0.a))], 1)
              [] i0.op = "GETTABLE"  -> GetTable(R(i0.b), RKv(i0.c), i0.a, m)
              [] i0.op = "SETTABLE"  -> SetTable(R(i0.a), RKv(i0.b), RKv(i0.c))
              [] i0.op = "NEWTABLE"  ->
                   [Set(i0.a, <<"tab", Len(m.tabs) + 1>>) EXCEPT !.tabs = Append(@, <<>>)]
              [] i0.op = "SELF"      -> GetTable(R(i0.b), RKv(i0.c), i0.a, Write(m, i0.a + 1, R(i0.b))))

\* Arith: arithmetic of numbers and numerals
Arith ==
    /\ Running({"ADD", "SUB", "MUL", "MOD", "UNM"})
    /\ LET b == IF i0.op = "UNM" THEN R(i0.b) ELSE RKv(i0.b)
           c == IF i0.op = "UNM" THEN b ELSE RKv(i0.c)
       IN  Step(IF Numeric(b) /\ Numeric(c)
                THEN Set(i0.a, Num(NumOp(i0.op, ToNumber(b), ToNumber(c)))) ELSE Fail(m))

NotLen ==
    /\ Running({"NOT", "LEN"})
    /\ LET b == R(i0.b)
       IN  Step(CASE i0.op = "NOT" -> Set(i0.a, Bool(l_isfalse(b)))
                  [] i0.op = "LEN" /\ Type(b) = "tab" -> Set(i0.a, Num(Border(m.tabs[b[2]])))
                  [] i0.op = "LEN" /\ Type(b) = "str" -> Set(i0.a, Num(Len(b[2])))
                  [] OTHER -> Fail(m))

\* luaV_concat: the operands at B..C, from the right
ConcatOp ==
    /\ Running({"CONCAT"})
    /\ LET vs == [j \in i0.b..i0.c |-> R(j)]
           s  == FoldLeft(LAMBDA acc, j : acc \o AsString(vs[i0.b + j - 1]), <<>>,
                          [j \in 1..(i0.c - i0.b + 1) |-> j])
       IN  Step(IF \A j \in i0.b..i0.c : Stringy(vs[j])
                THEN Go(Write(Write(m, i0.b, Str(s)), i0.a, Str(s)), 1) ELSE Fail(m))

Jump == Running({"JMP"}) /\ Step(Go(m, 1 + i0.b))

\* A test jumps with the JMP that follows, or skips it.
Branch(x, taken) == Go(x, IF taken THEN 2 + code[fr.pc + 2].b ELSE 2)
Compare ==
    /\ Running({"EQ", "LT", "LE"})
    /\ LET b == RKv(i0.b)
           c == RKv(i0.c)
           num == Type(b) = "num" /\ Type(c) = "num"
       IN  Step(CASE i0.op = "EQ" -> Branch(m, (b = c) = (i0.a = 1))
                  [] i0.op = "LT" /\ num -> Branch(m, (b[2] < c[2]) = (i0.a = 1))
                  [] i0.op = "LE" /\ num -> Branch(m, (b[2] <= c[2]) = (i0.a = 1))
                  [] OTHER -> Fail(m))
Test ==
    /\ Running({"TEST", "TESTSET"})
    /\ LET v == IF i0.op = "TEST" THEN R(i0.a) ELSE R(i0.b)
           taken == l_isfalse(v) # (i0.c = 1)
       IN  Step(Branch(IF taken /\ i0.op = "TESTSET" THEN Write(m, i0.a, v) ELSE m, taken))

\* The arguments end at top, or B says where.
WithTop == IF i0.b # 0 THEN [m EXCEPT !.top = fr.base + i0.a + i0.b] ELSE m
Call ==
    /\ Running({"CALL"})
    /\ LET at == fr.base + i0.a
           x  == luaD_precall(Go(WithTop, 1), at, i0.c - 1, FALSE)
       IN  Step(IF Type(m.stack[at]) = "host" /\ i0.c # 0 THEN [x EXCEPT !.top = fr.top] ELSE x)

\* The frame of the called function takes the place of the caller's.
TailCall ==
    /\ Running({"TAILCALL"})
    /\ LET at == fr.base + i0.a
           x  == luaD_precall(Go(WithTop, 1), at, LUA_MULTRET, FALSE)
           nf == Last(x.frames)
           d  == at - fr.func
           y  == luaF_close(x, fr.base)
       IN  Step(IF ~IsLua(m, at) THEN x
                ELSE [y EXCEPT !.stack = [j \in DOMAIN @ |-> IF j \in fr.func..(x.top - d - 1)
                                                             THEN @[j + d] ELSE @[j]],
                               !.top = x.top - d,
                               !.frames = Append(SubSeq(@, 1, Len(@) - 2),
                                 [nf EXCEPT !.func = fr.func, !.base = @ - d, !.top = @ - d,
                                            !.nres = fr.nres, !.tfor = fr.tfor])])

\* OP_TFORLOOP after the call: the loop goes on unless the first result is nil.
TForEnd(x, base, i, jmp) ==
    LET v == x.stack[base + i.a + 3]
    IN  IF v = Nil THEN Go(x, 2)
        ELSE Go([x EXCEPT !.stack[base + i.a + 2] = v], 2 + jmp.b)

Return ==
    /\ Running({"RETURN"})
    /\ LET from == fr.base + i0.a
           to   == IF i0.b # 0 THEN from + i0.b - 1 ELSE m.top
           y == Results(luaF_close(m, fr.base), fr.func, Slice(m, from, to), fr.nres)
           x == [y EXCEPT !.frames = Front(@)]
           c == Last(x.frames)
           cc == m.cl[c.cl].p.code
       IN  Step(IF x.frames = <<>>
                THEN [x EXCEPT !.st = "done", !.res = Slice(m, from, to)]
                ELSE IF fr.tfor THEN TForEnd([x EXCEPT !.top = c.top], c.base, cc[c.pc + 1], cc[c.pc + 2])
                ELSE IF fr.nres # LUA_MULTRET THEN [x EXCEPT !.top = c.top] ELSE x)

ForPrep ==
    /\ Running({"FORPREP"})
    /\ Step(IF \A j \in 0..2 : Numeric(R(i0.a + j))
            THEN LET n(j) == ToNumber(R(i0.a + j))
                 IN  Go(Write(Write(Write(m, i0.a, Num(n(0) - n(2))), i0.a + 1, Num(n(1))),
                              i0.a + 2, Num(n(2))), 1 + i0.b)
            ELSE Fail(m))

ForLoop ==
    /\ Running({"FORLOOP"})
    /\ LET step == R(i0.a + 2)[2]
           idx  == R(i0.a)[2] + step
           lim  == R(i0.a + 1)[2]
       IN  Step(IF (0 < step /\ idx <= lim) \/ (0 >= step /\ lim <= idx)
                THEN Go(Write(Write(m, i0.a, Num(idx)), i0.a + 3, Num(idx)), 1 + i0.b)
                ELSE Go(m, 1))

TForLoop ==
    /\ Running({"TFORLOOP"})
    /\ LET cb == i0.a + 3
           at == fr.base + cb
           y  == Write(Write(Write(m, cb + 2, R(i0.a + 2)), cb + 1, R(i0.a + 1)), cb, R(i0.a))
           x  == luaD_precall([y EXCEPT !.top = at + 3], at, i0.c, TRUE)
       IN  Step(IF Type(R(i0.a)) = "host"
                THEN TForEnd([x EXCEPT !.top = fr.top], fr.base, i0, code[fr.pc + 2]) ELSE x)

SetList ==
    /\ Running({"SETLIST"})
    /\ LET n == IF i0.b # 0 THEN i0.b ELSE m.top - (fr.base + i0.a) - 1
           put(t, j) == Put(t, Num((i0.c - 1) * LFIELDS_PER_FLUSH + j), R(i0.a + j))
       IN  Step(Go([m EXCEPT !.tabs[R(i0.a)[2]] = FoldLeft(put, @, [j \in 1..n |-> j]),
                             !.top = IF i0.b = 0 THEN fr.top ELSE @], 1))

Close == Running({"CLOSE"}) /\ Step(Go(luaF_close(m, fr.base + i0.a), 1))

MakeClosure ==
    /\ Running({"CLOSURE"})
    /\ LET p == cl.p.p[i0.b + 1]
           bind(a, j) ==
               LET i == code[fr.pc + 1 + j]
                   u == luaF_findupval(a.fs, fr.base + i.b)
               IN  IF i.op = "GETUPVAL" THEN On(a.fs, Append(a.e, cl.upvals[i.b + 1]))
                   ELSE On(u.fs, Append(a.e, u.e))
           a == FoldLeft(bind, On(m, <<>>), [j \in 1..p.nups |-> j])
       IN  Step(Go(Write([a.fs EXCEPT !.cl = Append(@, [p |-> p, upvals |-> a.e])],
                         i0.a, <<"fun", Len(m.cl) + 1>>), 1 + p.nups))

Vararg ==
    /\ Running({"VARARG"})
    /\ LET n == fr.base - fr.func - cl.p.numparams - 1
           b == IF i0.b = 0 THEN n ELSE i0.b - 1
           x == FoldLeft(LAMBDA y, j : Write(y, i0.a + j - 1,
                           IF j <= n THEN m.stack[fr.base - n + j - 1] ELSE Nil),
                         m, [j \in 1..b |-> j])
       IN  Step(Go([x EXCEPT !.top = IF i0.b = 0 THEN fr.base + i0.a + n ELSE @], 1))
-----------------------------------------------------------------------------
\* The host has f, g and h (HostResults 1, 2 and 0); the chunk gets two values.
Globals == [n \in {Str(<<"f">>), Str(<<"g">>), Str(<<"h">>)} |->
              <<"host", CASE n[2] = <<"f">> -> 1 [] n[2] = <<"g">> -> 2 [] OTHER -> 3>>]
ChunkArgs == <<Num(7), Num(8)>>

\* luaD_protectedparser, and luaD_call of the chunk
Loaded(s) ==
    LET c == luaY_parser(s)
        x == [stack |-> [j \in 0..StackSize |-> IF j = 0 THEN <<"fun", 1>>
                           ELSE IF j \in 1..2 THEN ChunkArgs[j] ELSE Nil],
              top |-> 3, frames |-> <<>>, cells |-> <<>>, cl |-> <<[p |-> c.f, upvals |-> <<>>]>>,
              tabs |-> <<>>, globals |-> Globals, trace |-> <<>>, res |-> <<>>,
              bad |-> ~c.err /\ (c.bad \/ ~luaG_checkcode(c.f)), st |-> "running"]
    IN  IF c.err THEN [x EXCEPT !.st = "syntax"] ELSE luaD_precall(x, 0, LUA_MULTRET, FALSE)

VMInit == src \in DOMAIN Chunks /\ m = Chunks[src]

VMNext == \/ Move \/ Tables \/ Arith \/ NotLen \/ ConcatOp \/ Jump \/ Compare \/ Test
          \/ Call \/ TailCall \/ Return \/ ForPrep \/ ForLoop \/ TForLoop
          \/ SetList \/ Close \/ MakeClosure \/ Vararg

VMSpec == VMInit /\ [][VMNext]_vmvars
=============================================================================
