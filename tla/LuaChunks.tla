------------------------------ MODULE LuaChunks ------------------------------
(***************************************************************************)
(* Precompiled chunks: ldump.c writes a function block by block through a  *)
(* writer that may fail, lundump.c reads it back through the buffered      *)
(* stream of lzio.c, whose reader hands out pieces of any size.  A byte is *)
(* [v, i], the i-th byte of the value v.                                   *)
(***************************************************************************)
EXTENDS Integers, Sequences, SequencesExt, Folds

CONSTANTS SizeInt, SizeSize, SizeNumber,   \* sizeof(int), sizeof(size_t), sizeof(lua_Number)
          MaxCCalls                        \* LUAI_MAXCCALLS
ASSUME ChunkAssumption == {SizeInt, SizeSize, SizeNumber, MaxCCalls} \subseteq Nat \ {0}

Bytes(v, size) == [i \in 1..size |-> [v |-> v, i |-> i]]
Header  == Bytes("header", 2)
NoName  == <<"NULL">>          \* the null pointer in place of a string
Unknown == <<"=?">>            \* the source of a stripped main function
-----------------------------------------------------------------------------
(***************************************************************************)
(* ldump.c; the writer takes "left" blocks before it fails.                *)
(***************************************************************************)

DumpBlock(D, bytes) ==
    IF D.status # 0 THEN D
    ELSE IF D.left = 0 THEN [D EXCEPT !.status = 1]
    ELSE [D EXCEPT !.out = @ \o bytes, !.left = @ - 1]

DumpChar(D, x)   == DumpBlock(D, Bytes(x, 1))
DumpInt(D, x)    == DumpBlock(D, Bytes(x, SizeInt))
DumpNumber(D, x) == DumpBlock(D, Bytes(x, SizeNumber))
DumpVector(D, s, size) == DumpBlock(DumpInt(D, Len(s)), FlattenSeq([k \in 1..Len(s) |-> Bytes(s[k], size)]))
DumpString(D, s) ==
    IF s = NoName THEN DumpBlock(D, Bytes(0, SizeSize))
    ELSE DumpBlock(DumpBlock(D, Bytes(Len(s) + 1, SizeSize)),
                   FlattenSeq([k \in 1..(Len(s) + 1) |-> Bytes(IF k > Len(s) THEN "0" ELSE s[k], 1)]))

RECURSIVE DumpFunction(_, _, _, _), LoadFunction(_, _), luaZ_read(_, _, _)

DumpConstant(D, c) ==
    CASE c.t = "nil"     -> DumpChar(D, c.t)
      [] c.t = "boolean" -> DumpChar(DumpChar(D, c.t), c.v)
      [] c.t = "number"  -> DumpNumber(DumpChar(D, c.t), c.v)
      [] c.t = "string"  -> DumpString(DumpChar(D, c.t), c.v)
DumpConstants(D, f, strip) ==
    LET d1 == FoldLeft(DumpConstant, DumpInt(D, Len(f.k)), f.k)
    IN  FoldLeft(LAMBDA d, g : DumpFunction(d, g, f.source, strip), DumpInt(d1, Len(f.p)), f.p)

DumpDebug(D, f, strip) ==
    LET kept(s) == IF strip THEN <<>> ELSE s
        d1 == DumpVector(D, kept(f.lineinfo), SizeInt)
        d2 == FoldLeft(LAMBDA d, v : DumpInt(DumpInt(DumpString(d, v.varname), v.startpc), v.endpc),
                       DumpInt(d1, Len(kept(f.locvars))), kept(f.locvars))
    IN  FoldLeft(DumpString, DumpInt(d2, Len(kept(f.upvalues))), kept(f.upvalues))

DumpFunction(D, f, p, strip) ==
    LET d1 == DumpString(D, IF f.source = p \/ strip THEN NoName ELSE f.source)
        d2 == DumpInt(DumpInt(d1, f.linedefined), f.lastlinedefined)
        d3 == DumpChar(DumpChar(DumpChar(DumpChar(d2, f.nups), f.numparams), f.is_vararg), f.maxstacksize)
    IN  DumpDebug(DumpConstants(DumpVector(d3, f.code, SizeInt), f, strip), f, strip)

luaU_dump(f, strip, left) ==
    LET D == [out |-> <<>>, status |-> 0, left |-> left]
    IN  DumpFunction(DumpBlock(D, Header), f, NoName, strip)
-----------------------------------------------------------------------------
(***************************************************************************)
(* lzio.c: the bytes left of the current piece, and the pieces to come; a  *)
(* reader ends the stream with an empty piece.                             *)
(***************************************************************************)

luaZ_init(pieces) == [p |-> <<>>, more |-> pieces, eoz |-> FALSE]
luaZ_fill(z) ==
    IF z.more = <<>> \/ Head(z.more) = <<>> THEN [z EXCEPT !.eoz = TRUE]
    ELSE [z EXCEPT !.p = Head(z.more), !.more = Tail(z.more)]
luaZ_lookahead(z) == IF z.p = <<>> THEN luaZ_fill(z) ELSE z

\* n more bytes after b; "missing" is what the stream does not have.
luaZ_read(z, n, b) ==
    LET y == luaZ_lookahead(z)
        m == IF n <= Len(y.p) THEN n ELSE Len(y.p)
    IN  IF n = 0 \/ y.eoz THEN [z |-> IF n = 0 THEN z ELSE y, b |-> b, missing |-> n]
        ELSE luaZ_read([y EXCEPT !.p = SubSeq(y.p, m + 1, Len(y.p))], n - m, b \o SubSeq(y.p, 1, m))
-----------------------------------------------------------------------------
(***************************************************************************)
(* lundump.c: each step leaves what it has read in v, or sets err, after   *)
(* which nothing is read.                                                  *)
(***************************************************************************)

Fails(S, why) == IF S.err # "" THEN S ELSE [S EXCEPT !.err = why]

\* LoadBlock that takes what there is.
LoadBlockShort(S, size) ==
    LET r == luaZ_read(S.z, size, <<>>)
    IN  [S EXCEPT !.z = r.z, !.v = IF Len(r.b) = size THEN r.b ELSE Bytes(0, size)]

LoadBlock(S, size) ==
    IF S.err # "" THEN S
    ELSE LET r == luaZ_read(S.z, size, <<>>)
         IN  IF r.missing # 0 THEN [S EXCEPT !.z = r.z, !.err = "unexpected end"]
             ELSE [S EXCEPT !.z = r.z, !.v = r.b]
Value(S) == IF S.err # "" THEN S ELSE [S EXCEPT !.v = Head(S.v).v]
LoadChar(S)   == Value(LoadBlock(S, 1))
LoadNumber(S) == Value(LoadBlock(S, SizeNumber))
LoadInt(S)    == LET r == Value(LoadBlock(S, SizeInt)) IN IF r.err = "" /\ r.v < 0 THEN Fails(r, "bad integer") ELSE r

LoadString(S) ==
    LET size == Value(LoadBlock(S, SizeSize))
        s    == LoadBlock(size, size.v)
    IN  IF size.err # "" THEN size
        ELSE IF size.v = 0 THEN [size EXCEPT !.v = NoName]
        ELSE IF s.err # "" THEN s
        ELSE [s EXCEPT !.v = [k \in 1..(size.v - 1) |-> s.v[k].v]]

\* A count and then that many values, read by step.
LoadList(S, step(_)) ==
    LET n   == LoadInt(S)
        all == FoldLeft(LAMBDA acc, k : LET r == step(acc.S) IN [S |-> r, vs |-> Append(acc.vs, r.v)],
                        [S |-> n, vs |-> <<>>], [k \in 1..(IF n.err # "" THEN 0 ELSE n.v) |-> k])
    IN  [all.S EXCEPT !.v = all.vs]

LoadConstant(S) ==
    LET t == LoadChar(S)
        v == CASE t.v = "boolean" -> LoadChar(t)
               [] t.v = "number"  -> LoadNumber(t)
               [] t.v = "string"  -> LoadString(t)
               [] t.v = "nil"     -> [t EXCEPT !.v = 0]
               [] OTHER           -> Fails(t, "bad constant")
    IN  IF t.err # "" THEN t ELSE IF v.err # "" THEN v ELSE [v EXCEPT !.v = [t |-> t.v, v |-> v.v]]

LoadCode(S) == LoadList(S, LoadInt)
LoadLocVar(S) ==
    LET n == LoadString(S)
        s == LoadInt(n)
        e == LoadInt(s)
    IN  [e EXCEPT !.v = [varname |-> n.v, startpc |-> s.v, endpc |-> e.v]]

LoadFunction(S, p) ==
    LET S0   == IF S.level + 1 > MaxCCalls THEN Fails(S, "code too deep") ELSE [S EXCEPT !.level = @ + 1]
        src  == LoadString(S0)
        from == IF src.v = NoName THEN p ELSE src.v
        l1   == LoadInt(src)        l2   == LoadInt(l1)
        nu   == LoadChar(l2)        np   == LoadChar(nu)
        va   == LoadChar(np)        ms   == LoadChar(va)
        code == LoadCode(ms)
        k    == LoadList(code, LoadConstant)
        ps   == LoadList(k, LAMBDA T : LoadFunction(T, from))
        line == LoadList(ps, LoadInt)
        vars == LoadList(line, LoadLocVar)
        ups  == LoadList(vars, LoadString)
        good == \A c \in DOMAIN code.v : code.v[c] # 0      \* luaG_checkcode: 0 stands for bad code
    IN  IF src.err # "" THEN src
        ELSE IF ups.err # "" THEN ups
        ELSE IF ~good THEN Fails(ups, "bad code")
        ELSE [ups EXCEPT !.level = @ - 1,
                         !.v = [source |-> from, linedefined |-> l1.v, lastlinedefined |-> l2.v, nups |-> nu.v,
                                numparams |-> np.v, is_vararg |-> va.v, maxstacksize |-> ms.v, code |-> code.v,
                                k |-> k.v, p |-> ps.v, lineinfo |-> line.v, locvars |-> vars.v, upvalues |-> ups.v]]

LoadHeader(S) == LET r == LoadBlock(S, Len(Header)) IN IF r.err = "" /\ r.v # Header THEN Fails(r, "bad header") ELSE r

luaU_undump(pieces) ==
    LET S == [z |-> luaZ_init(pieces), err |-> "", level |-> 0, v |-> 0]
    IN  LoadFunction(LoadHeader(S), Unknown)
=============================================================================
