------------------------------ MODULE LuaCalls ------------------------------
(***************************************************************************)
(* Calls, errors and coroutines of the interpreter (ldo.c, lapi.c,         *)
(* lbaselib.c), under the driver that handles SIGINT (buildsh.c).          *)
(*                                                                         *)
(* Lua frames live in the CallInfo array of a thread, but C functions, the *)
(* interpreter loop, protected calls and resumes live on the one C stack   *)
(* that all threads share.  An error is a longjmp that cuts the C stack.   *)
(***************************************************************************)
EXTENDS Naturals, Sequences, SequencesExt

CONSTANTS
    Main, Coroutines,     \* lua_States
    MAXCCALLS,            \* LUAI_MAXCCALLS
    Margin,               \* LUAI_MAXCCALLS >> 3
    MAXCALLS,             \* LUAI_MAXCALLS
    BasicCI,              \* BASIC_CI_SIZE
    MaxDepth              \* bound: records on the C stack

ASSUME LimitsAssumption ==
    /\ MAXCCALLS \in Nat /\ Margin \in Nat /\ MAXCALLS \in Nat /\ BasicCI \in Nat \ {0}
    /\ BasicCI <= MAXCALLS /\ MAXCCALLS > 1 /\ Main \notin Coroutines

VARIABLES
    state,      \* cs: the C stack; th: the threads; hook: that of the main thread; lost
    sig     \* SIGINT: "dfl" or "laction"

cvars == <<state, sig>>

Threads == {Main} \cup Coroutines

\* A C function or parser, a loop of luaV_execute with n Lua frames (exec), a
\* hook, a protected call or a resume.  call: luaD_call is below it, handler:
\* it is an error handler, save: what luaD_pcall has in its local variables.
NoSave == [n |-> 0, ci |-> 0, errfunc |-> "none", allowhook |-> TRUE, jmp |-> 0]
CRecord(k, L, call, handler) ==
    [k |-> k, th |-> L, call |-> call, handler |-> handler, n |-> 1, save |-> NoSave]

CDepth == Len(state.cs)
PopC(S) == SubSeq(S, 1, Len(S) - 1)
\* The record on top of the C stack counts n; the C stack is cs now, and L is t.
TopN(cs, n) == Append(PopC(cs), [Last(cs) EXCEPT !.n = n])
With(st, cs, L, t) == [st EXCEPT !.cs = cs, !.th[L] = t]

\* lua_newthread, preinit_state, stack_init; fresh: the function of a
\* coroutine waits on its stack.
NewThread == [ci |-> <<"base">>, size |-> BasicCI, nCcalls |-> 0, baseCcalls |-> 0,
              status |-> "ok", errfunc |-> "none", jmp |-> 0, allowhook |-> TRUE, fresh |-> TRUE]

\* restore_stack_limit
RestoreStackLimit(t) ==
    IF t.size > MAXCALLS /\ Len(t.ci) < MAXCALLS THEN [t EXCEPT !.size = MAXCALLS] ELSE t

\* luaD_throw without the counter of C calls being set back.
ThrowKeepsLevel(st, L, code) ==
    LET t == st.th[L]
        r == st.cs[t.jmp]
        s == r.save
    IN  IF t.jmp = 0 THEN [st EXCEPT !.cs = <<>>]
        ELSE With(st, SubSeq(st.cs, 1, t.jmp - 1), L,
                  IF r.k = "resume"
                  THEN [t EXCEPT !.status = code, !.jmp = s.jmp, !.nCcalls = @ - 1]
                  ELSE [t EXCEPT !.ci = SubSeq(@, 1, s.ci), !.errfunc = s.errfunc,
                                 !.jmp = s.jmp, !.allowhook = s.allowhook])

\* luaD_throw jumps to the setjmp of errorJmp; the rest of luaD_pcall or of
\* lua_resume follows.  Without one the program ends (panic).
Throw(st, L, code) ==
    LET t == st.th[L]
        r == st.cs[t.jmp]
        s == r.save
    IN  IF t.jmp = 0 THEN [st EXCEPT !.cs = <<>>]
        ELSE With(st, SubSeq(st.cs, 1, t.jmp - 1), L,
                  IF r.k = "resume"
                  THEN [t EXCEPT !.status = code, !.jmp = s.jmp, !.nCcalls = @ - 1]
                  ELSE RestoreStackLimit(
                         [t EXCEPT !.nCcalls = s.n, !.ci = SubSeq(@, 1, s.ci), !.errfunc = s.errfunc,
                                   !.jmp = s.jmp, !.allowhook = s.allowhook]))

\* What a call has come to: the state, and whether luaG_errormsg is called next.
Attempt(st, again) == [st |-> st, again |-> again]

\* growCI
GrowCI(st, L) ==
    LET t == st.th[L]
    IN  IF t.size > MAXCALLS THEN Attempt(Throw(st, L, "errerr"), FALSE)
        ELSE Attempt(With(st, st.cs, L, [t EXCEPT !.size = 2 * @]), 2 * t.size > MAXCALLS)

\* luaD_precall enters a function; ci and cs are the frames of L and the C stack
\* then: with a record more for a C function and for a new luaV_execute.
Entered(st, L, ci, cs) == With(st, cs, L, [st.th[L] EXCEPT !.ci = ci])
Precall(st, L, ci, cs) ==
    LET t == st.th[L]
    IN  IF Len(t.ci) # t.size THEN Attempt(Entered(st, L, ci, cs), FALSE)
        ELSE IF 2 * t.size > MAXCALLS THEN GrowCI(st, L)
        ELSE Attempt(Entered(GrowCI(st, L).st, L, ci, cs), FALSE)

BodyOf(kind) == IF kind = "L" THEN "exec" ELSE "cfun"

\* luaD_call; until it has entered the function there is only itself on the
\* C stack ("call").
TryCall(st, L, kind, handler) ==
    LET t == st.th[L]
        n == t.nCcalls + 1
        g == With(st, Append(st.cs, CRecord("call", L, TRUE, FALSE)), L, [t EXCEPT !.nCcalls = n])
    IN  IF n = MAXCCALLS THEN Attempt(g, TRUE)
        ELSE IF n >= MAXCCALLS + Margin THEN Attempt(Throw(g, L, "errerr"), FALSE)
        ELSE Precall(g, L, Append(t.ci, kind), Append(st.cs, CRecord(BodyOf(kind), L, TRUE, handler)))

\* luaG_errormsg: the error handler is called where the error is.
TryHandler(st, L) ==
    IF st.th[L].errfunc = "none" THEN Attempt(Throw(st, L, "run"), FALSE)
    ELSE TryCall(st, L, st.th[L].errfunc, TRUE)

\* The call of a handler may end in an error again, but once for the C calls and
\* once for the frames at most: both limits are raised before the handler is called.
Handled(a, L) == IF a.again THEN TryHandler(a.st, L) ELSE a
Settled(a, L) == Handled(Handled(Handled(a, L), L), L).st

ErrorMsg(st, L) == Settled(Attempt(st, TRUE), L)
CallD(st, L, kind, handler) == Settled(TryCall(st, L, kind, handler), L)

\* The function on top of the C stack has returned to luaD_call, luaV_execute,
\* luaD_pcall, lua_resume or luaG_errormsg; its thread has the frames ci now.
Returned(st, ci) ==
    LET r == Last(st.cs)
        t == st.th[r.th]
        g == With(st, PopC(st.cs), r.th, [t EXCEPT !.ci = ci, !.nCcalls = IF r.call THEN @ - 1 ELSE @])
        b == Last(g.cs)
        u == g.th[b.th]
    IN  IF r.handler THEN Throw(g, r.th, "run")
        ELSE IF b.k = "pcall"
             THEN With(g, PopC(g.cs), b.th, [u EXCEPT !.errfunc = b.save.errfunc, !.jmp = b.save.jmp])
        ELSE IF b.k = "resume"
             THEN With(g, PopC(g.cs), b.th, [u EXCEPT !.jmp = b.save.jmp, !.nCcalls = @ - 1])
        ELSE g

\* luaD_rawrunprotected in luaD_pcall
Protect(st, L, errfunc) ==
    LET t == st.th[L]
        s == [n |-> t.nCcalls, ci |-> Len(t.ci), errfunc |-> t.errfunc,
              allowhook |-> t.allowhook, jmp |-> t.jmp]
        r == [CRecord("pcall", L, FALSE, FALSE) EXCEPT !.save = s]
    IN  With(st, Append(st.cs, r), L, [t EXCEPT !.errfunc = errfunc, !.jmp = Len(st.cs) + 1])
-----------------------------------------------------------------------------
(***************************************************************************)
(* The interpreter loop runs a Lua function                                *)
(***************************************************************************)

CTop == Last(state.cs)
cur == CTop.th
me == state.th[cur]
CRuns(k) == state.cs # <<>> /\ CTop.k = k /\ CDepth < MaxDepth
SameSig == UNCHANGED sig

VMCallLua ==
    /\ CRuns("exec")
    /\ state' = Settled(Precall(state, cur, Append(me.ci, "L"), TopN(state.cs, CTop.n + 1)), cur)
    /\ SameSig

VMCallC ==
    /\ CRuns("exec")
    /\ state' = Settled(Precall(state, cur, Append(me.ci, "C"),
                                Append(state.cs, CRecord("cfun", cur, FALSE, FALSE))), cur)
    /\ SameSig

\* OP_TAILCALL: the new frame takes the place of the caller's.
VMTailCall ==
    /\ CRuns("exec")
    /\ state' = Settled(Precall(state, cur, Append(PopC(me.ci), "L"), state.cs), cur)
    /\ SameSig

\* luaV_gettable and others call metamethods.
VMCallMeta(kind) ==
    /\ CRuns("exec")
    /\ state' = CallD(state, cur, kind, FALSE)
    /\ SameSig

\* luaD_poscall; the loop ends with its last frame.
VMReturn ==
    /\ state.cs # <<>> /\ CTop.k = "exec"
    /\ state' = IF CTop.n > 1 THEN Entered(state, cur, PopC(me.ci), TopN(state.cs, CTop.n - 1))
                ELSE Returned(state, PopC(me.ci))
    /\ SameSig

VMError ==
    /\ CRuns("exec")
    /\ state' = ErrorMsg(state, cur)
    /\ SameSig

\* checkstacksizes of the collector, for any thread.
ShrinkCI(L) ==
    LET t == state.th[L]
    IN  /\ state.cs # <<>> /\ t.size <= MAXCALLS
        /\ 4 * (Len(t.ci) - 1) < t.size /\ 2 * BasicCI < t.size
        /\ state' = With(state, state.cs, L, [t EXCEPT !.size = @ \div 2])
        /\ SameSig
-----------------------------------------------------------------------------
(***************************************************************************)
(* A C function runs                                                       *)
(***************************************************************************)

CReturn ==
    /\ state.cs # <<>> /\ CTop.k = "cfun"
    /\ state' = Returned(state, PopC(me.ci))
    /\ SameSig

CCall(kind) ==
    /\ CRuns("cfun")
    /\ state' = CallD(state, cur, kind, FALSE)
    /\ SameSig

\* pcall, xpcall; docall of buildsh.c: traceback is the handler, and SIGINT is
\* caught meanwhile.
CPcall(kind, errfunc) ==
    /\ CRuns("cfun")
    /\ state' = CallD(Protect(state, cur, errfunc), cur, kind, FALSE)
    /\ SameSig

DoCall ==
    /\ CRuns("cfun") /\ CDepth = 2
    /\ state' = CallD(Protect(state, cur, "C"), cur, "L", FALSE)
    /\ sig' = "laction"

DoCallEnds ==
    /\ state.cs # <<>> /\ CDepth = 2 /\ sig = "laction"
    /\ sig' = "dfl" /\ UNCHANGED state

CError ==
    /\ CRuns("cfun")
    /\ state' = ErrorMsg(state, cur)
    /\ SameSig

\* lua_load, luaD_protectedparser: the parser runs protected, with the error
\* handler that is there already; no frame is entered.
CLoad ==
    /\ CRuns("cfun")
    /\ LET g == Protect(state, cur, me.errfunc)
       IN  state' = [g EXCEPT !.cs = Append(@, [CRecord("parser", cur, FALSE, FALSE) EXCEPT !.n = 0])]
    /\ SameSig

\* enterlevel and leavelevel of lparser.c
ParserEnter ==
    /\ CRuns("parser") /\ CTop.n < MAXCCALLS
    /\ LET g == With(state, TopN(state.cs, CTop.n + 1), cur, [me EXCEPT !.nCcalls = @ + 1])
       IN  state' = IF me.nCcalls + 1 > MAXCCALLS THEN Throw(g, cur, "syntax") ELSE g
    /\ SameSig

ParserLeave ==
    /\ CRuns("parser") /\ CTop.n > 0
    /\ state' = With(state, TopN(state.cs, CTop.n - 1), cur, [me EXCEPT !.nCcalls = @ - 1])
    /\ SameSig

\* generic_reader calls the function given to load.
ParserRead ==
    /\ CRuns("parser")
    /\ state' = CallD(state, cur, "L", FALSE)
    /\ SameSig

ParserEnd(ok) ==
    /\ CRuns("parser") /\ (ok => CTop.n = 0)
    /\ state' = IF ok THEN Returned(state, me.ci) ELSE Throw(state, cur, "syntax")
    /\ SameSig
-----------------------------------------------------------------------------
(***************************************************************************)
(* Coroutines                                                              *)
(***************************************************************************)

CoStatus(L, co) ==
    LET t == state.th[co]
    IN  IF L = co THEN "running"
        ELSE CASE t.status = "yield" -> "suspended"
               [] t.status = "ok" -> IF Len(t.ci) > 1 THEN "normal"
                                     ELSE IF t.fresh THEN "suspended" ELSE "dead"
               [] OTHER -> "dead"

\* auxresume, lua_setlevel, lua_resume and resume: the function starts, or the
\* call to yield returns.  Otherwise the C function gets an error back, and
\* resume_error has put its message where the function of a new coroutine was.
CResume(co) ==
    LET t  == state.th[co]
        n  == me.nCcalls + 1
        t1 == [t EXCEPT !.nCcalls = n, !.baseCcalls = n, !.jmp = CDepth + 1]
        r  == [CRecord("resume", co, FALSE, FALSE) EXCEPT !.save = [NoSave EXCEPT !.jmp = t.jmp]]
        e  == CRecord("exec", co, FALSE, FALSE)
        cs == Append(state.cs, r)
    IN  /\ CRuns("cfun") /\ CoStatus(cur, co) = "suspended"
        /\ state' = IF n > MAXCCALLS
                THEN With(state, state.cs, co, [t EXCEPT !.nCcalls = me.nCcalls, !.fresh = FALSE])
                ELSE IF t.status = "ok"
                THEN Settled(Precall(With(state, cs, co, [t1 EXCEPT !.fresh = FALSE]), co,
                                     Append(t.ci, "L"), Append(cs, e)), co)
                ELSE With(state, Append(cs, [e EXCEPT !.n = Len(t.ci) - 2]), co,
                          [t1 EXCEPT !.status = "ok", !.ci = PopC(@)])
        /\ SameSig

\* lua_yield: the C function returns -1 to luaD_precall, luaV_execute returns,
\* and so does resume.  Nothing else may be between them on the C stack.
CYield ==
    LET below == PopC(state.cs)
        over  == IF Last(below).k = "exec" THEN PopC(below) ELSE below
        at    == Last(over)
        t     == [me EXCEPT !.status = "yield", !.jmp = at.save.jmp, !.nCcalls = @ - 1]
    IN  /\ CRuns("cfun")
        /\ state' = IF me.nCcalls > me.baseCcalls THEN ErrorMsg(state, cur)
                ELSE [With(state, PopC(over), cur, t) EXCEPT !.lost = @ \/ at.k # "resume" \/ at.th # cur]
        /\ SameSig
-----------------------------------------------------------------------------
\* laction: a hook is set for the main thread, whichever thread runs.
Sigint ==
    /\ state.cs # <<>> /\ sig = "laction" /\ ~state.hook
    /\ sig' = "dfl"
    /\ state' = [state EXCEPT !.hook = TRUE]

\* luaD_callhook and lstop
Interrupted ==
    /\ CRuns("exec") /\ cur = Main /\ state.hook /\ state.th[Main].allowhook
    /\ LET g == With(state, Append(state.cs, CRecord("hook", Main, FALSE, FALSE)), Main,
                     [me EXCEPT !.allowhook = FALSE])
       IN  state' = ErrorMsg([g EXCEPT !.hook = FALSE], Main)
    /\ SameSig

\* main calls pmain with lua_cpcall.
CallsInit ==
    /\ state = CallD(Protect([cs |-> <<>>, th |-> [L \in Threads |-> NewThread],
                          hook |-> FALSE, lost |-> FALSE], Main, "none"), Main, "C", FALSE)
    /\ sig = "dfl"

CallsNext ==
    \/ VMCallLua \/ VMCallC \/ VMTailCall \/ VMReturn \/ VMError
    \/ CReturn \/ CError \/ CLoad \/ DoCall \/ DoCallEnds
    \/ ParserEnter \/ ParserLeave \/ ParserRead \/ \E ok \in BOOLEAN : ParserEnd(ok)
    \/ \E kind \in {"L", "C"} : VMCallMeta(kind) \/ CCall(kind)
    \/ \E kind \in {"L", "C"}, errfunc \in {"none", "L"} : CPcall(kind, errfunc)
    \/ \E co \in Coroutines : CResume(co)
    \/ \E L \in Threads : ShrinkCI(L)
    \/ CYield \/ Sigint \/ Interrupted

CallsSpec == CallsInit /\ [][CallsNext]_cvars
-----------------------------------------------------------------------------
\* The sum of the first n of the numbers f.
Total(f, n) == LET sum[k \in 0..n] == IF k = 0 THEN 0 ELSE sum[k - 1] + f[k] IN sum[n]

\* The C calls, and the frames of L, in the first i records of the C stack.
LevelOf(r) == (IF r.call THEN 1 ELSE 0) + (IF r.k = "parser" THEN r.n ELSE 0) + (IF r.k = "resume" THEN 1 ELSE 0)
FrameOf(r, L) == IF r.th # L THEN 0 ELSE IF r.k = "exec" THEN r.n ELSE IF r.k = "cfun" THEN 1 ELSE 0
Levels(cs, i) == Total([j \in 1..Len(cs) |-> LevelOf(cs[j])], i)
Frames(cs, L, i) == Total([j \in 1..Len(cs) |-> FrameOf(cs[j], L)], i)

LastOf(L) == {i \in 1..CDepth : state.cs[i].th = L /\ \A j \in 1..CDepth : state.cs[j].th = L => j <= i}

\* nCcalls of a thread that is on the C stack is the number of C calls below:
\* also after errors, in a parser that fails, and across coroutines, so that
\* the limit is one on the C stack as a whole.
LevelsExact ==
    /\ \A L \in Threads : \A i \in LastOf(L) : state.th[L].nCcalls = Levels(state.cs, i)
    /\ Levels(state.cs, CDepth) <= MAXCCALLS + Margin

\* An error goes to the innermost setjmp of its own thread, and there is no
\* frame of another thread that the longjmp would cut off with it.
ErrorsStayInThread ==
    \A L \in Threads :
      LET own == {i \in 1..CDepth : state.cs[i].k \in {"pcall", "resume"} /\ state.cs[i].th = L}
      IN  /\ state.th[L].jmp = IF own = {} THEN 0 ELSE CHOOSE i \in own : \A j \in own : j <= i
          /\ (state.cs # <<>> /\ L = cur) =>
               \A i \in state.th[L].jmp..CDepth : i = 0 \/ state.cs[i].th = L

\* A thread is on the C stack at most once, in one piece; it is what
\* coroutine.status says it is, and the Lua frames of a running thread are
\* those that the loops on the C stack account for.
ThreadsInPlace ==
    LET on(L) == {i \in 1..CDepth : state.cs[i].th = L}
    IN  /\ ~state.lost
        /\ \A co \in Coroutines :
             /\ \A i, j \in on(co) : \A m \in i..j : m \in on(co)
             /\ state.cs # <<>> => CoStatus(cur, co) =
                  IF co = cur THEN "running" ELSE IF on(co) # {} THEN "normal"
                  ELSE IF state.th[co].status \in {"run", "errerr"}
                          \/ (state.th[co].status = "ok" /\ ~state.th[co].fresh) THEN "dead" ELSE "suspended"
        /\ \A L \in Threads : on(L) # {} => Len(state.th[L].ci) = 1 + Frames(state.cs, L, CDepth)

\* Hooks are off only while one runs, and an error handler is in force only
\* in the protected call that it was given to: errors put both back.
HandlersRestored ==
    \A L \in Threads :
      LET own == {i \in 1..CDepth : state.cs[i].k = "pcall" /\ state.cs[i].th = L}
      IN  state.cs # <<>> =>
            /\ ~state.th[L].allowhook => \E i \in 1..CDepth : state.cs[i].k = "hook" /\ state.cs[i].th = L
            /\ own = {} => state.th[L].errfunc = "none"

\* Whatever errors, interrupts, yields and ends of calls there have been, each thread
\* and the C stack are as if the calls that have gone had never been made (luaD_throw,
\* luaD_pcall, lua_resume, lua_yield).
CallsUnwind == LevelsExact /\ ErrorsStayInThread /\ ThreadsInPlace /\ HandlersRestored
=============================================================================
