------------------------------ MODULE MCLuaGC ------------------------------
(***************************************************************************)
(* Small heaps: tables with a weak table among them, userdata with a       *)
(* finalizer, closures and upvalues, a coroutine, a function in the making.*)
(***************************************************************************)
EXTENDS LuaGC

CONSTANTS main, glob, t1, t2, mw, mgc, u1, u2, c1, c2, v1, co, s1, pr

MCObj == {main, glob, t1, t2, mw, mgc, u1, u2, c1, c2, v1, co, s1, pr}
MCKind == [o \in MCObj |->
    CASE o \in {glob, t1, t2, mw, mgc} -> "table"
      [] o \in {u1, u2} -> "udata"
      [] o \in {c1, c2} -> "closure"
      [] o = v1 -> "upval"
      [] o \in {main, co} -> "thread"
      [] o = s1 -> "string"
      [] o = pr -> "proto"]
MCMode == [m \in {mw, mgc} |-> IF m = mw THEN {"v"} ELSE {}]

\* The program starts with the objects of given, reachable through globals;
\* it makes those of fresh, uses those of keys as keys in tables and changes
\* the metatables of those of meta.
World(given, fresh, keys, meta, slots, ref) ==
    [given |-> given, fresh |-> fresh, keys |-> keys, meta |-> meta, slots |-> slots,
     ref |-> [o \in MCObj |-> IF o = main THEN [NoFields EXCEPT !.env = IF glob \in given THEN glob ELSE mgc]
                              ELSE IF o \in DOMAIN ref THEN ref[o] ELSE NoFields]]
With(o, f, v) == [x \in {o} |-> [NoFields EXCEPT ![f] = v]]

Tables == World({glob}, {t1, t2}, {}, {}, {1}, <<>>)
Keys == World({glob}, {t1}, {t1}, {}, {1, 2}, <<>>)
Weaklings == World({glob, mw}, {t1}, {t1}, {}, {1}, With(glob, "mt", mw))
Metatables == World({glob, mw}, {t1}, {}, {glob, t1}, {1}, With(glob, "val", mw))
Basic == World({glob, mw}, {}, {}, {main}, {1}, With(glob, "val", mw))
Finalizers == World({glob, mgc}, {u1}, {}, {u1}, {1, 2}, With(glob, "val", mgc))
Closing == World({mgc}, {u1, u2}, {}, {u1, u2}, {1}, <<>>)
Upvalues == World({glob}, {c1, v1, t1}, {}, {}, {1}, <<>>)
Shared == World({glob}, {c1, c2, v1}, {}, {}, {1}, <<>>)
Coroutine == World({glob}, {co, c1, v1}, {}, {}, {1}, <<>>)
Strings == World({glob, mw}, {s1}, {s1}, {}, {1}, With(glob, "mt", mw))
Protos == World({glob}, {s1, pr}, {}, {}, {1, 2}, <<>>)
MCWorlds == {Tables, Keys, Weaklings, Metatables, Basic, Finalizers, Closing,
             Upvalues, Shared, Coroutine, Strings, Protos}
=============================================================================
