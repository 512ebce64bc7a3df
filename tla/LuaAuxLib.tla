------------------------------ MODULE LuaAuxLib ------------------------------
(***************************************************************************)
(* Two data structures of lauxlib.c.  A luaL_Buffer collects a string in a *)
(* block of C memory and in pieces on the Lua stack, which it joins now    *)
(* and then so that they stay few; the characters are numbered in the      *)
(* order in which the program adds them.  luaL_ref and luaL_unref keep a   *)
(* list of free references inside the table that holds the values.         *)
(***************************************************************************)
EXTENDS Integers, Sequences, SequencesExt, FiniteSets

CONSTANTS BufferSize,          \* LUAL_BUFFERSIZE
          Limit,               \* LIMIT, half of LUA_MINSTACK
          MaxText,             \* bound: characters added to a buffer
          MaxRef,              \* bound: slots of the table of references
          Values, NilValue     \* what is referenced
ASSUME AuxAssumption ==
    /\ {BufferSize, Limit, MaxText, MaxRef} \subseteq Nat \ {0}
    /\ NilValue \notin Values /\ NilValue \notin 1..MaxRef

VARIABLES pieces,   \* the strings of the buffer on the Lua stack, bottom first
          block,    \* the characters between B->buffer and B->p
          ref,      \* the table of references: slot -> value, or next free slot
          held      \* what the program keeps: references, with their values
bvars == <<pieces, block>>
rvars == <<ref, held>>

BufferText  == FlattenSeq(pieces) \o block
NextChars(n) == [k \in 1..n |-> Len(BufferText) + k]

\* adjuststack: pieces are joined from the top, one more as long as there are too many
\* of them or the next one is shorter than those that are joined already.
toplen(ps, toget) == Len(FlattenSeq(SubSeq(ps, Len(ps) - toget + 1, Len(ps))))
JoinsMore(ps, toget) ==
    toget < Len(ps) /\ (Len(ps) - toget + 1 >= Limit \/ toplen(ps, toget) > Len(ps[Len(ps) - toget]))
Joined(ps) ==
    CHOOSE toget \in 1..Len(ps) : ~JoinsMore(ps, toget) /\ \A n \in 1..(toget - 1) : JoinsMore(ps, n)
adjuststack(ps) ==
    IF Len(ps) <= 1 THEN ps
    ELSE LET n == Joined(ps)
         IN  Append(SubSeq(ps, 1, Len(ps) - n), FlattenSeq(SubSeq(ps, Len(ps) - n + 1, Len(ps))))

\* emptybuffer: the block becomes a piece.
emptybuffer(ps) == IF block = <<>> THEN ps ELSE Append(ps, block)

BufferInit == pieces = <<>> /\ block = <<>>

\* luaL_addchar, with luaL_prepbuffer if the block is full
AddChar ==
    /\ Len(BufferText) < MaxText
    /\ IF Len(block) < BufferSize
       THEN block' = block \o NextChars(1) /\ pieces' = pieces
       ELSE block' = NextChars(1) /\ pieces' = adjuststack(emptybuffer(pieces))

\* luaL_prepbuffer and luaL_addsize: the program writes n characters into the block.
AddSize ==
    /\ pieces' = IF block = <<>> THEN pieces ELSE adjuststack(emptybuffer(pieces))
    /\ \E n \in 0..BufferSize : Len(BufferText) + n <= MaxText /\ block' = NextChars(n)

\* luaL_addvalue: a string on the top of the stack
AddValue ==
    \E n \in 0..(MaxText - Len(BufferText)) :
        IF n <= BufferSize - Len(block) THEN block' = block \o NextChars(n) /\ pieces' = pieces
        ELSE pieces' = adjuststack(Append(emptybuffer(pieces), NextChars(n))) /\ block' = <<>>

\* luaL_pushresult: one piece, even if there is nothing
PushResult == pieces' = <<BufferText>> /\ block' = <<>>

BufferNext == AddChar \/ AddSize \/ AddValue \/ PushResult
-----------------------------------------------------------------------------
FREELIST_REF == 0
Slot(r) == IF r \in DOMAIN ref THEN ref[r] ELSE NilValue
Store(t, r, v) == IF v = NilValue THEN [k \in DOMAIN t \ {r} |-> t[k]]
                  ELSE [k \in DOMAIN t \cup {r} |-> IF k = r THEN v ELSE t[k]]

RefInit == ref = <<>> /\ held = {}

\* lua_objlen: any border of the table
RefBorder(n) == (n = 0 \/ n \in DOMAIN ref) /\ n + 1 \notin DOMAIN ref

\* luaL_ref that leaves the slot in the list.
luaL_refShared(v) ==
    \E r \in 1..MaxRef :
        /\ IF Slot(FREELIST_REF) # NilValue THEN r = Slot(FREELIST_REF) ELSE RefBorder(r - 1)
        /\ ref' = Store(ref, r, v)
        /\ held' = held \cup {<<r, v>>}

luaL_ref(v) ==
    \E r \in 1..MaxRef :
        /\ \/ /\ r = Slot(FREELIST_REF)
              /\ ref' = Store(Store(ref, FREELIST_REF, Slot(r)), r, v)
           \/ /\ Slot(FREELIST_REF) = NilValue /\ RefBorder(r - 1)
              /\ ref' = Store(ref, r, v)
        /\ held' = held \cup {<<r, v>>}

luaL_unref(h) ==
    /\ ref' = Store(Store(ref, h[1], Slot(FREELIST_REF)), FREELIST_REF, h[1])
    /\ held' = held \ {h}

RefNext == (\E v \in Values : luaL_ref(v)) \/ (\E h \in held : luaL_unref(h))
-----------------------------------------------------------------------------
AuxInit == BufferInit /\ RefInit
AuxNext == (BufferNext /\ UNCHANGED rvars) \/ (RefNext /\ UNCHANGED bvars)
AuxSpec == AuxInit /\ [][AuxNext]_<<bvars, rvars>>

\* The buffer holds all characters in the order in which they were added, however
\* luaL_addvalue and adjuststack shift and join its pieces.
BufferInOrder == BufferText = [k \in 1..Len(BufferText) |-> k]

\* Between calls of the buffer functions the pieces of a buffer never take more than
\* LIMIT slots of the stack (lauxlib.c:395); luaL_addvalue has its value in one more
\* until adjuststack has joined the pieces.
BufferFewSlots == Len(pieces) <= Limit

\* Every reference that luaL_ref gave out and that was not given back leads to its
\* value, whatever the order in which others were released: no reference is given
\* out twice, and the list of free ones never runs into a value.
RefsKept == \A h \in held : Slot(h[1]) = h[2]

\* What C code puts into a buffer or behind a reference is there when it asks for it
\* (luaL_Buffer, luaL_ref), and the pieces of a buffer stay few.
StorageKept == BufferInOrder /\ BufferFewSlots /\ RefsKept
=============================================================================
