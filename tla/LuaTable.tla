------------------------------ MODULE LuaTable ------------------------------
(***************************************************************************)
(* Lua tables (ltable.c): an array part and a hash part with chains inside *)
(* of it (Brent's variation), which grow and shrink together.  The build   *)
(* system keeps everything in such tables and walks them with next while   *)
(* it clears fields, and the garbage collector kills keys meanwhile.       *)
(***************************************************************************)
EXTENDS Integers, Sequences, FiniteSets, SequencesExt

CONSTANTS
    Keys,        \* integers and names
    Vals,        \* values
    Nil,         \* no value
    Idle,        \* no traversal
    HashStr,     \* the hash of a name
    HashNum,     \* the sum of the words of the double 1, 2, ...
    MaxArray     \* bound: sizes of new tables

VARIABLES
    t,           \* the Table: array, node, lastfree, dummy (node == dummynode)
    dict,        \* history: what has been assigned
    iter,        \* a traversal with next: Idle, or the last result (Nil: at its start)
    seen,        \* the keys it has returned
    steady       \* the keys with a value ever since it started

tvars == <<t, dict, iter, seen, steady>>

Ints == Keys \cap Int
Node == [key : Keys \cup {Nil}, dead : BOOLEAN, val : Vals \cup {Nil}, next : Nat]
Empty == [key |-> Nil, dead |-> FALSE, val |-> Nil, next |-> 0]
Odd(n) == IF n % 2 = 0 THEN n + 1 ELSE n
Pow2(n) == CHOOSE p \in {1, 2, 4, 8, 16} : p >= n /\ (p = 1 \/ p \div 2 < n)

\* mainposition, hashnum and hashstr; positions start with 1.
MainPosition(tb, k) ==
    LET size == Len(tb.node)
    IN  1 + IF k \in Int THEN IF k = 0 THEN 0 ELSE HashNum[k] % Odd(size - 1)
            ELSE HashStr[k] % size

\* Follows the chain of a key to the node that has it, dead keys included or not.
Chain(tb, k, deadToo) ==
    LET walk[n \in 0..Len(tb.node)] ==
          IF n = 0 \/ (tb.node[n].key = k /\ (deadToo \/ ~tb.node[n].dead)) THEN n
          ELSE walk[tb.node[n].next]
    IN  walk[MainPosition(tb, k)]

Find(tb, k) == Chain(tb, k, FALSE)
InArray(tb, k) == k \in Int /\ k >= 1 /\ k <= Len(tb.array)

\* luaH_get, luaH_getnum, luaH_getstr
Get(tb, k) ==
    IF InArray(tb, k) THEN tb.array[k]
    ELSE LET n == Find(tb, k) IN IF n = 0 THEN Nil ELSE tb.node[n].val

\* The position of a free node, from the end down; 0 if there is none.
GetFreePos(tb) ==
    LET free[n \in 0..(Len(tb.node) + 1)] ==
          IF n <= 1 THEN 0 ELSE IF tb.node[n - 1].key = Nil THEN n - 1 ELSE free[n - 1]
    IN  free[tb.lastfree]
-----------------------------------------------------------------------------
(***************************************************************************)
(* Rehashing                                                               *)
(***************************************************************************)

\* numusearray, numusehash, countint: the integer keys in use, by slices
\* (2^(i-1), 2^i].
IntKeys(tb, ek) == {k \in Ints : k >= 1 /\ (k = ek \/ Get(tb, k) # Nil)}
TotalUse(tb) == Cardinality({k \in Keys : Get(tb, k) # Nil}) + 1
Nums(used, i) == Cardinality({k \in used : Pow2(k) = 2^i})

\* The array gets the largest size of which more than half is in use; a is
\* the number of keys up to 2^i, na of those that go to the array.
ComputeSizes(used) ==
    LET loop[i \in 0..5] ==
          IF i = 0 THEN [a |-> 0, na |-> 0, n |-> 0]
          ELSE LET s == loop[i - 1]
                   a == s.a + Nums(used, i - 1)
               IN  IF 2^(i - 1) \div 2 >= Cardinality(used) \/ s.a = Cardinality(used) THEN s
                   ELSE IF a > s.a /\ a > 2^(i - 1) \div 2
                        THEN [a |-> a, na |-> a, n |-> 2^(i - 1)]
                   ELSE [s EXCEPT !.a = a]
    IN  loop[5]

\* setnodevector
NodeVector(tb, size) ==
    [tb EXCEPT !.dummy = (size = 0), !.node = SubSeq([i \in 1..16 |-> Empty], 1, Pow2(size)),
               !.lastfree = IF size = 0 THEN 1 ELSE Pow2(size) + 1]

\* setarrayvector
ArrayVector(tb, size) ==
    [tb EXCEPT !.array = SubSeq(@ \o [i \in 1..16 |-> Nil], 1, size)]

RECURSIVE Set(_, _, _)

\* The elements of the slice that vanishes go into the hash part, then the old
\* nodes are put in again, from the end.
Resize(tb, nasize, nhsize) ==
    LET old   == tb.array
        slice == IF Len(old) <= nasize THEN <<>>
                 ELSE [i \in 1..(Len(old) - nasize) |-> [key |-> nasize + i, val |-> old[nasize + i]]]
        items == slice \o Reverse(tb.node)
    IN  FoldLeft(LAMBDA acc, e : IF e.val = Nil THEN acc ELSE Set(acc, e.key, e.val),
                 NodeVector(ArrayVector(tb, nasize), nhsize), items)

ResizeArray(tb, nasize) ==
    Resize(tb, nasize, IF tb.dummy THEN 0 ELSE Len(tb.node))

Rehash(tb, ek) ==
    LET s == ComputeSizes(IntKeys(tb, ek))
    IN  Resize(tb, s.n, TotalUse(tb) - s.na)

\* The chain is not redone when the colliding node moves.
NewKeyUnchained(tb, k, v) ==
    LET mp == MainPosition(tb, k)
        n  == GetFreePos(tb)
    IN  IF tb.node[mp].val = Nil /\ ~tb.dummy
        THEN [tb EXCEPT !.node[mp] = [@ EXCEPT !.key = k, !.dead = FALSE, !.val = v]]
        ELSE IF n = 0 THEN Set(Rehash(tb, k), k, v)
        ELSE [tb EXCEPT !.lastfree = n, !.node[n] = tb.node[mp],
                        !.node[mp] = [key |-> k, dead |-> FALSE, val |-> v, next |-> 0]]

\* A node without a value is used again, its place in a chain included.  A
\* colliding node that is not in its main position moves to a free one.
NewKey(tb, k, v) ==
    LET mp    == MainPosition(tb, k)
        n     == GetFreePos(tb)
        new   == [key |-> k, dead |-> FALSE, val |-> v, next |-> 0]
        other == MainPosition(tb, tb.node[mp].key)
        prev  == CHOOSE p \in 1..Len(tb.node) : tb.node[p].next = mp
    IN  IF tb.node[mp].val = Nil /\ ~tb.dummy
        THEN [tb EXCEPT !.node[mp] = [new EXCEPT !.next = tb.node[mp].next]]
        ELSE IF n = 0 THEN Set(Rehash(tb, k), k, v)
        ELSE IF other # mp
        THEN [tb EXCEPT !.lastfree = n, !.node[prev].next = n, !.node[n] = tb.node[mp],
                        !.node[mp] = new]
        ELSE [tb EXCEPT !.lastfree = n, !.node[mp].next = n,
                        !.node[n] = [new EXCEPT !.next = tb.node[mp].next]]

\* luaH_set, luaH_setnum, luaH_setstr and the assignment to what they return.
Set(tb, k, v) ==
    LET n == Find(tb, k)
    IN  IF InArray(tb, k) THEN [tb EXCEPT !.array[k] = v]
        ELSE IF n # 0 THEN [tb EXCEPT !.node[n].val = v]
        ELSE NewKey(tb, k, v)
-----------------------------------------------------------------------------
(***************************************************************************)
(* Traversals and borders                                                  *)
(***************************************************************************)

\* The array elements come first, then the nodes; 0 is the start, -1 the error
\* "invalid key to 'next'".  The key may be dead already.
FindIndex(tb, k) ==
    IF k = Nil THEN 0
    ELSE IF InArray(tb, k) THEN k
    ELSE LET n == Chain(tb, k, TRUE)
         IN  IF n = 0 THEN -1 ELSE n + Len(tb.array)

\* The hash part is counted from its own start.
NextKeyShort(tb, k) ==
    LET items == [i \in DOMAIN tb.array |-> [key |-> i, val |-> tb.array[i]]] \o tb.node
        left  == {i \in DOMAIN items : i > FindIndex(tb, k) + Len(tb.array) /\ items[i].val # Nil}
    IN  IF left = {} THEN Nil ELSE items[CHOOSE i \in left : \A j \in left : i <= j].key

\* luaH_next: the key that follows, or Nil.
NextKey(tb, k) ==
    LET items == [i \in DOMAIN tb.array |-> [key |-> i, val |-> tb.array[i]]] \o tb.node
        left  == {i \in DOMAIN items : i > FindIndex(tb, k) /\ items[i].val # Nil}
    IN  IF left = {} THEN Nil ELSE items[CHOOSE i \in left : \A j \in left : i <= j].key

\* The binary searches of luaH_getn and unbound_search: i is present (or 0)
\* and j is not.
Bisect(tb, lo, hi) ==
    LET search[w \in 0..16, i \in 0..16, j \in 0..16] ==
          IF j - i <= 1 THEN i
          ELSE LET m == (i + j) \div 2
               IN  IF Get(tb, m) = Nil THEN search[w - 1, i, m] ELSE search[w - 1, m, j]
    IN  search[16, lo, hi]

UnboundSearch(tb, from) ==
    LET double[w \in 0..4, i \in 0..16, j \in 0..16] ==
          IF Get(tb, j) = Nil THEN <<i, j>> ELSE double[w - 1, j, 2 * j]
        ij == double[4, from, from + 1]
    IN  Bisect(tb, ij[1], ij[2])

\* luaH_getn
GetN(tb) ==
    LET j == Len(tb.array)
    IN  IF j > 0 /\ tb.array[j] = Nil THEN Bisect(tb, 0, j)
        ELSE IF tb.dummy THEN j ELSE UnboundSearch(tb, j)
-----------------------------------------------------------------------------
Present == {k \in Keys : dict[k] # Nil}

\* luaH_new
TableInit ==
    /\ \E na \in 0..MaxArray, nh \in 0..MaxArray :
         t = ArrayVector(NodeVector([array |-> <<>>, node |-> <<>>, lastfree |-> 1,
                                     dummy |-> TRUE], nh), na)
    /\ dict = [k \in Keys |-> Nil]
    /\ iter = Idle /\ seen = <<>> /\ steady = {}

\* luaV_settable: a nil value makes a node too.  During a traversal only
\* fields that exist may be assigned to.
SetField(k, v) ==
    /\ iter # Idle => dict[k] # Nil
    /\ t' = Set(t, k, v)
    /\ dict' = [dict EXCEPT ![k] = v]
    /\ steady' = IF v = Nil THEN steady \ {k} ELSE steady
    /\ UNCHANGED <<iter, seen>>

\* OP_SETLIST: a constructor with more elements than the array part has.
SetList(n, v) ==
    /\ iter = Idle /\ n > Len(t.array) /\ 1..n \subseteq Keys
    /\ t' = FoldLeft(LAMBDA acc, i : Set(acc, i, v), ResizeArray(t, n), [i \in 1..n |-> i])
    /\ dict' = [k \in Keys |-> IF k \in 1..n THEN v ELSE dict[k]]
    /\ UNCHANGED <<iter, seen, steady>>

\* traversetable and removeentry of the collector: names without a value die.
Collect ==
    /\ t' = [t EXCEPT !.node = [i \in DOMAIN @ |-> [@[i] EXCEPT !.dead =
                                  @ \/ (t.node[i].val = Nil /\ t.node[i].key \notin Int \cup {Nil})]]]
    /\ t' # t
    /\ UNCHANGED <<dict, iter, seen, steady>>

StartNext ==
    /\ iter = Idle
    /\ iter' = Nil /\ seen' = <<>> /\ steady' = Present
    /\ UNCHANGED <<t, dict>>

StepNext ==
    /\ iter # Idle
    /\ LET k == NextKey(t, iter)
       IN  IF k = Nil THEN iter' = Idle /\ seen' = <<>> /\ steady' = {}
           ELSE iter' = k /\ seen' = Append(seen, k) /\ UNCHANGED steady
    /\ UNCHANGED <<t, dict>>

TableNext ==
    \/ \E k \in Keys, v \in Vals \cup {Nil} : SetField(k, v)
    \/ \E n \in Ints, v \in Vals : SetList(n, v)
    \/ Collect \/ StartNext \/ StepNext
-----------------------------------------------------------------------------
\* A table is a dictionary: whatever collisions, moves of nodes, rehashes and
\* dead keys there were, every key has the value that was assigned last.
IsDictionary == \A k \in Keys : Get(t, k) = dict[k]

\* A traversal never fails with "invalid key to 'next'", although fields are
\* cleared and the collector runs, and it returns no key twice.
TraversalGoesOn ==
    iter # Idle => /\ FindIndex(t, iter) >= 0
                   /\ \A i, j \in DOMAIN seen : seen[i] = seen[j] => i = j

\* A traversal that ends has returned every key that had a value all along.
TraversalComplete ==
    [][(iter # Idle /\ iter' = Idle) => steady \subseteq ToSet(seen)]_tvars

\* The length is a border, however many holes the table has.
LengthIsBorder ==
    LET n == GetN(t) IN (n = 0 \/ dict[n] # Nil) /\ (n + 1 \in Keys => dict[n + 1] = Nil)

\* Whichever key a table is rehashed for, its array part gets the largest size
\* of which more than half is in use, so that the rest fits into the hash part.
ArrayIsLargest ==
    \A ek \in Keys :
      LET used    == IntKeys(t, ek)
          upto(n) == Cardinality({k \in used : k <= n})
          good    == {n \in {1, 2, 4, 8} : upto(n) > n \div 2}
          s       == ComputeSizes(used)
      IN  /\ IF good = {} THEN s.n = 0 ELSE s.n \in good /\ \A n \in good : n <= s.n
          /\ s.na = upto(s.n)

\* A table answers every question as the dictionary of its assignments does: what a
\* field holds, how long the sequence is, and which key comes next in a traversal
\* (luaH_get, luaH_getn, luaH_next), and a rehash gives it the right size.
TableKept == IsDictionary /\ TraversalGoesOn /\ LengthIsBorder /\ ArrayIsLargest
=============================================================================
