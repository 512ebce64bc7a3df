------------------------------ MODULE LuaTabLib ------------------------------
(***************************************************************************)
(* table.sort, insert, remove and concat of ltablib.c.  An array is a      *)
(* function on a range of indices around 1..n, Nil where it has no value.  *)
(* The comparison function of sort is a relation that may be no order; to  *)
(* compare with Nil is an error.                                           *)
(***************************************************************************)
EXTENDS Integers, Sequences, SequencesExt, FiniteSets

CONSTANT Absent                \* nil in an array

RECURSIVE Up(_, _, _, _, _), Down(_, _, _, _, _), Partition(_, _, _, _, _, _), auxsort(_, _, _, _, _)

Sorted(a, err, i) == [a |-> a, err |-> err, i |-> i]
set2(a, i, j) == [a EXCEPT ![i] = a[j], ![j] = a[i]]
sort_comp(lt, x, y) == <<x, y>> \in lt
HasNil(x, y) == x = Absent \/ y = Absent

\* One comparison of the median of three: swap a[i] and a[j] if a[i] < a[j] is "no".
Exchange(st, lt, i, j) ==
    IF st.err \/ HasNil(st.a[i], st.a[j]) THEN [st EXCEPT !.err = TRUE]
    ELSE IF sort_comp(lt, st.a[i], st.a[j]) THEN Sorted(set2(st.a, i, j), FALSE, 1) ELSE [st EXCEPT !.i = 0]

\* repeat ++i until a[i] >= P
Up(a, lt, p, i, u) ==
    IF HasNil(a[i], p) THEN Sorted(a, TRUE, i)
    ELSE IF ~sort_comp(lt, a[i], p) THEN Sorted(a, FALSE, i)
    ELSE IF i > u THEN Sorted(a, TRUE, i)
    ELSE Up(a, lt, p, i + 1, u)

\* repeat --j until a[j] <= P
Down(a, lt, p, j, l) ==
    IF HasNil(a[j], p) THEN Sorted(a, TRUE, j)
    ELSE IF ~sort_comp(lt, p, a[j]) THEN Sorted(a, FALSE, j)
    ELSE IF j < l THEN Sorted(a, TRUE, j)
    ELSE Down(a, lt, p, j - 1, l)

\* The loop around the pivot p: gives the place where the two scans have met.
Partition(a, lt, p, i, j, lu) ==
    LET up == Up(a, lt, p, i + 1, lu[2])
        dn == Down(a, lt, p, j - 1, lu[1])
    IN  IF up.err THEN up
        ELSE IF dn.err THEN dn
        ELSE IF dn.i < up.i THEN Sorted(a, FALSE, up.i)
        ELSE Partition(set2(a, up.i, dn.i), lt, p, up.i, dn.i, lu)

\* auxsort that leaves the pivot in the upper part.
auxsortHalf(a, lt, l, u, fuel) ==
    IF l >= u \/ fuel = 0 THEN Sorted(a, FALSE, 0)
    ELSE LET r == Exchange(Sorted(a, FALSE, 0), lt, u, l)
         IN  IF r.err THEN r ELSE auxsort(r.a, lt, l + 1, u, fuel - 1)

auxsort(a, lt, l, u, fuel) ==
    IF l >= u THEN Sorted(a, FALSE, 0)
    ELSE IF fuel = 0 THEN Sorted(a, FALSE, -1)
    ELSE
    LET two   == Exchange(Sorted(a, FALSE, 0), lt, u, l)
        mid   == (l + u) \div 2
        low   == Exchange(two, lt, mid, l)
        three == IF low.err \/ low.i = 1 THEN low ELSE Exchange(low, lt, u, mid)
        p     == three.a[mid]
        part  == Partition(set2(three.a, mid, u - 1), lt, p, l, u - 1, <<l, u>>)
        i     == part.i
        whole == set2(part.a, u - 1, i)
        small == IF i - l < u - i THEN <<l, i - 1>> ELSE <<i + 1, u>>
        large == IF i - l < u - i THEN <<i + 1, u>> ELSE <<l, i - 1>>
        first == auxsort(whole, lt, small[1], small[2], fuel - 1)
    IN  IF two.err \/ u - l = 1 THEN [two EXCEPT !.i = 0]
        ELSE IF three.err \/ u - l = 2 THEN [three EXCEPT !.i = 0]
        ELSE IF part.err THEN part
        ELSE IF first.err \/ first.i = -1 THEN first
        ELSE auxsort(first.a, lt, large[1], large[2], fuel - 1)

\* The length of a sequence of values that has no Nil.
aux_getn(a) == Cardinality({i \in DOMAIN a : a[i] # Absent})

Assign(a, i, x) == [k \in DOMAIN a |-> IF k = i THEN x ELSE a[k]]

\* table.insert(t, pos, v): a position after the end grows the array.
tinsert(a, pos, v) ==
    LET e == IF pos > aux_getn(a) + 1 THEN pos ELSE aux_getn(a) + 1
    IN  Assign(FoldLeft(LAMBDA t, i : Assign(t, i, t[i - 1]), a, [k \in 1..(e - pos) |-> e - k + 1]), pos, v)

tremove(a, pos) ==
    LET e == aux_getn(a)
        down == FoldLeft(LAMBDA t, i : Assign(t, i, t[i + 1]), a, [k \in 1..(e - pos) |-> pos + k - 1])
    IN  IF pos \notin 1..e THEN [value |-> Absent, a |-> a]
        ELSE [value |-> a[pos], a |-> Assign(down, e, Absent)]

\* table.concat: the values of i..last with the separator between them; an error if
\* one of them is missing.
tconcat(a, sep, i, last) ==
    LET field(b, k) == IF b.err \/ a[k] = Absent THEN [b EXCEPT !.err = TRUE] ELSE [b EXCEPT !.out = Append(@, a[k])]
        most == FoldLeft(LAMBDA b, k : [field(b, k) EXCEPT !.out = Append(@, sep)], [err |-> FALSE, out |-> <<>>],
                         [k \in 1..(last - i) |-> i + k - 1])
    IN  IF i <= last THEN field(most, last) ELSE most
=============================================================================
