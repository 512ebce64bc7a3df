---------------------------- MODULE SequenceFacts ----------------------------
(***************************************************************************)
(* Facts that several proofs need: induction over the natural numbers in a *)
(* form that needs no predicate as a parameter, and what FlattenSeq does.  *)
(***************************************************************************)
EXTENDS Integers, Sequences, SequencesExt, SequenceTheorems, WellFoundedInduction, TLAPS

\* A set of natural numbers has a least one.
LEMMA LeastNumber ==
    ASSUME NEW T, T \subseteq Nat, T # {}
    PROVE  \E x \in T : \A y \in T : x <= y
<1> DEFINE R == {p \in Nat \X Nat : p[1] < p[2]}
<1>1. IsWellFoundedOn(R, Nat)
  BY NatLessThanWellFounded DEF OpToRel
<1> HIDE DEF R
<1>2. PICK x \in T : \A y \in T : <<y, x>> \notin R
  BY <1>1, WFMin
<1>3. \A y \in T : ~(y < x)
  BY <1>2 DEF R
<1> QED
  BY <1>3

\* Induction, with a set for the predicate.
LEMMA Induction ==
    ASSUME NEW T, 0 \in T, \A n \in Nat : n \in T => n + 1 \in T
    PROVE  \A n \in Nat : n \in T
<1> SUFFICES ASSUME Nat \ T # {} PROVE FALSE
  OBVIOUS
<1>1. PICK x \in Nat \ T : \A y \in Nat \ T : x <= y
  BY LeastNumber
<1> QED
  BY <1>1

-----------------------------------------------------------------------------
\* f joins the first sequences of ps, up to each of them.
Joins(f, ps) == f = [i \in 1..Len(ps) |-> IF i = 1 THEN ps[i] ELSE f[i - 1] \o ps[i]]

\* The recursive function in the definition of FlattenSeq is what it says.
LEMMA FlattenIs ==
    ASSUME NEW ps, Len(ps) \in Nat, Len(ps) # 0
    PROVE  \E f : Joins(f, ps) /\ FlattenSeq(ps) = f[Len(ps)]
<1> DEFINE N == Len(ps)
           Step(g, i) == IF i = 1 THEN ps[i] ELSE g[i - 1] \o ps[i]
           D(m, g) == g = [i \in 1..m |-> Step(g, i)]
           T == {m \in Nat : \E g : D(m, g)}
<1>1. 0 \in T
  <2>1. D(0, [i \in 1..0 |-> 0])
    OBVIOUS
  <2> QED BY <2>1
<1>2. ASSUME NEW m \in Nat, m \in T PROVE m + 1 \in T
  <2>1. PICK g : D(m, g)
    BY <1>2
  <2> DEFINE h == [i \in 1..(m + 1) |-> Step(g, i)]
  <2>2. \A i \in 1..m : h[i] = g[i]
    <3> TAKE i \in 1..m
    <3>1. h[i] = Step(g, i)
      OBVIOUS
    <3>2. g[i] = [q \in 1..m |-> Step(g, q)][i]
      BY <2>1
    <3> QED BY <3>1, <3>2
  <2>3. \A i \in 1..(m + 1) : Step(h, i) = Step(g, i)
    <3> HIDE DEF h
    <3> TAKE i \in 1..(m + 1)
    <3>1. i # 1 => i - 1 \in 1..m
      OBVIOUS
    <3>2. i # 1 => h[i - 1] = g[i - 1]
      BY <2>2, <3>1
    <3> QED BY <3>2
  <2>4. h = [i \in 1..(m + 1) |-> Step(h, i)]
    <3> HIDE DEF Step
    <3> QED BY <2>3
  <2>5. D(m + 1, h)
    BY <2>4
  <2> HIDE DEF h, D
  <2> QED BY <2>5
<1>3. N \in T
  <2> HIDE DEF T
  <2> QED BY <1>1, <1>2, Induction
<1>4. PICK g : D(N, g)
  BY <1>3
<1> DEFINE f == CHOOSE z : D(N, z)
<1>6. D(N, f)
  BY <1>4
<1>7. FlattenSeq(ps) = f[N]
  BY DEF FlattenSeq
<1> QED
  BY <1>6, <1>7 DEF Joins

\* One step of that function.
LEMMA JoinsStep ==
    ASSUME NEW ps, NEW f, Joins(f, ps), NEW i \in 1..Len(ps)
    PROVE  f[i] = IF i = 1 THEN ps[i] ELSE f[i - 1] \o ps[i]
  BY DEF Joins

\* Two sequences that begin alike are joined alike so far.
LEMMA JoinsAlike ==
    ASSUME NEW ps, NEW qs, NEW f, NEW g, Joins(f, ps), Joins(g, qs),
           Len(ps) \in Nat, Len(qs) \in Nat, NEW k \in Nat, k <= Len(ps), k <= Len(qs),
           \A i \in 1..k : ps[i] = qs[i]
    PROVE  \A i \in 1..k : f[i] = g[i]
<1> DEFINE T == {m \in Nat : m \in 1..k => f[m] = g[m]}
<1>1. 0 \in T
  OBVIOUS
<1>2. ASSUME NEW m \in Nat, m \in T PROVE m + 1 \in T
  <2> SUFFICES ASSUME m + 1 \in 1..k PROVE f[m + 1] = g[m + 1]
    OBVIOUS
  <2> DEFINE j == m + 1
  <2>1. f[j] = IF j = 1 THEN ps[j] ELSE f[j - 1] \o ps[j]
    <3>1. j \in 1..Len(ps)
      OBVIOUS
    <3> HIDE DEF j
    <3> QED BY <3>1, JoinsStep
  <2>2. g[j] = IF j = 1 THEN qs[j] ELSE g[j - 1] \o qs[j]
    <3>1. j \in 1..Len(qs)
      OBVIOUS
    <3> HIDE DEF j
    <3> QED BY <3>1, JoinsStep
  <2>3. ps[j] = qs[j] /\ j \in Nat
    OBVIOUS
  <2>4. j # 1 => f[j - 1] = g[j - 1]
    BY <1>2
  <2> HIDE DEF j
  <2>5. f[j] = g[j]
    BY <2>1, <2>2, <2>3, <2>4
  <2> QED BY <2>5 DEF j
<1> HIDE DEF T
<1>3. \A m \in Nat : m \in T
  BY <1>1, <1>2, Induction
<1> QED
  BY <1>3 DEF T

\* What FlattenSeq computes, one sequence at a time.
LEMMA FlattenAppend ==
    ASSUME NEW S, NEW ps \in Seq(Seq(S)), NEW p \in Seq(S)
    PROVE  FlattenSeq(Append(ps, p)) = FlattenSeq(ps) \o p
<1> DEFINE qs == Append(ps, p)
           N == Len(ps)
<1>1. N \in Nat /\ Len(qs) = N + 1 /\ qs[N + 1] = p /\ \A i \in 1..N : ps[i] = qs[i]
  OBVIOUS
<1>2. PICK g : Joins(g, qs) /\ FlattenSeq(qs) = g[N + 1]
  <2> HIDE DEF qs, N
  <2> QED BY <1>1, FlattenIs
<1>3. g[N + 1] = IF N + 1 = 1 THEN qs[N + 1] ELSE g[N + 1 - 1] \o qs[N + 1]
  <2> HIDE DEF qs, N
  <2>1. N + 1 \in 1..Len(qs) /\ Joins(g, qs)
    BY <1>1, <1>2
  <2> DEFINE e == N + 1
  <2>2. e \in 1..Len(qs) /\ Joins(g, qs)
    BY <2>1
  <2>3. g[e] = IF e = 1 THEN qs[e] ELSE g[e - 1] \o qs[e]
    <3> HIDE DEF e
    <3> QED BY <2>2, JoinsStep
  <2> QED BY <2>3, <1>1
<1>4. CASE N = 0
  <2>1. FlattenSeq(ps) = ps /\ ps = <<>>
    BY <1>4 DEF FlattenSeq
  <2>2. <<>> \o p = p
    OBVIOUS
  <2>3. FlattenSeq(qs) = p
    <3> HIDE DEF qs, N
    <3> QED BY <1>1, <1>2, <1>3, <1>4
  <2> QED BY <2>1, <2>2, <2>3
<1>5. CASE N # 0
  <2>1. PICK f : Joins(f, ps) /\ FlattenSeq(ps) = f[N]
    <3> HIDE DEF qs
    <3> QED BY <1>1, <1>5, FlattenIs
  <2>0. N = Len(ps) /\ N <= Len(qs)
    BY <1>1
  <2> HIDE DEF qs, N
  <2>2. f[N] = g[N]
    <3>1. \A i \in 1..N : f[i] = g[i]
      <4>1. /\ Joins(f, ps) /\ Joins(g, qs) /\ Len(ps) \in Nat /\ Len(qs) \in Nat /\ N \in Nat
            /\ N <= Len(ps) /\ N <= Len(qs) /\ \A i \in 1..N : ps[i] = qs[i]
        BY <1>1, <1>2, <2>0, <2>1
      <4> QED BY <4>1, JoinsAlike
    <3> QED BY <3>1, <1>1, <1>5
  <2>3. N + 1 # 1 /\ N + 1 - 1 = N
    BY <1>1, <1>5
  <2>4. FlattenSeq(qs) = FlattenSeq(ps) \o p
    BY <1>1, <1>2, <1>3, <2>1, <2>2, <2>3
  <2> QED BY <2>4 DEF qs
<1> QED
  BY <1>4, <1>5

\* Nothing is joined to nothing.
LEMMA FlattenEmpty == FlattenSeq(<<>>) = <<>>
  BY DEF FlattenSeq

\* Concatenation is associative.
LEMMA Associative == \A S : \A s, t, u \in Seq(S) : (s \o t) \o u = s \o (t \o u)
  BY ConcatAssociative

\* A sequence of sequences is joined piece by piece, from any place on.
LEMMA FlattenSplit ==
    ASSUME NEW S, NEW ps \in Seq(Seq(S)), NEW k \in 0..Len(ps)
    PROVE  /\ FlattenSeq(ps) \in Seq(S)
           /\ FlattenSeq(ps) = FlattenSeq(SubSeq(ps, 1, k)) \o FlattenSeq(SubSeq(ps, k + 1, Len(ps)))
<1> DEFINE A(m) == SubSeq(ps, 1, m)
           B(m) == SubSeq(ps, k + 1, m)
           T == {m \in Nat : m <= Len(ps) => FlattenSeq(A(m)) \in Seq(S)}
           U == {m \in Nat : k + m <= Len(ps) =>
                   /\ FlattenSeq(B(k + m)) \in Seq(S)
                   /\ FlattenSeq(A(k + m)) = FlattenSeq(A(k)) \o FlattenSeq(B(k + m))}
<1>c. \A s, t, u \in Seq(S) : (s \o t) \o u = s \o (t \o u)
  BY Associative
<1>0. Len(ps) \in Nat /\ k \in Nat /\ k <= Len(ps)
  OBVIOUS
<1>a. ASSUME NEW m \in Nat, m + 1 <= Len(ps)
      PROVE  /\ A(m + 1) = Append(A(m), ps[m + 1]) /\ A(m) \in Seq(Seq(S)) /\ ps[m + 1] \in Seq(S)
             /\ k <= m => B(m + 1) = Append(B(m), ps[m + 1]) /\ B(m) \in Seq(Seq(S))
  BY <1>0, <1>a
<1>b. A(0) = <<>> /\ B(k) = <<>> /\ A(Len(ps)) = ps
  BY <1>0
<1> HIDE DEF A, B
<1>1. 0 \in T
  <2>1. FlattenSeq(A(0)) = <<>> /\ <<>> \in Seq(S)
    BY <1>b, FlattenEmpty
  <2> QED BY <2>1
<1>2. ASSUME NEW m \in Nat, m \in T PROVE m + 1 \in T
  <2> SUFFICES ASSUME m + 1 <= Len(ps) PROVE FlattenSeq(A(m + 1)) \in Seq(S)
    OBVIOUS
  <2>1. FlattenSeq(A(m)) \in Seq(S)
    BY <1>2, <1>0
  <2>2. FlattenSeq(A(m + 1)) = FlattenSeq(A(m)) \o ps[m + 1]
    BY <1>a, FlattenAppend
  <2> QED BY <2>1, <2>2, <1>a, ConcatProperties
<1>3. \A m \in Nat : m \in T
  <2> HIDE DEF T
  <2> QED BY <1>1, <1>2, Induction
<1>4. 0 \in U
  <2>1. FlattenSeq(A(k)) \in Seq(S)
    BY <1>0, <1>3
  <2>2. FlattenSeq(A(k)) \o <<>> = FlattenSeq(A(k))
    BY <2>1
  <2>3. k + 0 = k
    BY <1>0
  <2>4. FlattenSeq(B(k)) = <<>> /\ <<>> \in Seq(S)
    BY <1>b, FlattenEmpty
  <2>5. FlattenSeq(B(k + 0)) \in Seq(S) /\ FlattenSeq(A(k + 0)) = FlattenSeq(A(k)) \o FlattenSeq(B(k + 0))
    BY <2>2, <2>3, <2>4
  <2> QED BY <2>5
<1>5. ASSUME NEW m \in Nat, m \in U PROVE m + 1 \in U
  <2> SUFFICES ASSUME k + (m + 1) <= Len(ps)
               PROVE  /\ FlattenSeq(B(k + (m + 1))) \in Seq(S)
                      /\ FlattenSeq(A(k + (m + 1))) = FlattenSeq(A(k)) \o FlattenSeq(B(k + (m + 1)))
    OBVIOUS
  <2> DEFINE j == k + m
             x == ps[j + 1]
             fa == FlattenSeq(A(k))
             fb == FlattenSeq(B(j))
  <2>1. j \in Nat /\ j + 1 <= Len(ps) /\ k <= j /\ k + (m + 1) = j + 1
    BY <1>0
  <2>2. fb \in Seq(S) /\ FlattenSeq(A(j)) = fa \o fb
    BY <1>5, <1>0
  <2>3. fa \in Seq(S)
    BY <1>0, <1>3
  <2> HIDE DEF j
  <2>4. /\ FlattenSeq(A(j + 1)) = FlattenSeq(A(j)) \o x
        /\ FlattenSeq(B(j + 1)) = fb \o x /\ x \in Seq(S)
    BY <2>1, <1>a, FlattenAppend
  <2> HIDE DEF x, fa, fb
  <2>5. (fa \o fb) \o x = fa \o (fb \o x)
    <3>2. fa \in Seq(S) /\ fb \in Seq(S) /\ x \in Seq(S)
      BY <2>2, <2>3, <2>4
    <3> QED BY <1>c, <3>2
  <2>6. fb \o x \in Seq(S)
    BY <2>2, <2>4, ConcatProperties
  <2> QED BY <2>1, <2>2, <2>4, <2>5, <2>6 DEF fa
<1>6. \A m \in Nat : m \in U
  <2> HIDE DEF U
  <2> QED BY <1>4, <1>5, Induction
<1>7. Len(ps) - k \in Nat /\ k + (Len(ps) - k) = Len(ps)
  BY <1>0
<1>8. FlattenSeq(ps) \in Seq(S)
  BY <1>0, <1>3, <1>b
<1>9. FlattenSeq(A(Len(ps))) = FlattenSeq(A(k)) \o FlattenSeq(B(Len(ps)))
  <2> DEFINE d == Len(ps) - k
  <2>1. d \in U /\ k + d <= Len(ps) /\ k + d = Len(ps)
    <3>1. d \in Nat /\ k + d = Len(ps)
      BY <1>7
    <3> HIDE DEF U, d
    <3> QED BY <3>1, <1>0, <1>6
  <2> HIDE DEF d
  <2> QED BY <2>1
<1> QED
  BY <1>8, <1>9, <1>b DEF A, B

-----------------------------------------------------------------------------
\* A new last element.
LEMMA LastChanged ==
    ASSUME NEW S, NEW B \in Seq(S), NEW w \in S, NEW v \in S
    PROVE  LET A == Append(B, w) IN [A EXCEPT ![Len(A)] = v] = Append(B, v) /\ A[Len(A)] = w
<1> DEFINE A == Append(B, w)
           n == Len(A)
           G == [A EXCEPT ![n] = v]
<1>1. /\ A \in Seq(S) /\ n = Len(A) /\ n = Len(B) + 1 /\ Len(B) \in Nat /\ A[n] = w
      /\ n \in 1..Len(A) /\ \A i \in 1..Len(B) : A[i] = B[i]
  OBVIOUS
<1> HIDE DEF A, n
<1>2. /\ G \in Seq(S) /\ Len(G) = n
      /\ \A i \in 1..n : G[i] = IF i = n THEN v ELSE A[i]
  <2>0. A \in [1..Len(A) -> S]
    BY <1>1, LenProperties
  <2>1. n \in Nat /\ A \in [1..n -> S]
    BY <1>1, <2>0
  <2>2. G \in [1..n -> S] /\ \A j \in 1..n : G[j] = IF j = n THEN v ELSE A[j]
    BY <1>1, <2>1
  <2> HIDE DEF G
  <2>3. G \in Seq(S) /\ Len(G) = n
    BY <2>1, <2>2
  <2> QED BY <2>2, <2>3
<1> HIDE DEF G
<1>3. Append(B, v) \in Seq(S) /\ Len(Append(B, v)) = n
  BY <1>1
<1>4. \A i \in 1..n : G[i] = Append(B, v)[i]
  BY <1>1, <1>2
<1>5. G = Append(B, v)
  BY <1>2, <1>3, <1>4, SeqEqual
<1> QED
  BY <1>1, <1>5 DEF G, n, A

\* Append makes a sequence.
LEMMA AppendIn == \A S : \A s \in Seq(S), c \in S : Append(s, c) \in Seq(S)
  OBVIOUS

\* Sequences of up to two elements.
LEMMA SmallSeqs == \A S : <<>> \in Seq(S) /\ \A x, y \in S : <<x>> \in Seq(S) /\ <<x, y>> \in Seq(S)
  OBVIOUS

\* A sequence with one more element.
LEMMA AppendEqual ==
    ASSUME NEW S, NEW g \in Seq(S), NEW h \in Seq(S), NEW x \in S, NEW N \in Nat,
           Len(g) = N, Len(h) = N + 1, h[N + 1] = x, \A i \in 1..N : h[i] = g[i]
    PROVE  h = Append(g, x)
<1> DEFINE k == Append(g, x)
<1>1. k \in Seq(S) /\ Len(k) = N + 1 /\ k[N + 1] = x /\ \A i \in 1..N : k[i] = g[i]
  OBVIOUS
<1> HIDE DEF k
<1>2. \A i \in 1..Len(h) : h[i] = k[i]
  <2> TAKE i \in 1..Len(h)
  <2>1. i = N + 1 \/ i \in 1..N
    OBVIOUS
  <2> QED BY <1>1, <2>1
<1>3. h = k
  BY <1>1, <1>2, SeqEqual
<1> QED
  BY <1>3 DEF k

\* Concatenation with a sequence of at most one element.
LEMMA Ends == \A S : \A u \in Seq(S) : u \o <<>> = u /\ \A c \in S : u \o <<c>> = Append(u, c)
  OBVIOUS

\* The first characters of a string.
LEMMA FirstOnes ==
    ASSUME NEW S, NEW a \in Seq(S)
    PROVE  /\ Len(a) \in Nat /\ SubSeq(a, 1, 0) = <<>> /\ SubSeq(a, 1, Len(a)) = a
           /\ \A m \in Nat : m + 1 <= Len(a) =>
                 /\ SubSeq(a, 1, m) \in Seq(S) /\ a[m + 1] \in S
                 /\ SubSeq(a, 1, m + 1) = Append(SubSeq(a, 1, m), a[m + 1])
  OBVIOUS

\* What FlattenSeq returns.
LEMMA JoinedIn ==
    ASSUME NEW S, NEW ps \in Seq(Seq(S))
    PROVE  FlattenSeq(ps) \in Seq(S)
<1>1. 0 \in 0..Len(ps)
  OBVIOUS
<1> QED
  BY <1>1, FlattenSplit

\* Short sequences, one element at a time.
LEMMA OneMore ==
    \A S : \A x, y, z \in S : /\ \A p : p = <<>> => Append(p, x) = <<x>>
                              /\ \A p : p = <<x>> => Append(p, y) = <<x, y>>
                              /\ \A p : p = <<x, y>> => Append(p, z) = <<x, y, z>>
<1> TAKE S
<1> TAKE x, y, z \in S
<1>1. ASSUME NEW p, p = <<>> PROVE Append(p, x) = <<x>>
  <2> DEFINE h == <<x>>
  <2>1. p \in Seq(S) /\ h \in Seq(S) /\ Len(p) = 0 /\ Len(h) = 0 + 1 /\ h[0 + 1] = x /\ \A i \in 1..0 : h[i] = p[i]
    BY <1>1
  <2> HIDE DEF h
  <2>2. h = Append(p, x)
    BY <2>1, AppendEqual
  <2> QED BY <2>2 DEF h
<1>2. ASSUME NEW p, p = <<x>> PROVE Append(p, y) = <<x, y>>
  <2> DEFINE h == <<x, y>>
  <2>0. PICK N \in Nat : N = 1
    OBVIOUS
  <2>1. p \in Seq(S) /\ h \in Seq(S) /\ Len(p) = N /\ Len(h) = N + 1 /\ h[N + 1] = y /\ \A i \in 1..N : h[i] = p[i]
    BY <1>2, <2>0
  <2> HIDE DEF h
  <2>2. h = Append(p, y)
    BY <2>1, AppendEqual
  <2> QED BY <2>2 DEF h
<1>3. ASSUME NEW p, p = <<x, y>> PROVE Append(p, z) = <<x, y, z>>
  <2> DEFINE h == <<x, y, z>>
  <2>0. PICK N \in Nat : N = 2
    OBVIOUS
  <2>1. p \in Seq(S) /\ h \in Seq(S) /\ Len(p) = N /\ Len(h) = N + 1 /\ h[N + 1] = z /\ \A i \in 1..N : h[i] = p[i]
    BY <1>3, <2>0
  <2> HIDE DEF h
  <2>2. h = Append(p, z)
    BY <2>1, AppendEqual
  <2> QED BY <2>2 DEF h
<1> QED
  BY <1>1, <1>2, <1>3

\* Concatenation makes a sequence.
LEMMA ConcatIn == \A S : \A s, t \in Seq(S) : s \o t \in Seq(S)
  OBVIOUS

\* Three elements added one by one.
LEMMA ThreeMore == \A S : \A x, y, z \in S, s \in Seq(S) : s \o <<x, y, z>> = Append(Append(Append(s, x), y), z)
  OBVIOUS

\* The last element of a sequence with one more element.
LEMMA LastIs == \A S : \A s \in Seq(S), x \in S : Last(Append(s, x)) = x /\ Append(s, x) # <<>>
  BY DEF Last

\* A single sequence joined is itself.
LEMMA FlattenOne ==
    ASSUME NEW S, NEW s \in Seq(S)
    PROVE  FlattenSeq(<<s>>) = s
<1> DEFINE e == <<>>
<1>1. e \in Seq(Seq(S)) /\ <<s>> = Append(e, s) /\ <<>> \o s = s
  OBVIOUS
<1>2. FlattenSeq(e) = <<>>
  BY FlattenEmpty
<1> HIDE DEF e
<1>3. FlattenSeq(Append(e, s)) = FlattenSeq(e) \o s
  BY <1>1, FlattenAppend
<1> QED
  BY <1>1, <1>2, <1>3
=============================================================================
