---------------------------- MODULE DataInduction ----------------------------
(***************************************************************************)
(* Induction and recursion, as facts about sets and functions: the library *)
(* has them with an operator for a parameter, a form that no prover here   *)
(* can use.                                                                *)
(***************************************************************************)
EXTENDS Integers, SequencesExt, SequenceTheorems, WellFoundedInduction, TLAPS

\* A set of numbers with 0 and the successor of each has all of them.
LEMMA NatSetInduction ==
    ASSUME NEW S, 0 \in S, \A n \in Nat : n \in S => n + 1 \in S
    PROVE  Nat \subseteq S
<1> DEFINE R == {ss \in Nat \X Nat : ss[1] < ss[2]}
           T == Nat \ S
<1> SUFFICES ASSUME T # {} PROVE FALSE
    OBVIOUS
<1>1. IsWellFoundedOn(R, Nat)
  BY NatLessThanWellFounded DEF OpToRel
<1>2. PICK x \in T : \A y \in T : ~(<<y, x>> \in R)
  <2>1. T \subseteq Nat /\ T # {}
    OBVIOUS
  <2> HIDE DEF T, R
  <2> QED BY <1>1, <2>1, WFMin
<1>3. x - 1 \in Nat
  OBVIOUS
<1>4. x - 1 \in T
  BY <1>3
<1>5. <<x - 1, x>> \in R
  BY <1>3
<1> QED BY <1>2, <1>4, <1>5

\* The same up to n.
LEMMA UpTo ==
    ASSUME NEW n \in Nat, NEW S, 0 \in S, \A k \in 1..n : k - 1 \in S => k \in S
    PROVE  0..n \subseteq S
<1> DEFINE T == {m \in Nat : m <= n => m \in S}
<1>1. 0 \in T
  OBVIOUS
<1>2. ASSUME NEW m \in Nat, m \in T PROVE m + 1 \in T
  <2>1. CASE m + 1 <= n
    <3>1. m + 1 \in 1..n /\ (m + 1) - 1 = m /\ m \in S
      BY <1>2, <2>1
    <3> QED BY <3>1
  <2>2. CASE ~(m + 1 <= n)
    BY <2>2
  <2> QED BY <2>1, <2>2
<1> HIDE DEF T
<1>3. Nat \subseteq T
  BY <1>1, <1>2, NatSetInduction
<1> QED BY <1>3 DEF T

\* The greatest of some of the first numbers.
LEMMA MaxOf ==
    ASSUME NEW n \in Nat, NEW s \in SUBSET (1..n), s # {}
    PROVE  Max(s) \in s /\ \A x \in s : Max(s) >= x
<1> DEFINE Has(m) == \A u \in SUBSET (1..m) : u # {} => \E x \in u : \A y \in u : x >= y
           T == {m \in Nat : Has(m)}
<1>1. 0 \in T
  <2>1. \A u \in SUBSET (1..0) : u = {}
    OBVIOUS
  <2> QED BY <2>1
<1>2. ASSUME NEW m \in Nat, m \in T PROVE m + 1 \in T
  <2> SUFFICES ASSUME NEW u \in SUBSET (1..(m + 1)), u # {}
               PROVE  \E x \in u : \A y \in u : x >= y
      OBVIOUS
  <2>1. CASE m + 1 \in u
    <3>1. \A y \in u : m + 1 >= y
      OBVIOUS
    <3> QED BY <2>1, <3>1
  <2>2. CASE m + 1 \notin u
    <3>1. u \in SUBSET (1..m)
      BY <2>2
    <3> QED BY <1>2, <3>1
  <2> QED BY <2>1, <2>2
<1> HIDE DEF T
<1>3. n \in T
  BY <1>1, <1>2, NatSetInduction
<1>4. \E x \in s : \A y \in s : x >= y
  BY <1>3 DEF T
<1> QED BY <1>4 DEF Max

LEMMA MaxOfAll ==
    ASSUME NEW k \in Nat, k > 0
    PROVE  Max(1..k) = k /\ (1..k) \ {k} = 1..(k - 1) /\ 1..k # {}
<1>1. 1..k # {} /\ 1..k \in SUBSET (1..k) /\ k \in 1..k
  OBVIOUS
<1>2. Max(1..k) \in 1..k /\ Max(1..k) >= k
  BY <1>1, MaxOf
<1>3. (1..k) \ {k} = 1..(k - 1)
  OBVIOUS
<1> QED BY <1>1, <1>2, <1>3

\* f is what FoldLeft recurs over for the sequence u, a function of the sets of
\* places of u: base without a place, and g[x] what an element x makes of the
\* value before it.
IsFold(f, u, base, g) ==
    \A s \in SUBSET DOMAIN u :
        f[s] = IF s = {} THEN base ELSE g[u[Max(s)]][f[s \ {Max(s)}]]

\* There is such a function.
LEMMA FoldExists ==
    ASSUME NEW C, NEW S, NEW base \in S, NEW g \in [C -> [S -> S]], NEW u \in Seq(C)
    PROVE  \E f \in [SUBSET DOMAIN u -> S] : IsFold(f, u, base, g)
<1> DEFINE n == Len(u)
           Solves(f, m) ==
               \A s \in SUBSET (1..m) :
                   f[s] = IF s = {} THEN base ELSE g[u[Max(s)]][f[s \ {Max(s)}]]
           T == {m \in 0..n : \E f \in [SUBSET (1..m) -> S] : Solves(f, m)}
<1>0. n \in Nat /\ DOMAIN u = 1..n /\ \A i \in 1..n : u[i] \in C
  BY LenProperties
<1> HIDE DEF n
<1>1. 0 \in T
  <2> DEFINE f == [s \in SUBSET (1..0) |-> base]
  <2>1. \A s \in SUBSET (1..0) : s = {}
    OBVIOUS
  <2>2. f \in [SUBSET (1..0) -> S]
    OBVIOUS
  <2>3. Solves(f, 0)
    BY <2>1
  <2>4. 0 \in 0..n
    BY <1>0
  <2> HIDE DEF f, Solves
  <2> QED BY <2>2, <2>3, <2>4
<1>2. ASSUME NEW k \in 1..n, k - 1 \in T PROVE k \in T
  <2>1. PICK f \in [SUBSET (1..(k - 1)) -> S] : Solves(f, k - 1)
    BY <1>2
  <2> HIDE DEF Solves
  <2> DEFINE h == [s \in SUBSET (1..k) |->
                      IF k \in s THEN g[u[k]][f[s \ {k}]] ELSE f[s]]
  <2>2. \A s \in SUBSET (1..k) : s \ {k} \in SUBSET (1..(k - 1))
    BY <1>0
  <2>3. \A s \in SUBSET (1..k) : k \notin s => s \in SUBSET (1..(k - 1))
    BY <1>0
  <2>4. h \in [SUBSET (1..k) -> S]
    BY <1>0, <2>2, <2>3
  <2>5. ASSUME NEW s \in SUBSET (1..k)
        PROVE  h[s] = IF s = {} THEN base ELSE g[u[Max(s)]][h[s \ {Max(s)}]]
    <3>1. CASE k \in s
      <4>1. k \in Nat /\ s # {}
        BY <1>0, <3>1
      <4>2. Max(s) \in s /\ Max(s) >= k
        BY <3>1, <4>1, MaxOf
      <4>3. Max(s) = k
        <5>1. \A x \in s : x \in 1..k
          OBVIOUS
        <5>2. Max(s) \in 1..k
          BY <4>2, <5>1
        <5> QED BY <4>1, <4>2, <5>2
      <4>4. h[s \ {k}] = f[s \ {k}]
        BY <2>2
      <4> QED BY <3>1, <4>1, <4>3, <4>4
    <3>2. CASE k \notin s
      <4>1. f[s] = IF s = {} THEN base ELSE g[u[Max(s)]][f[s \ {Max(s)}]]
        BY <2>1, <2>3, <3>2 DEF Solves
      <4>2. h[s] = f[s]
        BY <3>2
      <4>3. h[s \ {Max(s)}] = f[s \ {Max(s)}]
        BY <3>2
      <4> QED BY <4>1, <4>2, <4>3
    <3> QED BY <3>1, <3>2
  <2> HIDE DEF h
  <2>6. Solves(h, k)
    BY <2>5 DEF Solves
  <2> QED BY <2>4, <2>6
<1> HIDE DEF T
<1>3. n \in T
  <2>1. 0..n \subseteq T
    BY <1>0, <1>1, <1>2, UpTo
  <2> QED BY <1>0, <2>1
<1> QED BY <1>0, <1>3 DEF T, IsFold

\* f is a fold as far as its values are in S.
Follows(f, u, S, base, g) ==
    /\ f[{}] = base
    /\ \A s \in SUBSET DOMAIN u :
           s # {} /\ f[s \ {Max(s)}] \in S => f[s] = g[u[Max(s)]][f[s \ {Max(s)}]]

\* What one more element makes of a fold.
LEMMA FoldAppend ==
    ASSUME NEW C, NEW S, NEW base \in S, NEW g \in [C -> [S -> S]],
           NEW t \in Seq(C), NEW c \in C,
           NEW f, Follows(f, t, S, base, g),
           NEW h, Follows(h, Append(t, c), S, base, g)
    PROVE  /\ f[DOMAIN t] \in S
           /\ h[DOMAIN Append(t, c)] = g[c][f[DOMAIN t]]
<1> DEFINE n == Len(t)
           t1 == Append(t, c)
           T == {k \in 0..n : f[1..k] = h[1..k] /\ f[1..k] \in S}
<1>1. /\ n \in Nat /\ DOMAIN t = 1..n /\ DOMAIN t1 = 1..(n + 1)
      /\ t1[n + 1] = c /\ \A i \in 1..n : t1[i] = t[i] /\ t[i] \in C
  <2>1. n \in Nat /\ DOMAIN t = 1..n /\ \A i \in 1..n : t[i] \in C
    BY LenProperties
  <2>2. t1 \in Seq(C) /\ Len(t1) = n + 1 /\ t1[n + 1] = c /\ \A i \in 1..n : t1[i] = t[i]
    BY AppendProperties
  <2>3. DOMAIN t1 = 1..(n + 1)
    BY <2>2, LenProperties
  <2> QED BY <2>1, <2>2, <2>3
<1> HIDE DEF n, t1
<1>2. 0 \in T
  <2>1. 1..0 = {}
    OBVIOUS
  <2> QED BY <1>1, <2>1 DEF Follows
<1>3. ASSUME NEW x, NEW m \in Nat, m > 0, NEW y \in Seq(C), 1..m \subseteq DOMAIN y,
             Follows(x, y, S, base, g), x[1..(m - 1)] \in S
      PROVE  x[1..m] = g[y[m]][x[1..(m - 1)]]
  <2>1. 1..m \in SUBSET DOMAIN y /\ 1..m # {} /\ Max(1..m) = m /\ (1..m) \ {m} = 1..(m - 1)
    BY <1>3, MaxOfAll
  <2> DEFINE X == 1..m
  <2>2. X \in SUBSET DOMAIN y /\ X # {} /\ Max(X) = m /\ X \ {m} = 1..(m - 1)
    BY <2>1
  <2> HIDE DEF X
  <2>3. x[X] = g[y[m]][x[1..(m - 1)]]
    BY <1>3, <2>2 DEF Follows
  <2> QED BY <2>3 DEF X
<1>4. t1 \in Seq(C) /\ Follows(h, t1, S, base, g)
  BY AppendProperties DEF t1
<1>5. ASSUME NEW k \in 1..n, k - 1 \in T PROVE k \in T
  <2>1. /\ k \in Nat /\ k > 0 /\ k \in 0..n /\ 1..k \subseteq DOMAIN t /\ 1..k \subseteq DOMAIN t1
        /\ t1[k] = t[k] /\ t[k] \in C
    BY <1>1
  <2>2. f[1..(k - 1)] \in S /\ h[1..(k - 1)] = f[1..(k - 1)]
    BY <1>5
  <2>3. f[1..k] = g[t[k]][f[1..(k - 1)]]
    BY <1>3, <2>1, <2>2
  <2>4. h[1..k] = g[t[k]][f[1..(k - 1)]]
    BY <1>3, <1>4, <2>1, <2>2
  <2> QED BY <2>1, <2>2, <2>3, <2>4
<1> HIDE DEF T
<1>6. n \in T
  <2>1. 0..n \subseteq T
    BY <1>1, <1>2, <1>5, UpTo
  <2> QED BY <1>1, <2>1
<1>7. h[1..n] = f[1..n] /\ f[1..n] \in S
  BY <1>6 DEF T
<1>8. h[1..(n + 1)] = g[c][f[1..n]]
  <2>1. n + 1 \in Nat /\ n + 1 > 0 /\ (n + 1) - 1 = n /\ 1..(n + 1) \subseteq DOMAIN t1
    BY <1>1
  <2>2. h[1..(n + 1)] = g[t1[n + 1]][h[1..n]]
    <3>1. h[1..((n + 1) - 1)] \in S
      BY <1>7, <2>1
    <3>2. h[1..(n + 1)] = g[t1[n + 1]][h[1..((n + 1) - 1)]]
      BY <1>3, <1>4, <2>1, <3>1
    <3> QED BY <2>1, <3>2
  <2> QED BY <1>1, <1>7, <2>2
<1> QED BY <1>1, <1>7, <1>8 DEF t1
-----------------------------------------------------------------------------
\* f recurs from each number but 0 to a smaller one, p[n].
Recurs(f, N, base, g, p) ==
    \A n \in N : f[n] = IF n = 0 THEN base ELSE g[n][f[p[n]]]

Descends(p) == p \in [Nat -> Nat] /\ \A n \in Nat : n > 0 => p[n] < n

LEMMA RecursionUnique ==
    ASSUME NEW base, NEW g, NEW p, Descends(p),
           NEW m \in Nat, NEW k \in Nat, NEW f, Recurs(f, 0..m, base, g, p),
           NEW h, Recurs(h, 0..k, base, g, p)
    PROVE  \A n \in 0..m : n <= k => f[n] = h[n]
<1> DEFINE T == {n \in Nat : \A i \in 0..n : i <= m /\ i <= k => f[i] = h[i]}
<1>1. 0 \in T
  BY DEF Recurs
<1>2. ASSUME NEW n \in Nat, n \in T PROVE n + 1 \in T
  <2>1. ASSUME n + 1 <= m, n + 1 <= k PROVE f[n + 1] = h[n + 1]
    <3>1. n + 1 \in Nat /\ n + 1 > 0
      OBVIOUS
    <3>2. PICK q \in Nat : q = p[n + 1] /\ q < n + 1
      BY <3>1 DEF Descends
    <3>3. /\ q \in 0..n /\ q <= m /\ q <= k
          /\ n + 1 \in 0..m /\ n + 1 \in 0..k /\ n + 1 # 0
      BY <2>1, <3>2
    <3>4. f[p[n + 1]] = h[p[n + 1]]
      BY <1>2, <3>2, <3>3
    <3> QED BY <3>3, <3>4 DEF Recurs
  <2>2. \A i \in 0..(n + 1) : i = n + 1 \/ i \in 0..n
    OBVIOUS
  <2> QED BY <1>2, <2>1, <2>2
<1> HIDE DEF T
<1>3. Nat \subseteq T
  BY <1>1, <1>2, NatSetInduction
<1>4. \A n \in 0..m : n \in Nat /\ n \in 0..n /\ n <= m
  OBVIOUS
<1> QED BY <1>3, <1>4 DEF T

\* There is such a function on all numbers.
LEMMA RecursionExists ==
    ASSUME NEW S, NEW base \in S, NEW g \in [Nat -> [S -> S]],
           NEW p, Descends(p)
    PROVE  \E f \in [Nat -> S] : Recurs(f, Nat, base, g, p)
<1> DEFINE T == {m \in Nat : \E f \in [0..m -> S] : Recurs(f, 0..m, base, g, p)}
           F(m) == CHOOSE f \in [0..m -> S] : Recurs(f, 0..m, base, g, p)
           f == [n \in Nat |-> F(n)[n]]
<1>1. 0 \in T
  <2> DEFINE h == [n \in 0..0 |-> base]
  <2>1. h \in [0..0 -> S] /\ Recurs(h, 0..0, base, g, p)
    BY DEF Recurs
  <2> HIDE DEF h
  <2> QED BY <2>1
<1>2. ASSUME NEW m \in Nat, m \in T PROVE m + 1 \in T
  <2>1. PICK h \in [0..m -> S] : Recurs(h, 0..m, base, g, p)
    BY <1>2
  <2> DEFINE e == [n \in 0..(m + 1) |-> IF n = m + 1 THEN g[n][h[p[n]]] ELSE h[n]]
  <2>2. \A n \in 0..(m + 1) : n = m + 1 \/ n \in 0..m
    OBVIOUS
  <2>3. p[m + 1] \in 0..m
    BY DEF Descends
  <2>4. e \in [0..(m + 1) -> S]
    BY <2>2, <2>3
  <2>5. ASSUME NEW n \in 0..(m + 1)
        PROVE  e[n] = IF n = 0 THEN base ELSE g[n][e[p[n]]]
    <3>1. CASE n = 0
      BY <2>1, <3>1 DEF Recurs
    <3>2. CASE n = m + 1
      <4>1. p[n] \in 0..m /\ n # 0 /\ p[n] # m + 1 /\ p[n] \in 0..(m + 1)
        BY <2>3, <3>2
      <4> QED BY <3>2, <4>1
    <3>3. CASE n # 0 /\ n # m + 1
      <4>1. n \in 0..m /\ p[n] \in 0..m /\ p[n] # m + 1 /\ p[n] \in 0..(m + 1)
        <5>1. n \in Nat /\ n > 0 /\ n <= m
          BY <3>3
        <5>2. p[n] \in Nat /\ p[n] < n
          BY <5>1 DEF Descends
        <5> QED BY <5>1, <5>2
      <4>2. h[n] = g[n][h[p[n]]]
        BY <2>1, <3>3, <4>1 DEF Recurs
      <4> QED BY <3>3, <4>1, <4>2
    <3> QED BY <3>1, <3>2, <3>3
  <2> HIDE DEF e
  <2>6. Recurs(e, 0..(m + 1), base, g, p)
    BY <2>5 DEF Recurs
  <2> QED BY <2>4, <2>6
<1> HIDE DEF T
<1>3. Nat \subseteq T
  BY <1>1, <1>2, NatSetInduction
<1>4. ASSUME NEW m \in Nat PROVE F(m) \in [0..m -> S] /\ Recurs(F(m), 0..m, base, g, p)
  BY <1>3 DEF T
<1> HIDE DEF F
<1>5. f \in [Nat -> S]
  BY <1>4
<1>6. ASSUME NEW n \in Nat PROVE f[n] = IF n = 0 THEN base ELSE g[n][f[p[n]]]
  <2>1. F(n)[n] = IF n = 0 THEN base ELSE g[n][F(n)[p[n]]]
    BY <1>4 DEF Recurs
  <2>2. CASE n > 0
    <3>1. p[n] \in 0..n /\ p[n] \in 0..p[n] /\ p[n] \in Nat
      BY <2>2 DEF Descends
    <3>2. Recurs(F(n), 0..n, base, g, p) /\ Recurs(F(p[n]), 0..p[n], base, g, p)
      BY <1>4, <3>1
    <3>3. \A i \in 0..p[n] : i <= n => F(p[n])[i] = F(n)[i]
      <4> DEFINE m == p[n]
                 h == F(m)
                 e == F(n)
      <4>1. m \in Nat /\ Recurs(h, 0..m, base, g, p) /\ Recurs(e, 0..n, base, g, p)
        BY <3>1, <3>2
      <4> HIDE DEF h, e, m
      <4>2. \A i \in 0..m : i <= n => h[i] = e[i]
        BY <4>1, RecursionUnique
      <4> QED BY <4>2 DEF h, e, m
    <3>4. F(p[n])[p[n]] = F(n)[p[n]]
      BY <3>1, <3>3
    <3> QED BY <2>1, <2>2, <3>1, <3>4
  <2>3. CASE n = 0
    BY <2>1, <2>3
  <2> QED BY <2>2, <2>3
<1> HIDE DEF f
<1>7. Recurs(f, Nat, base, g, p)
  BY <1>6 DEF Recurs
<1> QED BY <1>5, <1>7
=============================================================================
