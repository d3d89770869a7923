----------------------------- MODULE SumLemmas -----------------------------
(***************************************************************************)
(* Induction over the natural numbers, in a form that needs no operator as *)
(* a parameter, and what it says about sums over sequences.                *)
(***************************************************************************)
EXTENDS Integers, Sequences, SequencesExt, WellFoundedInduction, TLAPS

\* Every set of natural numbers has a least element.
LEMMA LeastNatural ==
  ASSUME NEW T, T \subseteq Nat, T # {}
  PROVE  \E x \in T : \A y \in T : x <= y
<1> DEFINE R == {p \in Nat \X Nat : p[1] < p[2]}
<1>1. R = OpToRel(<, Nat)
  BY Zenon DEF OpToRel
<1>2. IsWellFoundedOn(R, Nat)
  BY <1>1, NatLessThanWellFounded
<1>3. \A x, y \in Nat : <<x, y>> \in R <=> x < y
  BY DEF R
<1> HIDE DEF R
<1>4. PICK x \in T : \A y \in T : ~(<<y, x>> \in R)
  BY <1>2, WFMin
<1>5. \A y \in T : ~(y < x)
  BY <1>3, <1>4
<1> QED
  BY <1>5

\* A set that contains 0 and the successor of each of its elements
LEMMA SetInduction ==
  ASSUME NEW S, 0 \in S, \A n \in Nat : n \in S => n + 1 \in S
  PROVE  \A n \in Nat : n \in S
<1> SUFFICES ASSUME Nat \ S # {} PROVE FALSE
  OBVIOUS
<1>1. PICK x \in Nat \ S : \A y \in Nat \ S : x <= y
  BY LeastNatural
<1>2. x # 0 /\ x - 1 \in Nat /\ x - 1 + 1 = x
  BY <1>1
<1>3. x - 1 \in S
  BY <1>1, <1>2
<1> QED
  BY <1>1, <1>2, <1>3

----------------------------------------------------------------------------
(* Definition by primitive recursion, with a function as the step *)

IsRecursive(g, n, S, a, h) ==
  /\ g \in [0 .. n -> S] /\ g[0] = a
  /\ \A k \in 0 .. n - 1 : g[k + 1] = h[<<g[k], k>>]

LEMMA RecursiveAgree ==
  ASSUME NEW S, NEW a, NEW h, NEW m \in Nat, NEW n \in Nat, NEW f, NEW g,
         IsRecursive(f, m, S, a, h), IsRecursive(g, n, S, a, h)
  PROVE  \A k \in Nat : k <= m /\ k <= n => f[k] = g[k]
<1> DEFINE T == {k \in Nat : k <= m /\ k <= n => f[k] = g[k]}
<1>1. 0 \in T
  BY DEF IsRecursive
<1>2. ASSUME NEW k \in Nat, k \in T PROVE k + 1 \in T
  <2> SUFFICES ASSUME k + 1 <= m, k + 1 <= n PROVE f[k + 1] = g[k + 1]
    OBVIOUS
  <2>1. f[k] = g[k] /\ k \in 0 .. m - 1 /\ k \in 0 .. n - 1
    BY <1>2
  <2>2. f[k + 1] = h[<<f[k], k>>] /\ g[k + 1] = h[<<g[k], k>>]
    BY <2>1 DEF IsRecursive
  <2> QED
    BY <2>1, <2>2
<1> HIDE DEF T
<1>3. \A k \in Nat : k \in T
  BY <1>1, <1>2, SetInduction
<1> QED
  BY <1>3 DEF T

LEMMA PartialRecursion ==
  ASSUME NEW S, NEW a \in S, NEW h \in [S \X Nat -> S]
  PROVE  \A n \in Nat : \E g : IsRecursive(g, n, S, a, h)
<1> DEFINE T == {n \in Nat : \E g : IsRecursive(g, n, S, a, h)}
<1>1. 0 \in T
  <2>1. IsRecursive([k \in 0 .. 0 |-> a], 0, S, a, h)
    BY DEF IsRecursive
  <2> QED
    BY <2>1
<1>2. ASSUME NEW n \in Nat, n \in T PROVE n + 1 \in T
  <2>1. PICK g : IsRecursive(g, n, S, a, h)
    BY <1>2
  <2>2. g[n] \in S /\ h[<<g[n], n>>] \in S
    BY <2>1 DEF IsRecursive
  <2>3. PICK f : f = [k \in 0 .. n + 1 |-> IF k = n + 1 THEN h[<<g[n], n>>] ELSE g[k]]
    OBVIOUS
  <2>4. f \in [0 .. n + 1 -> S] /\ f[0] = a
    BY <2>1, <2>2, <2>3 DEF IsRecursive
  <2>5. ASSUME NEW k \in 0 .. n PROVE f[k + 1] = h[<<f[k], k>>]
    <3>1. f[k] = g[k]
      <4>1. k \in 0 .. n + 1 /\ k # n + 1
        OBVIOUS
      <4> QED
        BY <2>3, <4>1
    <3>2. CASE k = n
      <4>1. n + 1 \in 0 .. n + 1
        OBVIOUS
      <4>2. f[n + 1] = h[<<g[n], n>>]
        BY <2>3, <4>1
      <4> QED
        BY <3>1, <3>2, <4>2
    <3>3. CASE k # n
      <4>1. k \in 0 .. n - 1 /\ f[k + 1] = g[k + 1]
        BY <2>3, <3>3
      <4> QED
        BY <2>1, <3>1, <4>1 DEF IsRecursive
    <3> QED
      BY <3>2, <3>3
  <2>6. IsRecursive(f, n + 1, S, a, h)
    BY <2>4, <2>5 DEF IsRecursive
  <2> QED
    BY <2>6
<1> HIDE DEF T
<1>3. \A n \in Nat : n \in T
  BY <1>1, <1>2, SetInduction
<1> QED
  BY <1>3 DEF T

IsRecursion(f, S, a, h) ==
  /\ f \in [Nat -> S] /\ f[0] = a
  /\ \A n \in Nat : f[n + 1] = h[<<f[n], n>>]

LEMMA NatRecursion ==
  ASSUME NEW S, NEW a \in S, NEW h \in [S \X Nat -> S]
  PROVE  \E f : IsRecursion(f, S, a, h)
<1> DEFINE G(n) == CHOOSE g : IsRecursive(g, n, S, a, h)
<1>1. \A n \in Nat : IsRecursive(G(n), n, S, a, h)
  BY PartialRecursion
<1> HIDE DEF G
<1>2. PICK f : f = [n \in Nat |-> G(n)[n]]
  OBVIOUS
<1>3. f \in [Nat -> S] /\ f[0] = a
  <2>1. \A n \in Nat : G(n)[n] \in S
    BY <1>1 DEF IsRecursive
  <2>2. G(0)[0] = a
    BY <1>1 DEF IsRecursive
  <2> QED
    BY <1>2, <2>1, <2>2
<1>4. ASSUME NEW n \in Nat PROVE f[n + 1] = h[<<f[n], n>>]
  <2>1. IsRecursive(G(n), n, S, a, h) /\ IsRecursive(G(n + 1), n + 1, S, a, h)
    BY <1>1
  <2>2. G(n)[n] = G(n + 1)[n]
    BY <2>1, RecursiveAgree
  <2>3. G(n + 1)[n + 1] = h[<<G(n + 1)[n], n>>]
    BY <2>1 DEF IsRecursive
  <2> QED
    BY <1>2, <2>2, <2>3
<1> QED
  BY <1>3, <1>4 DEF IsRecursion

----------------------------------------------------------------------------
(* Sums over sequences *)

SumSeq(s) == FoldLeft(+, 0, s)

\* Prefix sums: P[n] is the sum of the first n elements.
IsPrefixSum(P, s) ==
  /\ P \in [0 .. Len(s) -> Int] /\ P[0] = 0
  /\ \A n \in 1 .. Len(s) : P[n] = P[n - 1] + s[n]

LEMMA FoldIsIterated ==
  ASSUME NEW s \in Seq(Int)
  PROVE  \E iter : /\ SumSeq(s) = iter[1 .. Len(s)]
                   /\ iter = CHOOSE f : f = [t \in SUBSET (1 .. Len(s)) |->
                                IF t = {} THEN 0 ELSE f[t \ {Max(t)}] + s[Max(t)]]
<1>1. DOMAIN s = 1 .. Len(s)
  OBVIOUS
<1>2. SumSeq(s) = (CHOOSE f : f = [t \in SUBSET (DOMAIN s) |->
                       IF t = {} THEN 0 ELSE f[t \ {Max(t)}] + s[Max(t)]])[DOMAIN s]
  BY Zenon DEF SumSeq, FoldLeft, MapThenFoldSet
<1> QED
  BY <1>1, <1>2

LEMMA PrefixSumExists ==
  ASSUME NEW s \in Seq(Int)
  PROVE  \E P : IsPrefixSum(P, s)
<1> DEFINE h == [p \in Int \X Nat |-> p[1] + (IF p[2] + 1 <= Len(s) THEN s[p[2] + 1] ELSE 0)]
<1>1. h \in [Int \X Nat -> Int]
  <2>1. ASSUME NEW p \in Int \X Nat
        PROVE  p[1] + (IF p[2] + 1 <= Len(s) THEN s[p[2] + 1] ELSE 0) \in Int
    OBVIOUS
  <2> QED
    BY <2>1
<1>2. \A x \in Int, n \in Nat :
        h[<<x, n>>] = x + (IF n + 1 <= Len(s) THEN s[n + 1] ELSE 0)
  OBVIOUS
<1> HIDE DEF h
<1>3. PICK f : IsRecursion(f, Int, 0, h)
  <2>1. 0 \in Int
    OBVIOUS
  <2> QED
    BY <1>1, <2>1, NatRecursion
<1>4. PICK P : P = [n \in 0 .. Len(s) |-> f[n]]
  OBVIOUS
<1>5. ASSUME NEW n \in 1 .. Len(s) PROVE P[n] = P[n - 1] + s[n]
  <2>1. n - 1 \in Nat /\ (n - 1) + 1 = n /\ n <= Len(s) /\ n - 1 \in 0 .. Len(s) /\ n \in 0 .. Len(s)
    OBVIOUS
  <2>2. f[n] = h[<<f[n - 1], n - 1>>] /\ f[n - 1] \in Int
    BY <1>3, <2>1 DEF IsRecursion
  <2>3. f[n] = f[n - 1] + s[n]
    BY <1>2, <2>1, <2>2
  <2> QED
    BY <1>4, <2>1, <2>3
<1>6. P \in [0 .. Len(s) -> Int] /\ P[0] = 0
  BY <1>3, <1>4 DEF IsRecursion
<1> QED
  BY <1>5, <1>6 DEF IsPrefixSum

\* Two sequences that differ in element x only, and their prefix sums
DifferAt(x, u, v, P, Q) ==
  /\ u \in Seq(Int) /\ v \in Seq(Int) /\ Len(u) = Len(v) /\ x \in 1 .. Len(u)
  /\ \A i \in 1 .. Len(u) : i # x => u[i] = v[i]
  /\ IsPrefixSum(P, u) /\ IsPrefixSum(Q, v)

LEMMA PrefixSumsDiffer ==
  ASSUME NEW x, NEW u, NEW v, NEW P, NEW Q, DifferAt(x, u, v, P, Q)
  PROVE  P[Len(u)] = Q[Len(u)] - v[x] + u[x]
<1> USE DEF DifferAt
<1> DEFINE T == {n \in Nat : n <= Len(u) => P[n] = IF n < x THEN Q[n] ELSE Q[n] - v[x] + u[x]}
<1>1. 0 \in T
  BY DEF IsPrefixSum
<1>2. ASSUME NEW n \in Nat, n \in T PROVE n + 1 \in T
  <2> SUFFICES ASSUME n + 1 <= Len(u)
               PROVE  P[n + 1] = IF n + 1 < x THEN Q[n + 1] ELSE Q[n + 1] - v[x] + u[x]
    OBVIOUS
  <2>1. /\ n + 1 \in 1 .. Len(u) /\ n + 1 \in 1 .. Len(v) /\ (n + 1) - 1 = n
        /\ n \in 0 .. Len(u) /\ n \in 0 .. Len(v)
    OBVIOUS
  <2>2. P[n + 1] = P[n] + u[n + 1] /\ Q[n + 1] = Q[n] + v[n + 1]
    BY <2>1 DEF IsPrefixSum
  <2>3. P[n] = IF n < x THEN Q[n] ELSE Q[n] - v[x] + u[x]
    BY <1>2, <2>1
  <2>4. P[n] \in Int /\ Q[n] \in Int
    BY <2>1 DEF IsPrefixSum
  <2>5. \A i \in 1 .. Len(u) : u[i] \in Int /\ v[i] \in Int
    OBVIOUS
  <2>6. u[n + 1] \in Int /\ v[n + 1] \in Int /\ u[x] \in Int /\ v[x] \in Int
    BY <2>1, <2>5
  <2>7. n + 1 # x => u[n + 1] = v[n + 1]
    BY <2>1
  <2>8. PICK p, q, a, b, c, d \in Int :
          /\ p = P[n] /\ q = Q[n] /\ a = u[x] /\ b = v[x] /\ c = u[n + 1] /\ d = v[n + 1]
    BY <2>4, <2>6
  <2>9. x \in Int
    OBVIOUS
  <2> HIDE DEF DifferAt
  <2>10. /\ P[n + 1] = p + c /\ Q[n + 1] = q + d
         /\ p = IF n < x THEN q ELSE q - b + a
         /\ n + 1 # x => c = d
         /\ n + 1 = x => c = a /\ d = b
    BY <2>2, <2>3, <2>7, <2>8
  <2>11. p + c = IF n + 1 < x THEN q + d ELSE (q + d) - b + a
    BY ONLY <2>9, <2>10, n \in Nat, p \in Int, q \in Int, a \in Int, b \in Int,
            c \in Int, d \in Int
  <2> QED
    BY <2>8, <2>10, <2>11
<1> HIDE DEF T
<1>3. \A n \in Nat : n \in T
  BY <1>1, <1>2, SetInduction
<1> QED
  BY <1>3 DEF T

LEMMA MaxOf ==
  ASSUME NEW N \in Nat, NEW t \in SUBSET (1 .. N), t # {}
  PROVE  Max(t) \in t /\ \A y \in t : Max(t) >= y
<1> DEFINE T == {N - y : y \in t}
<1>1. T \subseteq Nat /\ T # {}
  <2>1. \A y \in t : y \in 1 .. N
    OBVIOUS
  <2>2. \A y \in t : N - y \in Nat
    BY <2>1
  <2> QED
    BY <2>2
<1>2. PICK z \in T : \A w \in T : z <= w
  BY <1>1, LeastNatural
<1>3. PICK x \in t : z = N - x
  BY <1>2
<1>4. ASSUME NEW y \in t PROVE x >= y
  <2>1. N - x <= N - y
    BY <1>2, <1>3
  <2>2. x \in 1 .. N /\ y \in 1 .. N
    OBVIOUS
  <2> QED
    BY <2>1, <2>2
<1> QED
  BY <1>3, <1>4 DEF Max

\* The equation that defines the fold has a solution: the sums over the elements
\* with indices in t.
FoldEquation(f, s) ==
  f = [t \in SUBSET (1 .. Len(s)) |-> IF t = {} THEN 0 ELSE f[t \ {Max(t)}] + s[Max(t)]]

LEMMA FoldSolvable ==
  ASSUME NEW s \in Seq(Int)
  PROVE  \E f : FoldEquation(f, s)
<1> DEFINE N == Len(s)
           Masked(t) == [i \in 1 .. N |-> IF i \in t THEN s[i] ELSE 0]
           Prefix(t) == CHOOSE P : IsPrefixSum(P, Masked(t))
<1>1. /\ N \in Nat
      /\ \A t : Masked(t) \in Seq(Int) /\ Len(Masked(t)) = N
  OBVIOUS
<1>2. \A t : \A i \in 1 .. N : Masked(t)[i] = IF i \in t THEN s[i] ELSE 0
  OBVIOUS
<1> HIDE DEF Masked, N
<1>3. \A t : IsPrefixSum(Prefix(t), Masked(t))
  BY <1>1, PrefixSumExists
<1> HIDE DEF Prefix
<1>4. PICK f : f = [t \in SUBSET (1 .. N) |-> Prefix(t)[N]]
  OBVIOUS
<1>5. f[{}] = 0
  <2> DEFINE T == {n \in Nat : n <= N => Prefix({})[n] = 0}
  <2>1. 0 \in T
    BY <1>3 DEF IsPrefixSum
  <2>2. ASSUME NEW n \in Nat, n \in T PROVE n + 1 \in T
    <3> SUFFICES ASSUME n + 1 <= N PROVE Prefix({})[n + 1] = 0
      OBVIOUS
    <3>1. n + 1 \in 1 .. N /\ (n + 1) - 1 = n /\ Prefix({})[n] = 0
      BY <1>1, <2>2
    <3>2. Masked({})[n + 1] = 0 /\ Len(Masked({})) = N
      BY <1>1, <1>2, <3>1
    <3>3. Prefix({})[n + 1] = Prefix({})[n] + Masked({})[n + 1]
      BY <1>3, <3>1, <3>2 DEF IsPrefixSum
    <3> QED
      BY <3>1, <3>2, <3>3
  <2> HIDE DEF T
  <2>3. N \in T
    BY <1>1, <2>1, <2>2, SetInduction
  <2>4. Prefix({})[N] = 0
    BY <1>1, <2>3 DEF T
  <2> QED
    BY <1>4, <2>4
<1>6. ASSUME NEW t \in SUBSET (1 .. N), t # {}
      PROVE  f[t] = f[t \ {Max(t)}] + s[Max(t)]
  <2>1. PICK x : x = Max(t)
    OBVIOUS
  <2>2. x \in t /\ x \in 1 .. N
    BY <1>1, <1>6, <2>1, MaxOf
  <2>3. PICK r \in SUBSET (1 .. N) : r = t \ {x}
    OBVIOUS
  <2>4. /\ \A i \in 1 .. N : i # x => Masked(t)[i] = Masked(r)[i]
        /\ Masked(t)[x] = s[x] /\ Masked(r)[x] = 0
    BY <1>2, <2>2, <2>3
  <2>5. PICK u, v : u = Masked(t) /\ v = Masked(r)
    OBVIOUS
  <2>6. u \in Seq(Int) /\ v \in Seq(Int) /\ Len(u) = N /\ Len(v) = N
    BY <1>1, <2>5
  <2>7. IsPrefixSum(Prefix(t), u) /\ IsPrefixSum(Prefix(r), v)
    BY <1>3, <2>5
  <2>8. Prefix(t)[N] = Prefix(r)[N] - v[x] + u[x]
    <3>1. \A i \in 1 .. N : i # x => u[i] = v[i]
      BY <2>4, <2>5
    <3>2. PICK P, Q : P = Prefix(t) /\ Q = Prefix(r)
      OBVIOUS
    <3>3. Len(u) = Len(v) /\ x \in 1 .. Len(u) /\ \A i \in 1 .. Len(u) : i # x => u[i] = v[i]
      BY <2>2, <2>6, <3>1
    <3>4. IsPrefixSum(P, u) /\ IsPrefixSum(Q, v)
      BY <2>7, <3>2
    <3>5. DifferAt(x, u, v, P, Q)
      BY <2>6, <3>3, <3>4 DEF DifferAt
    <3>6. P[Len(u)] = Q[Len(u)] - v[x] + u[x]
      BY <3>5, PrefixSumsDiffer
    <3> QED
      BY <2>6, <3>2, <3>6
  <2>9. Prefix(r)[N] \in Int /\ s[x] \in Int
    <3>1. Prefix(r) \in [0 .. N -> Int] /\ N \in 0 .. N
      BY <1>1, <2>6, <2>7 DEF IsPrefixSum
    <3>2. s[x] \in Int
      BY <2>2 DEF N
    <3> QED
      BY <3>1, <3>2
  <2>10. Prefix(t)[N] = Prefix(r)[N] + s[x]
    <3>1. v[x] = 0 /\ u[x] = s[x]
      BY <2>4, <2>5
    <3>2. PICK p, q \in Int : p = Prefix(r)[N] /\ q = s[x]
      BY <2>9
    <3>3. Prefix(t)[N] = p - 0 + q
      BY <2>8, <3>1, <3>2
    <3>4. p - 0 + q = p + q
      OBVIOUS
    <3> QED
      BY <3>2, <3>3, <3>4
  <2> QED
    BY <1>4, <2>1, <2>3, <2>10
<1>7. f = [t \in SUBSET (1 .. N) |-> IF t = {} THEN 0 ELSE f[t \ {Max(t)}] + s[Max(t)]]
  <2>1. \A t \in SUBSET (1 .. N) : f[t] = IF t = {} THEN 0 ELSE f[t \ {Max(t)}] + s[Max(t)]
    BY <1>5, <1>6
  <2> QED
    BY <1>4, <2>1
<1> QED
  BY <1>7 DEF FoldEquation, N

\* The fold is the last of the prefix sums.
LEMMA SumIsPrefix ==
  ASSUME NEW s \in Seq(Int), NEW P, IsPrefixSum(P, s)
  PROVE  SumSeq(s) = P[Len(s)]
<1>1. PICK f : SumSeq(s) = f[1 .. Len(s)] /\ FoldEquation(f, s)
  <2>1. PICK g : SumSeq(s) = g[1 .. Len(s)] /\ g = CHOOSE f : FoldEquation(f, s)
    BY FoldIsIterated DEF FoldEquation
  <2> QED
    BY <2>1, FoldSolvable
<1> DEFINE T == {n \in Nat : n <= Len(s) => f[1 .. n] = P[n]}
<1>2. \A t \in SUBSET (1 .. Len(s)) : f[t] = IF t = {} THEN 0 ELSE f[t \ {Max(t)}] + s[Max(t)]
  BY <1>1 DEF FoldEquation
<1>3. 0 \in T
  <2>1. 1 .. 0 = {}
    OBVIOUS
  <2>2. f[{}] = 0
    BY <1>2
  <2> QED
    BY <2>1, <2>2 DEF IsPrefixSum
<1>4. ASSUME NEW n \in Nat, n \in T PROVE n + 1 \in T
  <2> SUFFICES ASSUME n + 1 <= Len(s) PROVE f[1 .. n + 1] = P[n + 1]
    OBVIOUS
  <2>1. PICK t : t = 1 .. n + 1
    OBVIOUS
  <2>2. t \in SUBSET (1 .. Len(s)) /\ t # {} /\ n + 1 \in t
    <3>1. Len(s) \in Nat /\ n + 1 \in 1 .. n + 1
      OBVIOUS
    <3>2. \A y \in 1 .. n + 1 : y \in 1 .. Len(s)
      BY <3>1
    <3> QED
      BY <2>1, <3>1, <3>2
  <2>3. Max(t) = n + 1
    <3>1. PICK N \in Nat : N = Len(s)
      OBVIOUS
    <3>2. t \in SUBSET (1 .. N)
      BY <2>2, <3>1
    <3>3. PICK m : m = Max(t)
      OBVIOUS
    <3>4. m \in t /\ m >= n + 1
      BY <2>2, <3>2, <3>3, MaxOf
    <3>5. m \in 1 .. n + 1
      BY <2>1, <3>4
    <3> QED
      BY <3>3, <3>4, <3>5
  <2>4. t \ {n + 1} = 1 .. n
    BY <2>1
  <2>5. f[t] = f[1 .. n] + s[n + 1]
    BY <1>2, <2>2, <2>3, <2>4
  <2>6. P[n + 1] = P[n] + s[n + 1]
    <3>1. n + 1 \in 1 .. Len(s) /\ (n + 1) - 1 = n
      OBVIOUS
    <3> QED
      BY <3>1 DEF IsPrefixSum
  <2>7. f[1 .. n] = P[n]
    BY <1>4
  <2> QED
    BY <2>1, <2>5, <2>6, <2>7
<1> HIDE DEF T
<1>5. Len(s) \in T
  <2>1. Len(s) \in Nat
    OBVIOUS
  <2> QED
    BY <1>3, <1>4, <2>1, SetInduction
<1> QED
  BY <1>1, <1>5 DEF T

----------------------------------------------------------------------------
(* What is needed of sums *)

LEMMA SumType ==
  ASSUME NEW s \in Seq(Int)
  PROVE  SumSeq(s) \in Int
<1>1. PICK P : IsPrefixSum(P, s)
  BY PrefixSumExists
<1>2. SumSeq(s) = P[Len(s)]
  BY <1>1, SumIsPrefix
<1> QED
  BY <1>1, <1>2 DEF IsPrefixSum

\* A sum changes with one of its terms.
LEMMA SumUpdate ==
  ASSUME NEW s \in Seq(Int), NEW u \in Seq(Int), Len(u) = Len(s), NEW x \in 1 .. Len(s),
         \A i \in 1 .. Len(s) : i # x => u[i] = s[i]
  PROVE  SumSeq(u) = SumSeq(s) - s[x] + u[x]
<1>1. PICK P : IsPrefixSum(P, u)
  BY PrefixSumExists
<1>2. PICK Q : IsPrefixSum(Q, s)
  BY PrefixSumExists
<1>3. SumSeq(u) = P[Len(u)] /\ SumSeq(s) = Q[Len(u)]
  BY <1>1, <1>2, SumIsPrefix
<1>4. P[Len(u)] = Q[Len(u)] - s[x] + u[x]
  <2>1. Len(u) = Len(s) /\ x \in 1 .. Len(u)
    OBVIOUS
  <2>2. \A i \in 1 .. Len(u) : i # x => u[i] = s[i]
    OBVIOUS
  <2>3. DifferAt(x, u, s, P, Q)
    BY <1>1, <1>2, <2>1, <2>2 DEF DifferAt
  <2> QED
    BY <2>3, PrefixSumsDiffer
<1> QED
  BY <1>3, <1>4

\* The sum of a sequence of zeros
LEMMA SumOfZeros ==
  ASSUME NEW s \in Seq(Int), \A i \in 1 .. Len(s) : s[i] = 0
  PROVE  SumSeq(s) = 0
<1>1. PICK P : IsPrefixSum(P, s)
  BY PrefixSumExists
<1> DEFINE T == {n \in Nat : n <= Len(s) => P[n] = 0}
<1>2. 0 \in T
  BY <1>1 DEF IsPrefixSum
<1>3. ASSUME NEW n \in Nat, n \in T PROVE n + 1 \in T
  <2> SUFFICES ASSUME n + 1 <= Len(s) PROVE P[n + 1] = 0
    OBVIOUS
  <2>1. n + 1 \in 1 .. Len(s) /\ (n + 1) - 1 = n /\ P[n] = 0
    BY <1>3
  <2>2. P[n + 1] = P[n] + s[n + 1]
    BY <1>1, <2>1 DEF IsPrefixSum
  <2> QED
    BY <2>1, <2>2
<1> HIDE DEF T
<1>4. Len(s) \in T
  <2>1. Len(s) \in Nat
    OBVIOUS
  <2> QED
    BY <1>2, <1>3, <2>1, SetInduction
<1> QED
  BY <1>1, <1>4, SumIsPrefix DEF T

LEMMA SumOfNaturals ==
  ASSUME NEW s \in Seq(Nat)
  PROVE  SumSeq(s) \in Nat
<1>1. s \in Seq(Int) /\ Len(s) \in Nat /\ \A i \in 1 .. Len(s) : s[i] \in Nat
  OBVIOUS
<1>2. PICK P : IsPrefixSum(P, s)
  BY <1>1, PrefixSumExists
<1> DEFINE T == {n \in Nat : n <= Len(s) => P[n] \in Nat}
<1>3. 0 \in T
  BY <1>2 DEF IsPrefixSum
<1>4. ASSUME NEW n \in Nat, n \in T PROVE n + 1 \in T
  <2> SUFFICES ASSUME n + 1 <= Len(s) PROVE P[n + 1] \in Nat
    OBVIOUS
  <2>1. n + 1 \in 1 .. Len(s) /\ (n + 1) - 1 = n /\ P[n] \in Nat
    BY <1>1, <1>4
  <2>2. P[n + 1] = P[n] + s[n + 1]
    BY <1>2, <2>1 DEF IsPrefixSum
  <2> QED
    BY <1>1, <2>1, <2>2
<1> HIDE DEF T
<1>5. Len(s) \in T
  BY <1>1, <1>3, <1>4, SetInduction
<1> QED
  BY <1>1, <1>2, <1>5, SumIsPrefix DEF T

\* The sum of a part of a sequence is the difference of two prefix sums.
LEMMA SumOfRange ==
  ASSUME NEW s \in Seq(Int), NEW P, IsPrefixSum(P, s),
         NEW a \in Nat, NEW b \in Nat, 1 <= a, a <= b + 1, b <= Len(s)
  PROVE  SumSeq(SubSeq(s, a, b)) = P[b] - P[a - 1]
<1> DEFINE u == SubSeq(s, a, b)
           Q == [n \in 0 .. (b - a) + 1 |-> P[(a - 1) + n] - P[a - 1]]
<1>1. /\ u \in Seq(Int) /\ Len(u) = (b - a) + 1
      /\ \A n \in 1 .. Len(u) : u[n] = s[(a - 1) + n]
  <2>1. /\ a \in Int /\ b \in Int /\ (b - a) + 1 \in Nat
        /\ \A n \in a .. b : n \in 1 .. Len(s)
    OBVIOUS
  <2> QED
    BY <2>1, SMTT(40)
<1>2. /\ a - 1 \in 0 .. Len(s)
      /\ \A n \in 0 .. (b - a) + 1 : (a - 1) + n \in 0 .. Len(s)
      /\ \A n \in 1 .. (b - a) + 1 :
           /\ n - 1 \in 0 .. (b - a) + 1 /\ n \in 0 .. (b - a) + 1
           /\ (a - 1) + n \in 1 .. Len(s) /\ ((a - 1) + n) - 1 = (a - 1) + (n - 1)
  OBVIOUS
<1>3. \A n \in 0 .. Len(s) : P[n] \in Int
  BY DEF IsPrefixSum
<1>4. Q \in [0 .. (b - a) + 1 -> Int] /\ Q[0] = 0
  <2>1. \A n \in 0 .. (b - a) + 1 : P[(a - 1) + n] - P[a - 1] \in Int
    BY <1>2, <1>3, SMTT(40)
  <2>2. 0 \in 0 .. (b - a) + 1 /\ (a - 1) + 0 = a - 1 /\ P[a - 1] \in Int
    BY <1>2, <1>3
  <2>3. Q \in [0 .. (b - a) + 1 -> Int]
    BY <2>1
  <2>4. Q[0] = P[a - 1] - P[a - 1]
    BY <2>2
  <2> HIDE DEF Q
  <2> QED
    BY <2>2, <2>3, <2>4
<1>5. ASSUME NEW n \in 1 .. (b - a) + 1 PROVE Q[n] = Q[n - 1] + u[n]
  <2>1. P[(a - 1) + n] = P[(a - 1) + (n - 1)] + s[(a - 1) + n]
    BY <1>2 DEF IsPrefixSum
  <2>2. /\ Q[n] = P[(a - 1) + n] - P[a - 1]
        /\ Q[n - 1] = P[(a - 1) + (n - 1)] - P[a - 1]
    BY <1>2
  <2>3. u[n] = s[(a - 1) + n] /\ s[(a - 1) + n] \in Int
    BY <1>1, <1>2
  <2>4. PICK x, y, z, w \in Int : /\ x = P[(a - 1) + n] /\ y = P[(a - 1) + (n - 1)]
                                  /\ z = s[(a - 1) + n] /\ w = P[a - 1]
    BY <1>2, <1>3, <2>3
  <2> HIDE DEF Q, u
  <2> QED
    BY <2>1, <2>2, <2>3, <2>4, SMTT(40)
<1>6. IsPrefixSum(Q, u)
  <2> HIDE DEF Q, u
  <2> QED
    BY <1>1, <1>4, <1>5 DEF IsPrefixSum
<1>7. Q[(b - a) + 1] = P[b] - P[a - 1]
  <2>1. (b - a) + 1 \in 0 .. (b - a) + 1 /\ (a - 1) + ((b - a) + 1) = b
    OBVIOUS
  <2> QED
    BY <2>1
<1> HIDE DEF Q
<1> QED
  BY <1>1, <1>6, <1>7, SumIsPrefix

LEMMA SumOfParts ==
  ASSUME NEW s \in Seq(Int), NEW k \in 0 .. Len(s)
  PROVE  SumSeq(s) = SumSeq(SubSeq(s, 1, k)) + SumSeq(SubSeq(s, k + 1, Len(s)))
<1>1. PICK P : IsPrefixSum(P, s)
  BY PrefixSumExists
<1>2. /\ 1 \in Nat /\ k \in Nat /\ Len(s) \in Nat /\ k + 1 \in Nat /\ (k + 1) - 1 = k
      /\ 1 <= k + 1 /\ k <= Len(s) /\ k + 1 <= Len(s) + 1 /\ 1 - 1 = 0 /\ 1 <= 1
  OBVIOUS
<1>3. SumSeq(SubSeq(s, 1, k)) = P[k] - P[0]
  BY <1>1, <1>2, SumOfRange
<1>4. SumSeq(SubSeq(s, k + 1, Len(s))) = P[Len(s)] - P[k]
  BY <1>1, <1>2, SumOfRange
<1>5. P[0] = 0 /\ P[k] \in Int /\ P[Len(s)] \in Int
  BY <1>1, <1>2 DEF IsPrefixSum
<1> QED
  BY <1>1, <1>3, <1>4, <1>5, SumIsPrefix

LEMMA SumOfAppend ==
  ASSUME NEW s \in Seq(Int), NEW x \in Int
  PROVE  SumSeq(Append(s, x)) = SumSeq(s) + x
<1> DEFINE t == Append(s, x)
<1>1. /\ t \in Seq(Int) /\ Len(t) = Len(s) + 1 /\ Len(s) \in Nat /\ t[Len(s) + 1] = x
      /\ \A i \in 1 .. Len(s) : t[i] = s[i]
  OBVIOUS
<1> HIDE DEF t
<1>2. PICK P : IsPrefixSum(P, t)
  BY <1>1, PrefixSumExists
<1> DEFINE Q == [n \in 0 .. Len(s) |-> P[n]]
<1>3. IsPrefixSum(Q, s)
  <2>1. /\ \A n \in 0 .. Len(s) : n \in 0 .. Len(t)
        /\ \A n \in 1 .. Len(s) : n \in 1 .. Len(t) /\ n \in 0 .. Len(s) /\ n - 1 \in 0 .. Len(s)
        /\ 0 \in 0 .. Len(s)
    BY <1>1
  <2>2. Q \in [0 .. Len(s) -> Int] /\ Q[0] = 0
    BY <1>2, <2>1 DEF IsPrefixSum
  <2>3. ASSUME NEW n \in 1 .. Len(s) PROVE Q[n] = Q[n - 1] + s[n]
    BY <1>1, <1>2, <2>1 DEF IsPrefixSum
  <2> HIDE DEF Q
  <2> QED
    BY <2>2, <2>3 DEF IsPrefixSum
<1>4. SumSeq(s) = P[Len(s)]
  BY <1>1, <1>3, SumIsPrefix
<1>5. P[Len(s) + 1] = P[Len(s)] + x
  <2>1. Len(s) + 1 \in 1 .. Len(t) /\ (Len(s) + 1) - 1 = Len(s)
    BY <1>1
  <2> QED
    BY <1>1, <1>2, <2>1 DEF IsPrefixSum
<1>6. SumSeq(t) = P[Len(s) + 1]
  BY <1>1, <1>2, SumIsPrefix
<1> QED
  BY <1>4, <1>5, <1>6 DEF t

\* A sum of smaller terms is smaller.
LEMMA SumOfSmaller ==
  ASSUME NEW s \in Seq(Int), NEW u \in Seq(Int), Len(u) = Len(s),
         \A i \in 1 .. Len(s) : u[i] <= s[i]
  PROVE  SumSeq(u) <= SumSeq(s)
<1>1. PICK P : IsPrefixSum(P, s)
  BY PrefixSumExists
<1>2. PICK Q : IsPrefixSum(Q, u)
  BY PrefixSumExists
<1> DEFINE T == {n \in Nat : n <= Len(s) => Q[n] <= P[n]}
<1>3. 0 \in T
  BY <1>1, <1>2 DEF IsPrefixSum
<1>4. ASSUME NEW n \in Nat, n \in T PROVE n + 1 \in T
  <2> SUFFICES ASSUME n + 1 <= Len(s) PROVE Q[n + 1] <= P[n + 1]
    OBVIOUS
  <2>1. /\ n + 1 \in 1 .. Len(s) /\ n \in 0 .. Len(s) /\ (n + 1) - 1 = n
        /\ Q[n] <= P[n] /\ n + 1 \in 1 .. Len(u)
    BY <1>4
  <2>2. P[n + 1] = P[n] + s[n + 1] /\ Q[n + 1] = Q[n] + u[n + 1]
    BY <1>1, <1>2, <2>1 DEF IsPrefixSum
  <2>3. P[n] \in Int /\ Q[n] \in Int
    BY <1>1, <1>2, <2>1 DEF IsPrefixSum
  <2>4. s[n + 1] \in Int /\ u[n + 1] \in Int /\ u[n + 1] <= s[n + 1]
    BY <2>1
  <2> QED
    BY <2>1, <2>2, <2>3, <2>4
<1> HIDE DEF T
<1>5. Len(s) \in T
  <2>1. Len(s) \in Nat
    OBVIOUS
  <2> QED
    BY <1>3, <1>4, <2>1, SetInduction
<1>6. SumSeq(s) = P[Len(s)] /\ SumSeq(u) = Q[Len(u)]
  BY <1>1, <1>2, SumIsPrefix
<1>7. Q[Len(s)] <= P[Len(s)]
  BY <1>5 DEF T
<1> QED
  BY <1>6, <1>7
=============================================================================
