----------------------------- MODULE Inductions -----------------------------
(***************************************************************************)
(* Induction and recursion over the naturals and over finite sets, stated  *)
(* for sets and functions so that the provers can apply them, and what     *)
(* folds are: over a sequence, over a finite set, and sums among them.     *)
(***************************************************************************)
EXTENDS Integers, Sequences, SequencesExt, FiniteSets, FiniteSetTheorems, WellFoundedInduction, TLAPS

NatLess == {p \in Nat \X Nat : p[1] < p[2]}

LEMMA NatLessWF == IsWellFoundedOn(NatLess, Nat)
<1>1. NatLess = OpToRel(<, Nat)
  BY DEF NatLess, OpToRel
<1> QED BY <1>1, NatLessThanWellFounded

(* A set that has 0 and the successor of all it has, has every number.     *)
LEMMA Induction ==
    ASSUME NEW T, 0 \in T, \A n \in Nat : n \in T => n + 1 \in T
    PROVE  Nat \subseteq T
<1> DEFINE U == Nat \ T
<1> SUFFICES ASSUME U # {} PROVE FALSE
  OBVIOUS
<1>1. PICK x \in U : \A y \in U : <<y, x>> \notin NatLess
  BY NatLessWF, WFMin
<1>2. x # 0 /\ x - 1 \in Nat
  OBVIOUS
<1>3. <<x - 1, x>> \in NatLess
  BY <1>2 DEF NatLess
<1>4. x - 1 \notin U
  BY <1>1, <1>3
<1> QED BY <1>2, <1>4

(* One step after another, from a first value on, is a function.           *)
Stepwise(f, base, step, n) ==
    /\ f[0] = base
    /\ \A k \in Nat : k < n => f[k + 1] = step[k][f[k]]

(* What the next two lemmas take and give, by name.                        *)
IsStep(step, S, V) == step \in [S -> [V -> V]]
IsRun(f, V, base, step) == f \in [Nat -> V] /\ f[0] = base /\ \A n \in Nat : f[n + 1] = step[n][f[n]]

LEMMA Recursion ==
    ASSUME NEW V, NEW base \in V, NEW step, IsStep(step, Nat, V)
    PROVE  \E f : IsRun(f, V, base, step)
<1> USE DEF IsStep
<1> DEFINE Part(n, g) == g \in [Nat -> V] /\ Stepwise(g, base, step, n)
           T == {n \in Nat : \E g : Part(n, g)}
<1>1. 0 \in T
  <2>1. Part(0, [k \in Nat |-> base])
    BY DEF Stepwise
  <2> QED BY <2>1
<1>2. ASSUME NEW n \in Nat, n \in T PROVE n + 1 \in T
  <2>1. PICK g : Part(n, g)
    BY <1>2
  <2>2. g[n] \in V /\ step[n][g[n]] \in V
    BY <2>1
  <2>3. PICK h : h = [k \in Nat |-> IF k = n + 1 THEN step[n][g[n]] ELSE g[k]]
    OBVIOUS
  <2>4. h \in [Nat -> V]
    BY <2>1, <2>2, <2>3
  <2>5. \A k \in Nat : k # n + 1 => h[k] = g[k]
    BY <2>3
  <2>6. h[n + 1] = step[n][g[n]]
    BY <2>3
  <2>7. Stepwise(h, base, step, n + 1)
    <3>1. h[0] = base
      BY <2>1, <2>5 DEF Stepwise
    <3>2. ASSUME NEW k \in Nat, k < n + 1 PROVE h[k + 1] = step[k][h[k]]
      <4>1. CASE k = n
        BY <4>1, <2>5, <2>6
      <4>2. CASE k # n
        <5>1. k < n /\ k + 1 # n + 1 /\ k # n + 1
          BY <3>2, <4>2
        <5>2. g[k + 1] = step[k][g[k]]
          BY <2>1, <5>1 DEF Stepwise
        <5> QED BY <2>5, <5>1, <5>2
      <4> QED BY <4>1, <4>2
    <3> QED BY <3>1, <3>2 DEF Stepwise
  <2>8. n + 1 \in Nat /\ Part(n + 1, h)
    BY <2>4, <2>7
  <2> HIDE DEF Part
  <2> QED BY <2>8
<1>3. Nat \subseteq T
  <2> HIDE DEF T
  <2> QED BY <1>1, <1>2, Induction
<1>4. PICK p : p = [n \in Nat |-> CHOOSE g : Part(n, g)]
  OBVIOUS
<1>5. \A n \in Nat : Part(n, p[n])
  <2> TAKE n \in Nat
  <2>1. \E g : Part(n, g)
    BY <1>3
  <2> HIDE DEF Part
  <2>2. Part(n, CHOOSE g : Part(n, g))
    BY <2>1
  <2> QED BY <1>4, <2>2
<1>6. \A k, m, l \in Nat : k <= m /\ k <= l => p[m][k] = p[l][k]
  <2> DEFINE Q == {k \in Nat : \A m, l \in Nat : k <= m /\ k <= l => p[m][k] = p[l][k]}
  <2>1. 0 \in Q
    BY <1>5 DEF Stepwise
  <2>2. ASSUME NEW k \in Nat, k \in Q PROVE k + 1 \in Q
    <3> SUFFICES ASSUME NEW m \in Nat, NEW l \in Nat, k + 1 <= m, k + 1 <= l
                 PROVE  p[m][k + 1] = p[l][k + 1]
      OBVIOUS
    <3>1. p[m][k] = p[l][k]
      BY <2>2
    <3>2. Stepwise(p[m], base, step, m) /\ Stepwise(p[l], base, step, l)
      BY <1>5
    <3>3. k < m /\ k < l
      OBVIOUS
    <3>4. p[m][k + 1] = step[k][p[m][k]] /\ p[l][k + 1] = step[k][p[l][k]]
      BY <3>2, <3>3 DEF Stepwise
    <3> QED BY <3>1, <3>4
  <2>3. Nat \subseteq Q
    <3> HIDE DEF Q
    <3> QED BY <2>1, <2>2, Induction
  <2> QED BY <2>3
<1>7. PICK f : f = [n \in Nat |-> p[n][n]]
  OBVIOUS
<1>8. f \in [Nat -> V] /\ f[0] = base
  BY <1>5, <1>7 DEF Stepwise
<1>9. ASSUME NEW n \in Nat PROVE f[n + 1] = step[n][f[n]]
  <2>1. Stepwise(p[n + 1], base, step, n + 1) /\ n < n + 1
    BY <1>5
  <2>2. p[n + 1][n + 1] = step[n][p[n + 1][n]]
    BY <2>1 DEF Stepwise
  <2>3. p[n + 1][n] = p[n][n]
    BY <1>6
  <2>4. f[n + 1] = p[n + 1][n + 1] /\ f[n] = p[n][n]
    BY <1>7
  <2> QED BY <2>2, <2>3, <2>4
<1> QED BY <1>8, <1>9 DEF IsRun

-----------------------------------------------------------------------------
(* The greatest and the least of some numbers.                             *)
LEMMA GreatestIs ==
    ASSUME NEW n \in Nat, NEW s \in SUBSET (0..n), s # {}
    PROVE  Max(s) \in s /\ \A y \in s : y <= Max(s)
<1> DEFINE T == {d \in Nat : n - d \in s}
<1>1. T # {} /\ T \subseteq Nat
  <2>1. PICK y : y \in s
    OBVIOUS
  <2>2. n - y \in Nat /\ n - (n - y) = y
    BY <2>1
  <2> QED BY <2>1, <2>2
<1>2. PICK d \in T : \A e \in T : <<e, d>> \notin NatLess
  <2> HIDE DEF T
  <2> QED BY <1>1, NatLessWF, WFMin
<1>3. n - d \in s
  OBVIOUS
<1>4. ASSUME NEW y \in s PROVE n - d >= y
  <2>1. y \in Nat /\ n - y \in Nat /\ n - (n - y) = y
    OBVIOUS
  <2>2. n - y \in T
    BY <2>1
  <2>3. ~(n - y < d)
    BY <1>2, <2>1, <2>2 DEF NatLess
  <2> QED BY <2>1, <2>3
<1>5. \E x \in s : \A y \in s : x >= y
  BY <1>3, <1>4
<1>6. Max(s) \in s /\ \A y \in s : Max(s) >= y
  BY <1>5, Zenon DEF Max
<1> QED BY <1>6

LEMMA MaxIs ==
    ASSUME NEW n \in Nat, NEW s \in SUBSET (1..n), s # {}
    PROVE  Max(s) \in s /\ \A y \in s : y <= Max(s)
<1>1. s \in SUBSET (0..n)
  OBVIOUS
<1> QED BY <1>1, GreatestIs

LEMMA MinIs ==
    ASSUME NEW s \in SUBSET Nat, s # {}
    PROVE  Min(s) \in s /\ \A y \in s : Min(s) <= y
<1>1. PICK d \in s : \A e \in s : <<e, d>> \notin NatLess
  BY NatLessWF, WFMin
<1>2. \A e \in s : d <= e
  <2> TAKE e \in s
  <2>1. d \in Nat /\ e \in Nat /\ <<e, d>> \notin NatLess
    BY <1>1
  <2>2. ~(e < d)
    BY <2>1 DEF NatLess
  <2> QED BY <2>1, <2>2
<1>3. \E x \in s : \A y \in s : x <= y
  BY <1>2
<1> QED BY <1>3, Zenon DEF Min

-----------------------------------------------------------------------------
(* A fold over a sequence.                                                 *)

IsFold(h, V, base, n, step) ==
    /\ h \in [SUBSET (1..n) -> V]
    /\ \A s \in SUBSET (1..n) : h[s] = IF s = {} THEN base ELSE step[Max(s)][h[s \ {Max(s)}]]

(* Folding the items of a set of positions, the last of them last.         *)
LEMMA FoldExists ==
    ASSUME NEW V, NEW base \in V, NEW n \in Nat, NEW step, IsStep(step, 1..n, V)
    PROVE  \E h : IsFold(h, V, base, n, step)
<1> DEFINE P == SUBSET (1..n)
           W == [P -> V]
           Then(k, g) == [s \in P |-> IF k + 1 \in s THEN step[k + 1][g[s \ {k + 1}]] ELSE g[s]]
<1>1. PICK First : First = [s \in P |-> base]
  OBVIOUS
<1>2. PICK Steps : Steps = [k \in Nat |-> [g \in W |-> Then(k, g)]]
  OBVIOUS
<1>3. ASSUME NEW k \in Nat, NEW g \in W PROVE Then(k, g) \in W
  <2>1. ASSUME NEW s \in P PROVE (IF k + 1 \in s THEN step[k + 1][g[s \ {k + 1}]] ELSE g[s]) \in V
    <3>1. CASE k + 1 \in s
      <4>1. k + 1 \in 1..n /\ s \ {k + 1} \in P
        BY <2>1, <3>1
      <4>2. g[s \ {k + 1}] \in V /\ step[k + 1] \in [V -> V]
        BY <4>1 DEF IsStep
      <4> QED BY <3>1, <4>2
    <3>2. CASE k + 1 \notin s
      BY <2>1, <3>2
    <3> QED BY <3>1, <3>2
  <2> HIDE DEF P
  <2> QED BY <2>1
<1>4. First \in W
  BY <1>1
<1>5. IsStep(Steps, Nat, W)
  <2> HIDE DEF W, Then
  <2> QED BY <1>2, <1>3 DEF IsStep
<1>6. PICK G : G \in [Nat -> W] /\ G[0] = First /\ \A k \in Nat : G[k + 1] = Steps[k][G[k]]
  <2> HIDE DEF W, Then
  <2>1. PICK G : IsRun(G, W, First, Steps)
    BY <1>4, <1>5, Recursion
  <2> QED BY <2>1 DEF IsRun
<1>7. \A k \in Nat, s \in P :
          G[k + 1][s] = IF k + 1 \in s THEN step[k + 1][G[k][s \ {k + 1}]] ELSE G[k][s]
  <2> SUFFICES ASSUME NEW k \in Nat, NEW s \in P
               PROVE  G[k + 1][s] = IF k + 1 \in s THEN step[k + 1][G[k][s \ {k + 1}]] ELSE G[k][s]
    OBVIOUS
  <2>1. G[k] \in W
    BY <1>6
  <2>2. Steps[k][G[k]] = Then(k, G[k])
    <3> HIDE DEF W, Then
    <3> QED BY <1>2, <2>1
  <2>3. G[k + 1] = Then(k, G[k])
    BY <1>6, <2>2
  <2> HIDE DEF P
  <2> QED BY <2>3
<1>8. \A s \in P : G[0][s] = base
  BY <1>1, <1>6
<1> HIDE DEF Then
<1>9. ASSUME NEW m \in Nat, NEW s \in P, s \subseteq 1..m
      PROVE  \A l \in Nat : l >= m => G[l][s] = G[m][s]
  <2> DEFINE Q == {l \in Nat : l >= m => G[l][s] = G[m][s]}
  <2>1. 0 \in Q
    OBVIOUS
  <2>2. ASSUME NEW l \in Nat, l \in Q PROVE l + 1 \in Q
    <3>1. CASE l + 1 > m
      <4>1. l + 1 \notin s /\ G[l][s] = G[m][s]
        BY <1>9, <2>2, <3>1
      <4>2. G[l + 1][s] = G[l][s]
        BY <1>7, <4>1
      <4> QED BY <4>1, <4>2
    <3>2. CASE l + 1 <= m
      BY <3>2
    <3> QED BY <3>1, <3>2
  <2>3. Nat \subseteq Q
    <3> HIDE DEF Q
    <3> QED BY <2>1, <2>2, Induction
  <2> QED BY <2>3
<1>10. PICK h : h = G[n]
  OBVIOUS
<1>11. h \in W
  <2> HIDE DEF W
  <2> QED BY <1>6, <1>10
<1>12. h[{}] = base
  <2>1. {} \subseteq 1..0 /\ {} \in P /\ 0 \in Nat /\ n >= 0
    OBVIOUS
  <2>2. G[n][{}] = G[0][{}]
    BY <2>1, <1>9
  <2> QED BY <2>1, <2>2, <1>8, <1>10
<1>13. ASSUME NEW s \in P, s # {} PROVE h[s] = step[Max(s)][h[s \ {Max(s)}]]
  <2>1. PICK m : m = Max(s) /\ m \in s /\ \A y \in s : y <= m
    BY <1>13, MaxIs
  <2>2. m \in 1..n /\ m - 1 \in Nat /\ (m - 1) + 1 = m /\ m \in Nat /\ n >= m /\ n >= m - 1
    BY <2>1
  <2>3. \A y \in s : y \in 1..n /\ (y = m \/ y <= m - 1)
    BY <2>1, <2>2
  <2>4. PICK r : r = s \ {m}
    OBVIOUS
  <2>5. s \subseteq 1..m /\ r \subseteq 1..(m - 1) /\ r \in P
    BY <2>2, <2>3, <2>4
  <2>6. G[n][s] = G[m][s]
    BY <1>9, <2>2, <2>5
  <2>7. G[n][r] = G[m - 1][r]
    BY <1>9, <2>2, <2>5
  <2>8. G[m][s] = step[m][G[m - 1][r]]
    <3>1. G[(m - 1) + 1][s] = IF (m - 1) + 1 \in s THEN step[(m - 1) + 1][G[m - 1][s \ {(m - 1) + 1}]] ELSE G[m - 1][s]
      BY <1>7, <2>2
    <3> QED BY <2>1, <2>2, <2>4, <3>1
  <2> QED BY <1>10, <2>1, <2>4, <2>6, <2>7, <2>8
<1> HIDE DEF W
<1> QED BY <1>11, <1>12, <1>13 DEF W, IsFold

(* The positions up to one are its predecessors and itself, the last.      *)
LEMMA PrefixIs ==
    ASSUME NEW k \in Nat, NEW n \in Nat, k < n
    PROVE  /\ 1..(k + 1) \in SUBSET (1..n) /\ 1..(k + 1) # {}
           /\ Max(1..(k + 1)) = k + 1 /\ (1..(k + 1)) \ {k + 1} = 1..k
<1>1. k + 1 \in Nat /\ k + 1 \in 1..(k + 1) /\ 1..(k + 1) \in SUBSET (1..(k + 1))
  OBVIOUS
<1>2. PICK m : m = Max(1..(k + 1)) /\ m \in 1..(k + 1) /\ \A y \in 1..(k + 1) : y <= m
  BY <1>1, MaxIs
<1>3. m = k + 1
  BY <1>1, <1>2
<1>4. \A x \in 1..(k + 1) : x \in 1..n
  OBVIOUS
<1>5. (1..(k + 1)) \ {k + 1} = 1..k
  OBVIOUS
<1> QED BY <1>1, <1>2, <1>3, <1>4, <1>5

-----------------------------------------------------------------------------
(* A fold over a finite set, whose items are taken in the order in which   *)
(* they are picked.                                                        *)

Picks(pick, S) == \A s \in SUBSET S : s # {} => pick[s] \in s
Unfolds(h, base, S, pick, step) ==
    \A s \in SUBSET S : h[s] = IF s = {} THEN base ELSE step[pick[s]][h[s \ {pick[s]}]]

LEMMA NoneLeft ==
    ASSUME NEW s, IsFiniteSet(s), Cardinality(s) <= 0
    PROVE  s = {}
<1>1. Cardinality(s) \in Nat
  BY FS_CardinalityType
<1>2. Cardinality(s) = 0
  BY <1>1
<1> QED BY <1>2, FS_EmptySet

LEMMA OneLess ==
    ASSUME NEW s, IsFiniteSet(s), NEW k \in Nat, Cardinality(s) <= k + 1, NEW x \in s
    PROVE  IsFiniteSet(s \ {x}) /\ Cardinality(s \ {x}) <= k
<1>1. Cardinality(s) \in Nat
  BY FS_CardinalityType
<1>2. IsFiniteSet(s \ {x}) /\ Cardinality(s \ {x}) = Cardinality(s) - 1
  BY FS_RemoveElement
<1> QED BY <1>1, <1>2

LEMMA SetFoldExists ==
    ASSUME NEW S, IsFiniteSet(S), NEW V, NEW base \in V, NEW step, IsStep(step, S, V), NEW pick, Picks(pick, S)
    PROVE  \E h : h \in [SUBSET S -> V] /\ Unfolds(h, base, S, pick, step)
<1> DEFINE P == SUBSET S
           W == [P -> V]
           Then(g) == [s \in P |-> IF s = {} THEN base ELSE step[pick[s]][g[s \ {pick[s]}]]]
<1>1. PICK First : First = [s \in P |-> base]
  OBVIOUS
<1>2. PICK Steps : Steps = [k \in Nat |-> [g \in W |-> Then(g)]]
  OBVIOUS
<1>3. ASSUME NEW g \in W PROVE Then(g) \in W
  <2>1. ASSUME NEW s \in P PROVE (IF s = {} THEN base ELSE step[pick[s]][g[s \ {pick[s]}]]) \in V
    <3>1. CASE s # {}
      <4>1. pick[s] \in S /\ s \ {pick[s]} \in P
        BY <3>1 DEF Picks
      <4>2. g[s \ {pick[s]}] \in V /\ step[pick[s]] \in [V -> V]
        BY <4>1 DEF IsStep
      <4> QED BY <3>1, <4>2
    <3> QED BY <3>1
  <2> HIDE DEF P
  <2> QED BY <2>1
<1>4. First \in W
  BY <1>1
<1>5. IsStep(Steps, Nat, W)
  <2> HIDE DEF W, Then
  <2> QED BY <1>2, <1>3 DEF IsStep
<1>6. PICK G : G \in [Nat -> W] /\ G[0] = First /\ \A k \in Nat : G[k + 1] = Steps[k][G[k]]
  <2> HIDE DEF W, Then
  <2>1. PICK G : IsRun(G, W, First, Steps)
    BY <1>4, <1>5, Recursion
  <2> QED BY <2>1 DEF IsRun
<1>7. \A k \in Nat, s \in P : G[k + 1][s] = IF s = {} THEN base ELSE step[pick[s]][G[k][s \ {pick[s]}]]
  <2> TAKE k \in Nat, s \in P
  <2>1. G[k] \in W
    BY <1>6
  <2>2. G[k + 1] = Then(G[k])
    <3> HIDE DEF W, Then
    <3> QED BY <1>2, <1>6, <2>1
  <2> HIDE DEF P
  <2> QED BY <2>2
<1>8. \A s \in P : IsFiniteSet(s) /\ Cardinality(s) \in Nat /\ Cardinality(s) <= Cardinality(S)
  BY FS_Subset, FS_CardinalityType
<1> DEFINE Q == {k \in Nat : \A s \in P : Cardinality(s) <= k => G[k + 1][s] = G[k][s]}
<1> HIDE DEF W, Then
<1>9. {} \in P /\ \A s \in P : s # {} => pick[s] \in s /\ s \ {pick[s]} \in P
  BY DEF Picks
<1> HIDE DEF P
<1>10. 0 \in Q
  <2> SUFFICES ASSUME NEW s \in P, Cardinality(s) <= 0 PROVE G[0 + 1][s] = G[0][s]
    OBVIOUS
  <2>1. s = {}
    BY <1>8, NoneLeft
  <2>2. G[0][s] = base
    <3>1. First[s] = base
      BY <1>1
    <3> QED BY <1>6, <3>1
  <2>3. G[0 + 1][s] = base
    BY <1>7, <2>1
  <2> QED BY <2>2, <2>3
<1>11. ASSUME NEW k \in Nat, k \in Q PROVE k + 1 \in Q
  <2> SUFFICES ASSUME NEW s \in P, Cardinality(s) <= k + 1 PROVE G[(k + 1) + 1][s] = G[k + 1][s]
    OBVIOUS
  <2>0. PICK l \in Nat : l = k + 1
    OBVIOUS
  <2>1. CASE s = {}
    <3>1. G[l + 1][s] = base
      BY <1>7, <2>1
    <3>2. G[k + 1][s] = base
      BY <1>7, <2>1
    <3> QED BY <2>0, <3>1, <3>2
  <2>2. CASE s # {}
    <3>1. PICK r \in P : r = s \ {pick[s]} /\ Cardinality(r) <= k
      BY <1>8, <1>9, <2>2, OneLess
    <3>2. G[k + 1][r] = G[k][r]
      BY <1>11, <3>1
    <3>3. G[l + 1][s] = step[pick[s]][G[l][r]]
      BY <1>7, <2>2, <3>1
    <3>4. G[k + 1][s] = step[pick[s]][G[k][r]]
      BY <1>7, <2>2, <3>1
    <3> QED BY <2>0, <3>2, <3>3, <3>4
  <2> QED BY <2>1, <2>2
<1>12. Nat \subseteq Q
  <2> HIDE DEF Q
  <2> QED BY <1>10, <1>11, Induction
<1>13. PICK n \in Nat : n = Cardinality(S)
  BY FS_CardinalityType
<1>14. \A s \in P : G[n + 1][s] = G[n][s]
  BY <1>8, <1>12, <1>13
<1>15. \A s \in P : G[n][s] = IF s = {} THEN base ELSE step[pick[s]][G[n][s \ {pick[s]}]]
  BY <1>7, <1>14
<1>16. Unfolds(G[n], base, S, pick, step)
  BY <1>15 DEF P, Unfolds
<1>17. G[n] \in W
  BY <1>6
<1> QED BY <1>16, <1>17 DEF W, P

(* Two that unfold alike are alike.                                        *)
LEMMA SetFoldUnique ==
    ASSUME NEW S, IsFiniteSet(S), NEW base, NEW step, NEW pick, Picks(pick, S), NEW T \in SUBSET S,
           NEW g, Unfolds(g, base, S, pick, step), NEW h, Unfolds(h, base, T, pick, step)
    PROVE  g[T] = h[T]
<1>1. \A s \in SUBSET T : s \in SUBSET S /\ IsFiniteSet(s) /\ Cardinality(s) \in Nat
  BY FS_Subset, FS_CardinalityType
<1> DEFINE Q == {k \in Nat : \A s \in SUBSET T : Cardinality(s) <= k => g[s] = h[s]}
<1>2. 0 \in Q
  <2> SUFFICES ASSUME NEW s \in SUBSET T, Cardinality(s) <= 0 PROVE g[s] = h[s]
    OBVIOUS
  <2>1. s = {}
    BY <1>1, NoneLeft
  <2> QED BY <1>1, <2>1 DEF Unfolds
<1>3. ASSUME NEW k \in Nat, k \in Q PROVE k + 1 \in Q
  <2> SUFFICES ASSUME NEW s \in SUBSET T, Cardinality(s) <= k + 1 PROVE g[s] = h[s]
    OBVIOUS
  <2>1. CASE s = {}
    BY <1>1, <2>1 DEF Unfolds
  <2>2. CASE s # {}
    <3>1. pick[s] \in s
      BY <1>1, <2>2 DEF Picks
    <3>2. PICK r \in SUBSET T : r = s \ {pick[s]} /\ Cardinality(r) <= k
      BY <1>1, <3>1, OneLess
    <3>3. g[r] = h[r]
      BY <1>3, <3>2
    <3>4. g[s] = step[pick[s]][g[r]] /\ h[s] = step[pick[s]][h[r]]
      BY <1>1, <2>2, <3>2 DEF Unfolds
    <3> QED BY <3>3, <3>4
  <2> QED BY <2>1, <2>2
<1>4. Nat \subseteq Q
  <2> HIDE DEF Q
  <2> QED BY <1>2, <1>3, Induction
<1>5. T \in SUBSET T /\ Cardinality(T) \in Nat
  BY <1>1
<1> QED BY <1>4, <1>5

-----------------------------------------------------------------------------
(* A sum over a finite set: whichever item is taken last.                  *)

SumsUp(h, S, w) ==
    /\ h \in [SUBSET S -> Nat] /\ h[{}] = 0
    /\ \A s \in SUBSET S : \A x \in s : h[s] = w[x] + h[s \ {x}]

SumOver(w, T) == MapThenSumSet(LAMBDA x : w[x], T)
Added(w, T) == FoldFunctionOnSet(LAMBDA x, y : x + y, 0, w, T)

LEMMA SumIs ==
    ASSUME NEW S, IsFiniteSet(S), NEW w \in [S -> Nat]
    PROVE  \E h : SumsUp(h, S, w) /\ \A T \in SUBSET S : SumOver(w, T) = h[T] /\ Added(w, T) = h[T]
<1> DEFINE pick == [s \in SUBSET S |-> CHOOSE x \in s : TRUE]
           step == [x \in S |-> [m \in Nat |-> w[x] + m]]
<1>1. Picks(pick, S)
  BY DEF Picks
<1>2. IsStep(step, S, Nat)
  BY DEF IsStep
<1>3. \A x \in S, m \in Nat : step[x][m] = w[x] + m
  OBVIOUS
<1>4. PICK h : h \in [SUBSET S -> Nat] /\ Unfolds(h, 0, S, pick, step)
  <2> HIDE DEF pick, step
  <2> QED BY <1>1, <1>2, SetFoldExists
<1>5. \A s \in SUBSET S : IsFiniteSet(s) /\ Cardinality(s) \in Nat
  BY FS_Subset, FS_CardinalityType
<1>6. h[{}] = 0
  BY <1>4 DEF Unfolds
<1>7. \A s \in SUBSET S : s # {} => /\ pick[s] \in s /\ pick[s] \in S /\ s \ {pick[s]} \in SUBSET S
                                    /\ h[s] = w[pick[s]] + h[s \ {pick[s]}]
  <2> SUFFICES ASSUME NEW s \in SUBSET S, s # {}
               PROVE  /\ pick[s] \in s /\ pick[s] \in S /\ s \ {pick[s]} \in SUBSET S
                      /\ h[s] = w[pick[s]] + h[s \ {pick[s]}]
    OBVIOUS
  <2> HIDE DEF pick, step
  <2>1. pick[s] \in s /\ pick[s] \in S /\ s \ {pick[s]} \in SUBSET S
    BY <1>1 DEF Picks
  <2>2. h[s \ {pick[s]}] \in Nat /\ h[s] = step[pick[s]][h[s \ {pick[s]}]]
    BY <1>4, <2>1 DEF Unfolds
  <2> QED BY <1>3, <2>1, <2>2
<1> DEFINE Q == {k \in Nat : \A s \in SUBSET S : \A x \in s : Cardinality(s) <= k => h[s] = w[x] + h[s \ {x}]}
<1>8. 0 \in Q
  <2> SUFFICES ASSUME NEW s \in SUBSET S, NEW x \in s, Cardinality(s) <= 0 PROVE FALSE
    OBVIOUS
  <2> QED BY <1>5, NoneLeft
<1>9. ASSUME NEW k \in Nat, k \in Q PROVE k + 1 \in Q
  <2> HIDE DEF pick, step
  <2> SUFFICES ASSUME NEW s \in SUBSET S, NEW x \in s, Cardinality(s) <= k + 1 PROVE h[s] = w[x] + h[s \ {x}]
    OBVIOUS
  <2>1. PICK c \in s : c \in S /\ h[s] = w[c] + h[s \ {c}]
    BY <1>7
  <2>2. CASE c = x
    BY <2>1, <2>2
  <2>3. CASE c # x
    <3>1. PICK a \in SUBSET S : a = s \ {c} /\ Cardinality(a) <= k /\ x \in a
      <4>1. Cardinality(s \ {c}) <= k
        BY <1>5, OneLess
      <4> QED BY <2>3, <4>1
    <3>2. PICK b \in SUBSET S : b = s \ {x} /\ Cardinality(b) <= k /\ c \in b
      <4>1. Cardinality(s \ {x}) <= k
        BY <1>5, OneLess
      <4> QED BY <2>1, <2>3, <4>1
    <3>3. h[a] = w[x] + h[a \ {x}] /\ h[b] = w[c] + h[b \ {c}]
      BY <1>9, <3>1, <3>2
    <3>4. a \ {x} = b \ {c} /\ a \ {x} \in SUBSET S
      BY <3>1, <3>2
    <3>5. PICK u \in Nat, v \in Nat, z \in Nat : u = w[x] /\ v = w[c] /\ z = h[a \ {x}]
      BY <1>4, <2>1, <3>4
    <3>6. h[a] = u + z /\ h[b] = v + z
      BY <3>3, <3>4, <3>5
    <3>7. h[s] = v + h[a] /\ h[s \ {x}] = h[b]
      BY <2>1, <3>1, <3>2, <3>5
    <3>8. v + (u + z) = u + (v + z)
      OBVIOUS
    <3> QED BY <3>5, <3>6, <3>7, <3>8
  <2> QED BY <2>2, <2>3
<1>10. Nat \subseteq Q
  <2> HIDE DEF Q
  <2> QED BY <1>8, <1>9, Induction
<1>11. SumsUp(h, S, w)
  <2> HIDE DEF pick, step
  <2>1. \A s \in SUBSET S : \A x \in s : h[s] = w[x] + h[s \ {x}]
    <3> TAKE s \in SUBSET S
    <3> TAKE x \in s
    <3>1. Cardinality(s) \in Q /\ Cardinality(s) <= Cardinality(s)
      <4> HIDE DEF Q
      <4> QED BY <1>5, <1>10
    <3> QED BY <3>1
  <2> QED BY <1>4, <1>6, <2>1 DEF SumsUp
<1>12. ASSUME NEW T \in SUBSET S PROVE SumOver(w, T) = h[T] /\ Added(w, T) = h[T]
  <2> DEFINE Iterates(it) == it = [s \in SUBSET T |-> IF s = {} THEN 0
                                        ELSE w[CHOOSE x \in s : TRUE] + it[s \ {CHOOSE x \in s : TRUE}]]
             It == CHOOSE it : Iterates(it)
  <2>1. \E it : Iterates(it)
    <3>1. PICK g : g = [s \in SUBSET T |-> h[s]]
      OBVIOUS
    <3>2. ASSUME NEW s \in SUBSET T
          PROVE  g[s] = IF s = {} THEN 0 ELSE w[CHOOSE x \in s : TRUE] + g[s \ {CHOOSE x \in s : TRUE}]
      <4>1. s \in SUBSET S /\ g[s] = h[s] /\ pick[s] = CHOOSE x \in s : TRUE
        BY <3>1
      <4>2. CASE s # {}
        <5>1. h[s] = w[pick[s]] + h[s \ {pick[s]}] /\ s \ {pick[s]} \in SUBSET T
          BY <1>7, <4>1, <4>2
        <5> HIDE DEF pick
        <5> QED BY <3>1, <4>1, <4>2, <5>1
      <4> QED BY <1>6, <4>1, <4>2
    <3>3. Iterates(g)
      BY <3>1, <3>2
    <3> QED BY <3>3
  <2>2. Iterates(It)
    <3> HIDE DEF Iterates
    <3> QED BY <2>1
  <2>3. \A s \in SUBSET T : It[s] = IF s = {} THEN 0 ELSE w[CHOOSE x \in s : TRUE] + It[s \ {CHOOSE x \in s : TRUE}]
    <3> HIDE DEF It
    <3> QED BY <2>2
  <2> DEFINE R == {k \in Nat : \A s \in SUBSET T : Cardinality(s) <= k => It[s] = h[s]}
  <2>4. 0 \in R
    <3> HIDE DEF It
    <3> SUFFICES ASSUME NEW s \in SUBSET T, Cardinality(s) <= 0 PROVE It[s] = h[s]
      OBVIOUS
    <3>1. s = {}
      BY <1>5, NoneLeft
    <3> QED BY <1>6, <2>3, <3>1
  <2>5. ASSUME NEW k \in Nat, k \in R PROVE k + 1 \in R
    <3> HIDE DEF It
    <3> SUFFICES ASSUME NEW s \in SUBSET T, Cardinality(s) <= k + 1 PROVE It[s] = h[s]
      OBVIOUS
    <3>1. CASE s = {}
      BY <1>6, <2>3, <3>1
    <3>2. CASE s # {}
      <4>1. s \in SUBSET S /\ pick[s] = CHOOSE x \in s : TRUE
        OBVIOUS
      <4>2. pick[s] \in s /\ h[s] = w[pick[s]] + h[s \ {pick[s]}]
        BY <1>7, <3>2, <4>1
      <4>3. It[s] = w[pick[s]] + It[s \ {pick[s]}]
        BY <2>3, <3>2, <4>1
      <4> HIDE DEF pick
      <4>4. Cardinality(s \ {pick[s]}) <= k /\ s \ {pick[s]} \in SUBSET T
        BY <1>5, <4>1, <4>2, OneLess
      <4>5. It[s \ {pick[s]}] = h[s \ {pick[s]}]
        BY <2>5, <4>4
      <4> QED BY <4>2, <4>3, <4>5
    <3> QED BY <3>1, <3>2
  <2>6. Nat \subseteq R
    <3> HIDE DEF R
    <3> QED BY <2>4, <2>5, Induction
  <2>7. It[T] = h[T]
    <3> HIDE DEF It
    <3>1. T \in SUBSET T /\ Cardinality(T) \in Nat
      BY <1>5
    <3> QED BY <2>6, <3>1
  <2>8. SumOver(w, T) = It[T]
    BY Zenon DEF SumOver, MapThenSumSet, MapThenFoldSet
  <2>9. Added(w, T) = It[T]
    BY Zenon DEF Added, FoldFunctionOnSet, MapThenFoldSet
  <2> QED BY <2>7, <2>8, <2>9
<1> QED BY <1>11, <1>12

(* A part and the rest of it.                                              *)
LEMMA SumSplits ==
    ASSUME NEW S, IsFiniteSet(S), NEW w \in [S -> Nat], NEW h, SumsUp(h, S, w),
           NEW A \in SUBSET S, NEW B \in SUBSET A
    PROVE  h[A] = h[B] + h[A \ B]
<1>1. \A s \in SUBSET S : IsFiniteSet(s) /\ Cardinality(s) \in Nat /\ h[s] \in Nat
  BY FS_Subset, FS_CardinalityType DEF SumsUp
<1> DEFINE Q == {k \in Nat : \A C \in SUBSET A : Cardinality(C) <= k => h[A] = h[C] + h[A \ C]}
<1>2. 0 \in Q
  <2> SUFFICES ASSUME NEW C \in SUBSET A, Cardinality(C) <= 0 PROVE h[A] = h[C] + h[A \ C]
    OBVIOUS
  <2>1. C = {} /\ A \ C = A
    BY <1>1, NoneLeft
  <2> QED BY <1>1, <2>1 DEF SumsUp
<1>3. ASSUME NEW k \in Nat, k \in Q PROVE k + 1 \in Q
  <2> SUFFICES ASSUME NEW C \in SUBSET A, Cardinality(C) <= k + 1 PROVE h[A] = h[C] + h[A \ C]
    OBVIOUS
  <2>1. CASE C = {}
    <3>1. A \ C = A
      BY <2>1
    <3> QED BY <1>1, <2>1, <3>1 DEF SumsUp
  <2>2. CASE C # {}
    <3>1. PICK x \in C : x \in A /\ x \in S
      BY <2>2
    <3>2. PICK D \in SUBSET A : D = C \ {x} /\ Cardinality(D) <= k
      BY <1>1, <3>1, OneLess
    <3>3. h[A] = h[D] + h[A \ D]
      BY <1>3, <3>2
    <3>4. h[C] = w[x] + h[D]
      BY <3>1, <3>2 DEF SumsUp
    <3>5. h[A \ D] = w[x] + h[A \ C]
      <4>1. A \ D \in SUBSET S /\ x \in A \ D /\ (A \ D) \ {x} = A \ C
        BY <3>1, <3>2
      <4> QED BY <4>1 DEF SumsUp
    <3>6. h[D] \in Nat /\ h[A \ C] \in Nat /\ w[x] \in Nat
      BY <1>1, <3>1, <3>2
    <3> QED BY <3>3, <3>4, <3>5, <3>6
  <2> QED BY <2>1, <2>2
<1>4. Nat \subseteq Q
  <2> HIDE DEF Q
  <2> QED BY <1>2, <1>3, Induction
<1>5. Cardinality(B) \in Nat
  BY <1>1
<1> QED BY <1>4, <1>5

(* Two sums, item by item.                                                 *)
LEMMA SumsCompare ==
    ASSUME NEW S, IsFiniteSet(S), NEW w \in [S -> Nat], NEW g, SumsUp(g, S, w),
           NEW T, S \subseteq T, NEW v \in [T -> Nat], NEW h, SumsUp(h, T, v)
    PROVE  /\ (\A x \in S : w[x] <= v[x]) => g[S] <= h[S]
           /\ (\A x \in S : w[x] = v[x]) => g[S] = h[S]
<1>1. \A s \in SUBSET S : IsFiniteSet(s) /\ Cardinality(s) \in Nat /\ g[s] \in Nat /\ h[s] \in Nat
  BY FS_Subset, FS_CardinalityType DEF SumsUp
<1>2. g[{}] = 0 /\ h[{}] = 0
  BY DEF SumsUp
<1>3. \A s \in SUBSET S : \A x \in s : /\ g[s] = w[x] + g[s \ {x}] /\ h[s] = v[x] + h[s \ {x}]
                                       /\ w[x] \in Nat /\ v[x] \in Nat /\ s \ {x} \in SUBSET S
  BY DEF SumsUp
<1> DEFINE Q == {k \in Nat : \A s \in SUBSET S : Cardinality(s) <= k =>
                      /\ (\A x \in S : w[x] <= v[x]) => g[s] <= h[s]
                      /\ (\A x \in S : w[x] = v[x]) => g[s] = h[s]}
<1>4. 0 \in Q
  <2> SUFFICES ASSUME NEW s \in SUBSET S, Cardinality(s) <= 0 PROVE g[s] <= h[s] /\ g[s] = h[s]
    OBVIOUS
  <2>1. s = {}
    BY <1>1, NoneLeft
  <2> QED BY <1>2, <2>1
<1>5. ASSUME NEW k \in Nat, k \in Q PROVE k + 1 \in Q
  <2> SUFFICES ASSUME NEW s \in SUBSET S, Cardinality(s) <= k + 1
               PROVE  /\ (\A x \in S : w[x] <= v[x]) => g[s] <= h[s]
                      /\ (\A x \in S : w[x] = v[x]) => g[s] = h[s]
    OBVIOUS
  <2>1. CASE s = {}
    BY <1>2, <2>1
  <2>2. CASE s # {}
    <3>1. PICK x \in s : x \in S
      BY <2>2
    <3>2. PICK r \in SUBSET S : r = s \ {x}
      OBVIOUS
    <3>3. Cardinality(r) <= k
      BY <1>1, <3>1, <3>2, OneLess
    <3>4. PICK a \in Nat, b \in Nat, c \in Nat, d \in Nat : a = w[x] /\ b = v[x] /\ c = g[r] /\ d = h[r]
      BY <1>1, <1>3, <3>1, <3>2
    <3>5. g[s] = a + c /\ h[s] = b + d
      BY <1>3, <3>1, <3>2, <3>4
    <3>6. ((\A y \in S : w[y] <= v[y]) => c <= d) /\ ((\A y \in S : w[y] = v[y]) => c = d)
      BY <1>5, <3>3, <3>4
    <3>7. ASSUME \A y \in S : w[y] <= v[y] PROVE a + c <= b + d
      <4>1. a <= b /\ c <= d
        BY <3>1, <3>4, <3>6, <3>7
      <4> QED BY <4>1
    <3>8. ASSUME \A y \in S : w[y] = v[y] PROVE a + c = b + d
      <4>1. a = b /\ c = d
        BY <3>1, <3>4, <3>6, <3>8
      <4> QED BY <4>1
    <3> QED BY <3>5, <3>7, <3>8
  <2> QED BY <2>1, <2>2
<1>6. Nat \subseteq Q
  <2> HIDE DEF Q
  <2> QED BY <1>4, <1>5, Induction
<1>7. S \in SUBSET S /\ Cardinality(S) \in Nat
  BY <1>1
<1>8. Cardinality(S) \in Q /\ Cardinality(S) <= Cardinality(S)
  <2> HIDE DEF Q
  <2> QED BY <1>6, <1>7
<1> QED BY <1>7, <1>8

(* Nothing adds up to nothing.                                             *)
LEMMA SumsOfNothing ==
    ASSUME NEW S, IsFiniteSet(S), NEW w \in [S -> Nat], NEW h, SumsUp(h, S, w),
           NEW A \in SUBSET S, \A x \in A : w[x] = 0
    PROVE  h[A] = 0
<1>1. \A s \in SUBSET A : IsFiniteSet(s) /\ Cardinality(s) \in Nat /\ h[s] \in Nat
  BY FS_Subset, FS_CardinalityType DEF SumsUp
<1> DEFINE Q == {k \in Nat : \A s \in SUBSET A : Cardinality(s) <= k => h[s] = 0}
<1>2. 0 \in Q
  <2> SUFFICES ASSUME NEW s \in SUBSET A, Cardinality(s) <= 0 PROVE h[s] = 0
    OBVIOUS
  <2>1. s = {}
    BY <1>1, NoneLeft
  <2> QED BY <2>1 DEF SumsUp
<1>3. ASSUME NEW k \in Nat, k \in Q PROVE k + 1 \in Q
  <2> SUFFICES ASSUME NEW s \in SUBSET A, Cardinality(s) <= k + 1 PROVE h[s] = 0
    OBVIOUS
  <2>1. CASE s = {}
    BY <2>1 DEF SumsUp
  <2>2. CASE s # {}
    <3>1. PICK x \in s : w[x] = 0
      BY <2>2
    <3>2. PICK r \in SUBSET A : r = s \ {x}
      OBVIOUS
    <3>3. Cardinality(r) <= k
      BY <1>1, <3>1, <3>2, OneLess
    <3>4. h[r] = 0
      BY <1>3, <3>3
    <3>5. h[s] = w[x] + h[r]
      BY <3>1, <3>2 DEF SumsUp
    <3> QED BY <3>1, <3>4, <3>5
  <2> QED BY <2>1, <2>2
<1>4. Nat \subseteq Q
  <2> HIDE DEF Q
  <2> QED BY <1>2, <1>3, Induction
<1>5. Cardinality(A) \in Nat
  BY <1>1
<1>6. Cardinality(A) \in Q /\ Cardinality(A) <= Cardinality(A)
  <2> HIDE DEF Q
  <2> QED BY <1>4, <1>5
<1> QED BY <1>6
=============================================================================
