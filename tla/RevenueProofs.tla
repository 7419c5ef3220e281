----------------------------- MODULE RevenueProofs -----------------------------
(***************************************************************************)
(* What the folds of the community modules compute, which are recursive    *)
(* functions over the subsets of a finite set, and with it what the splits *)
(* of money hand out.                                                      *)
(***************************************************************************)
EXTENDS RevenuePool, SequencesExt, FiniteSetTheorems, SequenceTheorems, TLAPS

\* A set of naturals that is not empty has a least element.
LEMMA LeastOne ==
    ASSUME NEW S \in SUBSET Nat, S # {}
    PROVE  \E x \in S : \A y \in S : x <= y
  <1> DEFINE below == {ss \in Nat \X Nat : ss[1] < ss[2]}
  <1>1. IsWellFoundedOn(below, Nat)
    BY NatLessThanWellFounded DEF OpToRel
  <1>2. \E x \in S : \A y \in S : ~ (<<y, x>> \in below)
    <2> HIDE DEF below
    <2> QED
      BY <1>1, WFMin
  <1>3. ASSUME NEW x \in S, NEW y \in S, ~ (<<y, x>> \in below) PROVE x <= y
    <2>1. ~ (y < x)
      BY <1>3
    <2>2. x \in Nat /\ y \in Nat
      OBVIOUS
    <2> HIDE DEF below
    <2> QED
      BY <2>1, <2>2
  <1> QED
    <2> HIDE DEF below
    <2> QED
      BY <1>2, <1>3

\* If some natural number lacks a property, given as the set of those that have it,
\* then one is the first.
LEMMA FirstGap ==
    ASSUME NEW G, NEW m \in Nat, m \notin G
    PROVE  \E n \in Nat : n \notin G /\ \A k \in Nat : k < n => k \in G
  <1> DEFINE gaps == {n \in Nat : n \notin G}
  <1>1. PICK n \in gaps : \A k \in gaps : n <= k
    <2>1. gaps \in SUBSET Nat /\ gaps # {}
      OBVIOUS
    <2> HIDE DEF gaps
    <2> QED
      BY <2>1, LeastOne
  <1>2. \A k \in Nat : k < n => k \in G
    BY <1>1
  <1> QED
    BY <1>1, <1>2

\* The values of a recursion over the subsets of S with at most n elements.
Computes(g, S, base, pick, op, n) ==
    \A s \in SUBSET S : Cardinality(s) <= n =>
        g[s] = IF s = {} THEN base ELSE op[<<pick[s], g[s \ {pick[s]}]>>]

\* pick takes an element out of each subset of S.
Picks(pick, S) == \A s \in SUBSET S : s # {} => pick[s] \in s

\* g is computed by taking one element after the other.
Computed(g, S, base, pick, op) ==
    \A s \in SUBSET S : g[s] = IF s = {} THEN base ELSE op[<<pick[s], g[s \ {pick[s]}]>>]

\* A function that is computed by taking one element after the other out of a finite
\* set exists.
LEMMA Recursion ==
    ASSUME NEW S, IsFiniteSet(S), NEW V, NEW base \in V,
           NEW pick, Picks(pick, S), NEW op \in [S \X V -> V]
    PROVE  \E g \in [SUBSET S -> V] : Computed(g, S, base, pick, op)
  <1> DEFINE reached == {n \in Nat : \E g \in [SUBSET S -> V] : Computes(g, S, base, pick, op, n)}
  <1>1. \A s \in SUBSET S : IsFiniteSet(s) /\ Cardinality(s) \in Nat /\ Cardinality(s) <= Cardinality(S)
    BY FS_Subset, FS_CardinalityType
  <1>2. \A n \in Nat : n \in reached
    <2> SUFFICES ASSUME NEW m \in Nat, m \notin reached PROVE FALSE
      OBVIOUS
    <2>1. PICK n \in Nat : n \notin reached /\ \A k \in Nat : k < n => k \in reached
      <3> HIDE DEF reached
      <3> QED
        BY FirstGap
    <2>2. n # 0
      <3> DEFINE g == [s \in SUBSET S |-> base]
      <3>1. g \in [SUBSET S -> V]
        OBVIOUS
      <3>2. \A s \in SUBSET S : Cardinality(s) <= 0 => s = {}
        BY <1>1, FS_EmptySet
      <3>3. Computes(g, S, base, pick, op, 0)
        BY <3>2 DEF Computes
      <3>4. 0 \in reached
        BY <3>1, <3>3
      <3> QED
        BY <3>4, <2>1
    <2>3. n - 1 \in reached
      <3> HIDE DEF reached
      <3>1. n - 1 \in Nat /\ n - 1 < n
        BY <2>2
      <3> QED
        BY <2>1, <3>1
    <2>4. PICK g \in [SUBSET S -> V] : Computes(g, S, base, pick, op, n - 1)
      BY <2>3
    <2> DEFINE h == [s \in SUBSET S |-> IF s = {} THEN base ELSE op[<<pick[s], g[s \ {pick[s]}]>>]]
    <2>5. h \in [SUBSET S -> V]
      <3> SUFFICES ASSUME NEW s \in SUBSET S PROVE h[s] \in V
        OBVIOUS
      <3>1. CASE s = {}
        BY <3>1
      <3>2. CASE s # {}
        <4>1. pick[s] \in S /\ s \ {pick[s]} \in SUBSET S
          BY <3>2 DEF Picks
        <4>2. <<pick[s], g[s \ {pick[s]}]>> \in S \X V
          BY <4>1
        <4> QED
          BY <3>2, <4>2
      <3> QED
        BY <3>1, <3>2
    <2>6. \A s \in SUBSET S : Cardinality(s) <= n - 1 => h[s] = g[s]
      BY <2>4 DEF Computes
    <2>7. Computes(h, S, base, pick, op, n)
      <3> SUFFICES ASSUME NEW s \in SUBSET S, Cardinality(s) <= n, s # {}
                   PROVE  h[s] = op[<<pick[s], h[s \ {pick[s]}]>>]
        BY DEF Computes
      <3>1. pick[s] \in s /\ s \ {pick[s]} \in SUBSET S
        BY DEF Picks
      <3>2. Cardinality(s \ {pick[s]}) = Cardinality(s) - 1
        BY <1>1, <3>1, FS_RemoveElement
      <3>3. Cardinality(s \ {pick[s]}) <= n - 1
        BY <1>1, <3>2
      <3>4. h[s \ {pick[s]}] = g[s \ {pick[s]}]
        <4> HIDE DEF h
        <4> QED
          BY <2>6, <3>1, <3>3
      <3> QED
        BY <3>4
    <2> HIDE DEF h
    <2> QED
      BY <2>1, <2>5, <2>7
  <1>3. Cardinality(S) \in Nat
    BY <1>1
  <1>4. PICK g \in [SUBSET S -> V] : Computes(g, S, base, pick, op, Cardinality(S))
    BY <1>2, <1>3
  <1> QED
    BY <1>1, <1>4 DEF Computes, Computed
-----------------------------------------------------------------------------
(***************************************************************************)
(* Sums                                                                    *)
(***************************************************************************)

\* The element a sum takes next.
Picked(S) == [s \in SUBSET S |-> CHOOSE x \in s : TRUE]

\* t has the sums of f over the subsets of S.
SumsOf(t, f, S) ==
    \A s \in SUBSET S :
        t[s] = IF s = {} THEN 0 ELSE f[Picked(S)[s]] + t[s \ {Picked(S)[s]}]

LEMMA PickedFrom ==
    ASSUME NEW S, NEW s \in SUBSET S, s # {}
    PROVE  Picked(S)[s] \in s
  BY DEF Picked

\* The sum over a set is what taking one element after the other gives.
LEMMA SumTable ==
    ASSUME NEW S, IsFiniteSet(S), NEW f, \A x \in S : f[x] \in Int
    PROVE  \E t \in [SUBSET S -> Int] : SumsOf(t, f, S) /\ SumFunctionOnSet(f, S) = t[S]
  <1> DEFINE op == [xv \in S \X Int |-> f[xv[1]] + xv[2]]
             step(t) == [s \in SUBSET S |-> IF s = {} THEN 0
                            ELSE f[CHOOSE x \in s : TRUE] + t[s \ {CHOOSE x \in s : TRUE}]]
             it == CHOOSE t : t = step(t)
  <1>1. op \in [S \X Int -> Int]
    OBVIOUS
  <1>2. PICK g \in [SUBSET S -> Int] : \A s \in SUBSET S :
            g[s] = IF s = {} THEN 0 ELSE op[<<Picked(S)[s], g[s \ {Picked(S)[s]}]>>]
    <2>1. Picks(Picked(S), S)
      BY PickedFrom DEF Picks
    <2>2. \E g \in [SUBSET S -> Int] : Computed(g, S, 0, Picked(S), op)
      <3> DEFINE zero == 0
                 V == Int
                 pick == Picked(S)
      <3>1. zero \in V /\ op \in [S \X V -> V] /\ Picks(pick, S)
        BY <1>1, <2>1
      <3> HIDE DEF op, zero, V, pick
      <3>2. \E g \in [SUBSET S -> V] : Computed(g, S, zero, pick, op)
        BY <3>1, Recursion
      <3> QED
        BY <3>2 DEF zero, V, pick
    <2> HIDE DEF op
    <2> QED
      BY <2>2 DEF Computed
  <1>3. \A t \in [SUBSET S -> Int] : \A s \in SUBSET S : s # {} =>
            op[<<Picked(S)[s], t[s \ {Picked(S)[s]}]>>] = f[Picked(S)[s]] + t[s \ {Picked(S)[s]}]
    <2> SUFFICES ASSUME NEW t \in [SUBSET S -> Int], NEW s \in SUBSET S, s # {}
                 PROVE  op[<<Picked(S)[s], t[s \ {Picked(S)[s]}]>>] = f[Picked(S)[s]] + t[s \ {Picked(S)[s]}]
      OBVIOUS
    <2>1. Picked(S)[s] \in S /\ t[s \ {Picked(S)[s]}] \in Int
      BY PickedFrom
    <2> QED
      BY <2>1
  <1>4. SumsOf(g, f, S)
    BY <1>2, <1>3 DEF SumsOf
  <1>5. g = step(g)
    BY <1>4 DEF SumsOf, Picked
  <1>6. it = step(it)
    <2> HIDE DEF step
    <2> QED
      BY <1>5
  <1>7. SumsOf(it, f, S)
    <2> HIDE DEF it
    <2> QED
      BY <1>6 DEF SumsOf, Picked
  <1>8. \A s \in SUBSET S : it[s] = g[s]
    <2> DEFINE alike == {n \in Nat : \A s \in SUBSET S : Cardinality(s) = n => it[s] = g[s]}
    <2> HIDE DEF it
    <2>1. \A s \in SUBSET S : IsFiniteSet(s) /\ Cardinality(s) \in Nat
      BY FS_Subset, FS_CardinalityType
    <2>2. ASSUME NEW n \in Nat, \A k \in Nat : k < n => k \in alike
          PROVE  n \in alike
      <3> SUFFICES ASSUME NEW s \in SUBSET S, Cardinality(s) = n, s # {} PROVE it[s] = g[s]
        BY <1>4, <1>7 DEF SumsOf
      <3> DEFINE r == s \ {Picked(S)[s]}
      <3>1. Picked(S)[s] \in s /\ r \in SUBSET S
        BY PickedFrom
      <3>2. Cardinality(r) = n - 1
        BY <2>1, <3>1, FS_RemoveElement, ZenonT(60)
      <3>3. n - 1 \in Nat /\ n - 1 < n
        BY <2>1, <3>1, <3>2
      <3>4. n - 1 \in alike
        <4> HIDE DEF alike
        <4> QED
          BY <2>2, <3>3
      <3>5. it[r] = g[r]
        BY <3>1, <3>2, <3>4
      <3> QED
        BY <1>4, <1>7, <3>5 DEF SumsOf
    <2>3. \A n \in Nat : n \in alike
      <3> HIDE DEF alike
      <3> QED
        BY <2>2, FirstGap
    <2> QED
      BY <2>1, <2>3
  <1>9. SumFunctionOnSet(f, S) = it[S]
    BY DEF SumFunctionOnSet, FoldFunctionOnSet, MapThenFoldSet
  <1>10. SumFunctionOnSet(f, S) = g[S]
    <2> HIDE DEF it
    <2> QED
      BY <1>8, <1>9
  <1> QED
    BY <1>4, <1>10

\* A sum of integers is one.
LEMMA SumType ==
    ASSUME NEW S, IsFiniteSet(S), NEW f, \A x \in S : f[x] \in Int
    PROVE  SumFunctionOnSet(f, S) \in Int
  <1>1. PICK t \in [SUBSET S -> Int] : SumsOf(t, f, S) /\ SumFunctionOnSet(f, S) = t[S]
    BY SumTable
  <1> QED
    BY <1>1

\* The function with r more at k sums to r more; how f is written down does not matter.
LEMMA SumWithMore ==
    ASSUME NEW S, IsFiniteSet(S), NEW k \in S, NEW r \in Int,
           NEW f, \A x \in S : f[x] \in Int,
           NEW g, \A x \in S : g[x] = IF x = k THEN f[x] + r ELSE f[x]
    PROVE  SumFunctionOnSet(g, S) = SumFunctionOnSet(f, S) + r
  <1>1. \A x \in S : g[x] \in Int
    OBVIOUS
  <1>2. PICK t \in [SUBSET S -> Int] : SumsOf(t, f, S) /\ SumFunctionOnSet(f, S) = t[S]
    BY SumTable
  <1>3. PICK u \in [SUBSET S -> Int] : SumsOf(u, g, S) /\ SumFunctionOnSet(g, S) = u[S]
    BY <1>1, SumTable
  <1> DEFINE more == {n \in Nat : \A s \in SUBSET S : Cardinality(s) = n =>
                          u[s] = IF k \in s THEN t[s] + r ELSE t[s]}
  <1>4. \A s \in SUBSET S : IsFiniteSet(s) /\ Cardinality(s) \in Nat
    BY FS_Subset, FS_CardinalityType
  <1>5. ASSUME NEW n \in Nat, \A m \in Nat : m < n => m \in more
        PROVE  n \in more
    <2> SUFFICES ASSUME NEW s \in SUBSET S, Cardinality(s) = n
                 PROVE  u[s] = IF k \in s THEN t[s] + r ELSE t[s]
      OBVIOUS
    <2>1. CASE s = {}
      BY <1>2, <1>3, <2>1 DEF SumsOf
    <2>2. CASE s # {}
      <3> DEFINE x == Picked(S)[s]
                 rest == s \ {x}
      <3>1. x \in s /\ x \in S /\ rest \in SUBSET S
        BY <2>2, PickedFrom
      <3>2. Cardinality(rest) = n - 1
        BY <1>4, <3>1, FS_RemoveElement
      <3>3. n - 1 \in Nat /\ n - 1 < n
        BY <1>4, <3>1, <3>2
      <3>4. n - 1 \in more
        <4> HIDE DEF more
        <4> QED
          BY <1>5, <3>3
      <3>5. u[rest] = IF k \in rest THEN t[rest] + r ELSE t[rest]
        BY <3>1, <3>2, <3>4
      <3>6. t[s] = f[x] + t[rest] /\ u[s] = g[x] + u[rest]
        BY <1>2, <1>3, <2>2 DEF SumsOf
      <3>7. f[x] \in Int /\ t[rest] \in Int /\ g[x] = IF x = k THEN f[x] + r ELSE f[x]
        BY <3>1
      <3>8. k \in s <=> (x = k \/ k \in rest)
        BY <3>1
      <3>9. x = k => k \notin rest
        OBVIOUS
      <3> HIDE DEF x, rest
      <3> QED
        BY <3>5, <3>6, <3>7, <3>8, <3>9
    <2> QED
      BY <2>1, <2>2
  <1>6. \A n \in Nat : n \in more
    <2> HIDE DEF more
    <2> QED
      BY <1>5, FirstGap
  <1>7. u[S] = t[S] + r
    BY <1>4, <1>6
  <1> QED
    BY <1>2, <1>3, <1>7

\* A sum of zeros is zero.
LEMMA SumOfZeros ==
    ASSUME NEW S, IsFiniteSet(S), NEW f, \A x \in S : f[x] = 0
    PROVE  SumFunctionOnSet(f, S) = 0
  <1>0. \A x \in S : f[x] \in Int
    OBVIOUS
  <1>1. PICK t \in [SUBSET S -> Int] : SumsOf(t, f, S) /\ SumFunctionOnSet(f, S) = t[S]
    BY <1>0, SumTable
  <1> DEFINE none == {n \in Nat : \A s \in SUBSET S : Cardinality(s) = n => t[s] = 0}
  <1>2. \A s \in SUBSET S : IsFiniteSet(s) /\ Cardinality(s) \in Nat
    BY FS_Subset, FS_CardinalityType
  <1>3. ASSUME NEW n \in Nat, \A m \in Nat : m < n => m \in none
        PROVE  n \in none
    <2> SUFFICES ASSUME NEW s \in SUBSET S, Cardinality(s) = n, s # {} PROVE t[s] = 0
      BY <1>1 DEF SumsOf
    <2> DEFINE rest == s \ {Picked(S)[s]}
    <2>1. Picked(S)[s] \in s /\ rest \in SUBSET S
      BY PickedFrom
    <2>2. Cardinality(rest) = n - 1
      BY <1>2, <2>1, FS_RemoveElement
    <2>3. n - 1 \in Nat /\ n - 1 < n
      BY <1>2, <2>1, <2>2
    <2>4. n - 1 \in none
      <3> HIDE DEF none
      <3> QED
        BY <1>3, <2>3
    <2>5. t[rest] = 0
      BY <2>1, <2>2, <2>4
    <2> QED
      BY <1>1, <2>1, <2>5 DEF SumsOf
  <1>4. \A n \in Nat : n \in none
    <2> HIDE DEF none
    <2> QED
      BY <1>3, FirstGap
  <1> QED
    BY <1>1, <1>2, <1>4

\* What is left of an amount, given to one, makes the sum the amount.
LEMMA SumWithRemainder ==
    ASSUME NEW f, IsFiniteSet(DOMAIN f), \A x \in DOMAIN f : f[x] \in Int,
           NEW k \in DOMAIN f, NEW amount \in Int
    PROVE  SumFunction([f EXCEPT ![k] = @ + (amount - SumFunction(f))]) = amount
  <1> DEFINE r == amount - SumFunction(f)
             g == [f EXCEPT ![k] = @ + r]
  <1>1. SumFunction(f) \in Int
    BY SumType DEF SumFunction
  <1>2. r \in Int
    BY <1>1
  <1>3. DOMAIN g = DOMAIN f /\ \A x \in DOMAIN f : g[x] = IF x = k THEN f[x] + r ELSE f[x]
    OBVIOUS
  <1>4. SumFunction(g) = SumFunction(f) + r
    <2> HIDE DEF g, r
    <2> QED
      BY <1>2, <1>3, SumWithMore DEF SumFunction
  <1>5. SumFunction(f) + r = amount
    BY <1>1
  <1> QED
    BY <1>4, <1>5

\* A product distributes over a sum.
LEMMA Distributes ==
    ASSUME NEW a \in Int, NEW x \in Int, NEW y \in Int
    PROVE  a * (x + y) = a * x + a * y /\ a * x \in Int /\ a * y \in Int
  OBVIOUS

\* A linear bound on every term.
TermsBound(f, g, a, b, c, S) == \A x \in S : a * f[x] <= b * g[x] + c

\* A linear bound on every term is one on the sums.
LEMMA SumBound ==
    ASSUME NEW S, IsFiniteSet(S), NEW f, \A x \in S : f[x] \in Int,
           NEW g, \A x \in S : g[x] \in Int,
           NEW a \in Int, NEW b \in Int, NEW c \in Int, TermsBound(f, g, a, b, c, S)
    PROVE  a * SumFunctionOnSet(f, S) <= b * SumFunctionOnSet(g, S) + c * Cardinality(S)
  <1>1. PICK t \in [SUBSET S -> Int] : SumsOf(t, f, S) /\ SumFunctionOnSet(f, S) = t[S]
    BY SumTable
  <1>2. PICK u \in [SUBSET S -> Int] : SumsOf(u, g, S) /\ SumFunctionOnSet(g, S) = u[S]
    BY SumTable
  <1> DEFINE bounded == {n \in Nat : \A s \in SUBSET S : Cardinality(s) = n =>
                             a * t[s] <= b * u[s] + c * n}
  <1>3. \A s \in SUBSET S : IsFiniteSet(s) /\ Cardinality(s) \in Nat
    BY FS_Subset, FS_CardinalityType
  <1>4. ASSUME NEW n \in Nat, \A m \in Nat : m < n => m \in bounded
        PROVE  n \in bounded
    <2> SUFFICES ASSUME NEW s \in SUBSET S, Cardinality(s) = n
                 PROVE  a * t[s] <= b * u[s] + c * n
      OBVIOUS
    <2>1. CASE s = {}
      <3>1. n = 0
        BY <2>1, FS_EmptySet
      <3>2. t[s] = 0 /\ u[s] = 0
        BY <1>1, <1>2, <2>1 DEF SumsOf
      <3> QED
        BY <3>1, <3>2
    <2>2. CASE s # {}
      <3> DEFINE x == Picked(S)[s]
                 rest == s \ {x}
      <3>1. x \in s /\ x \in S /\ rest \in SUBSET S
        BY <2>2, PickedFrom
      <3>2. Cardinality(rest) = n - 1
        BY <1>3, <3>1, FS_RemoveElement
      <3>3. n - 1 \in Nat /\ n - 1 < n
        BY <1>3, <3>1, <3>2
      <3>4. n - 1 \in bounded
        <4> HIDE DEF bounded
        <4> QED
          BY <1>4, <3>3
      <3>5. a * t[rest] <= b * u[rest] + c * (n - 1)
        BY <3>1, <3>2, <3>4
      <3>6. t[s] = f[x] + t[rest] /\ u[s] = g[x] + u[rest]
        BY <1>1, <1>2, <2>2 DEF SumsOf
      <3>7. f[x] \in Int /\ t[rest] \in Int /\ g[x] \in Int /\ u[rest] \in Int
        BY <3>1
      <3>8. a * f[x] <= b * g[x] + c
        BY <3>1 DEF TermsBound
      <3> HIDE DEF x, rest
      <3>9. a * t[s] = a * f[x] + a * t[rest] /\ a * f[x] \in Int /\ a * t[rest] \in Int
        BY <3>6, <3>7, Distributes
      <3>10. b * u[s] = b * g[x] + b * u[rest] /\ b * g[x] \in Int /\ b * u[rest] \in Int
        BY <3>6, <3>7, Distributes
      <3>11. c * n = c * (n - 1) + c * 1 /\ c * (n - 1) \in Int /\ c * 1 = c
        <4>1. n = (n - 1) + 1 /\ n - 1 \in Int
          OBVIOUS
        <4> QED
          BY <4>1, Distributes
      <3> QED
        BY <3>5, <3>8, <3>9, <3>10, <3>11
    <2> QED
      BY <2>1, <2>2
  <1>5. \A n \in Nat : n \in bounded
    <2> HIDE DEF bounded
    <2> QED
      BY <1>4, FirstGap
  <1>6. a * t[S] <= b * u[S] + c * Cardinality(S)
    BY <1>3, <1>5
  <1> QED
    BY <1>1, <1>2, <1>6

-----------------------------------------------------------------------------
(***************************************************************************)
(* Splitting money                                                         *)
(***************************************************************************)

\* What a division leaves over is less than the divisor.
LEMMA DivisionLeaves ==
    ASSUME NEW a \in Int, NEW d \in Nat \ {0}
    PROVE  /\ a \div d \in Int
           /\ d * (a \div d) <= a /\ a < d * (a \div d) + d
           /\ a >= 0 => a \div d >= 0
  OBVIOUS

LEMMA ScaleUp ==
    ASSUME NEW x \in Int, NEW y \in Int, NEW m \in Nat, x <= y
    PROVE  m * x <= m * y
  OBVIOUS

LEMMA ScaleDown ==
    ASSUME NEW x \in Int, NEW y \in Int, NEW m \in Nat \ {0}, m * x <= m * y
    PROVE  x <= y
  OBVIOUS

\* Splitting a natural amount by natural percentages gives out all of it.
LEMMA SplitIsWhole ==
    ASSUME NEW amount \in Nat, NEW whole \in Nat \ {0}, NEW percents,
           IsFiniteSet(DOMAIN percents), \A k \in DOMAIN percents : percents[k] \in Nat,
           NEW shares \in SplitByPercentage(amount, percents, whole)
    PROVE  /\ DOMAIN shares = DOMAIN percents
           /\ SumFunction(shares) = amount
           /\ \E k \in Largest(Floored(amount, percents, whole)) :
                 shares = [Floored(amount, percents, whole) EXCEPT
                              ![k] = @ + (amount - SumFunction(Floored(amount, percents, whole)))]
  <1> DEFINE f == Floored(amount, percents, whole)
  <1>1. DOMAIN f = DOMAIN percents /\ \A x \in DOMAIN f : f[x] = (amount * percents[x]) \div whole
    BY DEF Floored
  <1>2. \A x \in DOMAIN f : f[x] \in Int
    <2> SUFFICES ASSUME NEW x \in DOMAIN f PROVE (amount * percents[x]) \div whole \in Int
      BY <1>1
    <2>1. percents[x] \in Nat
      BY <1>1
    <2>2. amount * percents[x] \in Int
      BY <2>1
    <2> HIDE DEF f
    <2> QED
      BY <2>2, DivisionLeaves
  <1>3. PICK k \in Largest(f) : shares = [f EXCEPT ![k] = @ + (amount - SumFunction(f))]
    BY DEF SplitByPercentage
  <1>4. k \in DOMAIN f
    BY DEF Largest
  <1>5. SumFunction(shares) = amount
    <2>1. IsFiniteSet(DOMAIN f) /\ amount \in Int
      BY <1>1
    <2> HIDE DEF f
    <2>2. SumFunction([f EXCEPT ![k] = @ + (amount - SumFunction(f))]) = amount
      BY <1>2, <1>4, <2>1, SumWithRemainder
    <2> QED
      BY <1>3, <2>2
  <1> QED
    BY <1>1, <1>3, <1>5

\* A rounded percentage is half a hundredth off at most.
LEMMA PercentageNear ==
    ASSUME NEW v \in Nat, NEW all \in Nat \ {0}
    PROVE  /\ Percentage(v, all) \in Nat
           /\ 2 * all * Percentage(v, all) <= 20000 * v + all
           /\ 20000 * v <= 2 * all * Percentage(v, all) + all
  <1> DEFINE a == 2 * v * 10000 + all
             d == 2 * all
             p == a \div d
  <1>1. a \in Int /\ a >= 0 /\ d \in Nat \ {0} /\ a = 20000 * v + all
    OBVIOUS
  <1>2. p \in Int /\ d * p <= a /\ a < d * p + d /\ p >= 0
    <2> HIDE DEF a, d
    <2> QED
      BY <1>1, DivisionLeaves
  <1>3. Percentage(v, all) = p
    BY DEF Percentage
  <1>4. d * p \in Int
    <2> HIDE DEF p
    <2> QED
      BY <1>1, <1>2
  <1>5. 20000 * v + all < d * p + 2 * all
    BY <1>1, <1>2
  <1>6. 20000 * v <= d * p + all
    <2> DEFINE dp == d * p
    <2>1. dp \in Int /\ 20000 * v + all < dp + 2 * all
      BY <1>4, <1>5
    <2> HIDE DEF dp
    <2>2. 20000 * v <= dp + all
      BY <2>1
    <2> QED
      BY <2>2 DEF dp
  <1>7. 2 * all * p = d * p
    OBVIOUS
  <1> QED
    BY <1>1, <1>2, <1>3, <1>6, <1>7

\* A floored share is exact up to its percentage's rounding and a cent.
LEMMA ShareNear ==
    ASSUME NEW pool \in Nat, NEW v \in Nat, NEW all \in Nat \ {0}
    PROVE  LET s == (pool * Percentage(v, all)) \div 10000
           IN /\ s \in Nat
              /\ 10000 * s <= pool * Percentage(v, all)
              /\ (20000 * all) * s <= (20000 * pool) * v + pool * all
              /\ (20000 * pool) * v <= (20000 * all) * s + (pool + 20000) * all
  <1> DEFINE p == Percentage(v, all)
             s == (pool * p) \div 10000
  <1>1. p \in Nat /\ 2 * all * p <= 20000 * v + all /\ 20000 * v <= 2 * all * p + all
    BY PercentageNear
  <1> HIDE DEF p
  <1>2. pool * p \in Nat
    BY <1>1
  <1>3. s \in Nat /\ 10000 * s <= pool * p /\ pool * p <= 10000 * s + 10000
    <2> DEFINE a == pool * p
    <2>1. a \in Nat
      BY <1>2
    <2> HIDE DEF a
    <2>2. a \div 10000 \in Int /\ 10000 * (a \div 10000) <= a
          /\ a < 10000 * (a \div 10000) + 10000 /\ a \div 10000 >= 0
      BY <2>1, DivisionLeaves
    <2>3. a \div 10000 \in Nat /\ a <= 10000 * (a \div 10000) + 10000
      BY <2>1, <2>2
    <2> QED
      BY <2>2, <2>3 DEF a
  <1> HIDE DEF s
  <1> DEFINE va == pool * v
             la == pool * all
             sal == all * s
             pap == pool * (all * p)
  <1>4. va \in Nat /\ la \in Nat /\ sal \in Nat /\ pap \in Nat
    BY <1>1, <1>3
  \* Both bounds of the percentage, times the pool.
  <1>5. 2 * pap <= 20000 * va + la /\ 20000 * va <= 2 * pap + la
    <2>1. 2 * all * p \in Int /\ 20000 * v + all \in Int /\ 2 * all * p + all \in Int /\ 20000 * v \in Int
      BY <1>1
    <2>2. pool * (2 * all * p) <= pool * (20000 * v + all)
      BY <1>1, <2>1, ScaleUp
    <2>3. pool * (20000 * v) <= pool * (2 * all * p + all)
      BY <1>1, <2>1, ScaleUp
    <2>4. pool * (2 * all * p) = 2 * pap
      BY <1>1
    <2>5. pool * (20000 * v + all) = 20000 * va + la
      BY <1>1
    <2>6. pool * (2 * all * p + all) = 2 * pap + la
      BY <1>1
    <2>7. pool * (20000 * v) = 20000 * va
      OBVIOUS
    <2> QED
      BY <2>2, <2>3, <2>4, <2>5, <2>6, <2>7
  \* Both bounds of the division, times the views.
  <1>6. 10000 * sal <= pap /\ pap <= 10000 * sal + 10000 * all
    <2>1. 10000 * s \in Int /\ pool * p \in Int /\ 10000 * s + 10000 \in Int
      BY <1>2, <1>3
    <2>2. all * (10000 * s) <= all * (pool * p) /\ all * (pool * p) <= all * (10000 * s + 10000)
      BY <1>3, <2>1, ScaleUp
    <2>3. all * (pool * p) = pap
      BY <1>1
    <2>4. all * (10000 * s) = 10000 * sal /\ all * (10000 * s + 10000) = 10000 * sal + 10000 * all
      BY <1>3
    <2> QED
      BY <2>2, <2>3, <2>4
  <1>7. (20000 * all) * s = 20000 * sal /\ (20000 * pool) * v = 20000 * va
        /\ (pool + 20000) * all = la + 20000 * all /\ pool * all = la
    BY <1>3
  <1>8. 20000 * sal <= 20000 * va + la /\ 20000 * va <= 20000 * sal + (la + 20000 * all)
    <2> HIDE DEF va, la, sal, pap
    <2> QED
      BY <1>4, <1>5, <1>6
  <1>9. (20000 * all) * s <= (20000 * pool) * v + pool * all
        /\ (20000 * pool) * v <= (20000 * all) * s + (pool + 20000) * all
    <2> HIDE DEF va, la, sal, pap
    <2> QED
      BY <1>7, <1>8
  <1> QED
    BY <1>3, <1>9 DEF s, p

\* What an allocation starts from: the percentages, the floored shares and who gets
\* the remainder.
LEMMA AllocationShape ==
    ASSUME NEW pool \in Nat, NEW views, IsFiniteSet(DOMAIN views),
           \A c \in DOMAIN views : views[c] \in Nat, SumFunction(views) \in Nat \ {0},
           NEW shares \in AllocateCreatorPool(pool, views)
    PROVE  \E f \in [DOMAIN views -> Nat], k \in DOMAIN views :
              /\ \A c \in DOMAIN views :
                    f[c] = (pool * Percentage(views[c], SumFunction(views))) \div 10000
              /\ \A c \in DOMAIN views : f[c] <= f[k]
              /\ DOMAIN shares = DOMAIN views
              /\ \A c \in DOMAIN views :
                    shares[c] = IF c = k THEN f[c] + (pool - SumFunction(f)) ELSE f[c]
              /\ SumFunction(shares) = pool
  <1> DEFINE all == SumFunction(views)
             p == Percentages(views)
             f == Floored(pool, p, 10000)
  <1>1. DOMAIN p = DOMAIN views /\ \A c \in DOMAIN views : p[c] = Percentage(views[c], all)
    BY DEF Percentages
  <1>2. \A c \in DOMAIN views : p[c] \in Nat
    BY <1>1, PercentageNear
  <1>3. shares \in SplitByPercentage(pool, p, 10000)
    BY DEF AllocateCreatorPool
  <1>4. /\ DOMAIN shares = DOMAIN p /\ SumFunction(shares) = pool
        /\ \E k \in Largest(f) : shares = [f EXCEPT ![k] = @ + (pool - SumFunction(f))]
    <2> HIDE DEF p
    <2>1. 10000 \in Nat \ {0} /\ IsFiniteSet(DOMAIN p) /\ \A c \in DOMAIN p : p[c] \in Nat
      BY <1>1, <1>2
    <2> QED
      BY <1>3, <2>1, SplitIsWhole
  <1>5. DOMAIN f = DOMAIN views /\ \A c \in DOMAIN views : f[c] = (pool * Percentage(views[c], all)) \div 10000
    BY <1>1 DEF Floored
  <1>6. f \in [DOMAIN views -> Nat]
    <2>1. \A c \in DOMAIN views : (pool * Percentage(views[c], all)) \div 10000 \in Nat
      <3> HIDE DEF f, p
      <3> QED
        BY ShareNear
    <2>2. f = [c \in DOMAIN views |-> f[c]]
      BY <1>1 DEF Floored
    <2> HIDE DEF f, p
    <2> QED
      BY <1>5, <2>1, <2>2
  <1>7. PICK k \in Largest(f) : shares = [f EXCEPT ![k] = @ + (pool - SumFunction(f))]
    BY <1>4
  <1> HIDE DEF f, p
  <1>8. k \in DOMAIN views /\ \A c \in DOMAIN views : f[c] <= f[k]
    BY <1>5, <1>7 DEF Largest
  <1>9. \A c \in DOMAIN views :
            shares[c] = IF c = k THEN f[c] + (pool - SumFunction(f)) ELSE f[c]
    BY <1>5, <1>7
  <1> QED
    BY <1>1, <1>4, <1>5, <1>6, <1>8, <1>9

\* A sum of naturals is one.
LEMMA SumOfNaturals ==
    ASSUME NEW f, IsFiniteSet(DOMAIN f), \A x \in DOMAIN f : f[x] \in Nat
    PROVE  SumFunction(f) \in Nat
  <1>1. SumFunction(f) \in Int
    BY SumType DEF SumFunction
  <1>2. (\A x \in DOMAIN f : f[x] \in Int) /\ TermsBound(f, f, 0, 1, 0, DOMAIN f)
    BY DEF TermsBound
  <1>3. 0 * SumFunctionOnSet(f, DOMAIN f)
          <= 1 * SumFunctionOnSet(f, DOMAIN f) + 0 * Cardinality(DOMAIN f)
    BY <1>2, SumBound
  <1>4. Cardinality(DOMAIN f) \in Nat
    BY FS_CardinalityType
  <1> QED
    BY <1>1, <1>3, <1>4 DEF SumFunction

\* docs/REVENUE.md: the pool is handed out to the last cent, whoever was read how often.
THEOREM PoolHandedOut ==
    ASSUME NEW pool \in Nat, NEW views, IsFiniteSet(DOMAIN views),
           \A c \in DOMAIN views : views[c] \in Nat,
           NEW shares \in AllocateCreatorPool(pool, views)
    PROVE  HandsOutAll(pool, views, shares)
  <1>1. SumFunction(views) \in Nat
    BY SumOfNaturals
  <1>3. CASE SumFunction(views) = 0
    <2>1. shares = [c \in DOMAIN views |-> 0]
      BY <1>3 DEF AllocateCreatorPool
    <2>2. SumFunction(shares) = 0
      BY <2>1, SumOfZeros DEF SumFunction
    <2> QED
      BY <1>3, <2>2 DEF HandsOutAll
  <1>4. CASE SumFunction(views) # 0
    <2>1. SumFunction(views) \in Nat \ {0}
      BY <1>1, <1>4
    <2>2. SumFunction(shares) = pool
      BY <2>1, AllocationShape
    <2> QED
      BY <1>4, <2>2 DEF HandsOutAll
  <1> QED
    BY <1>3, <1>4

\* The sum without one of the terms.
LEMMA SumWithout ==
    ASSUME NEW S, IsFiniteSet(S), NEW k \in S, NEW f, \A x \in S : f[x] \in Int
    PROVE  SumFunctionOnSet([x \in S |-> IF x = k THEN 0 ELSE f[x]], S)
             = SumFunctionOnSet(f, S) - f[k]
  <1> DEFINE g == [x \in S |-> IF x = k THEN 0 ELSE f[x]]
             r == 0 - f[k]
  <1>1. r \in Int /\ \A x \in S : g[x] = IF x = k THEN f[x] + r ELSE f[x]
    OBVIOUS
  <1>2. SumFunctionOnSet(g, S) = SumFunctionOnSet(f, S) + r
    <2> HIDE DEF g, r
    <2> QED
      BY <1>1, SumWithMore
  <1>3. SumFunctionOnSet(f, S) \in Int /\ f[k] \in Int
    BY SumType
  <1> QED
    BY <1>2, <1>3

\* While n creators are so few that n * (n - 1) is 20000 at most, that is up to 141, the
\* largest share can give back what the rounded percentages handed out too much.
LEMMA LargestCanPay ==
    ASSUME NEW pool \in Nat, NEW views, IsFiniteSet(DOMAIN views),
           \A c \in DOMAIN views : views[c] \in Nat,
           NEW all, all = SumFunction(views), all \in Nat \ {0},
           Cardinality(DOMAIN views) * (Cardinality(DOMAIN views) - 1) <= 20000,
           NEW f \in [DOMAIN views -> Nat], NEW k \in DOMAIN views,
           \A c \in DOMAIN views : f[c] = (pool * Percentage(views[c], all)) \div 10000,
           \A c \in DOMAIN views : f[c] <= f[k]
    PROVE  f[k] + (pool - SumFunction(f)) >= 0
  <1> DEFINE S == DOMAIN views
             n == Cardinality(S)
             sum == SumFunctionOnSet(f, S)
  <1>1. n \in Nat \ {0} /\ sum \in Nat /\ SumFunction(f) = sum /\ SumFunctionOnSet(views, S) = all
    <2>1. n \in Nat /\ n # 0
      BY FS_CardinalityType, FS_EmptySet
    <2>2. SumFunction(f) \in Nat
      BY SumOfNaturals
    <2> QED
      BY <2>1, <2>2 DEF SumFunction
  <1>2. \A c \in S : views[c] \in Int /\ f[c] \in Int
    OBVIOUS
  <1>3. 20000 * all \in Int /\ 20000 * pool \in Int /\ pool * all \in Int
    OBVIOUS
  <1>4. (20000 * all) * sum <= (20000 * pool) * all + (pool * all) * n
    <2>1. ASSUME NEW c \in S PROVE (20000 * all) * f[c] <= (20000 * pool) * views[c] + pool * all
      <3> DEFINE v == views[c]
                 s == (pool * Percentage(v, all)) \div 10000
      <3>1. v \in Nat /\ f[c] = s
        OBVIOUS
      <3>2. (20000 * all) * s <= (20000 * pool) * v + pool * all
        <4> HIDE DEF v
        <4> QED
          BY <3>1, ShareNear
      <3> HIDE DEF s
      <3> QED
        BY <3>1, <3>2
    <2>2. IsFiniteSet(S)
      OBVIOUS
    <2>3. (20000 * all) * SumFunctionOnSet(f, S)
            <= (20000 * pool) * SumFunctionOnSet(views, S) + (pool * all) * Cardinality(S)
      <3> DEFINE a == 20000 * all
                 b == 20000 * pool
                 m == pool * all
      <3>1. TermsBound(f, views, a, b, m, S)
        BY <2>1 DEF TermsBound
      <3>2. a \in Int /\ b \in Int /\ m \in Int
        OBVIOUS
      <3> HIDE DEF S, a, b, m
      <3>3. a * SumFunctionOnSet(f, S) <= b * SumFunctionOnSet(views, S) + m * Cardinality(S)
        BY <1>2, <2>2, <3>1, <3>2, SumBound
      <3> QED
        BY <3>3 DEF a, b, m
    <2> QED
      BY <1>1, <2>3
  <1>5. 20000 * sum <= pool * (20000 + n)
    <2>1. (20000 * all) * sum = all * (20000 * sum)
      BY <1>1
    <2>2. (20000 * pool) * all + (pool * all) * n = all * (pool * (20000 + n))
      BY <1>1
    <2>3. 20000 * sum \in Int /\ pool * (20000 + n) \in Int
      BY <1>1
    <2> HIDE DEF sum, n
    <2> QED
      BY <1>4, <2>1, <2>2, <2>3, ScaleDown
  <1>6. sum <= n * f[k]
    <2>1. \A c \in S : 1 * f[c] <= 0 * views[c] + f[k]
      BY <1>2
    <2>2. 1 * sum <= 0 * SumFunctionOnSet(views, S) + f[k] * n
      <3> DEFINE a == 1
                 b == 0
                 m == f[k]
      <3>1. IsFiniteSet(S) /\ a \in Int /\ b \in Int /\ m \in Int
        OBVIOUS
      <3>2. TermsBound(f, views, a, b, m, S)
        BY <2>1 DEF TermsBound
      <3> HIDE DEF S, a, b, m
      <3>3. a * SumFunctionOnSet(f, S) <= b * SumFunctionOnSet(views, S) + m * Cardinality(S)
        BY <1>2, <3>1, <3>2, SumBound
      <3> QED
        BY <3>3 DEF a, b, m
    <2>3. f[k] * n = n * f[k] /\ f[k] * n \in Int /\ 0 * SumFunctionOnSet(views, S) = 0 /\ 1 * sum = sum
      BY <1>1
    <2> HIDE DEF sum, n, S
    <2> QED
      BY <2>2, <2>3
  <1> DEFINE fk == f[k]
             over == sum - fk
  <1>7. fk \in Nat /\ over \in Int /\ n * (n - 1) <= 20000 /\ sum <= n * fk
    BY <1>1, <1>6
  <1> HIDE DEF S, n, sum, fk
  <1>8. n * over <= (n - 1) * sum
    <2>1. n * over = n * sum - n * fk /\ (n - 1) * sum = n * sum - sum
      BY <1>1, <1>7
    <2>2. n * sum \in Int /\ n * fk \in Int
      BY <1>1, <1>7
    <2> QED
      BY <1>1, <1>7, <2>1, <2>2
  <1>9. (n - 1) * (20000 * sum) <= (n - 1) * (pool * (20000 + n))
    <2>1. n - 1 \in Nat /\ 20000 * sum \in Int /\ pool * (20000 + n) \in Int
      BY <1>1
    <2> QED
      BY <1>5, <2>1, ScaleUp
  <1>10. (n - 1) * (pool * (20000 + n)) <= pool * (20000 * n)
    <2>1. (n - 1) * (pool * (20000 + n)) = pool * ((n - 1) * (20000 + n))
      BY <1>1
    <2>2. (n - 1) * (20000 + n) = (20000 * n - 20000) + n * (n - 1)
      BY <1>1
    <2>3. (n - 1) * (20000 + n) <= 20000 * n /\ (n - 1) * (20000 + n) \in Int /\ 20000 * n \in Int
      BY <1>1, <1>7, <2>2
    <2> QED
      BY <2>1, <2>3, ScaleUp
  <1>11. (20000 * n) * over <= (20000 * n) * pool
    <2>1. 20000 * (n * over) <= 20000 * ((n - 1) * sum)
      BY <1>1, <1>7, <1>8
    <2>2. 20000 * (n * over) = (20000 * n) * over /\ 20000 * ((n - 1) * sum) = (n - 1) * (20000 * sum)
          /\ pool * (20000 * n) = (20000 * n) * pool
      BY <1>1, <1>7
    <2>3. (20000 * n) * over \in Int /\ (n - 1) * (20000 * sum) \in Int
          /\ (n - 1) * (pool * (20000 + n)) \in Int /\ (20000 * n) * pool \in Int
      BY <1>1, <1>7
    <2> QED
      BY <1>9, <1>10, <2>1, <2>2, <2>3
  <1>12. over <= pool
    <2>1. 20000 * n \in Nat \ {0}
      BY <1>1
    <2> QED
      BY <1>7, <1>11, <2>1, ScaleDown
  <1> QED
    BY <1>1, <1>7, <1>12 DEF fk

\* The share of the creator who gets the remainder is in proportion, too: what the
\* others are off adds up in it.
LEMMA LargestNear ==
    ASSUME NEW pool \in Nat, NEW views, IsFiniteSet(DOMAIN views),
           \A c \in DOMAIN views : views[c] \in Nat,
           NEW all, all = SumFunction(views), all \in Nat \ {0},
           NEW f \in [DOMAIN views -> Nat], NEW k \in DOMAIN views,
           \A c \in DOMAIN views : f[c] = (pool * Percentage(views[c], all)) \div 10000,
           NEW share, share = f[k] + (pool - SumFunction(f))
    PROVE  /\ share \in Int
           /\ (20000 * all) * share
                <= (20000 * pool) * views[k] + ((pool + 20000) * all) * Cardinality(DOMAIN views)
           /\ (20000 * pool) * views[k]
                <= (20000 * all) * share + ((pool + 20000) * all) * Cardinality(DOMAIN views)
  <1> DEFINE S == DOMAIN views
             n == Cardinality(S)
             fo == [c \in S |-> IF c = k THEN 0 ELSE f[c]]
             vo == [c \in S |-> IF c = k THEN 0 ELSE views[c]]
             a == 20000 * all
             b == 20000 * pool
             m == (pool + 20000) * all
             sf == SumFunctionOnSet(fo, S)
             sv == SumFunctionOnSet(vo, S)
  <1>1. IsFiniteSet(S) /\ k \in S /\ n \in Nat /\ a \in Nat /\ b \in Nat /\ m \in Nat
    <2>1. n \in Nat
      BY FS_CardinalityType
    <2> QED
      BY <2>1
  <1>2. /\ \A c \in S : f[c] \in Int
        /\ \A c \in S : views[c] \in Int
        /\ \A c \in S : fo[c] \in Int
        /\ \A c \in S : vo[c] \in Int
    OBVIOUS
  <1>3. sf = SumFunction(f) - f[k] /\ sv = all - views[k]
    <2>1. SumFunctionOnSet(fo, S) = SumFunctionOnSet(f, S) - f[k]
      <3> HIDE DEF S
      <3> QED
        BY <1>1, <1>2, SumWithout
    <2>2. SumFunctionOnSet(vo, S) = SumFunctionOnSet(views, S) - views[k]
      <3> HIDE DEF S
      <3> QED
        BY <1>1, <1>2, SumWithout
    <2> QED
      BY <2>1, <2>2 DEF SumFunction
  <1>4. sf \in Int /\ sv \in Int
    <2> HIDE DEF S, fo, vo
    <2> QED
      BY <1>1, <1>2, SumType
  <1>5. TermsBound(fo, vo, a, b, m, S) /\ TermsBound(vo, fo, b, a, m, S)
    <2> SUFFICES ASSUME NEW c \in S
                 PROVE  a * fo[c] <= b * vo[c] + m /\ b * vo[c] <= a * fo[c] + m
      BY DEF TermsBound
    <2>1. CASE c = k
      <3>1. fo[c] = 0 /\ vo[c] = 0
        BY <2>1
      <3> HIDE DEF a, b, m, fo, vo
      <3> QED
        BY <1>1, <3>1
    <2>2. CASE c # k
      <3> DEFINE v == views[c]
                 s == (pool * Percentage(v, all)) \div 10000
      <3>1. v \in Nat /\ fo[c] = s /\ vo[c] = v /\ s \in Nat
        BY <2>2
      <3>2. /\ s \in Nat
            /\ (20000 * all) * s <= (20000 * pool) * v + pool * all
            /\ (20000 * pool) * v <= (20000 * all) * s + (pool + 20000) * all
        <4> HIDE DEF v, fo, vo
        <4>1. v \in Nat
          BY <3>1
        <4>2. s \in Nat
          BY <3>1
        <4>3. (20000 * all) * s <= (20000 * pool) * v + pool * all
          BY <4>1, ShareNear
        <4>4. (20000 * pool) * v <= (20000 * all) * s + (pool + 20000) * all
          BY <4>1, ShareNear
        <4> QED
          BY <4>2, <4>3, <4>4
      <3>3. pool * all <= m /\ pool * all \in Int
        OBVIOUS
      <3>4. a * s <= b * v + m /\ b * v <= a * s + m
        <4> HIDE DEF s, v
        <4>1. (20000 * all) * s \in Int /\ (20000 * pool) * v \in Int
          BY <3>1, <3>2
        <4> QED
          BY <3>2, <3>3, <4>1
      <3> HIDE DEF a, b, m, fo, vo, s, v
      <3> QED
        BY <3>1, <3>4
    <2> QED
      BY <2>1, <2>2
  <1>6. a * sf <= b * sv + m * n /\ b * sv <= a * sf + m * n
    <2> HIDE DEF S, fo, vo, a, b, m
    <2> QED
      BY <1>1, <1>2, <1>5, SumBound
  <1>7. share = pool - sf /\ share \in Int
    <2>1. SumFunction(f) \in Nat
      BY SumOfNaturals
    <2> HIDE DEF sf
    <2> QED
      BY <1>3, <2>1
  <1>8. b * all = a * pool
    OBVIOUS
  <1> HIDE DEF S, n, fo, vo, a, b, m, sf, sv
  <1> DEFINE v == views[k]
  <1>9. v \in Nat /\ sv = all - v
    BY <1>3
  <1> HIDE DEF v
  <1>10. a * share = a * pool - a * sf /\ b * sv = b * all - b * v
    <2>1. a * (pool - sf) = a * pool - a * sf
      BY <1>1, <1>4
    <2>2. b * (all - v) = b * all - b * v
      BY <1>1, <1>9
    <2> QED
      BY <1>7, <1>9, <2>1, <2>2
  <1>11. a * pool \in Int /\ a * sf \in Int /\ b * v \in Int /\ m * n \in Int
    BY <1>1, <1>4, <1>9
  <1>12. a * share <= b * v + m * n /\ b * v <= a * share + m * n
    BY <1>6, <1>8, <1>10, <1>11
  <1> QED
    BY <1>7, <1>12 DEF a, b, m, n, S, v

\* How many creators a period may have for the allocation to be fair.
FewCreators(views) == Cardinality(DOMAIN views) * (Cardinality(DOMAIN views) - 1) <= 20000

\* docs/REVENUE.md, "proportional to each creator's qualified views": for 141 creators or
\* fewer, whatever the pool and the views, an allocation is fair.
THEOREM FairlyAllocated ==
    ASSUME NEW pool \in Nat, NEW views, IsFiniteSet(DOMAIN views),
           \A c \in DOMAIN views : views[c] \in Nat, FewCreators(views),
           NEW shares \in AllocateCreatorPool(pool, views)
    PROVE  FairAllocation(pool, views, shares)
  <1> DEFINE all == SumFunction(views)
             n == Cardinality(DOMAIN views)
  <1>1. HandsOutAll(pool, views, shares)
    BY PoolHandedOut
  <1>2. all \in Nat /\ n \in Nat
    BY SumOfNaturals, FS_CardinalityType
  <1>3. CASE all = 0
    <2>1. shares = [c \in DOMAIN views |-> 0]
      BY <1>3 DEF AllocateCreatorPool
    <2>2. NoneNegative(shares)
      BY <2>1 DEF NoneNegative
    <2>3. InProportion(pool, views, shares)
      <3> SUFFICES ASSUME NEW c \in DOMAIN views
                   PROVE  LET off == shares[c] * all - pool * views[c]
                          IN /\ 20000 * off <= (n * (20000 + pool)) * all
                             /\ 20000 * off >= -((n * (20000 + pool)) * all)
        BY DEF InProportion
      <3>1. shares[c] = 0 /\ views[c] \in Nat
        BY <2>1
      <3>2. views[c] = 0
        <4>1. SumFunctionOnSet([x \in DOMAIN views |-> IF x = c THEN 0 ELSE views[x]], DOMAIN views)
                = SumFunctionOnSet(views, DOMAIN views) - views[c]
          BY SumWithout
        <4> DEFINE others == [x \in DOMAIN views |-> IF x = c THEN 0 ELSE views[x]]
        <4>2. SumFunction(others) \in Nat
          BY SumOfNaturals
        <4>3. SumFunction(others) = all - views[c]
          BY <4>1 DEF SumFunction
        <4> HIDE DEF others
        <4> QED
          BY <1>3, <3>1, <4>2, <4>3
      <3> QED
        BY <1>2, <1>3, <3>1, <3>2
    <2>4. OnlyForViews(pool, views, shares)
      BY <1>3 DEF OnlyForViews
    <2> QED
      BY <1>1, <2>2, <2>3, <2>4 DEF FairAllocation
  <1>4. CASE all # 0
    <2>1. PICK f \in [DOMAIN views -> Nat], k \in DOMAIN views :
              /\ \A c \in DOMAIN views : f[c] = (pool * Percentage(views[c], all)) \div 10000
              /\ \A c \in DOMAIN views : f[c] <= f[k]
              /\ DOMAIN shares = DOMAIN views
              /\ \A c \in DOMAIN views :
                    shares[c] = IF c = k THEN f[c] + (pool - SumFunction(f)) ELSE f[c]
      BY <1>2, <1>4, AllocationShape
    <2>2. all \in Nat \ {0}
      BY <1>2, <1>4
    <2>3. f[k] + (pool - SumFunction(f)) >= 0
      BY <2>1, <2>2, LargestCanPay DEF FewCreators
    <2>4. NoneNegative(shares)
      BY <2>1, <2>3 DEF NoneNegative
    <2>5. InProportion(pool, views, shares)
      <3> SUFFICES ASSUME NEW c \in DOMAIN views
                   PROVE  LET off == shares[c] * all - pool * views[c]
                          IN /\ 20000 * off <= (n * (20000 + pool)) * all
                             /\ 20000 * off >= -((n * (20000 + pool)) * all)
        BY DEF InProportion
      <3> DEFINE s == shares[c]
                 v == views[c]
                 m == ((pool + 20000) * all) * n
      <3>1. /\ s \in Int /\ v \in Nat
            /\ (20000 * all) * s <= (20000 * pool) * v + m
            /\ (20000 * pool) * v <= (20000 * all) * s + m
        <4>1. CASE c = k
          <5>1. s = f[k] + (pool - SumFunction(f)) /\ v = views[k] /\ v \in Nat
            BY <2>1, <4>1
          <5>2. /\ s \in Int
                /\ (20000 * all) * s <= (20000 * pool) * views[k] + m
                /\ (20000 * pool) * views[k] <= (20000 * all) * s + m
            <6> HIDE DEF s, v
            <6> QED
              BY <2>1, <2>2, <5>1, LargestNear
          <5> QED
            BY <5>1, <5>2
        <4>2. CASE c # k
          <5> DEFINE q == (pool * Percentage(v, all)) \div 10000
          <5>1. s = q /\ v \in Nat /\ s \in Nat
            BY <2>1, <4>2
          <5> HIDE DEF v
          <5>2. (20000 * all) * q <= (20000 * pool) * v + pool * all
            BY <2>2, <5>1, ShareNear
          <5>3. (20000 * pool) * v <= (20000 * all) * q + (pool + 20000) * all
            BY <2>2, <5>1, ShareNear
          <5>4. n # 0
            BY FS_EmptySet
          <5>5. pool * all <= (pool + 20000) * all /\ (pool + 20000) * all \in Nat
            BY <1>2
          <5>6. (pool + 20000) * all <= m /\ m \in Nat
            <6> DEFINE l == (pool + 20000) * all
            <6>1. l \in Nat /\ n \in Nat /\ n # 0
              BY <1>2, <5>4, <5>5
            <6> HIDE DEF l, n
            <6>2. l <= l * n /\ l * n \in Nat
              BY <6>1
            <6> QED
              BY <6>2 DEF l, n
          <5>7. (20000 * all) * q \in Int /\ (20000 * pool) * v \in Int /\ pool * all \in Int
            <6> HIDE DEF s, q
            <6> QED
              BY <1>2, <5>1
          <5> HIDE DEF m, q, s
          <5> QED
            BY <5>1, <5>2, <5>3, <5>5, <5>6, <5>7
        <4> QED
          BY <4>1, <4>2
      <3> HIDE DEF s, v, m
      <3>2. (20000 * all) * s = 20000 * (s * all) /\ (20000 * pool) * v = 20000 * (pool * v)
        BY <1>2, <3>1
      <3>3. s * all \in Int /\ pool * v \in Int /\ m \in Int
        BY <1>2, <3>1 DEF m
      <3>4. 20000 * (s * all - pool * v) <= m /\ 20000 * (s * all - pool * v) >= -m
        <4> DEFINE x == s * all
                   y == pool * v
        <4>1. x \in Int /\ y \in Int /\ 20000 * x <= 20000 * y + m /\ 20000 * y <= 20000 * x + m
          BY <3>1, <3>2, <3>3
        <4> HIDE DEF x, y
        <4>2. 20000 * (x - y) <= m /\ 20000 * (x - y) >= -m
          BY <3>3, <4>1
        <4> QED
          BY <4>2 DEF x, y
      <3>5. m = (n * (20000 + pool)) * all
        BY <1>2 DEF m
      <3> QED
        BY <3>4, <3>5 DEF s, v
    <2>6. OnlyForViews(pool, views, shares)
      <3> SUFFICES ASSUME ~TooSmall(pool, views), NEW c \in DOMAIN views, views[c] = 0
                   PROVE  shares[c] = 0
        BY DEF OnlyForViews
      <3>1. PICK d \in DOMAIN views : ~(pool * Percentage(views[d], all) < 10000)
        BY DEF TooSmall
      <3>2. f[d] >= 1
        <4> DEFINE a == pool * Percentage(views[d], all)
        <4>1. a \in Nat
          <5>1. Percentage(views[d], all) \in Nat
            BY <2>2, PercentageNear
          <5> QED
            BY <5>1
        <4>2. f[d] = a \div 10000 /\ ~(a < 10000)
          BY <2>1, <3>1
        <4> HIDE DEF a
        <4> QED
          BY <4>1, <4>2
      <3>3. f[c] = 0
        <4> DEFINE p == Percentage(views[c], all)
        <4>1. p \in Nat /\ 2 * all * p <= all
          <5>1. p \in Nat /\ 2 * all * p <= 20000 * views[c] + all
            BY <2>2, PercentageNear
          <5> HIDE DEF p
          <5> QED
            BY <1>2, <5>1
        <4>2. f[c] = (pool * p) \div 10000
          BY <2>1
        <4> HIDE DEF p
        <4>3. p = 0
          <5> SUFFICES ASSUME p >= 1 PROVE FALSE
            BY <4>1
          <5>1. (2 * all) * 1 <= (2 * all) * p
            BY <2>2, <4>1, ScaleUp
          <5> QED
            BY <2>2, <4>1, <5>1
        <4>4. pool * p = 0
          BY <4>3
        <4> QED
          BY <4>2, <4>4
      <3>4. c # k
        <4>1. f[d] <= f[k] /\ f[d] \in Nat /\ f[k] \in Nat
          BY <2>1
        <4> QED
          BY <3>2, <3>3, <4>1
      <3> QED
        BY <2>1, <3>3, <3>4
    <2> QED
      BY <1>1, <2>4, <2>5, <2>6 DEF FairAllocation
  <1> QED
    BY <1>3, <1>4

\* A sum of equal terms.
LEMMA SumOfEqual ==
    ASSUME NEW f, IsFiniteSet(DOMAIN f), NEW m \in Int, \A x \in DOMAIN f : f[x] = m
    PROVE  SumFunction(f) = m * Cardinality(DOMAIN f)
  <1> DEFINE S == DOMAIN f
             one == 1
             zero == 0
             less == -1
             minus == -m
  <1>1. /\ SumFunctionOnSet(f, S) \in Int /\ Cardinality(S) \in Int
        /\ \A x \in S : f[x] \in Int
        /\ one \in Int /\ zero \in Int /\ less \in Int /\ minus \in Int
    BY SumType, FS_CardinalityType
  <1>2. TermsBound(f, f, one, zero, m, S) /\ TermsBound(f, f, less, zero, minus, S)
    BY DEF TermsBound
  <1>3. /\ one * SumFunctionOnSet(f, S) <= zero * SumFunctionOnSet(f, S) + m * Cardinality(S)
        /\ less * SumFunctionOnSet(f, S) <= zero * SumFunctionOnSet(f, S) + minus * Cardinality(S)
    <2> HIDE DEF one, zero, less, minus
    <2> QED
      BY <1>1, <1>2, SumBound
  <1> DEFINE n == Cardinality(S)
             sum == SumFunctionOnSet(f, S)
  <1>4. sum \in Int /\ n \in Int /\ 1 * sum <= 0 * sum + m * n /\ (-1) * sum <= 0 * sum + (-m) * n
    BY <1>1, <1>3
  <1> HIDE DEF n, sum
  <1>5. (-m) * n = -(m * n) /\ m * n \in Int
    BY <1>4
  <1>6. sum = m * n
    <2> DEFINE mn == m * n
    <2>1. sum <= mn /\ -sum <= -mn /\ mn \in Int
      BY <1>4, <1>5
    <2> HIDE DEF mn
    <2>2. sum = mn
      BY <1>4, <2>1
    <2> QED
      BY <2>2 DEF mn
  <1> QED
    BY <1>6 DEF sum, n, SumFunction

\* A bound is needed: among 155 creators who are read alike, one is to pay in.  Their
\* percentages of 0.645 are rounded to 0.65, more than the whole together, and the one
\* whose share counts as the largest makes up for it.
THEOREM ManyOverdraw ==
    ASSUME NEW views, IsFiniteSet(DOMAIN views), Cardinality(DOMAIN views) = 155,
           \A c \in DOMAIN views : views[c] = 1,
           NEW shares \in AllocateCreatorPool(1000000, views)
    PROVE  \E c \in DOMAIN views : shares[c] = -1000
  <1>1. SumFunction(views) = 155
    <2>1. SumFunction(views) = 1 * Cardinality(DOMAIN views)
      BY SumOfEqual
    <2> QED
      BY <2>1
  <1>2. 1000000 \in Nat /\ (\A c \in DOMAIN views : views[c] \in Nat)
        /\ SumFunction(views) \in Nat \ {0}
    BY <1>1
  <1>3. PICK f \in [DOMAIN views -> Nat], k \in DOMAIN views :
            /\ \A c \in DOMAIN views :
                  f[c] = (1000000 * Percentage(views[c], SumFunction(views))) \div 10000
            /\ \A c \in DOMAIN views :
                  shares[c] = IF c = k THEN f[c] + (1000000 - SumFunction(f)) ELSE f[c]
    <2> DEFINE pool == 1000000
    <2>1. pool \in Nat /\ shares \in AllocateCreatorPool(pool, views)
      OBVIOUS
    <2> HIDE DEF pool
    <2>2. \E f \in [DOMAIN views -> Nat], k \in DOMAIN views :
              /\ \A c \in DOMAIN views :
                    f[c] = (pool * Percentage(views[c], SumFunction(views))) \div 10000
              /\ \A c \in DOMAIN views :
                    shares[c] = IF c = k THEN f[c] + (pool - SumFunction(f)) ELSE f[c]
      BY <1>2, <2>1, AllocationShape
    <2> QED
      BY <2>2 DEF pool
  <1>4. Percentage(1, 155) = 65
    BY DEF Percentage
  <1>5. \A c \in DOMAIN views : f[c] = 6500
    BY <1>1, <1>3, <1>4
  <1>6. SumFunction(f) = 6500 * 155
    <2>1. DOMAIN f = DOMAIN views
      OBVIOUS
    <2>2. SumFunction(f) = 6500 * Cardinality(DOMAIN f)
      BY <1>5, <2>1, SumOfEqual
    <2> QED
      BY <2>1, <2>2
  <1>7. shares[k] = -1000
    BY <1>3, <1>5, <1>6
  <1> QED
    BY <1>7

===============================================================================
