------------------------------ MODULE SumLemmas ------------------------------
(***************************************************************************)
(* What a sum over a finite set is.  The community module's fold is a      *)
(* recursive function on the subsets of the set; for natural summands it   *)
(* is shown to count units, so that facts about cardinalities of finite    *)
(* sets become facts about sums.  Induction over finite sets is done with  *)
(* a minimal counterexample (WFMin).                                       *)
(***************************************************************************)
EXTENDS Integers, FiniteSets, FiniteSetsExt, FiniteSetTheorems, TLAPS

\* The element a fold takes out of a set next.
Pick(s) == CHOOSE x \in s : TRUE

\* g is the fold of the summands f over the subsets of S.
IsFold(g, f, S) ==
  g = [s \in SUBSET S |-> IF s = {} THEN 0 ELSE f[Pick(s)] + g[s \ {Pick(s)}]]

\* One pair for every unit of every summand.
Units(f, s) == {u \in s \X Nat : u[2] \in 1 .. f[u[1]]}

\* A set has the element that is taken out of it.
LEMMA PickIsMember == ASSUME NEW s, s # {} PROVE Pick(s) \in s
BY DEF Pick

\* The units of finitely many natural summands are finitely many.
LEMMA UnitsFinite ==
  ASSUME NEW S, IsFiniteSet(S), NEW M \in Nat, NEW f \in [S -> 0 .. M]
  PROVE  IsFiniteSet(Units(f, S)) /\ Cardinality(Units(f, S)) \in Nat
<1>1. IsFiniteSet(1 .. M)
  BY FS_Interval
<1>2. IsFiniteSet(S \X (1 .. M))
  BY <1>1, FS_Product
<1>3. Units(f, S) \in SUBSET (S \X (1 .. M))
  BY DEF Units
<1> QED BY <1>2, <1>3, FS_Subset, FS_CardinalityType

\* One summand has as many units as it is worth.
LEMMA UnitsOfOne ==
  ASSUME NEW x, NEW f, f[x] \in Nat
  PROVE  IsFiniteSet(Units(f, {x})) /\ Cardinality(Units(f, {x})) = f[x]
<1> DEFINE b == [k \in 1 .. f[x] |-> <<x, k>>]
<1>1. b \in Bijection(1 .. f[x], Units(f, {x}))
  <2>1. b \in [1 .. f[x] -> Units(f, {x})]
    BY DEF Units
  <2>2. \A j, k \in 1 .. f[x] : b[j] = b[k] => j = k
    OBVIOUS
  <2>3. \A u \in Units(f, {x}) : \E k \in 1 .. f[x] : b[k] = u
    BY DEF Units
  <2> QED BY <2>1, <2>2, <2>3 DEF Bijection, Injection, Surjection, IsInjective
<1>2. IsFiniteSet(1 .. f[x]) /\ Cardinality(1 .. f[x]) = f[x]
  BY FS_Interval
<1>3. ExistsBijection(1 .. f[x], Units(f, {x}))
  BY <1>1 DEF ExistsBijection
<1> HIDE DEF b
<1> QED BY <1>2, <1>3, FS_Bijection

\* Taking a summand out takes its units out.
LEMMA UnitsStep ==
  ASSUME NEW S, IsFiniteSet(S), NEW M \in Nat, NEW f \in [S -> 0 .. M],
         NEW x \in S
  PROVE  Cardinality(Units(f, S)) = f[x] + Cardinality(Units(f, S \ {x}))
<1> DEFINE A == Units(f, {x})
           B == Units(f, S \ {x})
<1>1. f[x] \in Nat
  OBVIOUS
<1>2. IsFiniteSet(A) /\ Cardinality(A) = f[x]
  BY <1>1, UnitsOfOne
<1>3. IsFiniteSet(Units(f, S)) /\ B \in SUBSET Units(f, S)
  BY UnitsFinite DEF Units
<1>4. IsFiniteSet(B) /\ Cardinality(B) \in Nat
  BY <1>3, FS_Subset, FS_CardinalityType
<1>5. Units(f, S) = A \cup B /\ A \cap B = {}
  BY DEF Units
<1> HIDE DEF A, B
<1>6. Cardinality(A \cup B) = Cardinality(A) + Cardinality(B) - Cardinality(A \cap B)
  BY <1>2, <1>4, FS_Union
<1>7. Cardinality({}) = 0
  BY FS_EmptySet
<1>8. Cardinality(A \cup B) = f[x] + Cardinality(B)
  BY <1>1, <1>2, <1>4, <1>5, <1>6, <1>7
<1> QED BY <1>5, <1>8 DEF B

\* There is a fold: the count of units.
LEMMA FoldExists ==
  ASSUME NEW S, IsFiniteSet(S), NEW M \in Nat, NEW f \in [S -> 0 .. M]
  PROVE  IsFold([s \in SUBSET S |-> Cardinality(Units(f, s))], f, S)
<1> DEFINE g == [s \in SUBSET S |-> Cardinality(Units(f, s))]
<1> SUFFICES ASSUME NEW s \in SUBSET S
             PROVE  g[s] = IF s = {} THEN 0 ELSE f[Pick(s)] + g[s \ {Pick(s)}]
  BY DEF IsFold
<1>1. CASE s = {}
  <2>1. Units(f, {}) = {}
    BY DEF Units
  <2> QED BY <1>1, <2>1, FS_EmptySet
<1>2. CASE s # {}
  <2> DEFINE r == [x \in s |-> f[x]]
  <2>1. IsFiniteSet(s) /\ Pick(s) \in s /\ r \in [s -> 0 .. M]
    BY <1>2, PickIsMember, FS_Subset
  <2> HIDE DEF r
  <2>2. Cardinality(Units(r, s)) = r[Pick(s)] + Cardinality(Units(r, s \ {Pick(s)}))
    BY <2>1, UnitsStep
  <2>3. Units(r, s) = Units(f, s) /\ Units(r, s \ {Pick(s)}) = Units(f, s \ {Pick(s)})
    BY DEF Units, r
  <2>4. r[Pick(s)] = f[Pick(s)]
    BY <2>1 DEF r
  <2> QED BY <1>2, <2>2, <2>3, <2>4
<1> QED BY <1>1, <1>2

\* There is only one: a smallest set on which two folds differ is nonempty, and
\* they differ already on what is left of it.
LEMMA FoldUnique ==
  ASSUME NEW S, IsFiniteSet(S), NEW f, NEW g, NEW h, IsFold(g, f, S), IsFold(h, f, S)
  PROVE  g[S] = h[S]
<1> DEFINE T == {s \in SUBSET S : g[s] # h[s]}
<1> SUFFICES ASSUME T # {} PROVE FALSE
  OBVIOUS
<1>1. T \subseteq FiniteSubsetsOf(S)
  BY FS_Subset DEF FiniteSubsetsOf
<1>2. IsWellFoundedOn(StrictSubsetOrdering(S), FiniteSubsetsOf(S))
  BY FS_StrictSubsetOrderingWellFounded
<1>3. PICK s \in T : \A t \in T : ~(<<t, s>> \in StrictSubsetOrdering(S))
  <2> HIDE DEF T
  <2> QED BY <1>1, <1>2, WFMin
<1>4. s \in SUBSET S /\ g[s] # h[s]
  OBVIOUS
<1>5. s # {}
  BY <1>4 DEF IsFold
<1>6. Pick(s) \in s
  BY <1>5, PickIsMember
<1> DEFINE t == s \ {Pick(s)}
<1>7. g[s] = f[Pick(s)] + g[t] /\ h[s] = f[Pick(s)] + h[t]
  BY <1>4, <1>5 DEF IsFold
<1>8. t \in T
  BY <1>4, <1>7
<1>9. <<t, s>> \in StrictSubsetOrdering(S)
  BY <1>4, <1>6 DEF StrictSubsetOrdering
<1> QED BY <1>3, <1>8, <1>9

\* Any fold of natural summands counts their units.
LEMMA FoldCountsUnits ==
  ASSUME NEW S, IsFiniteSet(S), NEW M \in Nat, NEW f \in [S -> 0 .. M],
         NEW g, IsFold(g, f, S)
  PROVE  g[S] = Cardinality(Units(f, S))
<1> DEFINE u == [s \in SUBSET S |-> Cardinality(Units(f, s))]
<1>1. IsFold(u, f, S)
  BY FoldExists
<1>2. u[S] = Cardinality(Units(f, S))
  OBVIOUS
<1> HIDE DEF u
<1> QED BY <1>1, <1>2, FoldUnique

\* A sum of naturals is a natural, and more summands, each at least as large, give
\* no less.
LEMMA UnitsGrow ==
  ASSUME NEW S, IsFiniteSet(S), NEW M \in Nat, NEW f \in [S -> 0 .. M],
         NEW T \in SUBSET S, NEW e \in [T -> 0 .. M], \A x \in T : e[x] <= f[x]
  PROVE  Cardinality(Units(e, T)) <= Cardinality(Units(f, S))
<1>1. IsFiniteSet(Units(f, S))
  BY UnitsFinite
<1>2. Units(e, T) \in SUBSET Units(f, S)
  <2> SUFFICES ASSUME NEW u \in T \X Nat, u[2] \in 1 .. e[u[1]]
               PROVE  u[2] \in 1 .. f[u[1]]
    BY DEF Units
  <2>1. u[1] \in T
    OBVIOUS
  <2>2. e[u[1]] \in Nat /\ f[u[1]] \in Nat /\ e[u[1]] <= f[u[1]]
    BY <2>1
  <2> QED BY <2>2
<1> QED BY <1>1, <1>2, FS_Subset

\* The sum of a function is what its fold gives on the whole set.
LEMMA SumIsFold ==
  ASSUME NEW S, IsFiniteSet(S), NEW V, NEW f \in [S -> V], NEW g, IsFold(g, f, S)
  PROVE  SumFunction(f) = g[S]
<1> DEFINE Solves(h) == h = [s \in SUBSET S |->
                     IF s = {} THEN 0
                     ELSE f[CHOOSE x \in s : TRUE] + h[s \ {CHOOSE x \in s : TRUE}]]
           it == CHOOSE h : Solves(h)
<1>1. \A h : Solves(h) <=> IsFold(h, f, S)
  BY DEF IsFold, Pick
<1>2. \E h : Solves(h)
  <2> HIDE DEF Solves
  <2> QED BY <1>1
<1>3. Solves(it)
  <2> HIDE DEF Solves
  <2> QED BY <1>2
<1>4. IsFold(it, f, S)
  <2> HIDE DEF it, Solves
  <2> QED BY <1>1, <1>3
<1>5. SumFunction(f) = it[S]
  <2>1. DOMAIN f = S
    OBVIOUS
  <2>2. SumFunction(f) = SumFunctionOnSet(f, S)
    BY <2>1 DEF SumFunction
  <2> QED BY <2>2 DEF it, SumFunctionOnSet, FoldFunctionOnSet, MapThenFoldSet
<1> HIDE DEF it
<1>6. it[S] = g[S]
  BY <1>4, FoldUnique
<1> QED BY <1>5, <1>6

\* The sum of natural summands is the count of their units, and so a natural.
LEMMA SumIsUnits ==
  ASSUME NEW S, IsFiniteSet(S), NEW M \in Nat, NEW f \in [S -> 0 .. M]
  PROVE  SumFunction(f) = Cardinality(Units(f, S)) /\ SumFunction(f) \in Nat
<1> DEFINE u == [s \in SUBSET S |-> Cardinality(Units(f, s))]
<1>1. IsFold(u, f, S)
  BY FoldExists
<1>2. u[S] = Cardinality(Units(f, S))
  OBVIOUS
<1> HIDE DEF u
<1>3. SumFunction(f) = u[S]
  BY <1>1, SumIsFold
<1> QED BY <1>2, <1>3, UnitsFinite

\* No summands add up to nothing.
LEMMA SumOfNone == ASSUME NEW V, NEW f \in [{} -> V] PROVE SumFunction(f) = 0
<1>1. IsFiniteSet({}) /\ f \in [{} -> 0 .. 0]
  BY FS_EmptySet
<1>2. Units(f, {}) = {}
  BY DEF Units
<1> QED BY <1>1, <1>2, SumIsUnits, FS_EmptySet

\* A summand more adds what it is worth.
LEMMA SumAdds ==
  ASSUME NEW S, IsFiniteSet(S), NEW x, x \notin S, NEW T, T = S \cup {x}, NEW M \in Nat,
         NEW f \in [S -> 0 .. M], NEW g \in [T -> 0 .. M], \A y \in S : g[y] = f[y]
  PROVE  SumFunction(g) = SumFunction(f) + g[x]
<1>1. IsFiniteSet(T) /\ x \in T /\ T \ {x} = S
  BY FS_AddElement
<1>2. SumFunction(g) = Cardinality(Units(g, T)) /\ SumFunction(f) = Cardinality(Units(f, S))
  BY <1>1, SumIsUnits
<1>3. Cardinality(Units(g, T)) = g[x] + Cardinality(Units(g, T \ {x}))
  BY <1>1, UnitsStep
<1>4. Units(g, S) = Units(f, S)
  BY DEF Units
<1>5. g[x] \in Nat /\ Cardinality(Units(f, S)) \in Nat
  BY UnitsFinite
<1>6. Cardinality(Units(g, T)) = g[x] + Cardinality(Units(f, S))
  BY <1>1, <1>3, <1>4
<1> QED BY <1>2, <1>5, <1>6

\* One summand adds up to itself.
LEMMA SumOfOne ==
  ASSUME NEW x, NEW M \in Nat, NEW f \in [{x} -> 0 .. M]
  PROVE  SumFunction(f) = f[x]
<1> DEFINE S == {x}
<1>1. IsFiniteSet(S)
  BY FS_Singleton
<1>2. f \in [S -> 0 .. M] /\ f[x] \in Nat
  OBVIOUS
<1>3. Cardinality(Units(f, S)) = f[x]
  BY <1>2, UnitsOfOne
<1> HIDE DEF S
<1>4. SumFunction(f) = Cardinality(Units(f, S))
  BY <1>1, <1>2, SumIsUnits
<1> QED BY <1>3, <1>4

-----------------------------------------------------------------------------
\* Sums of integers: what is added less what is taken.

\* The gains and the losses among integer summands, as naturals.
Gains(f, S) == [x \in S |-> IF f[x] > 0 THEN f[x] ELSE 0]
Losses(f, S) == [x \in S |-> IF f[x] < 0 THEN -f[x] ELSE 0]

\* Finitely many integers have a bound: a smallest set without one is nonempty,
\* and what is left of it has one.
LEMMA IntegersBounded ==
  ASSUME NEW S, IsFiniteSet(S), NEW f \in [S -> Int]
  PROVE  \E M \in Nat : \A x \in S : -M <= f[x] /\ f[x] <= M
<1> DEFINE Within(s, M) == \A x \in s : -M <= f[x] /\ f[x] <= M
           T == {s \in SUBSET S : ~(\E M \in Nat : Within(s, M))}
<1> SUFFICES ASSUME T # {} PROVE FALSE
  OBVIOUS
<1>1. T \subseteq FiniteSubsetsOf(S)
  BY FS_Subset DEF FiniteSubsetsOf
<1>2. IsWellFoundedOn(StrictSubsetOrdering(S), FiniteSubsetsOf(S))
  BY FS_StrictSubsetOrderingWellFounded
<1>3. PICK s \in T : \A t \in T : ~(<<t, s>> \in StrictSubsetOrdering(S))
  <2> HIDE DEF T
  <2> QED BY <1>1, <1>2, WFMin
<1>4. s \in SUBSET S /\ ~(\E M \in Nat : Within(s, M))
  OBVIOUS
<1>5. s # {}
  <2>1. 0 \in Nat /\ Within({}, 0)
    OBVIOUS
  <2> QED BY <1>4, <2>1
<1>6. Pick(s) \in s
  BY <1>5, PickIsMember
<1> DEFINE t == s \ {Pick(s)}
<1>7. <<t, s>> \in StrictSubsetOrdering(S) /\ t \in SUBSET S
  BY <1>4, <1>6 DEF StrictSubsetOrdering
<1>8. t \notin T
  BY <1>3, <1>7
<1>9. PICK M \in Nat : Within(t, M)
  BY <1>7, <1>8
<1>10. PICK v \in Int : v = f[Pick(s)]
  BY <1>4, <1>6
<1>11. PICK K \in Nat : M <= K /\ -K <= v /\ v <= K
  <2>1. CASE v >= 0
    <3>1. M + v \in Nat /\ M <= M + v /\ -(M + v) <= v /\ v <= M + v
      BY <2>1
    <3> QED BY <3>1
  <2>2. CASE v < 0
    <3>1. M - v \in Nat /\ M <= M - v /\ -(M - v) <= v /\ v <= M - v
      BY <2>2
    <3> QED BY <3>1
  <2> QED BY <2>1, <2>2
<1>12. Within(s, K)
  <2> SUFFICES ASSUME NEW x \in s PROVE -K <= f[x] /\ f[x] <= K
    OBVIOUS
  <2>1. CASE x = Pick(s)
    BY <1>10, <1>11, <2>1
  <2>2. CASE x # Pick(s)
    <3>1. x \in t /\ f[x] \in Int
      BY <1>4, <2>2
    <3>2. -M <= f[x] /\ f[x] <= M
      BY <1>9, <3>1
    <3> QED BY <1>11, <3>1, <3>2
  <2> QED BY <2>1, <2>2
<1> QED BY <1>4, <1>12

\* The units of part of the summands, one of them taken out.
LEMMA UnitsTake ==
  ASSUME NEW S, IsFiniteSet(S), NEW M \in Nat, NEW f \in [S -> 0 .. M],
         NEW s \in SUBSET S, NEW x \in s
  PROVE  /\ Cardinality(Units(f, s)) = f[x] + Cardinality(Units(f, s \ {x}))
         /\ Cardinality(Units(f, s)) \in Nat /\ Cardinality(Units(f, s \ {x})) \in Nat
<1> DEFINE r == [y \in s |-> f[y]]
<1>1. IsFiniteSet(s) /\ r \in [s -> 0 .. M]
  BY FS_Subset
<1>2. r[x] = f[x] /\ Units(r, s) = Units(f, s) /\ Units(r, s \ {x}) = Units(f, s \ {x})
  BY DEF Units
<1> HIDE DEF r
<1>3. Cardinality(Units(r, s)) = r[x] + Cardinality(Units(r, s \ {x}))
  BY <1>1, UnitsStep
<1>4. IsFiniteSet(Units(r, s)) /\ Units(r, s \ {x}) \in SUBSET Units(r, s)
  BY <1>1, UnitsFinite DEF Units
<1>5. Cardinality(Units(r, s)) \in Nat /\ Cardinality(Units(r, s \ {x})) \in Nat
  BY <1>4, FS_Subset, FS_CardinalityType
<1> QED BY <1>2, <1>3, <1>5

\* A sum of integers is the units gained less the units lost.
LEMMA IntegerSum ==
  ASSUME NEW S, IsFiniteSet(S), NEW f \in [S -> Int]
  PROVE  /\ SumFunction(f) = Cardinality(Units(Gains(f, S), S)) - Cardinality(Units(Losses(f, S), S))
         /\ SumFunction(f) \in Int
<1>1. PICK M \in Nat : \A x \in S : -M <= f[x] /\ f[x] <= M
  BY IntegersBounded
<1>2. PICK up \in [S -> 0 .. M] : up = Gains(f, S)
  <2>1. Gains(f, S) \in [S -> 0 .. M]
    BY <1>1 DEF Gains
  <2> QED BY <2>1
<1>3. PICK down \in [S -> 0 .. M] : down = Losses(f, S)
  <2>1. Losses(f, S) \in [S -> 0 .. M]
    BY <1>1 DEF Losses
  <2> QED BY <2>1
<1>4. \A x \in S : f[x] = up[x] - down[x]
  BY <1>2, <1>3 DEF Gains, Losses
<1> DEFINE g == [s \in SUBSET S |-> Cardinality(Units(up, s)) - Cardinality(Units(down, s))]
<1>5. IsFold(g, f, S)
  <2> SUFFICES ASSUME NEW s \in SUBSET S
               PROVE  g[s] = IF s = {} THEN 0 ELSE f[Pick(s)] + g[s \ {Pick(s)}]
    BY DEF IsFold
  <2>1. CASE s = {}
    <3>1. Units(up, {}) = {} /\ Units(down, {}) = {}
      BY DEF Units
    <3> QED BY <2>1, <3>1, FS_EmptySet
  <2>2. CASE s # {}
    <3>1. PICK x \in s : x = Pick(s)
      BY <2>2, PickIsMember
    <3>2. /\ Cardinality(Units(up, s)) = up[x] + Cardinality(Units(up, s \ {x}))
          /\ Cardinality(Units(up, s)) \in Nat /\ Cardinality(Units(up, s \ {x})) \in Nat
      BY UnitsTake
    <3>3. /\ Cardinality(Units(down, s)) = down[x] + Cardinality(Units(down, s \ {x}))
          /\ Cardinality(Units(down, s)) \in Nat /\ Cardinality(Units(down, s \ {x})) \in Nat
      BY UnitsTake
    <3>4. f[x] = up[x] - down[x] /\ up[x] \in Int /\ down[x] \in Int
      BY <1>4
    <3>5. g[s] = f[x] + g[s \ {x}]
      BY <3>2, <3>3, <3>4
    <3> QED BY <2>2, <3>1, <3>5
  <2> QED BY <2>1, <2>2
<1>6. g[S] = Cardinality(Units(up, S)) - Cardinality(Units(down, S))
  OBVIOUS
<1> HIDE DEF g
<1>7. SumFunction(f) = g[S]
  BY <1>5, SumIsFold
<1>8. Cardinality(Units(up, S)) \in Nat /\ Cardinality(Units(down, S)) \in Nat
  BY UnitsFinite
<1> QED BY <1>2, <1>3, <1>6, <1>7, <1>8

\* An integer more adds what it is worth.
LEMMA IntegerSumAdds ==
  ASSUME NEW S, IsFiniteSet(S), NEW x, x \notin S, NEW T, T = S \cup {x},
         NEW f \in [S -> Int], NEW g \in [T -> Int], \A y \in S : g[y] = f[y]
  PROVE  SumFunction(g) = SumFunction(f) + g[x]
<1>1. IsFiniteSet(T) /\ x \in T /\ T \ {x} = S
  BY FS_AddElement
<1>2. PICK M \in Nat : \A y \in T : -M <= g[y] /\ g[y] <= M
  BY <1>1, IntegersBounded
<1>3. PICK up \in [T -> 0 .. M] : up = Gains(g, T)
  <2>1. Gains(g, T) \in [T -> 0 .. M]
    BY <1>2 DEF Gains
  <2> QED BY <2>1
<1>4. PICK down \in [T -> 0 .. M] : down = Losses(g, T)
  <2>1. Losses(g, T) \in [T -> 0 .. M]
    BY <1>2 DEF Losses
  <2> QED BY <2>1
<1>5. g[x] = up[x] - down[x] /\ up[x] \in Int /\ down[x] \in Int
  <2>1. g[x] \in Int
    BY <1>1
  <2> QED BY <1>1, <1>3, <1>4, <2>1 DEF Gains, Losses
<1>6. Units(up, S) = Units(Gains(f, S), S) /\ Units(down, S) = Units(Losses(f, S), S)
  BY <1>3, <1>4 DEF Units, Gains, Losses
<1>7. /\ Cardinality(Units(up, T)) = up[x] + Cardinality(Units(up, S))
      /\ Cardinality(Units(up, T)) \in Nat /\ Cardinality(Units(up, S)) \in Nat
  BY <1>1, UnitsTake
<1>8. /\ Cardinality(Units(down, T)) = down[x] + Cardinality(Units(down, S))
      /\ Cardinality(Units(down, T)) \in Nat /\ Cardinality(Units(down, S)) \in Nat
  BY <1>1, UnitsTake
<1>9. /\ SumFunction(g) = Cardinality(Units(up, T)) - Cardinality(Units(down, T))
      /\ SumFunction(f) = Cardinality(Units(up, S)) - Cardinality(Units(down, S))
  BY <1>1, <1>3, <1>4, <1>6, IntegerSum
<1> QED BY <1>5, <1>7, <1>8, <1>9
==============================================================================
