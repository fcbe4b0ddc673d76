------------------------- MODULE UsageBudgetProofs -------------------------
(***************************************************************************)
(* Machine-checked theorems about the daily budget, for every budget,      *)
(* price, split of the day into shares and reservations, number of callers *)
(* and probe interval, and wherever a crash cuts off a roll or a record.   *)
(*                                                                         *)
(* The meters are sums over callers and categories, so the module starts   *)
(* with the sums: the induction it needs is over the subsets of a finite   *)
(* set, by the well-foundedness of inclusion. Of the four properties two   *)
(* are inductive with the types, the share and the meters; StormBounded    *)
(* needs the spacing of the probes, and ReservedIsAdmitted a bound on what *)
(* must still be found for all categories at once, ReserveAt.              *)
(***************************************************************************)
EXTENDS UsageBudget, FiniteSetTheorems, WellFoundedInduction, TLAPS

-----------------------------------------------------------------------------
(* Sums. The library chooses a fold by its recursion equation.              *)

\* What a fold takes from a set first.
Pick(s) == CHOOSE x \in s : TRUE
\* The function a fold over I is chosen to be.
Unfolds(g, f, I) ==
  g = [s \in SUBSET I |-> IF s = {} THEN 0 ELSE f[Pick(s)] + g[s \ {Pick(s)}]]
Iter(f, I) == CHOOSE g : Unfolds(g, f, I)
\* The sum of f over I.
SumOn(f, I) == Iter(f, I)[I]

\* The fold of the model is the unfolding function just named.
LEMMA SumIsSumOn == ASSUME NEW f PROVE Sum(f) = SumOn(f, DOMAIN f)
  BY DEF Sum, SumOn, Iter, Unfolds, Pick, FoldFunction, FoldFunctionOnSet, MapThenFoldSet

\* What holds of the empty set, and of a set when it holds of the set without
\* each of its members, holds of a finite set: strict inclusion is well-founded
\* there. As the conclusion is membership in a set T, no operator is a
\* parameter.
LEMMA SetInduction ==
  ASSUME NEW S, IsFiniteSet(S), NEW T,
         {} \in T,
         \A s \in SUBSET S : s # {} /\ (\A x \in s : s \ {x} \in T) => s \in T
  PROVE  S \in T
<1> SUFFICES ASSUME S \notin T PROVE FALSE
  OBVIOUS
<1> DEFINE Bad == (SUBSET S) \ T
<1>1. IsWellFoundedOn(StrictSubsetOrdering(S), FiniteSubsetsOf(S))
  BY FS_StrictSubsetOrderingWellFounded
<1>2. Bad \subseteq FiniteSubsetsOf(S) /\ Bad # {}
  BY FS_Subset DEF FiniteSubsetsOf
<1>3. \E m \in Bad : \A y \in Bad : ~(<<y, m>> \in StrictSubsetOrdering(S))
  <2> HIDE DEF Bad
  <2> QED BY <1>1, <1>2, WFMin
<1>4. PICK m \in Bad : \A y \in Bad : ~(<<y, m>> \in StrictSubsetOrdering(S))
  BY <1>3
<1>5. \A x \in m : m \ {x} \in T
  <2> SUFFICES ASSUME NEW x \in m, m \ {x} \notin T PROVE FALSE
    OBVIOUS
  <2>1. m \ {x} \in Bad
    OBVIOUS
  <2>2. <<m \ {x}, m>> \in StrictSubsetOrdering(S)
    BY DEF StrictSubsetOrdering
  <2>3. QED
    BY <1>4, <2>1, <2>2
<1>6. QED
  BY <1>5

\* The element a fold takes first is one of the set's.
LEMMA PickIn == ASSUME NEW s, s # {} PROVE Pick(s) \in s
  BY DEF Pick

\* An unfolding function, at one subset.
LEMMA UnfoldAt ==
  ASSUME NEW f, NEW A, NEW g, Unfolds(g, f, A), NEW s \in SUBSET A
  PROVE  g[s] = IF s = {} THEN 0 ELSE f[Pick(s)] + g[s \ {Pick(s)}]
  BY DEF Unfolds

\* Two unfolding functions of one summand agree wherever both are defined.
LEMMA UnfoldUnique ==
  ASSUME NEW f, NEW A, NEW B, NEW g, NEW h, Unfolds(g, f, A), Unfolds(h, f, B),
         NEW s, s \subseteq A, s \subseteq B, IsFiniteSet(s)
  PROVE  g[s] = h[s]
<1> DEFINE T == {t \in SUBSET s : g[t] = h[t]}
<1>1. {} \in T
  BY UnfoldAt
<1>2. \A t \in SUBSET s : t # {} /\ (\A x \in t : t \ {x} \in T) => t \in T
  <2> SUFFICES ASSUME NEW t \in SUBSET s, t # {}, \A x \in t : t \ {x} \in T
               PROVE  g[t] = h[t]
    OBVIOUS
  <2>1. Pick(t) \in t
    BY PickIn
  <2>2. g[t] = f[Pick(t)] + g[t \ {Pick(t)}] /\ h[t] = f[Pick(t)] + h[t \ {Pick(t)}]
    <3>1. t \in SUBSET A /\ t \in SUBSET B OBVIOUS
    <3> QED BY <3>1, UnfoldAt
  <2>3. QED
    BY <2>1, <2>2
<1>3. s \in T
  <2> HIDE DEF T
  <2> QED BY <1>1, <1>2, SetInduction
<1>4. QED
  BY <1>3

\* On a finite set there is an unfolding function, so the one chosen is one.
LEMMA UnfoldExists ==
  ASSUME NEW f, NEW S, IsFiniteSet(S)
  PROVE  Unfolds(Iter(f, S), f, S)
<1> DEFINE T == {s \in SUBSET S : \A t \in SUBSET s : Unfolds(Iter(f, t), f, t)}
<1>0. ASSUME NEW s, NEW g, Unfolds(g, f, s) PROVE Unfolds(Iter(f, s), f, s)
  BY <1>0 DEF Iter
<1>1. {} \in T
  <2> DEFINE g == [s \in SUBSET {} |-> 0]
  <2>1. Unfolds(g, f, {})
    BY DEF Unfolds
  <2>2. QED
    BY <1>0, <2>1
<1>2. \A s \in SUBSET S : s # {} /\ (\A x \in s : s \ {x} \in T) => s \in T
  <2> SUFFICES ASSUME NEW s \in SUBSET S, s # {}, \A x \in s : s \ {x} \in T
               PROVE  s \in T
    OBVIOUS
  <2>1. \A t \in SUBSET s : t # s => Unfolds(Iter(f, t), f, t)
    <3> SUFFICES ASSUME NEW t \in SUBSET s, t # s PROVE Unfolds(Iter(f, t), f, t)
      OBVIOUS
    <3>1. PICK x \in s : x \notin t
      OBVIOUS
    <3>2. t \in SUBSET (s \ {x})
      BY <3>1
    <3>3. QED
      BY <3>1, <3>2
  <2> DEFINE v(t) == IF t = s THEN f[Pick(s)] + SumOn(f, s \ {Pick(s)}) ELSE SumOn(f, t)
             g == [t \in SUBSET s |-> v(t)]
  <2>2. ASSUME NEW t \in SUBSET s
        PROVE  g[t] = IF t = {} THEN 0 ELSE f[Pick(t)] + g[t \ {Pick(t)}]
    <3>1. CASE t = {}
      <4>1. Iter(f, t)[t] = 0
        BY <3>1, <2>1, UnfoldAt
      <4>2. QED
        BY <3>1, <4>1 DEF SumOn
    <3>2. CASE t # {}
      <4> DEFINE r == t \ {Pick(t)}
      <4>1. Pick(t) \in t /\ r \in SUBSET s /\ r # s
        BY <3>2, PickIn
      <4>2. g[r] = SumOn(f, r)
        BY <4>1
      <4>3. CASE t = s
        BY <3>2, <4>2, <4>3
      <4>4. CASE t # s
        <5>1. Unfolds(Iter(f, t), f, t) /\ Unfolds(Iter(f, r), f, r)
          BY <2>1, <4>1, <4>4
        <5>2. Iter(f, t)[t] = f[Pick(t)] + Iter(f, t)[r]
          BY <5>1, <3>2, UnfoldAt
        <5>3. IsFiniteSet(r)
          BY FS_Subset, <4>1
        <5>4. Iter(f, t)[r] = Iter(f, r)[r]
          BY <5>1, <5>3, UnfoldUnique
        <5>5. QED
          BY <3>2, <4>2, <4>4, <5>2, <5>4 DEF SumOn
      <4>5. QED
        BY <4>3, <4>4
    <3>3. QED
      BY <3>1, <3>2
  <2>3. Unfolds(g, f, s)
    <3> DEFINE h == [t \in SUBSET s |-> IF t = {} THEN 0 ELSE f[Pick(t)] + g[t \ {Pick(t)}]]
    <3>1. g = h
      <4> HIDE DEF v
      <4> QED BY <2>2
    <3>2. QED
      BY <3>1 DEF Unfolds
  <2>4. Unfolds(Iter(f, s), f, s)
    <3> HIDE DEF g
    <3> QED BY <1>0, <2>3
  <2>5. QED
    BY <2>1, <2>4
<1>3. S \in T
  <2> HIDE DEF T
  <2> QED BY <1>1, <1>2, SetInduction
<1>4. QED
  BY <1>3

\* A sum is what is picked first and the sum of the rest.
LEMMA SumOnStep ==
  ASSUME NEW f, NEW S, IsFiniteSet(S)
  PROVE  SumOn(f, S) = IF S = {} THEN 0 ELSE f[Pick(S)] + SumOn(f, S \ {Pick(S)})
<1>1. Unfolds(Iter(f, S), f, S)
  BY UnfoldExists
<1>2. CASE S = {}
  BY <1>1, <1>2, UnfoldAt DEF SumOn
<1>3. CASE S # {}
  <2> DEFINE R == S \ {Pick(S)}
  <2>1. R \subseteq S /\ IsFiniteSet(R)
    BY FS_Subset
  <2>2. Unfolds(Iter(f, R), f, R)
    BY <2>1, UnfoldExists
  <2>3. Iter(f, S)[R] = Iter(f, R)[R]
    BY <1>1, <2>1, <2>2, UnfoldUnique
  <2>4. Iter(f, S)[S] = f[Pick(S)] + Iter(f, S)[R]
    BY <1>1, <1>3, UnfoldAt
  <2>5. QED
    BY <1>3, <2>3, <2>4 DEF SumOn
<1>4. QED
  BY <1>2, <1>3

\* A sum over nothing is zero.
LEMMA SumOnEmpty == ASSUME NEW f PROVE SumOn(f, {}) = 0
  BY SumOnStep, FS_EmptySet

\* A finite sum of integers is an integer.
LEMMA SumOnInt ==
  ASSUME NEW f, NEW S, IsFiniteSet(S), \A x \in S : f[x] \in Int
  PROVE  SumOn(f, S) \in Int
<1> DEFINE T == {s \in SUBSET S : SumOn(f, s) \in Int}
<1>1. {} \in T
  BY SumOnEmpty
<1>2. \A s \in SUBSET S : s # {} /\ (\A x \in s : s \ {x} \in T) => s \in T
  <2> SUFFICES ASSUME NEW s \in SUBSET S, s # {}, \A x \in s : s \ {x} \in T
               PROVE  SumOn(f, s) \in Int
    OBVIOUS
  <2>1. Pick(s) \in s /\ IsFiniteSet(s)
    BY PickIn, FS_Subset
  <2>2. SumOn(f, s) = f[Pick(s)] + SumOn(f, s \ {Pick(s)})
    BY <2>1, SumOnStep
  <2>3. QED
    BY <2>1, <2>2
<1>3. S \in T
  <2> HIDE DEF T
  <2> QED BY <1>1, <1>2, SetInduction
<1>4. QED
  BY <1>3

\* Any element may be taken first.
LEMMA SumOnRemove ==
  ASSUME NEW f, NEW S, IsFiniteSet(S), \A x \in S : f[x] \in Int, NEW a \in S
  PROVE  SumOn(f, S) = f[a] + SumOn(f, S \ {a})
<1> DEFINE T == {s \in SUBSET S : \A x \in s : SumOn(f, s) = f[x] + SumOn(f, s \ {x})}
<1>1. {} \in T
  OBVIOUS
<1>2. \A s \in SUBSET S : s # {} /\ (\A x \in s : s \ {x} \in T) => s \in T
  <2> SUFFICES ASSUME NEW s \in SUBSET S, s # {}, \A x \in s : s \ {x} \in T, NEW x \in s
               PROVE  SumOn(f, s) = f[x] + SumOn(f, s \ {x})
    OBVIOUS
  <2> DEFINE p == Pick(s)
             r == (s \ {p}) \ {x}
  <2>1. p \in s /\ IsFiniteSet(s) /\ IsFiniteSet(r)
    BY PickIn, FS_Subset
  <2>2. SumOn(f, s) = f[p] + SumOn(f, s \ {p})
    BY <2>1, SumOnStep
  <2>3. CASE x = p
    BY <2>2, <2>3
  <2>4. CASE x # p
    <3>1. SumOn(f, s \ {p}) = f[x] + SumOn(f, r)
      BY <2>1, <2>4
    <3>2. SumOn(f, s \ {x}) = f[p] + SumOn(f, r)
      <4>1. p \in s \ {x} /\ r = (s \ {x}) \ {p}
        BY <2>1, <2>4
      <4> HIDE DEF p, r
      <4>2. QED BY <4>1
    <3>3. SumOn(f, r) \in Int /\ f[x] \in Int /\ f[p] \in Int
      BY <2>1, SumOnInt
    <3> HIDE DEF p, r
    <3>4. QED
      BY <2>2, <3>1, <3>2, <3>3
  <2>5. QED
    BY <2>3, <2>4
<1>3. S \in T
  <2> HIDE DEF T
  <2> QED BY <1>1, <1>2, SetInduction
<1>4. QED
  BY <1>3

\* Sums are monotone.
LEMMA SumOnLeq ==
  ASSUME NEW f, NEW h, NEW S, IsFiniteSet(S),
         \A x \in S : f[x] \in Int /\ h[x] \in Int /\ f[x] <= h[x]
  PROVE  SumOn(f, S) <= SumOn(h, S)
<1> DEFINE T == {s \in SUBSET S : SumOn(f, s) <= SumOn(h, s)}
<1>1. {} \in T
  BY SumOnEmpty
<1>2. \A s \in SUBSET S : s # {} /\ (\A x \in s : s \ {x} \in T) => s \in T
  <2> SUFFICES ASSUME NEW s \in SUBSET S, s # {}, \A x \in s : s \ {x} \in T
               PROVE  SumOn(f, s) <= SumOn(h, s)
    OBVIOUS
  <2> DEFINE p == Pick(s)
             r == s \ {p}
  <2>1. p \in s /\ IsFiniteSet(s) /\ IsFiniteSet(r)
    BY PickIn, FS_Subset
  <2>2. SumOn(f, s) = f[p] + SumOn(f, r) /\ SumOn(h, s) = h[p] + SumOn(h, r)
    BY <2>1, SumOnStep
  <2>3. SumOn(f, r) \in Int /\ SumOn(h, r) \in Int
    BY <2>1, SumOnInt
  <2>4. SumOn(f, r) <= SumOn(h, r) /\ f[p] \in Int /\ h[p] \in Int /\ f[p] <= h[p]
    BY <2>1
  <2> HIDE DEF p, r
  <2>5. QED
    BY <2>2, <2>3, <2>4
<1>3. S \in T
  <2> HIDE DEF T
  <2> QED BY <1>1, <1>2, SetInduction
<1>4. QED
  BY <1>3

\* A sum depends on the summands in its range only.
LEMMA SumOnSame ==
  ASSUME NEW f, NEW h, NEW S, IsFiniteSet(S), \A x \in S : f[x] \in Int /\ h[x] = f[x]
  PROVE  SumOn(f, S) = SumOn(h, S)
<1>1. SumOn(f, S) \in Int /\ SumOn(h, S) \in Int
  BY SumOnInt
<1>2. SumOn(f, S) <= SumOn(h, S) /\ SumOn(h, S) <= SumOn(f, S)
  BY SumOnLeq
<1>3. QED
  BY <1>1, <1>2

\* The sum of pointwise sums is the sum of the sums.
LEMMA SumOnAdd ==
  ASSUME NEW f, NEW g, NEW h, NEW S, IsFiniteSet(S),
         \A x \in S : f[x] \in Int /\ g[x] \in Int /\ h[x] = f[x] + g[x]
  PROVE  SumOn(h, S) = SumOn(f, S) + SumOn(g, S)
<1> DEFINE T == {s \in SUBSET S : SumOn(h, s) = SumOn(f, s) + SumOn(g, s)}
<1>1. {} \in T
  BY SumOnEmpty
<1>2. \A s \in SUBSET S : s # {} /\ (\A x \in s : s \ {x} \in T) => s \in T
  <2> SUFFICES ASSUME NEW s \in SUBSET S, s # {}, \A x \in s : s \ {x} \in T
               PROVE  SumOn(h, s) = SumOn(f, s) + SumOn(g, s)
    OBVIOUS
  <2> DEFINE p == Pick(s)
             r == s \ {p}
  <2>1. p \in s /\ IsFiniteSet(s) /\ IsFiniteSet(r)
    BY PickIn, FS_Subset
  <2>2. SumOn(f, s) = f[p] + SumOn(f, r) /\ SumOn(g, s) = g[p] + SumOn(g, r)
        /\ SumOn(h, s) = h[p] + SumOn(h, r)
    BY <2>1, SumOnStep
  <2>3. SumOn(f, r) \in Int /\ SumOn(g, r) \in Int
    BY <2>1, SumOnInt
  <2>4. SumOn(h, r) = SumOn(f, r) + SumOn(g, r) /\ f[p] \in Int /\ g[p] \in Int /\ h[p] = f[p] + g[p]
    BY <2>1
  <2> HIDE DEF p, r
  <2>5. QED
    BY <2>2, <2>3, <2>4
<1>3. S \in T
  <2> HIDE DEF T
  <2> QED BY <1>1, <1>2, SetInduction
<1>4. QED
  BY <1>3

\* A constant factor comes out of a sum.
LEMMA SumOnScale ==
  ASSUME NEW k \in Int, NEW f, NEW h, NEW S, IsFiniteSet(S),
         \A x \in S : f[x] \in Int /\ h[x] = k * f[x]
  PROVE  SumOn(h, S) = k * SumOn(f, S)
<1> DEFINE T == {s \in SUBSET S : SumOn(h, s) = k * SumOn(f, s)}
<1>1. {} \in T
  BY SumOnEmpty
<1>2. \A s \in SUBSET S : s # {} /\ (\A x \in s : s \ {x} \in T) => s \in T
  <2> SUFFICES ASSUME NEW s \in SUBSET S, s # {}, \A x \in s : s \ {x} \in T
               PROVE  SumOn(h, s) = k * SumOn(f, s)
    OBVIOUS
  <2> DEFINE p == Pick(s)
             r == s \ {p}
  <2>1. p \in s /\ IsFiniteSet(s) /\ IsFiniteSet(r)
    BY PickIn, FS_Subset
  <2>2. SumOn(f, s) = f[p] + SumOn(f, r) /\ SumOn(h, s) = h[p] + SumOn(h, r)
    BY <2>1, SumOnStep
  <2>3. SumOn(f, r) \in Int
    BY <2>1, SumOnInt
  <2>4. SumOn(h, r) = k * SumOn(f, r) /\ f[p] \in Int /\ h[p] = k * f[p]
    BY <2>1
  <2> HIDE DEF p, r
  <2>5. \A a, b \in Int : k * (a + b) = k * a + k * b
    OBVIOUS
  <2>6. QED
    BY <2>2, <2>3, <2>4, <2>5
<1>3. S \in T
  <2> HIDE DEF T
  <2> QED BY <1>1, <1>2, SetInduction
<1>4. QED
  BY <1>3

\* A sum is at most as many times a bound as there are summands.
LEMMA SumOnBound ==
  ASSUME NEW k \in Int, NEW f, NEW S, IsFiniteSet(S),
         \A x \in S : f[x] \in Int /\ f[x] <= k
  PROVE  SumOn(f, S) <= Cardinality(S) * k
<1> DEFINE T == {s \in SUBSET S : SumOn(f, s) <= Cardinality(s) * k}
<1>1. {} \in T
  BY SumOnEmpty, FS_EmptySet
<1>2. \A s \in SUBSET S : s # {} /\ (\A x \in s : s \ {x} \in T) => s \in T
  <2> SUFFICES ASSUME NEW s \in SUBSET S, s # {}, \A x \in s : s \ {x} \in T
               PROVE  SumOn(f, s) <= Cardinality(s) * k
    OBVIOUS
  <2> DEFINE p == Pick(s)
             r == s \ {p}
  <2>1. p \in s /\ IsFiniteSet(s) /\ IsFiniteSet(r)
    BY PickIn, FS_Subset
  <2>2. SumOn(f, s) = f[p] + SumOn(f, r)
    BY <2>1, SumOnStep
  <2>3. SumOn(f, r) \in Int
    BY <2>1, SumOnInt
  <2>4. SumOn(f, r) <= Cardinality(r) * k /\ f[p] \in Int /\ f[p] <= k
    BY <2>1
  <2>5. Cardinality(s) = Cardinality(r) + 1 /\ Cardinality(r) \in Nat
    BY <2>1, FS_RemoveElement, FS_CardinalityType
  <2> HIDE DEF p, r
  <2>6. \A n \in Int : (n + 1) * k = n * k + k /\ n * k \in Int
    OBVIOUS
  <2>7. QED
    BY <2>2, <2>3, <2>4, <2>5, <2>6
<1>3. S \in T
  <2> HIDE DEF T
  <2> QED BY <1>1, <1>2, SetInduction
<1>4. QED
  BY <1>3

\* The same for a function and its own domain: no summand,
LEMMA SumEmpty == Sum([x \in {} |-> 0]) = 0
  BY SumIsSumOn, SumOnEmpty

\* integers,
LEMMA SumInt ==
  ASSUME NEW D, IsFiniteSet(D), NEW f \in [D -> Int]
  PROVE  Sum(f) \in Int
  BY SumIsSumOn, SumOnInt

\* a pointwise order,
LEMMA SumLeq ==
  ASSUME NEW D, IsFiniteSet(D), NEW f \in [D -> Int], NEW h \in [D -> Int],
         \A x \in D : f[x] <= h[x]
  PROVE  Sum(f) <= Sum(h)
<1>1. Sum(f) = SumOn(f, D) /\ Sum(h) = SumOn(h, D)
  BY SumIsSumOn
<1>2. QED
  BY <1>1, SumOnLeq

\* a pointwise sum,
LEMMA SumAdd ==
  ASSUME NEW D, IsFiniteSet(D), NEW f \in [D -> Int], NEW g \in [D -> Int]
  PROVE  Sum([x \in D |-> f[x] + g[x]]) = Sum(f) + Sum(g)
<1> DEFINE h == [x \in D |-> f[x] + g[x]]
<1>1. Sum(f) = SumOn(f, D) /\ Sum(g) = SumOn(g, D) /\ Sum(h) = SumOn(h, D)
  BY SumIsSumOn
<1>2. SumOn(h, D) = SumOn(f, D) + SumOn(g, D)
  BY SumOnAdd
<1>3. QED
  BY <1>1, <1>2

\* a constant factor,
LEMMA SumScale ==
  ASSUME NEW D, IsFiniteSet(D), NEW f \in [D -> Int], NEW k \in Int
  PROVE  Sum([x \in D |-> k * f[x]]) = k * Sum(f)
<1> DEFINE h == [x \in D |-> k * f[x]]
<1>1. Sum(f) = SumOn(f, D) /\ Sum(h) = SumOn(h, D)
  BY SumIsSumOn
<1>2. SumOn(h, D) = k * SumOn(f, D)
  BY SumOnScale
<1>3. QED
  BY <1>1, <1>2

\* a bound on each summand,
LEMMA SumBound ==
  ASSUME NEW D, IsFiniteSet(D), NEW f \in [D -> Int], NEW k \in Int, \A x \in D : f[x] <= k
  PROVE  Sum(f) <= Cardinality(D) * k
  BY SumIsSumOn, SumOnBound

\* zeros,
LEMMA SumZero ==
  ASSUME NEW D, IsFiniteSet(D), NEW f, f = [x \in D |-> 0]
  PROVE  Sum(f) = 0
<1>1. f \in [D -> Int] /\ (\A x \in D : f[x] = 0 * f[x])
  OBVIOUS
<1>2. Sum(f) = SumOn(f, D)
  BY SumIsSumOn
<1>3. SumOn(f, D) = 0 * SumOn(f, D)
  BY <1>1, SumOnScale
<1>4. SumOn(f, D) \in Int
  BY <1>1, SumOnInt
<1>5. QED
  BY <1>2, <1>3, <1>4

\* naturals,
LEMMA SumNat ==
  ASSUME NEW D, IsFiniteSet(D), NEW f \in [D -> Nat]
  PROVE  Sum(f) \in Nat
<1> DEFINE z == [x \in D |-> 0]
<1>1. Sum(z) <= Sum(f)
  BY SumLeq
<1>2. Sum(z) = 0
  BY SumZero
<1>3. Sum(f) \in Int
  BY SumInt
<1>4. QED
  BY <1>1, <1>2, <1>3

\* one summand taken out,
LEMMA SumSplit ==
  ASSUME NEW D, IsFiniteSet(D), NEW f \in [D -> Int], NEW a \in D
  PROVE  Sum(f) = f[a] + Sum([x \in D \ {a} |-> f[x]])
<1> DEFINE h == [x \in D \ {a} |-> f[x]]
<1>1. IsFiniteSet(D \ {a})
  BY FS_Subset
<1>2. Sum(f) = SumOn(f, D) /\ Sum(h) = SumOn(h, D \ {a})
  BY SumIsSumOn
<1>3. SumOn(f, D) = f[a] + SumOn(f, D \ {a})
  BY SumOnRemove
<1>4. SumOn(h, D \ {a}) = SumOn(f, D \ {a})
  BY <1>1, SumOnSame
<1>5. QED
  BY <1>2, <1>3, <1>4

\* one summand changed,
LEMMA SumChange ==
  ASSUME NEW D, IsFiniteSet(D), NEW f \in [D -> Int], NEW h \in [D -> Int], NEW a \in D,
         \A x \in D \ {a} : h[x] = f[x]
  PROVE  Sum(h) = Sum(f) + (h[a] - f[a])
<1> DEFINE r == [x \in D \ {a} |-> f[x]]
<1>1. Sum(f) = f[a] + Sum(r)
  BY SumSplit
<1>2. Sum(h) = h[a] + Sum(r)
  <2>1. r = [x \in D \ {a} |-> h[x]]
    OBVIOUS
  <2>2. QED
    BY <2>1, SumSplit
<1>3. Sum(r) \in Int
  BY FS_Subset, SumInt
<1> HIDE DEF r
<1>4. QED
  BY <1>1, <1>2, <1>3

\* one summand among naturals.
LEMMA SumMember ==
  ASSUME NEW D, IsFiniteSet(D), NEW f \in [D -> Nat], NEW a \in D
  PROVE  f[a] <= Sum(f)
<1> DEFINE r == [x \in D \ {a} |-> f[x]]
<1>1. Sum(f) = f[a] + Sum(r)
  BY SumSplit
<1>2. Sum(r) \in Nat
  BY FS_Subset, SumNat
<1> HIDE DEF r
<1>3. QED
  BY <1>1, <1>2

\* Summing key by key, then over the keys, is summing once: what is outstanding
\* is outstanding for one category.
LEMMA SumByKey ==
  ASSUME NEW C, IsFiniteSet(C), NEW D, IsFiniteSet(D), NEW key \in [C -> D], NEW f \in [C -> Int]
  PROVE  Sum([d \in D |-> Sum([p \in C |-> IF key[p] = d THEN f[p] ELSE 0])]) = Sum(f)
<1> DEFINE part(d) == [p \in C |-> IF key[p] = d THEN f[p] ELSE 0]
           byKey(s) == [d \in D |-> SumOn(part(d), s)]
           T == {s \in SUBSET C : Sum(byKey(s)) = SumOn(f, s)}
<1>1. ASSUME NEW s \in SUBSET C PROVE byKey(s) \in [D -> Int] /\ IsFiniteSet(s)
  <2>1. IsFiniteSet(s)
    BY FS_Subset
  <2>2. ASSUME NEW d \in D PROVE SumOn(part(d), s) \in Int
    <3>1. \A p \in s : part(d)[p] \in Int
      OBVIOUS
    <3> HIDE DEF part
    <3>2. QED
      BY <2>1, <3>1, SumOnInt
  <2>3. QED
    BY <2>1, <2>2
<1>2. {} \in T
  <2>1. byKey({}) = [d \in D |-> 0]
    <3> HIDE DEF part
    <3> QED BY SumOnEmpty
  <2>2. Sum(byKey({})) = 0
    <3> HIDE DEF byKey
    <3> QED BY <2>1, SumZero
  <2>3. QED
    BY <2>2, SumOnEmpty
<1>3. \A s \in SUBSET C : s # {} /\ (\A x \in s : s \ {x} \in T) => s \in T
  <2> SUFFICES ASSUME NEW s \in SUBSET C, s # {}, \A x \in s : s \ {x} \in T
               PROVE  Sum(byKey(s)) = SumOn(f, s)
    OBVIOUS
  <2> DEFINE p == Pick(s)
             r == s \ {p}
  <2>1. p \in s /\ r \in SUBSET C /\ Sum(byKey(r)) = SumOn(f, r)
    BY PickIn
  <2>2. SumOn(f, s) = f[p] + SumOn(f, r)
    BY <1>1, SumOnStep
  <2>3. \A d \in D : byKey(s)[d] = part(d)[p] + byKey(r)[d]
    <3> HIDE DEF part, p
    <3> QED BY <1>1, SumOnStep DEF p
  <2>4. byKey(s) \in [D -> Int] /\ byKey(r) \in [D -> Int]
    BY <1>1, <2>1
  <2>5. /\ key[p] \in D /\ f[p] \in Int
        /\ part(key[p])[p] = f[p] /\ \A d \in D \ {key[p]} : part(d)[p] = 0
    BY <2>1
  <2>6. SumOn(f, r) \in Int
    BY <1>1, <2>1, SumOnInt
  <2> HIDE DEF p, r, part, byKey
  <2>7. \A d \in D \ {key[p]} : byKey(s)[d] = byKey(r)[d]
    BY <2>3, <2>4, <2>5
  <2>8. Sum(byKey(s)) = Sum(byKey(r)) + (byKey(s)[key[p]] - byKey(r)[key[p]])
    BY <2>4, <2>5, <2>7, SumChange
  <2>9. byKey(s)[key[p]] - byKey(r)[key[p]] = f[p]
    BY <2>3, <2>4, <2>5
  <2>10. QED
    BY <2>1, <2>2, <2>5, <2>6, <2>8, <2>9
<1>4. C \in T
  <2> HIDE DEF T
  <2> QED BY <1>2, <1>3, SetInduction
<1>5. Sum(f) = SumOn(f, C)
  BY SumIsSumOn
<1>6. byKey(C) = [d \in D |-> Sum(part(d))]
  <2>1. \A d \in D : Sum(part(d)) = SumOn(part(d), C)
    BY SumIsSumOn
  <2>2. QED
    BY <2>1
<1>7. QED
  BY <1>4, <1>5, <1>6

-----------------------------------------------------------------------------
(* Arithmetic and constants.                                                *)

\* Division of naturals: the quotient's two bounds.
LEMMA DivFacts ==
  ASSUME NEW a \in Nat, NEW b \in Nat \ {0}
  PROVE  /\ a \div b \in Nat
         /\ b * (a \div b) <= a
         /\ a < b * (a \div b) + b
<1>1. a \div b \in Int
  OBVIOUS
<1>2. b * (a \div b) <= a
  OBVIOUS
<1>3. a < b * (a \div b) + b
  OBVIOUS
<1>4. a \div b \in Nat
  OBVIOUS
<1>. QED
  BY <1>1, <1>2, <1>3, <1>4
\* A quotient grows with what is divided.
LEMMA DivMono ==
  ASSUME NEW a \in Nat, NEW c \in Nat, a <= c, NEW b \in Nat \ {0}
  PROVE  a \div b <= c \div b
  OBVIOUS

\* A quotient is the largest number of divisors that fit.
LEMMA DivMax ==
  ASSUME NEW a \in Nat, NEW b \in Nat \ {0}, NEW q \in Nat, b * q <= a
  PROVE  q <= a \div b
  OBVIOUS

\* The same of tenths, in which shares are counted.
LEMMA Tenth ==
  ASSUME NEW a \in Nat
  PROVE  a \div 10 \in Nat /\ 10 * (a \div 10) <= a /\ a < 10 * (a \div 10) + 10
  OBVIOUS

\* What the constants are assumed to be, without the functions among them.
LEMMA Limits ==
  /\ Research \in Categories
  /\ IsFiniteSet(Categories) /\ IsFiniteSet(Callers) /\ Callers # {}
  /\ CallBudget \in Nat \ {0} /\ UsdBudget \in Nat
  /\ MaxResumes \in Nat /\ DayLen \in Nat \ {0} /\ Interval \in Nat \ {0}
  /\ MaxClock \in Nat /\ MaxCrashes \in Nat
  BY UsageAssumption

\* A price is a natural number.
LEMMA PriceNat == ASSUME NEW c \in Categories, NEW k \in Prices[c] PROVE k \in Nat
  BY UsageAssumption

\* A permission is for one call at least.
LEMMA CallsPerType == ASSUME NEW c \in Categories PROVE CallsPer(c) \in 1..MaxResumes + 1
  BY Limits DEF CallsPer

-----------------------------------------------------------------------------
(* The store and the callers.                                               *)

\* A store that is well formed at a time.
StoreAt(u, t) ==
  /\ u \in Usage
  /\ u.date <= t \div DayLen /\ u.trippedAt <= t /\ u.probeAt <= t
  /\ u.open => u.trippedAt # Never

\* Callers whose permissions are of their categories.
CallersFit(c) ==
  /\ c \in [Callers -> [cat : Categories, left : 0..MaxResumes + 1]]
  /\ \A p \in Callers : c[p].left <= CallsPer(c[p].cat)

\* The type invariant, part by part.
LEMMA TypeParts ==
  TypeOK <=> /\ clock \in 0..MaxClock /\ account \in {"ok", "broken"}
             /\ StoreAt(usage, clock) /\ CallersFit(caller)
             /\ probes \in Nat /\ crashes \in 0..MaxCrashes
  BY DEF TypeOK, StoreAt, CallersFit, Today

\* The day is a number.
LEMMA TodayType == ASSUME clock \in Nat PROVE Today \in Nat
  BY Limits, DivFacts DEF Today

\* However far the roll of the day has come, the store is well formed.
LEMMA RollStore ==
  ASSUME clock \in Nat, StoreAt(usage, clock), NEW n \in 0..RollWrites
  PROVE  StoreAt(RolledUpTo(n), clock)
<1>1. CASE usage.date = Today
  BY <1>1 DEF RolledUpTo
<1>2. CASE usage.date # Today
  <2> DEFINE r == RolledUpTo(n)
  <2>1. Today \in Nat /\ [c \in Categories |-> 0] \in [Categories -> Nat] /\ Never <= clock
    BY TodayType DEF Never
  <2>2. /\ usage.date \in Nat /\ usage.calls \in Nat /\ usage.usd \in Nat
        /\ usage.usdBy \in [Categories -> Nat] /\ usage.callsBy \in [Categories -> Nat]
        /\ usage.open \in BOOLEAN
        /\ usage.trippedAt \in Nat \cup {Never} /\ usage.probeAt \in Nat \cup {Never}
    BY DEF StoreAt, Usage
  <2>3. /\ r = [date |-> r.date, calls |-> r.calls, usd |-> r.usd, usdBy |-> r.usdBy,
                callsBy |-> r.callsBy, open |-> r.open, trippedAt |-> r.trippedAt,
                probeAt |-> r.probeAt]
        /\ r.date \in {usage.date, Today} /\ r.calls \in {usage.calls, 0}
        /\ r.usd \in {usage.usd, 0} /\ r.usdBy \in {usage.usdBy, [c \in Categories |-> 0]}
        /\ r.callsBy \in {usage.callsBy, [c \in Categories |-> 0]}
    BY <1>2 DEF RolledUpTo
  <2>4. /\ r.trippedAt \in {usage.trippedAt, Never} /\ r.probeAt \in {usage.probeAt, Never}
    BY <1>2 DEF RolledUpTo
  <2>5. r \in Usage
    <3>1. r.date \in Nat /\ r.calls \in Nat /\ r.usd \in Nat
      BY <2>1, <2>2, <2>3
    <3>2. r.usdBy \in [Categories -> Nat] /\ r.callsBy \in [Categories -> Nat]
      BY <2>1, <2>2, <2>3
    <3>3. r.trippedAt \in Nat \cup {Never} /\ r.probeAt \in Nat \cup {Never}
      BY <2>2, <2>4
    <3>4. r.open \in BOOLEAN
      BY <1>2, <2>2 DEF RolledUpTo
    <3> HIDE DEF r
    <3> QED BY <2>3, <3>1, <3>2, <3>3, <3>4 DEF Usage
  <2>6. r.open => n < 6 /\ usage.open
    BY <1>2 DEF RolledUpTo
  <2>7. n < 6 => r.trippedAt = usage.trippedAt
    BY <1>2 DEF RolledUpTo
  <2>8. usage.date <= Today /\ usage.trippedAt <= clock /\ usage.probeAt <= clock
        /\ (usage.open => usage.trippedAt # Never)
    BY DEF StoreAt, Today
  <2> HIDE DEF r
  <2>9. r.date <= Today /\ r.trippedAt <= clock /\ r.probeAt <= clock
    BY <2>1, <2>2, <2>3, <2>4, <2>8
  <2>10. r.open => r.trippedAt # Never
    BY <2>6, <2>7, <2>8
  <2>11. StoreAt(r, clock)
    BY <2>5, <2>9, <2>10 DEF StoreAt, Today
  <2>12. QED
    BY <2>11 DEF r
<1>3. QED
  BY <1>1, <1>2

\* Rolled, it is well formed and of today.
LEMMA RolledStore ==
  ASSUME clock \in Nat, StoreAt(usage, clock)
  PROVE  StoreAt(Rolled, clock) /\ Rolled.date = Today
<1>1. StoreAt(Rolled, clock)
  BY RollStore DEF Rolled, RollWrites
<1>2. Rolled.date = Today
  BY DEF Rolled, RollWrites, RolledUpTo
<1>3. QED
  BY <1>1, <1>2

\* Taking a probe leaves it well formed.
LEMMA ProbeStore ==
  ASSUME clock \in Nat, NEW u, StoreAt(u, clock)
  PROVE  StoreAt(TakeProbe(u), clock)
<1>1. CASE u.open /\ ProbeDue(u)
  <2> DEFINE r == [u EXCEPT !.probeAt = clock]
  <2>1. r \in Usage /\ r.date = u.date /\ r.trippedAt = u.trippedAt /\ r.probeAt = clock
    BY DEF StoreAt, Usage
  <2>2. r.open = u.open
    BY DEF StoreAt, Usage
  <2>3. StoreAt(r, clock)
    <3> HIDE DEF r
    <3> QED BY <2>1, <2>2 DEF StoreAt
  <2>4. QED
    BY <1>1, <2>3 DEF TakeProbe
<1>2. CASE ~(u.open /\ ProbeDue(u))
  BY <1>2 DEF TakeProbe
<1>3. QED
  BY <1>1, <1>2

\* So does noting a failure.
LEMMA FailStore ==
  ASSUME clock \in Nat, StoreAt(usage, clock)
  PROVE  StoreAt(NoteFailure, clock)
<1> DEFINE r == [Rolled EXCEPT !.open = TRUE, !.trippedAt = clock]
<1>1. StoreAt(Rolled, clock)
  BY RolledStore
<1>2. r \in Usage /\ r.date = Rolled.date /\ r.trippedAt = clock /\ r.probeAt = Rolled.probeAt
  BY <1>1 DEF StoreAt, Usage
<1>3. clock # Never
  BY DEF Never
<1>4. StoreAt(r, clock)
  <2> HIDE DEF r
  <2> QED BY <1>1, <1>2, <1>3 DEF StoreAt
<1>5. QED
  BY <1>4 DEF NoteFailure

\* Field by field, what the first writes of record leave.
LEMMA RecordFields ==
  ASSUME clock \in Nat, StoreAt(usage, clock), NEW c \in Categories, NEW k \in Nat,
         NEW n \in 1..RecordWrites
  PROVE  LET u == Rolled
             r == Recorded(c, k, n)
         IN  /\ r \in Usage
             /\ r.date = u.date /\ r.open = FALSE
             /\ r.trippedAt = (IF u.open THEN Never ELSE u.trippedAt)
             /\ r.probeAt = (IF u.open THEN Never ELSE u.probeAt)
             /\ r.calls = (IF n >= 2 THEN u.calls + 1 ELSE u.calls)
             /\ r.usd = (IF n >= 3 THEN u.usd + k ELSE u.usd)
             /\ r.usdBy = [u.usdBy EXCEPT ![c] = IF n >= 4 THEN @ + k ELSE @]
             /\ r.callsBy = [u.callsBy EXCEPT ![c] = IF n >= 5 THEN @ + 1 ELSE @]
<1> DEFINE u == Rolled
           r == Recorded(c, k, n)
<1>1. u \in Usage
  BY RolledStore DEF StoreAt
<1>2. /\ u.date \in Nat /\ u.calls \in Nat /\ u.usd \in Nat
      /\ u.usdBy \in [Categories -> Nat] /\ u.callsBy \in [Categories -> Nat]
      /\ u.trippedAt \in Nat \cup {Never} /\ u.probeAt \in Nat \cup {Never}
  BY <1>1 DEF Usage
<1>3. DOMAIN u = {"date", "calls", "usd", "usdBy", "callsBy", "open", "trippedAt", "probeAt"}
  BY <1>1 DEF Usage
<1>4. /\ DOMAIN r = DOMAIN u
      /\ r.date = u.date /\ r.open = FALSE
      /\ r.trippedAt = (IF u.open THEN Never ELSE u.trippedAt)
      /\ r.probeAt = (IF u.open THEN Never ELSE u.probeAt)
      /\ r.calls = (IF n >= 2 THEN u.calls + 1 ELSE u.calls)
      /\ r.usd = (IF n >= 3 THEN u.usd + k ELSE u.usd)
      /\ r.usdBy = [u.usdBy EXCEPT ![c] = IF n >= 4 THEN @ + k ELSE @]
      /\ r.callsBy = [u.callsBy EXCEPT ![c] = IF n >= 5 THEN @ + 1 ELSE @]
  <2> HIDE DEF u
  <2> QED BY <1>3 DEF Recorded, u
<1>5. r \in Usage
  <2>1. r = [date |-> r.date, calls |-> r.calls, usd |-> r.usd, usdBy |-> r.usdBy,
             callsBy |-> r.callsBy, open |-> r.open, trippedAt |-> r.trippedAt,
             probeAt |-> r.probeAt]
    <3>1. r = [x \in DOMAIN r |-> r[x]]
      BY DEF Recorded
    <3>2. DOMAIN r = {"date", "calls", "usd", "usdBy", "callsBy", "open", "trippedAt", "probeAt"}
      BY <1>3, <1>4
    <3> HIDE DEF r
    <3>3. QED
      BY <3>1, <3>2
  <2>2. r.calls \in Nat /\ r.usd \in Nat /\ r.date \in Nat
    <3> HIDE DEF u, r
    <3> QED BY <1>2, <1>4
  <2>3. r.usdBy \in [Categories -> Nat] /\ r.callsBy \in [Categories -> Nat]
    <3> HIDE DEF u, r
    <3> QED BY <1>2, <1>4
  <2>4. r.trippedAt \in Nat \cup {Never} /\ r.probeAt \in Nat \cup {Never}
    <3> HIDE DEF u, r
    <3> QED BY <1>2, <1>4
  <2>5. r.open \in BOOLEAN
    <3> HIDE DEF u, r
    <3> QED BY <1>4
  <2> HIDE DEF r
  <2>6. QED
    BY <2>1, <2>2, <2>3, <2>4, <2>5 DEF Usage
<1>6. QED
  BY <1>4, <1>5

\* However far record has come, the store is well formed.
LEMMA RecordStore ==
  ASSUME clock \in Nat, StoreAt(usage, clock), NEW c \in Categories, NEW k \in Nat,
         NEW n \in 1..RecordWrites
  PROVE  StoreAt(Recorded(c, k, n), clock)
<1> DEFINE u == Rolled
           r == Recorded(c, k, n)
<1>1. StoreAt(u, clock)
  BY RolledStore
<1>2. /\ r \in Usage /\ r.date = u.date /\ r.open = FALSE
      /\ r.trippedAt \in {Never, u.trippedAt} /\ r.probeAt \in {Never, u.probeAt}
  <2>1. /\ r \in Usage /\ r.date = u.date /\ r.open = FALSE
        /\ r.trippedAt = (IF u.open THEN Never ELSE u.trippedAt)
        /\ r.probeAt = (IF u.open THEN Never ELSE u.probeAt)
    BY RecordFields
  <2> HIDE DEF u, r
  <2>2. QED
    BY <2>1
<1>3. Never <= clock
  BY DEF Never
<1> HIDE DEF u, r
<1>4. StoreAt(r, clock)
  BY <1>1, <1>2, <1>3 DEF StoreAt
<1>5. QED
  BY <1>4 DEF r

\* A well-formed store stays so as time passes.
LEMMA StoreLater ==
  ASSUME NEW u, NEW t \in Nat, StoreAt(u, t)
  PROVE  StoreAt(u, t + 1)
<1>1. t \div DayLen <= (t + 1) \div DayLen /\ t \div DayLen \in Nat /\ (t + 1) \div DayLen \in Nat
  BY Limits, DivFacts, DivMono
<1>2. u.date \in Nat /\ u.trippedAt \in Int /\ u.probeAt \in Int
  BY DEF StoreAt, Usage, Never
<1>3. QED
  BY <1>1, <1>2 DEF StoreAt

\* A caller may become idle, and all of them may,
LEMMA CallersFreed ==
  ASSUME CallersFit(caller), NEW p \in Callers
  PROVE  CallersFit([caller EXCEPT ![p] = Idle]) /\ CallersFit([q \in Callers |-> Idle])
<1>1. Idle \in [cat : Categories, left : 0..MaxResumes + 1] /\ Idle.left = 0
  BY Limits DEF Idle
<1>2. 0 <= CallsPer(Idle.cat)
  BY <1>1, CallsPerType, Limits
<1> HIDE DEF Idle
<1>3. QED
  BY <1>1, <1>2 DEF CallersFit

\* and one may be given a permission for a category's calls.
LEMMA CallersSet ==
  ASSUME CallersFit(caller), NEW p \in Callers, NEW c \in Categories, NEW l \in 0..CallsPer(c)
  PROVE  CallersFit([caller EXCEPT ![p] = [cat |-> c, left |-> l]])
<1>1. [cat |-> c, left |-> l] \in [cat : Categories, left : 0..MaxResumes + 1]
  BY CallsPerType, Limits
<1>2. QED
  BY <1>1 DEF CallersFit

\* A caller's permission, field by field.
LEMMA CallerAt ==
  ASSUME CallersFit(caller), NEW p \in Callers
  PROVE  /\ caller[p] = [cat |-> caller[p].cat, left |-> caller[p].left]
         /\ caller[p].cat \in Categories /\ caller[p].left \in 0..CallsPer(caller[p].cat)
         /\ caller[p].left \in 0..MaxResumes + 1
<1>1. caller[p] \in [cat : Categories, left : 0..MaxResumes + 1]
      /\ caller[p].left <= CallsPer(caller[p].cat)
  BY DEF CallersFit
<1>2. CallsPer(caller[p].cat) \in Nat
  BY <1>1, CallsPerType
<1>3. QED
  BY <1>1, <1>2

\* usage.py's store keeps its types through every partial roll and record, and
\* never carries a date or stamp of the future; an open breaker has its stamp.
THEOREM TypeCorrect == Spec => []TypeOK
<1>1. Init => TypeOK
  <2> SUFFICES ASSUME Init PROVE TypeOK
    OBVIOUS
  <2>1. Today \in Nat /\ Never <= 0 /\ clock \in Nat
    BY TodayType DEF Init, Never
  <2>2. NoUsage \in Usage
    <3>1. FALSE \in BOOLEAN
      OBVIOUS
    <3>2. QED
      BY <3>1 DEF NoUsage, Usage
  <2>3. StoreAt(usage, clock)
    <3>1. NoUsage.date = 0 /\ NoUsage.trippedAt = Never /\ NoUsage.probeAt = Never
          /\ NoUsage.open = FALSE
      BY DEF NoUsage
    <3> HIDE DEF NoUsage
    <3>2. QED
      BY <2>1, <2>2, <3>1 DEF Init, StoreAt, Today
  <2>4. CallersFit(caller)
    <3>1. Idle \in [cat : Categories, left : 0..MaxResumes + 1] /\ Idle.left = 0
      BY Limits DEF Idle
    <3>2. 0 <= CallsPer(Idle.cat)
      BY <3>1, CallsPerType, Limits
    <3> HIDE DEF Idle
    <3>3. QED
      BY <3>1, <3>2 DEF Init, CallersFit
  <2>5. QED
    BY <2>3, <2>4, TypeParts, Limits DEF Init
<1>2. TypeOK /\ [Next]_vars => TypeOK'
  <2> SUFFICES ASSUME TypeOK, [Next]_vars PROVE TypeOK'
    OBVIOUS
  <2> DEFINE Goal == /\ clock' \in 0..MaxClock /\ account' \in {"ok", "broken"}
                     /\ StoreAt(usage', clock') /\ CallersFit(caller')
                     /\ probes' \in Nat /\ crashes' \in 0..MaxCrashes
  <2>0. /\ clock \in 0..MaxClock /\ clock \in Nat /\ account \in {"ok", "broken"}
        /\ StoreAt(usage, clock) /\ CallersFit(caller)
        /\ probes \in Nat /\ crashes \in 0..MaxCrashes
    BY TypeParts, Limits
  <2>1. ProbesToday \in Nat /\ CountProbes(ProbesToday + 1) \in Nat /\ ProbeBound \in Nat
    <3>1. ProbesToday \in Nat
      BY <2>0 DEF ProbesToday
    <3>2. ProbeBound \in Nat
      BY Limits, DivFacts DEF ProbeBound
    <3>3. QED
      BY <3>1, <3>2 DEF CountProbes, Earlier
  <2>2. StoreAt(TakeProbe(Rolled), clock)
    BY <2>0, RolledStore, ProbeStore
  <2>3. ASSUME NEW p \in Callers, NEW cat \in Categories, Admitted(p, cat) PROVE Goal
    <3>1. CallsPer(cat) \in 0..CallsPer(cat)
      BY CallsPerType, Limits
    <3>2. CallersFit(caller')
      BY <2>0, <2>3, <3>1, CallersSet DEF Admitted
    <3>3. probes' \in Nat
      BY <2>1, <2>3 DEF Admitted
    <3>4. QED
      BY <2>0, <2>2, <2>3, <3>2, <3>3 DEF Admitted
  <2>4. ASSUME NEW p \in Callers, NEW cat \in Categories, Refused(p, cat) PROVE Goal
    BY <2>0, <2>1, <2>2, <2>4 DEF Refused
  <2>5. ASSUME NEW cat \in Categories, Diagnose(cat) PROVE Goal
    BY <2>0, <2>1, <2>2, <2>5 DEF Diagnose
  <2>6. ASSUME NEW p \in Callers, Answered(p) PROVE Goal
    <3>1. PICK k \in Prices[caller[p].cat], left \in {0, caller[p].left - 1} :
            /\ usage' = Recorded(caller[p].cat, k, RecordWrites)
            /\ caller' = [caller EXCEPT ![p] = IF left = 0 THEN Idle ELSE [@ EXCEPT !.left = left]]
      BY <2>6 DEF Answered
    <3>2. caller[p].cat \in Categories /\ caller[p].left \in 0..CallsPer(caller[p].cat)
          /\ caller[p].left > 0 /\ CallsPer(caller[p].cat) \in Nat
          /\ caller[p] = [cat |-> caller[p].cat, left |-> caller[p].left]
      BY <2>0, <2>6, CallerAt, CallsPerType, Limits DEF Answered
    <3>3. StoreAt(usage', clock)
      BY <2>0, <3>1, <3>2, PriceNat, RecordStore DEF RecordWrites
    <3>4. CallersFit(caller')
      <4>1. CASE left = 0
        BY <2>0, <3>1, <4>1, CallersFreed
      <4>2. CASE left # 0
        <5>1. [caller[p] EXCEPT !.left = left] = [cat |-> caller[p].cat, left |-> left]
          BY <3>2
        <5>2. left \in 0..CallsPer(caller[p].cat)
          BY <3>1, <3>2, <4>2
        <5>3. caller' = [caller EXCEPT ![p] = [cat |-> caller[p].cat, left |-> left]]
          BY <3>1, <4>2, <5>1
        <5>4. QED
          BY <2>0, <3>2, <5>2, <5>3, CallersSet
      <4>3. QED
        BY <4>1, <4>2
    <3>5. QED
      BY <2>0, <2>1, <2>6, <3>3, <3>4 DEF Answered
  <2>7. ASSUME NEW p \in Callers, FailedForGood(p) PROVE Goal
    <3>1. StoreAt(usage', clock) /\ CallersFit(caller')
      BY <2>0, <2>7, FailStore, CallersFreed DEF FailedForGood
    <3>2. probes' \in Nat
      BY <2>1, <2>7 DEF FailedForGood
    <3>3. QED
      BY <2>0, <2>7, <3>1, <3>2 DEF FailedForGood
  <2>8. ASSUME NEW p \in Callers, FailedForNow(p) PROVE Goal
    BY <2>0, <2>8, CallersFreed DEF FailedForNow
  <2>9. ASSUME Tick PROVE Goal
    <3>1. StoreAt(usage', clock') /\ clock' \in 0..MaxClock
      BY <2>0, <2>9, StoreLater, Limits DEF Tick
    <3>2. QED
      BY <2>0, <2>9, <3>1 DEF Tick
  <2>10. ASSUME AccountChanges PROVE Goal
    BY <2>0, <2>10 DEF AccountChanges
  <2>11. ASSUME NEW u, StoreAt(u, clock), Restart(u) PROVE Goal
    <3>1. CallersFit(caller')
      <4>1. PICK p \in Callers : TRUE
        BY Limits
      <4>2. QED
        BY <2>0, <2>11, CallersFreed DEF Restart
    <3>2. probes' \in Nat /\ crashes' \in 0..MaxCrashes
      BY <2>0, <2>11, Limits DEF Restart
    <3>3. QED
      BY <2>0, <2>11, <3>1, <3>2 DEF Restart
  <2>12. ASSUME CrashIdle PROVE Goal
    BY <2>0, <2>11, <2>12 DEF CrashIdle
  <2>13. ASSUME CrashInRoll PROVE Goal
    <3>1. PICK n \in 1..RollWrites : Restart(RolledUpTo(n))
      BY <2>13 DEF CrashInRoll
    <3>2. n \in 0..RollWrites
      BY DEF RollWrites
    <3>3. QED
      BY <2>0, <2>11, <3>1, <3>2, RollStore
  <2>14. ASSUME CrashInRecord PROVE Goal
    <3>1. PICK p \in Callers, n \in 1..RecordWrites :
            \E k \in Prices[caller[p].cat] : Restart(Recorded(caller[p].cat, k, n))
      BY <2>14 DEF CrashInRecord
    <3>2. PICK k \in Prices[caller[p].cat] : Restart(Recorded(caller[p].cat, k, n))
      BY <3>1
    <3>3. caller[p].cat \in Categories /\ k \in Nat
      BY <2>0, CallerAt, PriceNat
    <3>4. QED
      BY <2>0, <2>11, <3>2, <3>3, RecordStore
  <2>15. ASSUME UNCHANGED vars PROVE Goal
    BY <2>0, <2>15 DEF vars
  <2>16. Goal
    <3> HIDE DEF Goal
    <3> QED BY <2>3, <2>4, <2>5, <2>6, <2>7, <2>8, <2>9, <2>10, <2>12, <2>13, <2>14, <2>15
            DEF Next
  <2>17. QED
    BY <2>16, TypeParts, Limits DEF TypeOK, StoreAt, CallersFit, Today
<1>3. QED
  BY <1>1, <1>2, PTL DEF Spec

-----------------------------------------------------------------------------
(* The breaker's probes.                                                    *)

\* The n-th probe of an open breaker is n - 1 intervals into its day at least.
SpacedBy(u, n) ==
  u.open /\ n > 0 => Later(u.trippedAt, u.probeAt) >= DayLen * u.date + Interval * (n - 1)

\* The bound on probes, with the spacing it follows from.
Storm == SpacedBy(usage, probes) /\ StormBounded

\* The bound on probes is a number.
LEMMA BoundType == ProbeBound \in Nat
  BY Limits, DivFacts DEF ProbeBound

\* The stamps are no later than now.
LEMMA StampTypes ==
  ASSUME clock \in Nat, NEW u, StoreAt(u, clock)
  PROVE  /\ u.date \in Nat /\ u.trippedAt \in Int /\ u.probeAt \in Int
         /\ u.trippedAt <= clock /\ u.probeAt <= clock
         /\ u.open => u.trippedAt \in Nat
  BY DEF StoreAt, Usage, Never

\* The roll keeps the spacing: a new day closes the breaker and starts a new
\* count,
LEMMA RolledSpaced ==
  ASSUME TypeOK, Storm
  PROVE  SpacedBy(Rolled, ProbesToday) /\ ProbesToday <= ProbeBound /\ ProbesToday \in Nat
<1>1. CASE usage.date = Today
  <2>1. Rolled = usage /\ ProbesToday = probes
    BY <1>1 DEF Rolled, RolledUpTo, ProbesToday
  <2>2. probes \in Nat
    BY TypeParts
  <2>3. QED
    BY <2>1, <2>2 DEF Storm, StormBounded
<1>2. CASE usage.date # Today
  <2>1. Rolled.open = FALSE /\ ProbesToday = 0
    BY <1>2 DEF Rolled, RolledUpTo, RollWrites, ProbesToday
  <2>2. QED
    BY <2>1, BoundType DEF SpacedBy
<1>3. QED
  BY <1>1, <1>2

\* a probe no call follows moves the last stamp forward,
LEMMA ProbeSpaced ==
  ASSUME TypeOK, Storm
  PROVE  SpacedBy(TakeProbe(Rolled), ProbesToday)
<1> DEFINE u == Rolled
           n == ProbesToday
<1>1. clock \in Nat /\ StoreAt(u, clock)
  BY TypeParts, Limits, RolledStore
<1>2. SpacedBy(u, n) /\ n \in Nat
  BY RolledSpaced
<1>3. CASE u.open /\ ProbeDue(u)
  <2> DEFINE r == [u EXCEPT !.probeAt = clock]
  <2>1. /\ r.date = u.date /\ r.trippedAt = u.trippedAt /\ r.probeAt = clock
        /\ u.trippedAt \in Int /\ u.probeAt \in Int /\ u.probeAt <= clock /\ u.date \in Nat
    BY <1>1, StampTypes DEF StoreAt, Usage
  <2>2. n > 0 => Later(u.trippedAt, u.probeAt) >= DayLen * u.date + Interval * (n - 1)
    BY <1>2, <1>3 DEF SpacedBy
  <2>3. DayLen * u.date + Interval * (n - 1) \in Int
    BY <1>2, <2>1, Limits
  <2>4. n > 0 => Later(r.trippedAt, r.probeAt) >= DayLen * r.date + Interval * (n - 1)
    <3> DEFINE floor == DayLen * u.date + Interval * (n - 1)
    <3> HIDE DEF u, n, r, floor
    <3>1. QED
      BY <1>1, <2>1, <2>2, <2>3 DEF Later, floor
  <2>5. SpacedBy(r, n)
    BY <2>4 DEF SpacedBy
  <2>6. QED
    BY <1>3, <2>5 DEF TakeProbe
<1>4. CASE ~(u.open /\ ProbeDue(u))
  BY <1>2, <1>4 DEF TakeProbe
<1>5. QED
  BY <1>3, <1>4

\* a call let through an open breaker is an interval after the stamp, so it is
\* counted and still fits the day,
LEMMA AdmittedSpaced ==
  ASSUME TypeOK, Storm, Rolled.open, PassesBreaker(Rolled)
  PROVE  /\ SpacedBy(TakeProbe(Rolled), ProbesToday + 1)
         /\ ProbesToday + 1 <= ProbeBound
         /\ CountProbes(ProbesToday + 1) = ProbesToday + 1
<1> DEFINE u == Rolled
           n == ProbesToday
           latest == Later(u.trippedAt, u.probeAt)
           start == DayLen * u.date
           r == [u EXCEPT !.probeAt = clock]
<1>1. clock \in Nat /\ StoreAt(u, clock) /\ u.date = Today
  BY TypeParts, Limits, RolledStore
<1>2. SpacedBy(u, n) /\ n \in Nat
  BY RolledSpaced
<1>3. u.date \in Nat /\ u.trippedAt \in Nat /\ u.probeAt \in Int
  BY <1>1, StampTypes
<1>4. latest \in Nat
  BY <1>3 DEF Later
<1>5. ProbeDue(u)
  BY DEF PassesBreaker
<1>6. clock - latest >= Interval
  BY <1>4, <1>5 DEF ProbeDue, Never
<1>7. start \in Nat /\ start <= clock /\ clock < start + DayLen
  BY <1>1, DivFacts, Limits DEF Today
<1>8. Interval * n <= clock - start /\ Interval * n \in Nat
  <2>1. CASE n = 0
    BY <1>7, <2>1, <1>1, Limits
  <2>2. CASE n > 0
    <3>1. latest >= start + Interval * (n - 1)
      BY <1>2, <2>2 DEF SpacedBy
    <3>2. Interval * (n - 1) = Interval * n - Interval /\ Interval * n \in Nat
      BY <1>2, Limits
    <3> HIDE DEF latest, start, n
    <3>3. QED
      BY <3>1, <3>2, <1>1, <1>4, <1>6, <1>7, Limits
  <2>3. QED
    BY <1>2, <2>1, <2>2
<1>9. n + 1 <= ProbeBound
  <2>1. Interval * (n + 1) = Interval * n + Interval
    BY <1>2, Limits
  <2>2. Interval * (n + 1) <= DayLen + Interval - 1
    <3> HIDE DEF start, n
    <3> QED BY <1>1, <1>7, <1>8, <2>1, Limits
  <2>3. DayLen + Interval - 1 \in Nat /\ n + 1 \in Nat
    BY <1>2, Limits
  <2>4. QED
    BY <2>2, <2>3, DivMax, Limits DEF ProbeBound
<1>10. CountProbes(n + 1) = n + 1
  BY <1>2, <1>9, BoundType DEF CountProbes, Earlier
<1>11. r.date = u.date /\ r.trippedAt = u.trippedAt /\ r.probeAt = clock
  BY <1>1 DEF StoreAt, Usage
<1>12. Later(r.trippedAt, r.probeAt) >= DayLen * r.date + Interval * ((n + 1) - 1)
  <2>1. (n + 1) - 1 = n /\ DayLen * r.date = start
    BY <1>2, <1>11
  <2>2. Later(r.trippedAt, r.probeAt) >= clock
    BY <1>1, <1>3, <1>11 DEF Later
  <2>3. Later(r.trippedAt, r.probeAt) \in Nat
    BY <1>1, <1>3, <1>11 DEF Later
  <2> HIDE DEF r, start, n, u
  <2>4. QED
    BY <1>1, <1>7, <1>8, <2>1, <2>2, <2>3
<1>13. SpacedBy(r, n + 1)
  BY <1>12 DEF SpacedBy
<1>14. QED
  BY <1>5, <1>9, <1>10, <1>13 DEF TakeProbe

\* and a failure stamps the breaker now.
LEMMA FailSpaced ==
  ASSUME TypeOK, Storm
  PROVE  SpacedBy(NoteFailure, IF Rolled.open THEN ProbesToday ELSE 0)
<1> DEFINE u == Rolled
           n == ProbesToday
           r == [u EXCEPT !.open = TRUE, !.trippedAt = clock]
<1>1. clock \in Nat /\ StoreAt(u, clock)
  BY TypeParts, Limits, RolledStore
<1>2. SpacedBy(u, n) /\ n \in Nat
  BY RolledSpaced
<1>3. /\ r.date = u.date /\ r.trippedAt = clock /\ r.probeAt = u.probeAt
      /\ u.trippedAt \in Int /\ u.trippedAt <= clock /\ u.probeAt \in Int /\ u.date \in Nat
  BY <1>1, StampTypes DEF StoreAt, Usage
<1>4. CASE u.open
  <2>1. n > 0 => Later(u.trippedAt, u.probeAt) >= DayLen * u.date + Interval * (n - 1)
    BY <1>2, <1>4 DEF SpacedBy
  <2>2. DayLen * u.date + Interval * (n - 1) \in Int
    BY <1>2, <1>3, Limits
  <2>3. n > 0 => Later(r.trippedAt, r.probeAt) >= DayLen * r.date + Interval * (n - 1)
    <3> DEFINE floor == DayLen * u.date + Interval * (n - 1)
    <3> HIDE DEF u, n, r, floor
    <3>1. QED
      BY <1>1, <1>3, <2>1, <2>2 DEF Later, floor
  <2>4. SpacedBy(r, n)
    BY <2>3 DEF SpacedBy
  <2>5. QED
    BY <1>4, <2>4 DEF NoteFailure
<1>5. CASE ~u.open
  BY <1>5 DEF SpacedBy
<1>6. QED
  BY <1>4, <1>5

\* usage.py's "failure loop is bounded": an open breaker lets no more calls
\* through in a day than probe intervals fit in it, for every interval, day,
\* number of callers, and wherever crashes fall.
THEOREM StormIsBounded == Spec => []StormBounded
<1>1. Init => Storm
  <2>1. NoUsage.open = FALSE
    BY DEF NoUsage
  <2>2. QED
    BY <2>1, BoundType DEF Init, Storm, SpacedBy, StormBounded
<1>2. TypeOK /\ Storm /\ [Next]_vars => Storm'
  <2> SUFFICES ASSUME TypeOK, Storm, [Next]_vars PROVE Storm'
    OBVIOUS
  <2> DEFINE Goal == SpacedBy(usage', probes') /\ probes' <= ProbeBound
  <2>1. /\ clock \in Nat /\ StoreAt(usage, clock) /\ CallersFit(caller) /\ probes \in Nat
        /\ SpacedBy(usage, probes) /\ probes <= ProbeBound /\ ProbeBound \in Nat
    BY TypeParts, Limits, BoundType DEF Storm, StormBounded
  <2>2. SpacedBy(Rolled, ProbesToday) /\ ProbesToday <= ProbeBound /\ ProbesToday \in Nat
    BY RolledSpaced
  <2>3. ASSUME NEW p \in Callers, NEW cat \in Categories, Admitted(p, cat) PROVE Goal
    <3>1. usage' = TakeProbe(Rolled) /\ PassesBreaker(Rolled)
          /\ probes' = (IF Rolled.open THEN CountProbes(ProbesToday + 1) ELSE ProbesToday)
      BY <2>3 DEF Admitted, BudgetRemaining
    <3>2. CASE Rolled.open
      BY <3>1, <3>2, AdmittedSpaced
    <3>3. CASE ~Rolled.open
      BY <2>2, <3>1, <3>3, ProbeSpaced
    <3>4. QED
      BY <3>2, <3>3
  <2>4. ASSUME NEW p \in Callers, NEW cat \in Categories, Refused(p, cat) PROVE Goal
    BY <2>2, <2>4, ProbeSpaced DEF Refused
  <2>5. ASSUME NEW cat \in Categories, Diagnose(cat) PROVE Goal
    BY <2>2, <2>5, ProbeSpaced DEF Diagnose
  <2>6. ASSUME NEW p \in Callers, Answered(p) PROVE Goal
    <3>1. PICK k \in Prices[caller[p].cat] : usage' = Recorded(caller[p].cat, k, RecordWrites)
      BY <2>6 DEF Answered
    <3>2. caller[p].cat \in Categories /\ k \in Nat
      BY <2>1, CallerAt, PriceNat
    <3>3. usage'.open = FALSE
      <4>1. RecordWrites \in 1..RecordWrites
        BY DEF RecordWrites
      <4>2. Recorded(caller[p].cat, k, RecordWrites).open = FALSE
        BY <2>1, <3>2, <4>1, RecordFields
      <4>3. QED
        BY <3>1, <4>2
    <3>4. QED
      BY <2>2, <2>6, <3>3 DEF Answered, SpacedBy
  <2>7. ASSUME NEW p \in Callers, FailedForGood(p) PROVE Goal
    BY <2>1, <2>2, <2>7, FailSpaced DEF FailedForGood
  <2>8. ASSUME NEW p \in Callers, FailedForNow(p) PROVE Goal
    BY <2>1, <2>8 DEF FailedForNow
  <2>9. ASSUME Tick \/ AccountChanges \/ UNCHANGED vars PROVE Goal
    BY <2>1, <2>9 DEF Tick, AccountChanges, vars
  <2>10. ASSUME CrashIdle PROVE Goal
    BY <2>1, <2>10 DEF CrashIdle, Restart
  <2>11. ASSUME CrashInRoll PROVE Goal
    <3>1. PICK n \in 1..RollWrites : usage.date # Today /\ Restart(RolledUpTo(n))
      BY <2>11 DEF CrashInRoll
    <3>2. RolledUpTo(n).date # usage.date
      BY <3>1 DEF RolledUpTo, RollWrites
    <3>3. probes' = 0
      BY <3>1, <3>2 DEF Restart
    <3>4. QED
      BY <2>1, <3>3 DEF SpacedBy
  <2>12. ASSUME CrashInRecord PROVE Goal
    <3>1. PICK p \in Callers, n \in 1..RecordWrites :
            \E k \in Prices[caller[p].cat] : Restart(Recorded(caller[p].cat, k, n))
      BY <2>12 DEF CrashInRecord
    <3>2. PICK k \in Prices[caller[p].cat] : Restart(Recorded(caller[p].cat, k, n))
      BY <3>1
    <3>3. caller[p].cat \in Categories /\ k \in Nat
      BY <2>1, CallerAt, PriceNat
    <3>4. usage'.open = FALSE /\ probes' \in {probes, 0}
      BY <2>1, <3>2, <3>3, RecordFields DEF Restart
    <3>5. QED
      BY <2>1, <3>4 DEF SpacedBy
  <2>13. Goal
    <3> HIDE DEF Goal
    <3> QED BY <2>3, <2>4, <2>5, <2>6, <2>7, <2>8, <2>9, <2>10, <2>11, <2>12 DEF Next
  <2>14. QED
    BY <2>13 DEF Storm, SpacedBy, StormBounded
<1>3. Storm => StormBounded
  BY DEF Storm
<1>4. QED
  BY <1>1, <1>2, <1>3, TypeCorrect, PTL DEF Spec

-----------------------------------------------------------------------------
(* Outstanding calls, and the meters.                                       *)

\* The calls outstanding, in all and for a category, as sums over the callers.
Left(c) == [p \in Callers |-> c[p].left]
LeftFor(c, d) == [p \in Callers |-> IF c[p].cat = d THEN c[p].left ELSE 0]
AllLeft(c) == Sum(Left(c))
OutFor(c, d) == Sum(LeftFor(c, d))

\* They are what the properties speak of.
LEMMA OutstandingIs ==
  AllOutstanding = AllLeft(caller) /\ \A d \in Categories : Outstanding(d) = OutFor(caller, d)
  BY DEF AllOutstanding, AllLeft, Left, Outstanding, OutFor, LeftFor

\* The permissions, as summands.
LEMMA LeftTypes ==
  ASSUME NEW c, CallersFit(c)
  PROVE  /\ IsFiniteSet(Callers)
         /\ Left(c) \in [Callers -> Nat] /\ Left(c) \in [Callers -> Int]
         /\ \A d : LeftFor(c, d) \in [Callers -> Nat] /\ LeftFor(c, d) \in [Callers -> Int]
<1>1. \A p \in Callers : c[p].left \in Nat
  BY Limits DEF CallersFit
<1>2. QED
  BY <1>1, Limits DEF Left, LeftFor

\* There may be one call under way at least.
LEMMA MostType == MostOutstanding \in Nat /\ MostOutstanding > 0
<1>1. Cardinality(Callers) \in Nat /\ Cardinality(Callers) # 0
  BY Limits, FS_CardinalityType, FS_EmptySet
<1>2. MaxResumes + 1 \in Nat /\ MaxResumes + 1 > 0
  BY Limits
<1>3. \A a, b \in Nat : a > 0 /\ b > 0 => a * b \in Nat /\ a * b > 0
  OBVIOUS
<1>4. QED
  BY <1>1, <1>2, <1>3 DEF MostOutstanding

\* What is outstanding is bounded by what callers can hold, and is the sum of
\* what is outstanding for each category.
LEMMA OutstandingBounds ==
  ASSUME NEW c, CallersFit(c)
  PROVE  /\ AllLeft(c) \in Nat /\ AllLeft(c) <= MostOutstanding
         /\ \A d \in Categories : OutFor(c, d) \in Nat /\ OutFor(c, d) <= AllLeft(c)
         /\ Sum([d \in Categories |-> OutFor(c, d)]) = AllLeft(c)
<1>1. AllLeft(c) \in Nat
  BY LeftTypes, SumNat DEF AllLeft
<1>2. AllLeft(c) <= MostOutstanding
  <2>1. \A p \in Callers : Left(c)[p] <= MaxResumes + 1
    BY Limits DEF CallersFit, Left
  <2>2. MaxResumes + 1 \in Int
    BY Limits
  <2>3. QED
    BY <2>1, <2>2, LeftTypes, SumBound DEF AllLeft, MostOutstanding
<1>3. ASSUME NEW d \in Categories PROVE OutFor(c, d) \in Nat
  BY LeftTypes, SumNat DEF OutFor
<1>4. Sum([d \in Categories |-> OutFor(c, d)]) = AllLeft(c)
  <2> DEFINE key == [p \in Callers |-> c[p].cat]
             f == Left(c)
  <2>1. key \in [Callers -> Categories] /\ f \in [Callers -> Int]
    BY LeftTypes DEF CallersFit
  <2>2. Sum([d \in Categories |-> Sum([p \in Callers |-> IF key[p] = d THEN f[p] ELSE 0])])
          = Sum(f)
    <3> HIDE DEF key, f
    <3> QED BY <2>1, SumByKey, Limits
  <2>3. ASSUME NEW d \in Categories
        PROVE  LeftFor(c, d) = [p \in Callers |-> IF key[p] = d THEN f[p] ELSE 0]
    BY DEF LeftFor, Left
  <2>4. [d \in Categories |-> OutFor(c, d)]
          = [d \in Categories |-> Sum([p \in Callers |-> IF key[p] = d THEN f[p] ELSE 0])]
    <3> HIDE DEF key, f
    <3> QED BY <2>3 DEF OutFor
  <2>5. QED
    BY <2>2, <2>4 DEF AllLeft
<1>5. ASSUME NEW d \in Categories PROVE OutFor(c, d) <= AllLeft(c)
  <2> DEFINE g == [e \in Categories |-> OutFor(c, e)]
  <2>1. g \in [Categories -> Nat] /\ g[d] = OutFor(c, d)
    BY <1>3
  <2>2. g[d] <= Sum(g)
    <3> HIDE DEF g
    <3> QED BY <2>1, SumMember, Limits
  <2>3. QED
    BY <1>4, <2>1, <2>2
<1>6. QED
  BY <1>1, <1>2, <1>3, <1>4, <1>5

\* One caller's step changes the totals by that caller's permission.
LEMMA OutstandingSet ==
  ASSUME NEW c, CallersFit(c), NEW e, CallersFit(e), NEW p \in Callers,
         \A q \in Callers \ {p} : e[q] = c[q]
  PROVE  /\ AllLeft(e) = AllLeft(c) + (e[p].left - c[p].left)
         /\ \A d \in Categories :
              OutFor(e, d) = OutFor(c, d)
                + ((IF e[p].cat = d THEN e[p].left ELSE 0)
                   - (IF c[p].cat = d THEN c[p].left ELSE 0))
<1>1. c \in [Callers -> [cat : Categories, left : 0..MaxResumes + 1]]
  BY DEF CallersFit
<1>2. \A q \in Callers \ {p} : e[q] = c[q]
  OBVIOUS
<1>3. AllLeft(e) = AllLeft(c) + (Left(e)[p] - Left(c)[p])
  <2>1. \A q \in Callers \ {p} : Left(e)[q] = Left(c)[q]
    BY <1>2 DEF Left
  <2>2. Left(e) \in [Callers -> Int] /\ Left(c) \in [Callers -> Int] /\ IsFiniteSet(Callers)
    BY LeftTypes
  <2>3. QED
    BY <2>1, <2>2, SumChange DEF AllLeft
<1>4. Left(e)[p] = e[p].left /\ Left(c)[p] = c[p].left
  BY DEF Left
<1>5. ASSUME NEW d
      PROVE  OutFor(e, d) = OutFor(c, d) + (LeftFor(e, d)[p] - LeftFor(c, d)[p])
  <2>1. \A q \in Callers \ {p} : LeftFor(e, d)[q] = LeftFor(c, d)[q]
    BY DEF LeftFor
  <2>2. LeftFor(e, d) \in [Callers -> Int] /\ LeftFor(c, d) \in [Callers -> Int]
        /\ IsFiniteSet(Callers)
    BY LeftTypes
  <2>3. QED
    BY <2>1, <2>2, SumChange DEF OutFor
<1>6. ASSUME NEW d
      PROVE  /\ LeftFor(e, d)[p] = (IF e[p].cat = d THEN e[p].left ELSE 0)
             /\ LeftFor(c, d)[p] = (IF c[p].cat = d THEN c[p].left ELSE 0)
  BY DEF LeftFor
<1>7. QED
  BY <1>3, <1>4, <1>5, <1>6

\* With every caller idle nothing is outstanding.
LEMMA NoneOutstanding ==
  ASSUME NEW c, c = [p \in Callers |-> Idle]
  PROVE  AllLeft(c) = 0 /\ \A d : OutFor(c, d) = 0
<1>1. Left(c) = [p \in Callers |-> 0] /\ \A d : LeftFor(c, d) = [p \in Callers |-> 0]
  BY DEF Left, LeftFor, Idle
<1>2. QED
  BY <1>1, SumZero, Limits DEF AllLeft, OutFor

\* One permission makes the totals positive.
LEMMA SomeOutstanding ==
  ASSUME NEW c, CallersFit(c), NEW p \in Callers, c[p].left > 0
  PROVE  AllLeft(c) > 0 /\ OutFor(c, c[p].cat) > 0
<1>1. Left(c)[p] <= AllLeft(c) /\ LeftFor(c, c[p].cat)[p] <= OutFor(c, c[p].cat)
  BY LeftTypes, SumMember DEF AllLeft, OutFor
<1>2. Left(c)[p] = c[p].left /\ LeftFor(c, c[p].cat)[p] = c[p].left /\ c[p].left \in Nat
  BY LeftTypes DEF Left, LeftFor
<1>3. AllLeft(c) \in Nat /\ OutFor(c, c[p].cat) \in Nat
  BY OutstandingBounds DEF CallersFit
<1>4. QED
  BY <1>1, <1>2, <1>3

\* A finite set of naturals has a largest member.
LEMMA MaxExists ==
  ASSUME NEW S \in SUBSET Nat, IsFiniteSet(S), S # {}
  PROVE  \E m \in S : \A j \in S : j <= m
<1> DEFINE T == {s \in SUBSET S : s # {} => \E m \in s : \A j \in s : j <= m}
<1>1. {} \in T
  OBVIOUS
<1>2. \A s \in SUBSET S : s # {} /\ (\A x \in s : s \ {x} \in T) => s \in T
  <2> SUFFICES ASSUME NEW s \in SUBSET S, s # {}, \A x \in s : s \ {x} \in T
               PROVE  \E m \in s : \A j \in s : j <= m
    OBVIOUS
  <2>1. PICK x \in s : TRUE
    OBVIOUS
  <2>2. CASE s = {x}
    BY <2>2
  <2>3. CASE s # {x}
    <3>1. PICK m \in s \ {x} : \A j \in s \ {x} : j <= m
      BY <2>1, <2>3
    <3>2. CASE x <= m
      BY <3>1, <3>2
    <3>3. CASE m <= x
      BY <3>1, <3>3
    <3>4. QED
      BY <3>1, <3>2, <3>3
  <2>4. QED
    BY <2>2, <2>3
<1>3. S \in T
  <2> HIDE DEF T
  <2> QED BY <1>1, <1>2, SetInduction
<1>4. QED
  BY <1>3

\* No price is above the dearest.
LEMMA DearestIs ==
  Dearest \in Nat /\ \A c \in Categories : \A j \in Prices[c] : j <= Dearest
<1> DEFINE sets == {Prices[c] : c \in Categories}
           S == UNION sets
<1>1. IsFiniteSet(sets)
  <2>1. Prices \in Surjection(Categories, sets)
    BY UsageAssumption DEF Surjection
  <2>2. QED
    BY <2>1, FS_Surjection, Limits
<1>2. \A s \in sets : IsFiniteSet(s)
  BY UsageAssumption
<1>3. IsFiniteSet(S)
  <2> HIDE DEF sets
  <2> QED BY <1>1, <1>2, FS_UNION
<1>4. S \in SUBSET Nat
  BY UsageAssumption
<1>5. S # {}
  <2>1. Prices[Research] # {} /\ Research \in Categories
    BY UsageAssumption
  <2>2. QED
    BY <2>1
<1>6. \E m \in S : \A j \in S : j <= m
  <2> HIDE DEF S
  <2> QED BY <1>3, <1>4, <1>5, MaxExists
<1>7. \E m \in S : \A c \in Categories : \A j \in Prices[c] : j <= m
  BY <1>6
<1>8. Dearest \in S /\ \A c \in Categories : \A j \in Prices[c] : j <= Dearest
  BY <1>7 DEF Dearest
<1>9. QED
  BY <1>4, <1>8

\* Being let in adds a permission to one category and to the whole,
LEMMA AdmitCallers ==
  ASSUME TypeOK, NEW p \in Callers, NEW cat \in Categories, Admitted(p, cat)
  PROVE  /\ CallersFit(caller')
         /\ AllLeft(caller') = AllLeft(caller) + CallsPer(cat)
         /\ OutFor(caller', cat) = OutFor(caller, cat) + CallsPer(cat)
         /\ \A d \in Categories \ {cat} : OutFor(caller', d) = OutFor(caller, d)
<1> DEFINE v == [cat |-> cat, left |-> CallsPer(cat)]
           c == caller
           e == caller'
<1>1. CallersFit(c) /\ c[p].left = 0 /\ e = [c EXCEPT ![p] = v]
  BY TypeParts DEF Admitted
<1>2. CallsPer(cat) \in Nat /\ CallsPer(cat) \in 0..CallsPer(cat)
  BY CallsPerType, Limits
<1>3. CallersFit(e)
  BY <1>1, <1>2, CallersSet
<1>4. AllLeft(c) \in Nat /\ \A d \in Categories : OutFor(c, d) \in Nat
  BY <1>1, OutstandingBounds
<1>5. /\ e[p].left = CallsPer(cat) /\ e[p].cat = cat /\ \A q \in Callers \ {p} : e[q] = c[q]
      /\ CallersFit(c) /\ c[p].left = 0
  BY <1>1 DEF CallersFit
<1> HIDE DEF v, c, e
<1>6. /\ AllLeft(e) = AllLeft(c) + (e[p].left - c[p].left)
      /\ \A d \in Categories :
           OutFor(e, d) = OutFor(c, d)
             + ((IF e[p].cat = d THEN e[p].left ELSE 0)
                - (IF c[p].cat = d THEN c[p].left ELSE 0))
  BY <1>3, <1>5, OutstandingSet
<1>7. /\ CallersFit(e)
      /\ AllLeft(e) = AllLeft(c) + CallsPer(cat)
      /\ OutFor(e, cat) = OutFor(c, cat) + CallsPer(cat)
      /\ \A d \in Categories \ {cat} : OutFor(e, d) = OutFor(c, d)
  BY <1>2, <1>3, <1>4, <1>5, <1>6
<1>8. QED
  BY <1>7 DEF c, e

\* a failure only takes away,
LEMMA FreeCallers ==
  ASSUME TypeOK, NEW p \in Callers, caller' = [caller EXCEPT ![p] = Idle]
  PROVE  /\ CallersFit(caller')
         /\ AllLeft(caller') <= AllLeft(caller)
         /\ \A d \in Categories : OutFor(caller', d) <= OutFor(caller, d)
<1> DEFINE c == caller
           e == caller'
<1>1. CallersFit(c) /\ CallersFit(e)
  BY TypeParts, CallersFreed
<1>2. AllLeft(c) \in Nat /\ \A d \in Categories : OutFor(c, d) \in Nat
  BY <1>1, OutstandingBounds
<1>3. e[p].left = 0 /\ c[p].left \in Nat /\ \A q \in Callers \ {p} : e[q] = c[q]
  BY <1>1, Limits DEF CallersFit, Idle
<1> HIDE DEF c, e
<1>4. /\ AllLeft(e) = AllLeft(c) + (e[p].left - c[p].left)
      /\ \A d \in Categories :
           OutFor(e, d) = OutFor(c, d)
             + ((IF e[p].cat = d THEN e[p].left ELSE 0)
                - (IF c[p].cat = d THEN c[p].left ELSE 0))
  BY <1>1, <1>3, OutstandingSet
<1>5. AllLeft(e) <= AllLeft(c) /\ \A d \in Categories : OutFor(e, d) <= OutFor(c, d)
  BY <1>2, <1>3, <1>4
<1>6. QED
  BY <1>1, <1>5 DEF c, e

\* and an answer takes one call away at least, from the category that is
\* charged.
LEMMA AnswerCallers ==
  ASSUME TypeOK, NEW p \in Callers, Answered(p)
  PROVE  /\ CallersFit(caller')
         /\ AllLeft(caller') <= AllLeft(caller) - 1
         /\ OutFor(caller', caller[p].cat) <= OutFor(caller, caller[p].cat) - 1
         /\ \A d \in Categories \ {caller[p].cat} : OutFor(caller', d) = OutFor(caller, d)
<1> DEFINE cat == caller[p].cat
           c == caller
           e == caller'
<1>1. PICK left \in {0, caller[p].left - 1} :
        caller' = [caller EXCEPT ![p] = IF left = 0 THEN Idle ELSE [@ EXCEPT !.left = left]]
  BY DEF Answered
<1>2. /\ CallersFit(caller) /\ cat \in Categories /\ caller[p].left \in 0..CallsPer(cat)
      /\ caller[p].left > 0 /\ caller[p].left \in Nat /\ CallsPer(cat) \in Nat
      /\ caller[p] = [cat |-> cat, left |-> caller[p].left]
  BY TypeParts, CallerAt, CallsPerType, Limits DEF Answered
<1>3. /\ e[p].left = left /\ (left > 0 => e[p].cat = cat)
      /\ CallersFit(e) /\ \A q \in Callers \ {p} : e[q] = c[q]
  <2>1. CASE left = 0
    <3>1. e = [c EXCEPT ![p] = Idle]
      BY <1>1, <2>1
    <3>2. CallersFit(e)
      BY <1>2, <3>1, CallersFreed
    <3>3. e[p].left = 0 /\ \A q \in Callers \ {p} : e[q] = c[q]
      BY <1>2, <3>1 DEF Idle, CallersFit
    <3>4. QED
      BY <2>1, <3>2, <3>3
  <2>2. CASE left # 0
    <3>1. left \in 0..CallsPer(cat)
      BY <1>1, <1>2, <2>2
    <3>2. [caller[p] EXCEPT !.left = left] = [cat |-> cat, left |-> left]
      BY <1>2
    <3>3. caller' = [caller EXCEPT ![p] = [cat |-> cat, left |-> left]]
      BY <1>1, <2>2, <3>2
    <3>4. CallersFit(caller')
      BY <1>2, <3>1, <3>3, CallersSet
    <3>5. e[p].left = left /\ e[p].cat = cat /\ \A q \in Callers \ {p} : e[q] = c[q]
      BY <1>2, <3>3 DEF CallersFit
    <3>6. QED
      BY <3>4, <3>5
  <2>3. QED
    BY <2>1, <2>2
<1>4. AllLeft(c) \in Nat /\ \A d \in Categories : OutFor(c, d) \in Nat
  BY <1>2, OutstandingBounds
<1>5. left \in Nat /\ left <= c[p].left - 1 /\ c[p].left \in Nat /\ cat \in Categories
      /\ CallersFit(c) /\ c[p].cat = cat
  BY <1>1, <1>2
<1> HIDE DEF c, e, cat
<1>6. /\ AllLeft(e) = AllLeft(c) + (e[p].left - c[p].left)
      /\ \A d \in Categories :
           OutFor(e, d) = OutFor(c, d)
             + ((IF e[p].cat = d THEN e[p].left ELSE 0)
                - (IF c[p].cat = d THEN c[p].left ELSE 0))
  BY <1>3, <1>5, OutstandingSet
<1>7. /\ AllLeft(e) <= AllLeft(c) - 1
      /\ OutFor(e, cat) <= OutFor(c, cat) - 1
      /\ \A d \in Categories \ {cat} : OutFor(e, d) = OutFor(c, d)
  BY <1>3, <1>4, <1>5, <1>6
<1>8. QED
  BY <1>3, <1>7 DEF c, e, cat

\* The meters are natural numbers.
LEMMA StoreMoney ==
  ASSUME NEW u, NEW t, StoreAt(u, t)
  PROVE  /\ u.calls \in Nat /\ u.usd \in Nat
         /\ u.usdBy \in [Categories -> Nat] /\ u.callsBy \in [Categories -> Nat]
  BY DEF StoreAt, Usage

\* Two stores with the same meters.
SameMoney(u, w) ==
  u.calls = w.calls /\ u.usd = w.usd /\ u.usdBy = w.usdBy /\ u.callsBy = w.callsBy

\* Taking a probe and noting a failure leave the meters alone.
LEMMA CheckedMoney ==
  ASSUME clock \in Nat, StoreAt(usage, clock)
  PROVE  SameMoney(TakeProbe(Rolled), Rolled) /\ SameMoney(NoteFailure, Rolled)
<1> DEFINE u == Rolled
<1>1. u \in Usage
  BY RolledStore DEF StoreAt
<1>2. SameMoney([u EXCEPT !.probeAt = clock], u)
      /\ SameMoney([u EXCEPT !.open = TRUE, !.trippedAt = clock], u)
  BY <1>1 DEF Usage, SameMoney
<1>3. SameMoney(u, u)
  BY DEF SameMoney
<1>4. QED
  BY <1>2, <1>3 DEF TakeProbe, NoteFailure

\* No call of any category.
NoneBy == [c \in Categories |-> 0]

\* A roll cut off leaves each meter as it was or zero, and the day's calls zero
\* no later than the categories'.
LEMMA RolledMoney ==
  ASSUME NEW n \in 0..RollWrites
  PROVE  LET r == RolledUpTo(n)
         IN  /\ r.calls \in {usage.calls, 0} /\ r.usd \in {usage.usd, 0}
             /\ r.callsBy \in {usage.callsBy, NoneBy}
             /\ r.callsBy = usage.callsBy \/ r.calls = 0
  BY DEF RolledUpTo, NoneBy

\* A whole roll leaves all of them as they were or zero.
LEMMA FullyRolled ==
  \/ Rolled = usage
  \/ Rolled.calls = 0 /\ Rolled.usd = 0 /\ Rolled.callsBy = NoneBy
  BY DEF Rolled, RolledUpTo, RollWrites, NoneBy

\* The whole roll is the roll of all its writes.
LEMMA RolledIs == Rolled = RolledUpTo(RollWrites) /\ RollWrites \in 0..RollWrites
  BY DEF Rolled, RollWrites

-----------------------------------------------------------------------------
(* Shares.                                                                  *)

\* The bound on a category, for any store and callers.
ShareCap(d) == (CallBudget * Share[d] + 9) \div 10
ShareLimit(d) == IF ShareCap(d) = 0 THEN 0 ELSE ShareCap(d) - 1 + MostOutstanding
ShareAt(u, c) ==
  \A d \in Categories : Share[d] < 10 => u.callsBy[d] + OutFor(c, d) <= ShareLimit(d)

\* It is the property.
LEMMA ShareIs == ShareKept <=> ShareAt(usage, caller)
  BY OutstandingIs DEF ShareKept, ShareAt, ShareLimit, ShareCap

\* The cap of a share in calls is the share rounded up.
LEMMA ShareTypes ==
  ASSUME NEW d \in Categories
  PROVE  /\ Share[d] \in 0..10 /\ CallBudget * Share[d] \in Nat
         /\ ShareCap(d) \in Nat /\ ShareLimit(d) \in Nat
         /\ CallBudget * Share[d] < 10 * ShareCap(d) + 1
<1>1. Share[d] \in 0..10 /\ CallBudget \in Nat
  BY UsageAssumption
<1>2. CallBudget * Share[d] \in Nat
  BY <1>1
<1> DEFINE n == CallBudget * Share[d]
<1> HIDE DEF n
<1>3. (n + 9) \div 10 \in Nat /\ n + 9 < 10 * ((n + 9) \div 10) + 10
  BY <1>2, Tenth DEF n
<1>4. ShareCap(d) \in Nat /\ n < 10 * ShareCap(d) + 1
  BY <1>2, <1>3 DEF ShareCap, n
<1>5. QED
  BY <1>1, <1>2, <1>4, MostType DEF ShareLimit, n

\* The bound depends on the meters only,
LEMMA ShareMoney ==
  ASSUME NEW u, NEW w, NEW c, SameMoney(u, w), ShareAt(w, c)
  PROVE  ShareAt(u, c)
  BY DEF SameMoney, ShareAt

\* survives a roll however far it has come,
LEMMA ShareRolled ==
  ASSUME TypeOK, ShareAt(usage, caller), NEW n \in 0..RollWrites
  PROVE  ShareAt(RolledUpTo(n), caller)
<1> DEFINE r == RolledUpTo(n)
<1>1. r.callsBy \in {usage.callsBy, NoneBy}
  BY RolledMoney
<1>2. CASE r.callsBy = usage.callsBy
  BY <1>2 DEF ShareAt
<1>3. CASE r.callsBy = NoneBy
  <2> SUFFICES ASSUME NEW d \in Categories, Share[d] < 10
               PROVE  r.callsBy[d] + OutFor(caller, d) <= ShareLimit(d)
    BY DEF ShareAt
  <2>1. r.callsBy[d] = 0
    BY <1>3 DEF NoneBy
  <2>2. usage.callsBy[d] \in Nat
    BY TypeParts, StoreMoney
  <2>3. /\ OutFor(caller, d) \in Nat /\ OutFor(caller, d) <= AllLeft(caller)
        /\ AllLeft(caller) <= MostOutstanding /\ AllLeft(caller) \in Nat
    BY TypeParts, OutstandingBounds
  <2>4. usage.callsBy[d] + OutFor(caller, d) <= ShareLimit(d)
    BY DEF ShareAt
  <2> HIDE DEF r
  <2>5. QED
    BY <2>1, <2>2, <2>3, <2>4, ShareTypes, MostType DEF ShareLimit
<1>4. QED
  BY <1>1, <1>2, <1>3

\* leaves room where a call is let in,
LEMMA ShareAdmits ==
  ASSUME NEW u, NEW t, StoreAt(u, t), NEW cat \in Categories, ShareRoom(u, cat), Share[cat] < 10
  PROVE  u.callsBy[cat] <= ShareCap(cat) - 1 /\ ShareCap(cat) # 0
<1>1. 10 * u.callsBy[cat] < CallBudget * Share[cat] /\ u.callsBy[cat] \in Nat
  BY StoreMoney DEF ShareRoom
<1>2. QED
  BY <1>1, ShareTypes

\* and survives whatever takes permissions away.
LEMMA ShareFewer ==
  ASSUME NEW u, NEW t, StoreAt(u, t), NEW c, NEW e, CallersFit(c), CallersFit(e), ShareAt(u, c),
         \A d \in Categories : OutFor(e, d) <= OutFor(c, d)
  PROVE  ShareAt(u, e)
<1> SUFFICES ASSUME NEW d \in Categories, Share[d] < 10
             PROVE  u.callsBy[d] + OutFor(e, d) <= ShareLimit(d)
  BY DEF ShareAt
<1>1. u.callsBy[d] + OutFor(c, d) <= ShareLimit(d) /\ OutFor(e, d) <= OutFor(c, d)
  BY DEF ShareAt
<1>2. u.callsBy[d] \in Nat /\ OutFor(c, d) \in Nat /\ OutFor(e, d) \in Nat /\ ShareLimit(d) \in Nat
  BY StoreMoney, OutstandingBounds, ShareTypes
<1>3. QED
  BY <1>1, <1>2

\* Idle callers fit, and hold nothing.
LEMMA IdleCallers ==
  ASSUME NEW c, c = [p \in Callers |-> Idle]
  PROVE  CallersFit(c) /\ AllLeft(c) = 0 /\ \A d : OutFor(c, d) = 0
<1>1. Idle \in [cat : Categories, left : 0..MaxResumes + 1] /\ Idle.left = 0
  BY Limits DEF Idle
<1>2. 0 <= CallsPer(Idle.cat)
  BY <1>1, CallsPerType, Limits
<1>3. CallersFit(c)
  <2> HIDE DEF Idle
  <2> QED BY <1>1, <1>2 DEF CallersFit
<1>4. QED
  BY <1>3, NoneOutstanding

\* The meters, after the first writes of record.
LEMMA RecordMoney ==
  ASSUME clock \in Nat, StoreAt(usage, clock), NEW c \in Categories, NEW k \in Nat,
         NEW n \in 1..RecordWrites
  PROVE  LET u == Rolled
             r == Recorded(c, k, n)
         IN  /\ r.calls \in Nat /\ u.calls \in Nat
             /\ r.calls = (IF n >= 2 THEN u.calls + 1 ELSE u.calls)
             /\ r.usd \in Nat /\ u.usd \in Nat
             /\ r.usd = (IF n >= 3 THEN u.usd + k ELSE u.usd)
             /\ r.callsBy \in [Categories -> Nat] /\ u.callsBy \in [Categories -> Nat]
             /\ r.callsBy[c] = (IF n >= 5 THEN u.callsBy[c] + 1 ELSE u.callsBy[c])
             /\ \A d \in Categories \ {c} : r.callsBy[d] = u.callsBy[d]
<1> DEFINE u == Rolled
           r == Recorded(c, k, n)
<1>1. StoreAt(u, clock) /\ StoreAt(r, clock)
  BY RolledStore, RecordStore
<1>2. /\ u.calls \in Nat /\ u.usd \in Nat /\ u.callsBy \in [Categories -> Nat]
      /\ r.calls \in Nat /\ r.usd \in Nat /\ r.callsBy \in [Categories -> Nat]
  BY <1>1, StoreMoney
<1>3. /\ r.calls = (IF n >= 2 THEN u.calls + 1 ELSE u.calls)
      /\ r.usd = (IF n >= 3 THEN u.usd + k ELSE u.usd)
      /\ r.callsBy = [u.callsBy EXCEPT ![c] = IF n >= 5 THEN @ + 1 ELSE @]
  <2>1. r.calls = (IF n >= 2 THEN u.calls + 1 ELSE u.calls)
    BY RecordFields
  <2>2. r.usd = (IF n >= 3 THEN u.usd + k ELSE u.usd)
    BY RecordFields
  <2>3. r.callsBy = [u.callsBy EXCEPT ![c] = IF n >= 5 THEN @ + 1 ELSE @]
    BY RecordFields
  <2>4. QED
    BY <2>1, <2>2, <2>3
<1>4. QED
  <2> HIDE DEF u, r
  <2>1. /\ r.callsBy[c] = (IF n >= 5 THEN u.callsBy[c] + 1 ELSE u.callsBy[c])
        /\ \A d \in Categories \ {c} : r.callsBy[d] = u.callsBy[d]
    BY <1>2, <1>3
  <2>2. QED
    BY <1>2, <1>3, <2>1 DEF u, r

\* usage.py's category shares: a capped category passes its share of the calls
\* by less than what its callers were let in for, and one switched off makes no
\* call, for every share, budget, number of callers and wherever a roll or a
\* record is cut off.
THEOREM ShareIsKept == Spec => []ShareKept
<1>1. Init => ShareKept
  <2> SUFFICES ASSUME Init PROVE ShareKept
    OBVIOUS
  <2>1. \A d : OutFor(caller, d) = 0
    BY IdleCallers DEF Init
  <2>2. \A d \in Categories : usage.callsBy[d] = 0
    BY DEF Init, NoUsage
  <2>3. ShareAt(usage, caller)
    BY <2>1, <2>2, ShareTypes DEF ShareAt
  <2>4. QED
    BY <2>3, ShareIs
<1>2. TypeOK /\ ShareKept /\ [Next]_vars => ShareKept'
  <2> SUFFICES ASSUME TypeOK, ShareKept, [Next]_vars PROVE ShareKept'
    OBVIOUS
  <2> DEFINE Goal == ShareAt(usage', caller')
  <2>1. /\ clock \in Nat /\ StoreAt(usage, clock) /\ CallersFit(caller)
        /\ ShareAt(usage, caller) /\ StoreAt(Rolled, clock)
    BY TypeParts, Limits, ShareIs, RolledStore
  <2>2. ShareAt(Rolled, caller)
    BY <2>1, ShareRolled, RolledIs
  <2>3. ShareAt(TakeProbe(Rolled), caller) /\ ShareAt(NoteFailure, caller)
    BY <2>1, <2>2, CheckedMoney, ShareMoney
  <2>4. ASSUME NEW p \in Callers, NEW cat \in Categories, Admitted(p, cat) PROVE Goal
    <3>1. /\ CallersFit(caller')
          /\ \A d \in Categories \ {cat} : OutFor(caller', d) = OutFor(caller, d)
      BY <2>4, AdmitCallers
    <3>2. ShareRoom(Rolled, cat) /\ usage' = TakeProbe(Rolled)
      BY <2>4 DEF Admitted, BudgetRemaining, WithinCaps
    <3>3. ShareAt(Rolled, caller')
      <4> SUFFICES ASSUME NEW d \in Categories, Share[d] < 10
                   PROVE  Rolled.callsBy[d] + OutFor(caller', d) <= ShareLimit(d)
        BY DEF ShareAt
      <4>1. CASE d # cat
        BY <2>2, <3>1, <4>1 DEF ShareAt
      <4>2. CASE d = cat
        <5>1. Rolled.callsBy[d] <= ShareCap(d) - 1 /\ ShareCap(d) # 0
          BY <2>1, <3>2, <4>2, ShareAdmits
        <5>2. /\ OutFor(caller', d) \in Nat /\ OutFor(caller', d) <= AllLeft(caller')
              /\ AllLeft(caller') <= MostOutstanding /\ AllLeft(caller') \in Nat
          BY <3>1, OutstandingBounds
        <5>3. Rolled.callsBy[d] \in Nat
          BY <2>1, StoreMoney
        <5>4. QED
          BY <5>1, <5>2, <5>3, ShareTypes, MostType DEF ShareLimit
      <4>3. QED
        BY <4>1, <4>2
    <3>4. SameMoney(usage', Rolled)
      BY <2>1, <3>2, CheckedMoney
    <3>5. QED
      BY <3>3, <3>4, ShareMoney
  <2>5. ASSUME NEW p \in Callers, NEW cat \in Categories, Refused(p, cat) PROVE Goal
    BY <2>3, <2>5 DEF Refused
  <2>6. ASSUME NEW cat \in Categories, Diagnose(cat) PROVE Goal
    BY <2>3, <2>6 DEF Diagnose
  <2>7. ASSUME NEW p \in Callers, Answered(p) PROVE Goal
    <3> DEFINE cat == caller[p].cat
    <3>1. PICK k \in Prices[cat] : usage' = Recorded(cat, k, RecordWrites)
      BY <2>7 DEF Answered
    <3>2. cat \in Categories /\ k \in Nat /\ RecordWrites \in 1..RecordWrites
      <4>1. cat \in Categories
        BY <2>1, CallerAt
      <4>2. RecordWrites \in 1..RecordWrites
        BY DEF RecordWrites
      <4>3. QED
        BY <4>1, <4>2, PriceNat
    <3>3. /\ CallersFit(caller') /\ OutFor(caller', cat) <= OutFor(caller, cat) - 1
          /\ \A d \in Categories \ {cat} : OutFor(caller', d) = OutFor(caller, d)
      BY <2>7, AnswerCallers
    <3>4. /\ usage'.callsBy[cat] = Rolled.callsBy[cat] + 1
          /\ \A d \in Categories \ {cat} : usage'.callsBy[d] = Rolled.callsBy[d]
          /\ Rolled.callsBy \in [Categories -> Nat]
      BY <2>1, <3>1, <3>2, RecordMoney DEF RecordWrites
    <3>5. \A d \in Categories : OutFor(caller, d) \in Nat /\ OutFor(caller', d) \in Nat
      BY <2>1, <3>3, OutstandingBounds
    <3>6. ASSUME NEW d \in Categories, Share[d] < 10
          PROVE  usage'.callsBy[d] + OutFor(caller', d) <= ShareLimit(d)
      <4>1. Rolled.callsBy[d] + OutFor(caller, d) <= ShareLimit(d) /\ ShareLimit(d) \in Nat
        BY <2>2, <3>6, ShareTypes DEF ShareAt
      <4>2. CASE d = cat
        BY <3>2, <3>3, <3>4, <3>5, <4>1, <4>2
      <4>3. CASE d # cat
        BY <3>3, <3>4, <4>1, <4>3
      <4>4. QED
        BY <4>2, <4>3
    <3>7. QED
      BY <3>6 DEF ShareAt
  <2>8. ASSUME NEW p \in Callers, FailedForGood(p) PROVE Goal
    <3>1. /\ usage' = NoteFailure /\ CallersFit(caller')
          /\ \A d \in Categories : OutFor(caller', d) <= OutFor(caller, d)
      BY <2>8, FreeCallers DEF FailedForGood
    <3>2. StoreAt(usage', clock)
      BY <2>1, <3>1, FailStore
    <3>3. QED
      BY <2>1, <2>3, <3>1, <3>2, ShareFewer
  <2>9. ASSUME NEW p \in Callers, FailedForNow(p) PROVE Goal
    <3>1. /\ usage' = usage /\ CallersFit(caller')
          /\ \A d \in Categories : OutFor(caller', d) <= OutFor(caller, d)
      BY <2>9, FreeCallers DEF FailedForNow
    <3>2. QED
      BY <2>1, <3>1, ShareFewer
  <2>10. ASSUME Tick \/ AccountChanges \/ UNCHANGED vars PROVE Goal
    BY <2>1, <2>10 DEF Tick, AccountChanges, vars
  <2>11. ASSUME NEW u, StoreAt(u, clock), ShareAt(u, caller), Restart(u) PROVE Goal
    <3>1. usage' = u /\ CallersFit(caller') /\ \A d : OutFor(caller', d) = 0
      BY <2>11, IdleCallers DEF Restart
    <3>2. \A d \in Categories : OutFor(caller, d) \in Nat
      BY <2>1, OutstandingBounds
    <3>3. QED
      BY <2>1, <2>11, <3>1, <3>2, ShareFewer
  <2>12. ASSUME CrashIdle PROVE Goal
    BY <2>1, <2>11, <2>12 DEF CrashIdle
  <2>13. ASSUME CrashInRoll PROVE Goal
    <3>1. PICK n \in 1..RollWrites : Restart(RolledUpTo(n))
      BY <2>13 DEF CrashInRoll
    <3>2. n \in 0..RollWrites
      BY DEF RollWrites
    <3>3. StoreAt(RolledUpTo(n), clock) /\ ShareAt(RolledUpTo(n), caller)
      BY <2>1, <3>2, RollStore, ShareRolled
    <3>4. QED
      BY <2>11, <3>1, <3>3
  <2>14. ASSUME CrashInRecord PROVE Goal
    <3>1. PICK p \in Callers, n \in 1..RecordWrites :
            \E k \in Prices[caller[p].cat] :
              caller[p].left > 0 /\ Restart(Recorded(caller[p].cat, k, n))
      BY <2>14 DEF CrashInRecord
    <3> DEFINE cat == caller[p].cat
    <3>2. PICK k \in Prices[cat] : caller[p].left > 0 /\ Restart(Recorded(cat, k, n))
      BY <3>1
    <3>3. cat \in Categories /\ k \in Nat
      BY <2>1, CallerAt, PriceNat
    <3>4. usage' = Recorded(cat, k, n) /\ \A d : OutFor(caller', d) = 0
      BY <3>2, IdleCallers DEF Restart
    <3>5. /\ usage'.callsBy[cat] \in {Rolled.callsBy[cat], Rolled.callsBy[cat] + 1}
          /\ \A d \in Categories \ {cat} : usage'.callsBy[d] = Rolled.callsBy[d]
          /\ Rolled.callsBy \in [Categories -> Nat]
      BY <2>1, <3>3, <3>4, RecordMoney
    <3>6. OutFor(caller, cat) > 0 /\ \A d \in Categories : OutFor(caller, d) \in Nat
      BY <2>1, <3>2, SomeOutstanding, OutstandingBounds
    <3>7. ASSUME NEW d \in Categories, Share[d] < 10
          PROVE  usage'.callsBy[d] + OutFor(caller', d) <= ShareLimit(d)
      <4>1. Rolled.callsBy[d] + OutFor(caller, d) <= ShareLimit(d) /\ ShareLimit(d) \in Nat
        BY <2>2, <3>7, ShareTypes DEF ShareAt
      <4>2. CASE d = cat
        BY <3>3, <3>4, <3>5, <3>6, <4>1, <4>2
      <4>3. CASE d # cat
        BY <3>4, <3>5, <3>6, <4>1, <4>3
      <4>4. QED
        BY <4>2, <4>3
    <3>8. QED
      BY <3>7 DEF ShareAt
  <2>15. Goal
    <3> HIDE DEF Goal
    <3> QED BY <2>4, <2>5, <2>6, <2>7, <2>8, <2>9, <2>10, <2>12, <2>13, <2>14 DEF Next
  <2>16. QED
    BY <2>15 DEF ShareKept, ShareAt, ShareLimit, ShareCap, Outstanding, OutFor, LeftFor
<1>3. QED
  BY <1>1, <1>2, TypeCorrect, PTL DEF Spec

-----------------------------------------------------------------------------
(* The day's two caps.                                                      *)

\* The bound on both meters, for any store and callers.
MeterAt(u, c) ==
  /\ u.calls + AllLeft(c) < CallBudget + MostOutstanding
  /\ UsdBudget > 0 =>
       u.usd + Dearest * AllLeft(c) < UsdBudget + Dearest * MostOutstanding

\* It is the property.
LEMMA MeterIs == MeterBounded <=> MeterAt(usage, caller)
  BY OutstandingIs DEF MeterBounded, MeterAt

\* Multiples of the dearest price.
LEMMA DearestTimes ==
  ASSUME NEW a \in Nat, NEW b \in Nat, a <= b
  PROVE  /\ Dearest * a \in Nat /\ Dearest * a <= Dearest * b
         /\ Dearest * (a + 1) = Dearest * a + Dearest
<1>1. \A d, x, y \in Nat : x <= y => /\ d * x \in Nat /\ d * x <= d * y
                                    /\ d * (x + 1) = d * x + d
  OBVIOUS
<1>2. QED
  BY <1>1, DearestIs

\* A reservation in calls is its share rounded down.
LEMMA ReservedType ==
  ASSUME NEW d \in Categories
  PROVE  /\ Reserved[d] \in 0..10 /\ CallBudget * Reserved[d] \in Nat
         /\ UsdBudget * Reserved[d] \in Nat
         /\ ReservedCalls(d) \in Nat /\ 10 * ReservedCalls(d) <= CallBudget * Reserved[d]
<1>1. Reserved[d] \in 0..10 /\ CallBudget \in Nat /\ UsdBudget \in Nat
  BY UsageAssumption
<1>2. CallBudget * Reserved[d] \in Nat /\ UsdBudget * Reserved[d] \in Nat
  BY <1>1
<1>3. QED
  BY <1>1, <1>2, Tenth DEF ReservedCalls

\* What reservations still hold back is a number.
LEMMA ElsewhereType ==
  ASSUME NEW u, NEW t, StoreAt(u, t), NEW cat \in Categories
  PROVE  /\ \A d \in Categories : UnspentCalls(u, d) \in Nat
         /\ ReservedCallsElsewhere(u, cat) \in Nat
         /\ ReservedTenthsElsewhere(u, cat) \in Nat
<1>1. ASSUME NEW d \in Categories
      PROVE  UnspentCalls(u, d) \in Nat /\ UnspentTenthsUsd(u, d) \in Nat
  <2>1. u.callsBy[d] \in Nat /\ u.usdBy[d] \in Nat
    BY StoreMoney
  <2>2. QED
    BY <2>1, ReservedType DEF UnspentCalls, UnspentTenthsUsd, AtLeast0
<1>2. IsFiniteSet(Categories \ {cat})
  BY Limits, FS_Subset
<1>3. [d \in Categories \ {cat} |-> UnspentCalls(u, d)] \in [Categories \ {cat} -> Nat]
      /\ [d \in Categories \ {cat} |-> UnspentTenthsUsd(u, d)] \in [Categories \ {cat} -> Nat]
  BY <1>1
<1>4. QED
  BY <1>1, <1>2, <1>3, SumNat DEF ReservedCallsElsewhere, ReservedTenthsElsewhere

\* Where a call is let in both meters have room, whatever is then outstanding,
LEMMA MeterAdmits ==
  ASSUME NEW u, NEW t, StoreAt(u, t), NEW cat \in Categories, WithinCaps(u, cat),
         NEW e, CallersFit(e)
  PROVE  MeterAt(u, e)
<1>1. u.calls \in Nat /\ u.usd \in Nat
  BY StoreMoney
<1>2. u.calls < CallBudget
  BY <1>1, ElsewhereType, Limits DEF WithinCaps, CallRoom
<1>3. UsdBudget > 0 => u.usd < UsdBudget
  BY <1>1, ElsewhereType, Limits DEF WithinCaps, UsdRoom
<1>4. AllLeft(e) \in Nat /\ AllLeft(e) <= MostOutstanding
  BY OutstandingBounds
<1>5. Dearest * AllLeft(e) <= Dearest * MostOutstanding
      /\ Dearest * AllLeft(e) \in Nat /\ Dearest * MostOutstanding \in Nat
  BY <1>4, MostType, DearestTimes
<1>6. u.calls + AllLeft(e) < CallBudget + MostOutstanding
  BY <1>1, <1>2, <1>4, MostType, Limits
<1>7. UsdBudget > 0 => u.usd + Dearest * AllLeft(e) < UsdBudget + Dearest * MostOutstanding
  BY <1>1, <1>3, <1>5, Limits
<1>8. QED
  BY <1>6, <1>7 DEF MeterAt

\* the bound depends on the meters only,
LEMMA MeterMoney ==
  ASSUME NEW u, NEW w, NEW c, SameMoney(u, w), MeterAt(w, c)
  PROVE  MeterAt(u, c)
  BY DEF SameMoney, MeterAt

\* survives whatever takes permissions away,
LEMMA MeterFewer ==
  ASSUME NEW u, NEW t, StoreAt(u, t), NEW c, NEW e, CallersFit(c), CallersFit(e), MeterAt(u, c),
         AllLeft(e) <= AllLeft(c)
  PROVE  MeterAt(u, e)
<1>1. /\ u.calls \in Nat /\ u.usd \in Nat /\ AllLeft(c) \in Nat /\ AllLeft(e) \in Nat
      /\ MostOutstanding \in Nat
  BY StoreMoney, OutstandingBounds, MostType
<1>2. /\ Dearest * AllLeft(e) <= Dearest * AllLeft(c) /\ Dearest * AllLeft(e) \in Nat
      /\ Dearest * AllLeft(c) \in Nat /\ Dearest * MostOutstanding \in Nat
  BY <1>1, DearestTimes
<1>3. u.calls + AllLeft(e) < CallBudget + MostOutstanding
  BY <1>1, Limits DEF MeterAt
<1>4. UsdBudget > 0 => u.usd + Dearest * AllLeft(e) < UsdBudget + Dearest * MostOutstanding
  BY <1>1, <1>2, Limits DEF MeterAt
<1>5. QED
  BY <1>3, <1>4 DEF MeterAt

\* holds with the meters at zero,
LEMMA MeterZero ==
  ASSUME NEW c, CallersFit(c)
  PROVE  /\ 0 + AllLeft(c) < CallBudget + MostOutstanding
         /\ UsdBudget > 0 =>
              0 + Dearest * AllLeft(c) < UsdBudget + Dearest * MostOutstanding
<1>1. AllLeft(c) \in Nat /\ AllLeft(c) <= MostOutstanding /\ MostOutstanding \in Nat
  BY OutstandingBounds, MostType
<1>2. /\ Dearest * AllLeft(c) <= Dearest * MostOutstanding
      /\ Dearest * AllLeft(c) \in Nat /\ Dearest * MostOutstanding \in Nat
  BY <1>1, DearestTimes
<1>3. QED
  BY <1>1, <1>2, Limits

\* so after a roll however far it has come,
LEMMA MeterRolled ==
  ASSUME TypeOK, MeterAt(usage, caller), NEW n \in 0..RollWrites
  PROVE  MeterAt(RolledUpTo(n), caller)
<1> DEFINE r == RolledUpTo(n)
<1>1. r.calls \in {usage.calls, 0} /\ r.usd \in {usage.usd, 0}
  BY RolledMoney
<1>2. CallersFit(caller)
  BY TypeParts
<1>3. r.calls + AllLeft(caller) < CallBudget + MostOutstanding
  <2> HIDE DEF r
  <2> QED BY <1>1, <1>2, MeterZero DEF MeterAt
<1>4. UsdBudget > 0 => r.usd + Dearest * AllLeft(caller) < UsdBudget + Dearest * MostOutstanding
  <2> HIDE DEF r
  <2> QED BY <1>1, <1>2, MeterZero DEF MeterAt
<1>5. QED
  BY <1>3, <1>4 DEF MeterAt

\* and after a record: each call it adds was outstanding, at the dearest price.
LEMMA MeterRecords ==
  ASSUME TypeOK, MeterAt(Rolled, caller), NEW cat \in Categories, NEW k \in Prices[cat],
         NEW n \in 1..RecordWrites, NEW e, CallersFit(e), AllLeft(e) <= AllLeft(caller) - 1
  PROVE  MeterAt(Recorded(cat, k, n), e)
<1> DEFINE u == Rolled
           r == Recorded(cat, k, n)
<1>1. k \in Nat /\ k <= Dearest /\ Dearest \in Nat
  BY PriceNat, DearestIs
<1>2. /\ clock \in Nat /\ StoreAt(usage, clock) /\ CallersFit(caller)
  BY TypeParts, Limits
<1>3. /\ r.calls \in Nat /\ u.calls \in Nat /\ r.calls \in {u.calls, u.calls + 1}
      /\ r.usd \in Nat /\ u.usd \in Nat /\ r.usd \in {u.usd, u.usd + k}
  BY <1>1, <1>2, RecordMoney
<1>4. /\ AllLeft(caller) \in Nat /\ AllLeft(e) \in Nat /\ AllLeft(e) + 1 <= AllLeft(caller)
      /\ MostOutstanding \in Nat
  <2>1. AllLeft(caller) \in Nat /\ AllLeft(e) \in Nat
    BY <1>2, OutstandingBounds
  <2>2. AllLeft(e) <= AllLeft(caller) - 1
    OBVIOUS
  <2>3. QED
    BY <2>1, <2>2, MostType
<1>5. /\ Dearest * AllLeft(e) + Dearest <= Dearest * AllLeft(caller)
      /\ Dearest * AllLeft(e) \in Nat
      /\ Dearest * AllLeft(caller) \in Nat /\ Dearest * MostOutstanding \in Nat
  <2>1. Dearest * (AllLeft(e) + 1) = Dearest * AllLeft(e) + Dearest
        /\ Dearest * AllLeft(e) \in Nat /\ Dearest * MostOutstanding \in Nat
        /\ Dearest * AllLeft(caller) \in Nat
    BY <1>4, DearestTimes
  <2>2. Dearest * (AllLeft(e) + 1) <= Dearest * AllLeft(caller)
    <3>1. AllLeft(e) + 1 \in Nat
      BY <1>4
    <3>2. QED
      BY <1>4, <3>1, DearestTimes
  <2>3. QED
    BY <2>1, <2>2
<1>6. /\ u.calls + AllLeft(caller) < CallBudget + MostOutstanding
      /\ UsdBudget > 0 =>
           u.usd + Dearest * AllLeft(caller) < UsdBudget + Dearest * MostOutstanding
  BY DEF MeterAt
<1> HIDE DEF u, r
<1>7. r.calls + AllLeft(e) < CallBudget + MostOutstanding
  BY <1>3, <1>4, <1>6, Limits
<1>8. UsdBudget > 0 => r.usd + Dearest * AllLeft(e) < UsdBudget + Dearest * MostOutstanding
  BY <1>1, <1>3, <1>5, <1>6, Limits
<1>9. QED
  BY <1>7, <1>8 DEF MeterAt, r

\* usage.py's daily caps: with the calls under way counted at the dearest price,
\* the day's calls and dollars pass their caps by less than what the concurrent
\* callers were let in for, for every budget, price and number of callers.
THEOREM MeterIsBounded == Spec => []MeterBounded
<1>1. Init => MeterBounded
  <2> SUFFICES ASSUME Init PROVE MeterBounded
    OBVIOUS
  <2>1. CallersFit(caller) /\ usage.calls = 0 /\ usage.usd = 0
    BY IdleCallers DEF Init, NoUsage
  <2>2. MeterAt(usage, caller)
    BY <2>1, MeterZero DEF MeterAt
  <2>3. QED
    BY <2>2, MeterIs
<1>2. TypeOK /\ MeterBounded /\ [Next]_vars => MeterBounded'
  <2> SUFFICES ASSUME TypeOK, MeterBounded, [Next]_vars PROVE MeterBounded'
    OBVIOUS
  <2> DEFINE Goal == MeterAt(usage', caller')
  <2>1. /\ clock \in Nat /\ StoreAt(usage, clock) /\ CallersFit(caller)
        /\ MeterAt(usage, caller) /\ StoreAt(Rolled, clock)
    BY TypeParts, Limits, MeterIs, RolledStore
  <2>2. MeterAt(Rolled, caller)
    BY <2>1, MeterRolled, RolledIs
  <2>3. MeterAt(TakeProbe(Rolled), caller) /\ MeterAt(NoteFailure, caller)
    BY <2>1, <2>2, CheckedMoney, MeterMoney
  <2>4. ASSUME NEW p \in Callers, NEW cat \in Categories, Admitted(p, cat) PROVE Goal
    <3>1. CallersFit(caller') /\ WithinCaps(Rolled, cat) /\ usage' = TakeProbe(Rolled)
      BY <2>4, AdmitCallers DEF Admitted, BudgetRemaining
    <3>2. MeterAt(Rolled, caller')
      BY <2>1, <3>1, MeterAdmits
    <3>3. SameMoney(usage', Rolled)
      BY <2>1, <3>1, CheckedMoney
    <3>4. QED
      BY <3>2, <3>3, MeterMoney
  <2>5. ASSUME NEW p \in Callers, NEW cat \in Categories, Refused(p, cat) PROVE Goal
    BY <2>3, <2>5 DEF Refused
  <2>6. ASSUME NEW cat \in Categories, Diagnose(cat) PROVE Goal
    BY <2>3, <2>6 DEF Diagnose
  <2>7. ASSUME NEW p \in Callers, Answered(p) PROVE Goal
    <3> DEFINE cat == caller[p].cat
    <3>1. PICK k \in Prices[cat] : usage' = Recorded(cat, k, RecordWrites)
      BY <2>7 DEF Answered
    <3>2. cat \in Categories
      BY <2>1, CallerAt
    <3>3. RecordWrites \in 1..RecordWrites
      BY DEF RecordWrites
    <3>4. CallersFit(caller') /\ AllLeft(caller') <= AllLeft(caller) - 1
      BY <2>7, AnswerCallers
    <3>5. QED
      BY <2>2, <3>1, <3>2, <3>3, <3>4, MeterRecords
  <2>8. ASSUME NEW p \in Callers, FailedForGood(p) PROVE Goal
    <3>1. usage' = NoteFailure /\ CallersFit(caller') /\ AllLeft(caller') <= AllLeft(caller)
      BY <2>8, FreeCallers DEF FailedForGood
    <3>2. StoreAt(usage', clock)
      BY <2>1, <3>1, FailStore
    <3>3. QED
      BY <2>1, <2>3, <3>1, <3>2, MeterFewer
  <2>9. ASSUME NEW p \in Callers, FailedForNow(p) PROVE Goal
    <3>1. usage' = usage /\ CallersFit(caller') /\ AllLeft(caller') <= AllLeft(caller)
      BY <2>9, FreeCallers DEF FailedForNow
    <3>2. QED
      BY <2>1, <3>1, MeterFewer
  <2>10. ASSUME Tick \/ AccountChanges \/ UNCHANGED vars PROVE Goal
    BY <2>1, <2>10 DEF Tick, AccountChanges, vars
  <2>11. ASSUME NEW u, StoreAt(u, clock), MeterAt(u, caller), Restart(u) PROVE Goal
    <3>1. usage' = u /\ CallersFit(caller') /\ AllLeft(caller') = 0
      BY <2>11, IdleCallers DEF Restart
    <3>2. AllLeft(caller) \in Nat
      BY <2>1, OutstandingBounds
    <3>3. QED
      BY <2>1, <2>11, <3>1, <3>2, MeterFewer
  <2>12. ASSUME CrashIdle PROVE Goal
    BY <2>1, <2>11, <2>12 DEF CrashIdle
  <2>13. ASSUME CrashInRoll PROVE Goal
    <3>1. PICK n \in 1..RollWrites : Restart(RolledUpTo(n))
      BY <2>13 DEF CrashInRoll
    <3>2. n \in 0..RollWrites
      BY DEF RollWrites
    <3>3. StoreAt(RolledUpTo(n), clock) /\ MeterAt(RolledUpTo(n), caller)
      BY <2>1, <3>2, RollStore, MeterRolled
    <3>4. QED
      BY <2>11, <3>1, <3>3
  <2>14. ASSUME CrashInRecord PROVE Goal
    <3>1. PICK p \in Callers, n \in 1..RecordWrites :
            \E k \in Prices[caller[p].cat] :
              caller[p].left > 0 /\ Restart(Recorded(caller[p].cat, k, n))
      BY <2>14 DEF CrashInRecord
    <3> DEFINE cat == caller[p].cat
    <3>2. PICK k \in Prices[cat] : caller[p].left > 0 /\ Restart(Recorded(cat, k, n))
      BY <3>1
    <3>3. cat \in Categories
      BY <2>1, CallerAt
    <3>4. usage' = Recorded(cat, k, n) /\ CallersFit(caller') /\ AllLeft(caller') = 0
      BY <3>2, IdleCallers DEF Restart
    <3>5. AllLeft(caller) \in Nat /\ AllLeft(caller) > 0
      BY <2>1, <3>2, SomeOutstanding, OutstandingBounds
    <3>6. AllLeft(caller') <= AllLeft(caller) - 1
      BY <3>4, <3>5
    <3>7. QED
      BY <2>2, <3>3, <3>4, <3>6, MeterRecords
  <2>15. Goal
    <3> HIDE DEF Goal
    <3> QED BY <2>4, <2>5, <2>6, <2>7, <2>8, <2>9, <2>10, <2>12, <2>13, <2>14 DEF Next
  <2>16. QED
    BY <2>15 DEF MeterBounded, MeterAt, AllOutstanding, AllLeft, Left
<1>3. QED
  BY <1>1, <1>2, TypeCorrect, PTL DEF Spec

-----------------------------------------------------------------------------
(* Reservations.                                                            *)

\* A sum is smaller if a summand is.
LEMMA SumLess ==
  ASSUME NEW D, IsFiniteSet(D), NEW f \in [D -> Int], NEW h \in [D -> Int], NEW a \in D,
         \A x \in D : f[x] <= h[x], f[a] <= h[a] - 1
  PROVE  Sum(f) <= Sum(h) - 1
<1> DEFINE g == [h EXCEPT ![a] = @ - 1]
<1>1. g \in [D -> Int] /\ g[a] = h[a] - 1 /\ \A x \in D \ {a} : g[x] = h[x]
  OBVIOUS
<1> HIDE DEF g
<1>2. Sum(g) = Sum(h) + (g[a] - h[a])
  BY <1>1, SumChange
<1>3. Sum(f) <= Sum(g)
  <2>1. \A x \in D : f[x] <= g[x]
    BY <1>1
  <2>2. QED
    BY <1>1, <2>1, SumLeq
<1>4. Sum(f) \in Int /\ Sum(g) \in Int /\ Sum(h) \in Int /\ h[a] \in Int
  BY <1>1, SumInt
<1>5. QED
  BY <1>1, <1>2, <1>3, <1>4

\* Each category's reservation, what is left of it, and what is outstanding.
Reserves == [d \in Categories |-> ReservedCalls(d)]
Unspent(u) == [d \in Categories |-> UnspentCalls(u, d)]
Out(c) == [d \in Categories |-> OutFor(c, d)]
\* What must still be found for a category: the rest of its reservation, or what
\* it may make on permissions already given if that is more.
Cover(u, c) == [d \in Categories |-> Later(UnspentCalls(u, d), OutFor(c, d))]

\* The invariant. The day's calls and the cover fit the budget but for the
\* permissions and the crashes; without a crash the day's calls are the
\* categories'; and if reservations take the whole day only categories that have
\* one are under way.
CoverAt(u, c, k) == u.calls + Sum(Cover(u, c)) < CallBudget + MostOutstanding + k
BookedAt(u, k) == k = 0 => u.calls = Sum(u.callsBy)
InReserve(c, k) ==
  k = 0 /\ Sum(Reserves) = CallBudget =>
    \A d \in Categories : OutFor(c, d) > 0 => ReservedCalls(d) > 0
ReserveAt(u, c, k) == CoverAt(u, c, k) /\ BookedAt(u, k) /\ InReserve(c, k)

\* The summands and their sums are numbers.
LEMMA CoverTypes ==
  ASSUME NEW u, NEW t, StoreAt(u, t), NEW c, CallersFit(c)
  PROVE  /\ IsFiniteSet(Categories)
         /\ Unspent(u) \in [Categories -> Nat] /\ Unspent(u) \in [Categories -> Int]
         /\ Out(c) \in [Categories -> Nat] /\ Out(c) \in [Categories -> Int]
         /\ Cover(u, c) \in [Categories -> Nat] /\ Cover(u, c) \in [Categories -> Int]
         /\ Sum(Unspent(u)) \in Nat /\ Sum(Cover(u, c)) \in Nat
         /\ Sum(Out(c)) = AllLeft(c) /\ AllLeft(c) \in Nat /\ AllLeft(c) <= MostOutstanding
         /\ u.calls \in Nat
<1>1. \A d \in Categories : UnspentCalls(u, d) \in Nat
  BY ElsewhereType, Limits
<1>2. \A d \in Categories : OutFor(c, d) \in Nat
  BY OutstandingBounds
<1>3. Unspent(u) \in [Categories -> Nat] /\ Out(c) \in [Categories -> Nat]
      /\ Cover(u, c) \in [Categories -> Nat]
  BY <1>1, <1>2 DEF Unspent, Out, Cover, Later
<1>4. Sum(Unspent(u)) \in Nat /\ Sum(Cover(u, c)) \in Nat
  BY <1>3, Limits, SumNat
<1>5. Sum(Out(c)) = AllLeft(c) /\ AllLeft(c) \in Nat /\ AllLeft(c) <= MostOutstanding
  BY OutstandingBounds DEF Out
<1>6. Unspent(u) \in [Categories -> Int] /\ Out(c) \in [Categories -> Int]
      /\ Cover(u, c) \in [Categories -> Int]
  BY <1>3
<1>7. QED
  BY <1>3, <1>4, <1>5, <1>6, Limits, StoreMoney

\* The reservations together fit into the day's calls, as the shares fit into
\* ten tenths and each is rounded down.
LEMMA ReservesFit ==
  /\ Reserves \in [Categories -> Nat] /\ Reserves \in [Categories -> Int]
  /\ Sum(Reserves) \in Nat /\ Sum(Reserves) <= CallBudget
<1>1. Reserves \in [Categories -> Nat] /\ Reserves \in [Categories -> Int]
  BY ReservedType DEF Reserves
<1>2. Reserved \in [Categories -> Int] /\ Sum(Reserved) <= 10 /\ Sum(Reserved) \in Int
  <2>1. Reserved \in [Categories -> 0..10]
    BY UsageAssumption
  <2>2. Reserved \in [Categories -> Int]
    BY <2>1
  <2>3. Sum(Reserved) <= 10
    BY UsageAssumption DEF Sum
  <2>4. QED
    BY <2>2, <2>3, SumInt, Limits
<1> DEFINE tens == [d \in Categories |-> 10 * Reserves[d]]
           given == [d \in Categories |-> CallBudget * Reserved[d]]
<1>3. Sum(tens) = 10 * Sum(Reserves) /\ Sum(given) = CallBudget * Sum(Reserved)
  <2>1. 10 \in Int /\ CallBudget \in Int
    BY Limits
  <2>2. QED
    BY <1>1, <1>2, <2>1, SumScale, Limits
<1>4. Sum(tens) <= Sum(given)
  <2>1. tens \in [Categories -> Int] /\ given \in [Categories -> Int]
    BY <1>1, <1>2, Limits
  <2>2. \A d \in Categories : tens[d] <= given[d]
    BY ReservedType DEF Reserves
  <2> HIDE DEF tens, given
  <2>3. QED
    BY <2>1, <2>2, SumLeq, Limits
<1>5. Sum(Reserves) \in Nat
  BY <1>1, SumNat, Limits
<1>6. CallBudget * Sum(Reserved) <= CallBudget * 10
  <2>1. \A a \in Nat, x, y \in Int : x <= y => a * x <= a * y
    OBVIOUS
  <2>2. QED
    BY <1>2, <2>1, Limits
<1> HIDE DEF tens, given
<1>7. 10 * Sum(Reserves) <= CallBudget * 10
  <2>1. CallBudget * Sum(Reserved) \in Int
    BY <1>2, Limits
  <2>2. QED
    BY <1>3, <1>4, <1>5, <1>6, <2>1, Limits
<1>8. QED
  BY <1>1, <1>5, <1>7, Limits

\* Under the bound a category that still holds back enough is let in.
LEMMA CoverLeavesRoom ==
  ASSUME NEW u, NEW t, StoreAt(u, t), NEW c, CallersFit(c), NEW k \in Nat, CoverAt(u, c, k),
         NEW cat \in Categories, UnspentCalls(u, cat) >= MostOutstanding + k
  PROVE  CallRoom(u, cat)
<1> DEFINE D == Categories \ {cat}
           f == [d \in D |-> UnspentCalls(u, d)]
           g == [d \in D |-> Cover(u, c)[d]]
<1>1. \A d \in Categories : UnspentCalls(u, d) \in Nat /\ UnspentCalls(u, d) <= Cover(u, c)[d]
  <2>1. \A d \in Categories : UnspentCalls(u, d) \in Nat /\ OutFor(c, d) \in Nat
    BY ElsewhereType, OutstandingBounds
  <2>2. QED
    BY <2>1 DEF Cover, Later
<1>2. IsFiniteSet(D)
  BY Limits, FS_Subset
<1>3. Cover(u, c) \in [Categories -> Int] /\ IsFiniteSet(Categories) /\ u.calls \in Nat
  BY CoverTypes
<1>4. f \in [D -> Int] /\ g \in [D -> Int] /\ \A d \in D : f[d] <= g[d]
  BY <1>1, <1>3
<1>5. Sum(Cover(u, c)) = Cover(u, c)[cat] + Sum(g)
  BY <1>3, SumSplit
<1>6. Sum(f) <= Sum(g)
  <2> HIDE DEF D, f, g
  <2> QED BY <1>2, <1>4, SumLeq
<1>7. Sum(f) \in Int /\ Sum(g) \in Int
  <2> HIDE DEF D, f, g
  <2> QED BY <1>2, <1>4, SumInt
<1>8. ReservedCallsElsewhere(u, cat) = Sum(f)
  BY DEF ReservedCallsElsewhere
<1>9. u.calls + Sum(Cover(u, c)) < CallBudget + MostOutstanding + k
  BY DEF CoverAt
<1>10. Cover(u, c)[cat] >= MostOutstanding + k /\ Cover(u, c)[cat] \in Int
  BY <1>1, <1>3, MostType
<1> HIDE DEF D, f, g
<1>11. u.calls < CallBudget - Sum(f)
  BY <1>3, <1>5, <1>6, <1>7, <1>9, <1>10, MostType, Limits
<1>12. QED
  BY <1>8, <1>11 DEF CallRoom

\* The cover shrinks with the permissions.
LEMMA CoverFewer ==
  ASSUME NEW u, NEW w, NEW t, StoreAt(u, t), StoreAt(w, t), u.callsBy = w.callsBy,
         NEW c, NEW e, CallersFit(c), CallersFit(e),
         \A d \in Categories : OutFor(e, d) <= OutFor(c, d)
  PROVE  Sum(Cover(u, e)) <= Sum(Cover(w, c))
<1>1. /\ Cover(u, e) \in [Categories -> Int] /\ Cover(w, c) \in [Categories -> Int]
      /\ IsFiniteSet(Categories)
  BY CoverTypes
<1>2. \A d \in Categories : Cover(u, e)[d] <= Cover(w, c)[d]
  <2> SUFFICES ASSUME NEW d \in Categories PROVE Cover(u, e)[d] <= Cover(w, c)[d]
    OBVIOUS
  <2>1. UnspentCalls(u, d) = UnspentCalls(w, d) /\ UnspentCalls(w, d) \in Nat
    BY ElsewhereType DEF UnspentCalls
  <2>2. OutFor(e, d) \in Nat /\ OutFor(c, d) \in Nat /\ OutFor(e, d) <= OutFor(c, d)
    BY OutstandingBounds
  <2>3. QED
    BY <2>1, <2>2 DEF Cover, Later
<1>3. QED
  BY <1>1, <1>2, SumLeq

\* With the meters at zero the cover is at most the reservations and what is
\* outstanding; it is less if reservations do not take the whole day, if a crash
\* was counted, or if what is outstanding is within a reservation.
LEMMA ClearedCover ==
  ASSUME NEW u, NEW t, StoreAt(u, t), u.calls = 0, u.callsBy = NoneBy,
         NEW c, CallersFit(c), NEW k \in Nat, InReserve(c, k)
  PROVE  CoverAt(u, c, k)
<1> DEFINE f == Cover(u, c)
           h == [d \in Categories |-> Reserves[d] + Out(c)[d]]
<1>1. /\ f \in [Categories -> Int] /\ IsFiniteSet(Categories) /\ Out(c) \in [Categories -> Nat]
      /\ Out(c) \in [Categories -> Int] /\ Sum(f) \in Nat
      /\ Sum(Out(c)) = AllLeft(c) /\ AllLeft(c) \in Nat /\ AllLeft(c) <= MostOutstanding
  BY CoverTypes
<1>2. Reserves \in [Categories -> Int] /\ Reserves \in [Categories -> Nat]
      /\ Sum(Reserves) \in Nat /\ Sum(Reserves) <= CallBudget
  BY ReservesFit
<1>3. h \in [Categories -> Int]
  BY <1>1, <1>2
<1>4. Sum(h) = Sum(Reserves) + AllLeft(c)
  BY <1>1, <1>2, SumAdd
<1>5. ASSUME NEW d \in Categories
      PROVE  /\ f[d] = Later(Reserves[d], Out(c)[d])
             /\ h[d] = Reserves[d] + Out(c)[d]
             /\ Reserves[d] \in Nat /\ Out(c)[d] \in Nat
  <2>1. u.callsBy[d] = 0 /\ ReservedCalls(d) \in Nat
    BY ReservedType DEF NoneBy
  <2>2. UnspentCalls(u, d) = ReservedCalls(d)
    BY <2>1 DEF UnspentCalls, AtLeast0
  <2>3. f[d] = Later(Reserves[d], Out(c)[d])
    BY <2>2 DEF Cover, Reserves, Out
  <2>4. QED
    BY <1>1, <1>2, <2>3
<1>6. ASSUME NEW d \in Categories PROVE f[d] <= h[d]
  <2> HIDE DEF f, h
  <2> QED BY <1>5 DEF Later
<1>7. CASE k > 0 \/ Sum(Reserves) < CallBudget \/ AllLeft(c) = 0
  <2> HIDE DEF f, h
  <2>1. Sum(f) <= Sum(h)
    BY <1>1, <1>3, <1>6, SumLeq
  <2>2. Sum(f) < CallBudget + MostOutstanding + k
    BY <1>1, <1>2, <1>4, <1>7, <2>1, MostType, Limits
  <2>3. QED
    BY <1>1, <2>2 DEF CoverAt, f
<1>8. CASE k = 0 /\ Sum(Reserves) = CallBudget /\ AllLeft(c) > 0
  <2>1. PICK d \in Categories : Out(c)[d] # 0
    <3>1. SUFFICES ASSUME \A d \in Categories : Out(c)[d] = 0 PROVE FALSE
      OBVIOUS
    <3>2. Out(c) = [d \in Categories |-> 0]
      BY <1>1, <3>1
    <3>3. Sum(Out(c)) = 0
      BY <1>1, <3>2, SumZero
    <3>4. QED
      BY <1>1, <1>8, <3>3
  <2>2. OutFor(c, d) > 0
    BY <1>5, <2>1 DEF Out
  <2>3. ReservedCalls(d) > 0
    BY <1>8, <2>2 DEF InReserve
  <2>4. Reserves[d] > 0 /\ Out(c)[d] > 0
    BY <2>2, <2>3 DEF Reserves, Out
  <2> HIDE DEF f, h
  <2>5. f[d] <= h[d] - 1
    BY <1>5, <2>4 DEF Later
  <2>6. Sum(f) <= Sum(h) - 1
    BY <1>1, <1>3, <1>6, <2>5, SumLess
  <2>7. Sum(f) < CallBudget + MostOutstanding + k
    BY <1>1, <1>2, <1>4, <1>8, <2>6, MostType, Limits
  <2>8. QED
    BY <1>1, <2>7 DEF CoverAt, f
<1>9. QED
  BY <1>1, <1>2, <1>7, <1>8, Limits

\* A roll of the day keeps the invariant.
LEMMA CoverRolled ==
  ASSUME TypeOK, ReserveAt(usage, caller, crashes)
  PROVE  ReserveAt(Rolled, caller, crashes)
<1>1. CASE Rolled = usage
  BY <1>1
<1>2. CASE Rolled.calls = 0 /\ Rolled.callsBy = NoneBy
  <2>1. /\ StoreAt(Rolled, clock) /\ CallersFit(caller) /\ crashes \in Nat
        /\ InReserve(caller, crashes)
    BY TypeParts, RolledStore, Limits DEF ReserveAt
  <2>2. CoverAt(Rolled, caller, crashes)
    BY <1>2, <2>1, ClearedCover
  <2>3. Sum(NoneBy) = 0
    BY SumZero, Limits DEF NoneBy
  <2>4. BookedAt(Rolled, crashes)
    BY <1>2, <2>3 DEF BookedAt
  <2>5. QED
    BY <2>1, <2>2, <2>4 DEF ReserveAt
<1>3. QED
  BY <1>1, <1>2, FullyRolled

\* So does letting a call in: either the new permission is within the category's
\* own reservation, or the caps have just left room for it beside the others'.
LEMMA CoverAdmits ==
  ASSUME NEW u, NEW t, StoreAt(u, t), NEW c, NEW e, CallersFit(c), CallersFit(e),
         NEW k \in Nat, ReserveAt(u, c, k), NEW cat \in Categories, CallRoom(u, cat),
         OutFor(e, cat) >= OutFor(c, cat),
         \A d \in Categories \ {cat} : OutFor(e, d) = OutFor(c, d)
  PROVE  ReserveAt(u, e, k)
<1> DEFINE f == Cover(u, e)
           z == [d \in Categories |-> IF d = cat THEN 0 ELSE Unspent(u)[d]]
           h == [d \in Categories |-> z[d] + Out(e)[d]]
           zc == [d \in Categories \ {cat} |-> z[d]]
           elsewhere == ReservedCallsElsewhere(u, cat)
<1>1. /\ IsFiniteSet(Categories) /\ Unspent(u) \in [Categories -> Nat]
      /\ Unspent(u) \in [Categories -> Int] /\ u.calls \in Nat
      /\ f \in [Categories -> Int] /\ Sum(f) \in Nat
      /\ Cover(u, c) \in [Categories -> Int] /\ Sum(Cover(u, c)) \in Nat
      /\ Out(e) \in [Categories -> Nat] /\ Out(e) \in [Categories -> Int]
      /\ Sum(Out(e)) = AllLeft(e) /\ AllLeft(e) \in Nat /\ AllLeft(e) <= MostOutstanding
  BY CoverTypes
<1>2. ASSUME NEW d \in Categories
      PROVE  /\ OutFor(c, d) \in Nat /\ OutFor(e, d) \in Nat /\ UnspentCalls(u, d) \in Nat
             /\ f[d] = Later(UnspentCalls(u, d), OutFor(e, d))
             /\ Cover(u, c)[d] = Later(UnspentCalls(u, d), OutFor(c, d))
             /\ Unspent(u)[d] = UnspentCalls(u, d) /\ Out(e)[d] = OutFor(e, d)
  BY OutstandingBounds, ElsewhereType DEF Cover, Unspent, Out
<1>3. z \in [Categories -> Int] /\ z \in [Categories -> Nat] /\ h \in [Categories -> Int]
  BY <1>1
<1>4. Sum(z) = elsewhere /\ elsewhere \in Nat
  <2>1. Sum(z) = z[cat] + Sum(zc)
    BY <1>1, <1>3, SumSplit
  <2>2. zc = [d \in Categories \ {cat} |-> UnspentCalls(u, d)]
    BY DEF Unspent
  <2>3. Sum(zc) = elsewhere
    BY <2>2 DEF ReservedCallsElsewhere
  <2>4. elsewhere \in Nat
    BY ElsewhereType
  <2>5. z[cat] = 0
    OBVIOUS
  <2> HIDE DEF z, zc, elsewhere
  <2>6. QED
    BY <2>1, <2>3, <2>4, <2>5
<1>5. u.calls < CallBudget - elsewhere
  BY DEF CallRoom
<1>6. CoverAt(u, e, k)
  <2>1. CASE OutFor(e, cat) <= UnspentCalls(u, cat)
    <3>1. ASSUME NEW d \in Categories PROVE f[d] <= Cover(u, c)[d]
      <4> HIDE DEF f
      <4>1. CASE d = cat
        BY <1>2, <2>1, <4>1 DEF Later
      <4>2. CASE d # cat
        BY <1>2, <4>2 DEF Later
      <4>3. QED
        BY <4>1, <4>2
    <3>2. Sum(f) <= Sum(Cover(u, c))
      BY <1>1, <3>1, SumLeq
    <3>3. u.calls + Sum(Cover(u, c)) < CallBudget + MostOutstanding + k
      BY DEF ReserveAt, CoverAt
    <3>4. u.calls + Sum(f) < CallBudget + MostOutstanding + k
      <4> HIDE DEF f
      <4> QED BY <1>1, <3>2, <3>3, MostType, Limits
    <3>5. QED
      BY <3>4 DEF CoverAt
  <2>2. CASE OutFor(e, cat) > UnspentCalls(u, cat)
    <3>1. ASSUME NEW d \in Categories PROVE f[d] <= h[d]
      <4>1. CASE d = cat
        <5>1. h[d] = OutFor(e, d)
          BY <1>2, <4>1
        <5> HIDE DEF f, h
        <5>2. QED
          BY <1>2, <2>2, <4>1, <5>1 DEF Later
      <4>2. CASE d # cat
        <5>1. h[d] = UnspentCalls(u, d) + OutFor(e, d)
          BY <1>2, <4>2
        <5> HIDE DEF f, h
        <5>2. QED
          BY <1>2, <5>1 DEF Later
      <4>3. QED
        BY <4>1, <4>2
    <3>2. Sum(h) = Sum(z) + Sum(Out(e))
      <4> HIDE DEF z
      <4> QED BY <1>1, <1>3, SumAdd
    <3>3. Sum(f) <= Sum(h)
      <4> HIDE DEF f, h
      <4> QED BY <1>1, <1>3, <3>1, SumLeq
    <3>4. u.calls + Sum(f) < CallBudget + MostOutstanding + k
      <4> HIDE DEF f, h, z, elsewhere
      <4> QED BY <1>1, <1>4, <1>5, <3>2, <3>3, MostType, Limits
    <3>5. QED
      BY <3>4 DEF CoverAt
  <2>3. QED
    BY <1>2, <2>1, <2>2
<1>7. InReserve(e, k)
  <2> SUFFICES ASSUME k = 0, Sum(Reserves) = CallBudget,
                      NEW d \in Categories, OutFor(e, d) > 0
               PROVE  ReservedCalls(d) > 0
    BY DEF InReserve
  <2>1. CASE d # cat
    BY <2>1 DEF ReserveAt, InReserve
  <2>2. CASE d = cat
    <3> SUFFICES ASSUME ReservedCalls(cat) = 0 PROVE FALSE
      BY <2>2, ReservedType
    <3> DEFINE b == [x \in Categories |-> Unspent(u)[x] + u.callsBy[x]]
    <3>1. u.callsBy \in [Categories -> Nat] /\ u.callsBy \in [Categories -> Int]
      BY StoreMoney
    <3>2. UnspentCalls(u, cat) = 0
      BY <3>1 DEF UnspentCalls, AtLeast0
    <3>3. z = Unspent(u)
      BY <1>1, <1>2, <3>2
    <3>4. Sum(b) = Sum(Unspent(u)) + Sum(u.callsBy)
      BY <1>1, <3>1, SumAdd
    <3>5. \A x \in Categories : Reserves[x] <= b[x]
      <4> SUFFICES ASSUME NEW x \in Categories PROVE Reserves[x] <= b[x]
        OBVIOUS
      <4>1. b[x] = AtLeast0(ReservedCalls(x) - u.callsBy[x]) + u.callsBy[x]
        BY <1>2 DEF UnspentCalls
      <4>2. u.callsBy[x] \in Nat /\ ReservedCalls(x) \in Nat /\ Reserves[x] = ReservedCalls(x)
        BY <3>1, ReservedType DEF Reserves
      <4> HIDE DEF b
      <4>3. QED
        BY <4>1, <4>2 DEF AtLeast0
    <3>6. b \in [Categories -> Int] /\ Reserves \in [Categories -> Int]
      BY <1>1, <3>1, ReservesFit
    <3>7. Sum(Reserves) <= Sum(b)
      <4> HIDE DEF b
      <4> QED BY <1>1, <3>5, <3>6, SumLeq
    <3>8. u.calls = Sum(u.callsBy)
      BY DEF ReserveAt, BookedAt
    <3>9. Sum(Unspent(u)) = elsewhere
      BY <1>4, <3>3
    <3> HIDE DEF b, elsewhere
    <3>10. QED
      BY <1>1, <1>4, <1>5, <3>4, <3>7, <3>8, <3>9, Limits
  <2>3. QED
    BY <2>1, <2>2
<1>8. QED
  BY <1>6, <1>7 DEF ReserveAt

\* So does an answer, which moves one call from the permissions to the counts,
LEMMA CoverAnswered ==
  ASSUME NEW u, NEW r, NEW t, StoreAt(u, t), StoreAt(r, t), NEW cat \in Categories,
         r.calls = u.calls + 1, r.callsBy[cat] = u.callsBy[cat] + 1,
         \A d \in Categories \ {cat} : r.callsBy[d] = u.callsBy[d],
         NEW c, NEW e, CallersFit(c), CallersFit(e),
         OutFor(e, cat) <= OutFor(c, cat) - 1,
         \A d \in Categories \ {cat} : OutFor(e, d) = OutFor(c, d),
         NEW k \in Nat, ReserveAt(u, c, k)
  PROVE  ReserveAt(r, e, k)
<1> DEFINE f == Cover(r, e)
           h == Cover(u, c)
<1>1. /\ IsFiniteSet(Categories) /\ u.calls \in Nat
      /\ f \in [Categories -> Int] /\ Sum(f) \in Nat
      /\ h \in [Categories -> Int] /\ Sum(h) \in Nat
  BY CoverTypes
<1>2. /\ u.callsBy \in [Categories -> Nat] /\ u.callsBy \in [Categories -> Int]
      /\ r.callsBy \in [Categories -> Nat] /\ r.callsBy \in [Categories -> Int]
  BY StoreMoney
<1>3. ASSUME NEW d \in Categories
      PROVE  /\ OutFor(c, d) \in Nat /\ OutFor(e, d) \in Nat
             /\ f[d] = Later(AtLeast0(ReservedCalls(d) - r.callsBy[d]), OutFor(e, d))
             /\ h[d] = Later(AtLeast0(ReservedCalls(d) - u.callsBy[d]), OutFor(c, d))
             /\ ReservedCalls(d) \in Nat
             /\ u.callsBy[d] \in Nat /\ r.callsBy[d] \in Nat
  BY <1>2, OutstandingBounds, ReservedType DEF Cover, UnspentCalls
<1> HIDE DEF f, h
<1>4. ASSUME NEW d \in Categories PROVE f[d] <= h[d]
  <2>1. CASE d = cat
    BY <1>3, <2>1 DEF Later, AtLeast0
  <2>2. CASE d # cat
    <3>1. r.callsBy[d] = u.callsBy[d] /\ OutFor(e, d) = OutFor(c, d)
      BY <2>2
    <3>2. f[d] = h[d]
      BY <1>3, <3>1
    <3>3. QED
      BY <1>1, <3>2
  <2>3. QED
    BY <2>1, <2>2
<1>5. f[cat] <= h[cat] - 1
  BY <1>3 DEF Later, AtLeast0
<1>6. Sum(f) <= Sum(h) - 1
  BY <1>1, <1>4, <1>5, SumLess
<1>7. CoverAt(r, e, k)
  <2>1. u.calls + Sum(h) < CallBudget + MostOutstanding + k
    BY DEF ReserveAt, CoverAt, h
  <2>2. r.calls + Sum(f) < CallBudget + MostOutstanding + k
    BY <1>1, <1>6, <2>1, MostType, Limits
  <2>3. QED
    BY <2>2 DEF CoverAt, f
<1>8. BookedAt(r, k)
  <2>1. Sum(r.callsBy) = Sum(u.callsBy) + (r.callsBy[cat] - u.callsBy[cat])
    BY <1>1, <1>2, SumChange
  <2>2. Sum(u.callsBy) \in Int
    BY <1>1, <1>2, SumInt
  <2>3. k = 0 => u.calls = Sum(u.callsBy)
    BY DEF ReserveAt, BookedAt
  <2>4. QED
    BY <1>3, <2>1, <2>2, <2>3 DEF BookedAt
<1>9. InReserve(e, k)
  <2> SUFFICES ASSUME k = 0, Sum(Reserves) = CallBudget,
                      NEW d \in Categories, OutFor(e, d) > 0
               PROVE  ReservedCalls(d) > 0
    BY DEF InReserve
  <2>1. OutFor(c, d) > 0
    <3>1. OutFor(e, d) <= OutFor(c, d)
      BY <1>3
    <3>2. QED
      BY <1>3, <3>1
  <2>2. QED
    BY <2>1 DEF ReserveAt, InReserve
<1>10. QED
  BY <1>7, <1>8, <1>9 DEF ReserveAt

\* and whatever takes permissions away.
LEMMA CoverLater ==
  ASSUME NEW u, NEW w, NEW t, StoreAt(u, t), StoreAt(w, t), SameMoney(w, u),
         NEW c, NEW e, CallersFit(c), CallersFit(e),
         \A d \in Categories : OutFor(e, d) <= OutFor(c, d),
         NEW k \in Nat, ReserveAt(u, c, k)
  PROVE  ReserveAt(w, e, k)
<1>1. w.calls = u.calls /\ w.callsBy = u.callsBy
  BY DEF SameMoney
<1>2. Sum(Cover(w, e)) <= Sum(Cover(u, c))
  BY <1>1, CoverFewer
<1>3. Sum(Cover(w, e)) \in Nat /\ Sum(Cover(u, c)) \in Nat /\ u.calls \in Nat
  BY CoverTypes
<1>4. u.calls + Sum(Cover(u, c)) < CallBudget + MostOutstanding + k
  BY DEF ReserveAt, CoverAt
<1>5. CoverAt(w, e, k)
  BY <1>1, <1>2, <1>3, <1>4, MostType, Limits DEF CoverAt
<1>6. BookedAt(w, k)
  BY <1>1 DEF ReserveAt, BookedAt
<1>7. InReserve(e, k)
  <2>1. \A d \in Categories : OutFor(c, d) \in Nat /\ OutFor(e, d) \in Nat
    BY OutstandingBounds
  <2>2. \A d \in Categories : OutFor(e, d) > 0 => OutFor(c, d) > 0
    BY <2>1
  <2>3. QED
    BY <2>2 DEF ReserveAt, InReserve
<1>8. QED
  BY <1>5, <1>6, <1>7 DEF ReserveAt

\* A crash frees all permissions and may leave one call counted for the day
\* only, which the count of crashes pays for.
LEMMA CoverCrashed ==
  ASSUME NEW u, NEW r, NEW t, StoreAt(u, t), StoreAt(r, t), r.calls <= u.calls + 1,
         \A d \in Categories : r.callsBy[d] >= u.callsBy[d],
         NEW c, NEW e, CallersFit(c), CallersFit(e), \A d \in Categories : OutFor(e, d) = 0,
         NEW k \in Nat, ReserveAt(u, c, k)
  PROVE  ReserveAt(r, e, k + 1)
<1> DEFINE f == Cover(r, e)
           h == Cover(u, c)
<1>1. /\ IsFiniteSet(Categories) /\ u.calls \in Nat /\ r.calls \in Nat
      /\ f \in [Categories -> Int] /\ Sum(f) \in Nat
      /\ h \in [Categories -> Int] /\ Sum(h) \in Nat
  BY CoverTypes
<1>2. ASSUME NEW d \in Categories
      PROVE  /\ OutFor(c, d) \in Nat /\ OutFor(e, d) = 0
             /\ f[d] = Later(AtLeast0(ReservedCalls(d) - r.callsBy[d]), OutFor(e, d))
             /\ h[d] = Later(AtLeast0(ReservedCalls(d) - u.callsBy[d]), OutFor(c, d))
             /\ ReservedCalls(d) \in Nat
             /\ u.callsBy[d] \in Nat /\ r.callsBy[d] \in Nat
  BY StoreMoney, OutstandingBounds, ReservedType DEF Cover, UnspentCalls
<1> HIDE DEF f, h
<1>3. ASSUME NEW d \in Categories PROVE f[d] <= h[d]
  BY <1>2 DEF Later, AtLeast0
<1>4. Sum(f) <= Sum(h)
  BY <1>1, <1>3, SumLeq
<1>5. u.calls + Sum(h) < CallBudget + MostOutstanding + k
  BY DEF ReserveAt, CoverAt, h
<1>6. r.calls + Sum(f) < CallBudget + MostOutstanding + (k + 1)
  BY <1>1, <1>4, <1>5, MostType, Limits
<1>7. k + 1 # 0
  OBVIOUS
<1>8. QED
  BY <1>6, <1>7 DEF ReserveAt, CoverAt, BookedAt, InReserve, f

\* A category's outstanding calls are a number.
LEMMA AsMany ==
  ASSUME NEW c, CallersFit(c)
  PROVE  \A d \in Categories : OutFor(c, d) \in Nat /\ OutFor(c, d) <= OutFor(c, d)
<1>1. \A d \in Categories : OutFor(c, d) \in Nat
  BY OutstandingBounds
<1>2. QED
  BY <1>1

\* usage.py's guarantee to a reservation: a category with more calls of it left
\* than can be under way, and than crashes have left half recorded, is never
\* refused by the day's calls, whatever the others have spent, for every split
\* of the day and number of callers.
THEOREM ReservedAdmission == Spec => []ReservedIsAdmitted
<1> DEFINE Inv == ReserveAt(usage, caller, crashes)
<1>1. Init => Inv
  <2> SUFFICES ASSUME Init PROVE Inv
    OBVIOUS
  <2>1. /\ CallersFit(caller) /\ usage.calls = 0 /\ usage.callsBy = NoneBy /\ crashes = 0
        /\ \A d : OutFor(caller, d) = 0
    BY IdleCallers DEF Init, NoUsage, NoneBy
  <2>2. StoreAt(usage, 0)
    <3>1. usage \in Usage
      BY DEF Init, NoUsage, Usage, Never
    <3>2. 0 <= 0 \div DayLen
      BY Limits, DivFacts
    <3>3. QED
      BY <3>1, <3>2 DEF Init, NoUsage, StoreAt, Never
  <2>3. InReserve(caller, 0)
    BY <2>1 DEF InReserve
  <2>4. CoverAt(usage, caller, 0)
    BY <2>1, <2>2, <2>3, ClearedCover
  <2>5. Sum(NoneBy) = 0
    BY SumZero, Limits DEF NoneBy
  <2>6. QED
    BY <2>1, <2>3, <2>4, <2>5 DEF ReserveAt, BookedAt
<1>2. TypeOK /\ Inv /\ [Next]_vars => Inv'
  <2> SUFFICES ASSUME TypeOK, Inv, [Next]_vars PROVE ReserveAt(usage', caller', crashes')
    BY DEF ReserveAt, CoverAt, BookedAt, InReserve, Cover, OutFor, LeftFor, Reserves,
           UnspentCalls, ReservedCalls
  <2> DEFINE Goal == ReserveAt(usage', caller', crashes')
  <2>1. /\ clock \in Nat /\ StoreAt(usage, clock) /\ CallersFit(caller) /\ crashes \in Nat
        /\ StoreAt(Rolled, clock)
    BY TypeParts, Limits, RolledStore
  <2>2. ReserveAt(Rolled, caller, crashes)
    BY CoverRolled
  <2>3. ASSUME NEW w, StoreAt(w, clock), SameMoney(w, Rolled)
        PROVE  ReserveAt(w, caller, crashes)
    <3>1. \A d \in Categories : OutFor(caller, d) <= OutFor(caller, d)
      BY <2>1, AsMany
    <3>2. QED
      BY <2>1, <2>2, <2>3, <3>1, CoverLater
  <2>4. StoreAt(TakeProbe(Rolled), clock) /\ SameMoney(TakeProbe(Rolled), Rolled)
    BY <2>1, ProbeStore, CheckedMoney
  <2>5. ASSUME NEW p \in Callers, NEW cat \in Categories, Admitted(p, cat) PROVE Goal
    <3>1. /\ CallersFit(caller') /\ CallRoom(Rolled, cat) /\ usage' = TakeProbe(Rolled)
          /\ crashes' = crashes
          /\ OutFor(caller', cat) = OutFor(caller, cat) + CallsPer(cat)
          /\ \A d \in Categories \ {cat} : OutFor(caller', d) = OutFor(caller, d)
      BY <2>5, AdmitCallers DEF Admitted, BudgetRemaining, WithinCaps
    <3>2. CallsPer(cat) \in Nat /\ OutFor(caller, cat) \in Nat
      <4>1. CallsPer(cat) \in Nat
        BY CallsPerType, Limits
      <4>2. OutFor(caller, cat) \in Nat
        BY <2>1, AsMany
      <4>3. QED
        BY <4>1, <4>2
    <3>3. OutFor(caller', cat) >= OutFor(caller, cat)
      BY <3>1, <3>2
    <3>4. ReserveAt(Rolled, caller', crashes)
      BY <2>1, <2>2, <3>1, <3>3, CoverAdmits
    <3>5. \A d \in Categories : OutFor(caller', d) <= OutFor(caller', d)
      BY <3>1, AsMany
    <3>6. ReserveAt(TakeProbe(Rolled), caller', crashes)
      BY <2>1, <2>4, <3>1, <3>4, <3>5, CoverLater
    <3>7. QED
      BY <3>1, <3>6
  <2>6. ASSUME NEW p \in Callers, NEW cat \in Categories, Refused(p, cat) PROVE Goal
    BY <2>3, <2>4, <2>6 DEF Refused
  <2>7. ASSUME NEW cat \in Categories, Diagnose(cat) PROVE Goal
    BY <2>3, <2>4, <2>7 DEF Diagnose
  <2>8. ASSUME NEW p \in Callers, Answered(p) PROVE Goal
    <3> DEFINE cat == caller[p].cat
               u == Rolled
               r == usage'
    <3>1. PICK k \in Prices[cat] : r = Recorded(cat, k, RecordWrites)
      BY <2>8 DEF Answered
    <3>2. cat \in Categories /\ k \in Nat
      BY <2>1, CallerAt, PriceNat
    <3>3. RecordWrites \in 1..RecordWrites /\ RecordWrites >= 5
      BY DEF RecordWrites
    <3>4. /\ r.calls = (IF RecordWrites >= 2 THEN u.calls + 1 ELSE u.calls)
          /\ r.callsBy[cat] = (IF RecordWrites >= 5 THEN u.callsBy[cat] + 1 ELSE u.callsBy[cat])
          /\ \A d \in Categories \ {cat} : r.callsBy[d] = u.callsBy[d]
      BY <2>1, <3>1, <3>2, <3>3, RecordMoney
    <3>5. StoreAt(r, clock)
      BY <2>1, <3>1, <3>2, <3>3, RecordStore
    <3>6. /\ CallersFit(caller')
          /\ OutFor(caller', cat) <= OutFor(caller, cat) - 1
          /\ \A d \in Categories \ {cat} : OutFor(caller', d) = OutFor(caller, d)
      BY <2>8, AnswerCallers
    <3>7. crashes' = crashes
      BY <2>8 DEF Answered
    <3>8. r.calls = u.calls + 1 /\ r.callsBy[cat] = u.callsBy[cat] + 1
      BY <3>4 DEF RecordWrites
    <3>9. StoreAt(u, clock) /\ ReserveAt(u, caller, crashes)
      BY <2>1, <2>2
    <3> HIDE DEF u, r, cat
    <3>10. ReserveAt(r, caller', crashes)
      BY <2>1, <3>2, <3>4, <3>5, <3>6, <3>8, <3>9, CoverAnswered
    <3>11. QED
      BY <3>7, <3>10 DEF r
  <2>9. ASSUME NEW p \in Callers, FailedForGood(p) PROVE Goal
    <3>1. /\ usage' = NoteFailure /\ crashes' = crashes /\ CallersFit(caller')
          /\ \A d \in Categories : OutFor(caller', d) <= OutFor(caller, d)
      BY <2>9, FreeCallers DEF FailedForGood
    <3>2. StoreAt(NoteFailure, clock) /\ SameMoney(NoteFailure, Rolled)
      BY <2>1, FailStore, CheckedMoney
    <3>3. ReserveAt(NoteFailure, caller', crashes)
      BY <2>1, <2>2, <3>1, <3>2, CoverLater
    <3>4. QED
      BY <3>1, <3>3
  <2>10. ASSUME NEW p \in Callers, FailedForNow(p) PROVE Goal
    <3>1. /\ usage' = usage /\ crashes' = crashes /\ CallersFit(caller')
          /\ \A d \in Categories : OutFor(caller', d) <= OutFor(caller, d)
      BY <2>10, FreeCallers DEF FailedForNow
    <3>2. SameMoney(usage, usage)
      BY DEF SameMoney
    <3>3. ReserveAt(usage, caller', crashes)
      BY <2>1, <3>1, <3>2, CoverLater
    <3>4. QED
      BY <3>1, <3>3
  <2>11. ASSUME Tick \/ AccountChanges \/ UNCHANGED vars PROVE Goal
    BY <2>11 DEF Tick, AccountChanges, vars
  <2>12. ASSUME NEW u, StoreAt(u, clock), ReserveAt(u, caller, crashes),
                NEW r, StoreAt(r, clock), r.calls <= u.calls + 1,
                \A d \in Categories : r.callsBy[d] >= u.callsBy[d], Restart(r)
         PROVE  Goal
    <3>1. /\ usage' = r /\ crashes' = crashes + 1 /\ CallersFit(caller')
          /\ \A d \in Categories : OutFor(caller', d) = 0
      BY <2>12, IdleCallers DEF Restart
    <3>2. ReserveAt(r, caller', crashes + 1)
      BY <2>1, <2>12, <3>1, CoverCrashed
    <3>3. QED
      BY <3>1, <3>2
  <2>13. ASSUME CrashIdle PROVE Goal
    <3>1. usage.calls <= usage.calls + 1
          /\ \A d \in Categories : usage.callsBy[d] >= usage.callsBy[d]
      BY <2>1, StoreMoney
    <3>2. QED
      BY <2>1, <2>12, <2>13, <3>1 DEF CrashIdle
  <2>14. ASSUME CrashInRoll PROVE Goal
    <3>1. PICK n \in 1..RollWrites : Restart(RolledUpTo(n))
      BY <2>14 DEF CrashInRoll
    <3> DEFINE r == RolledUpTo(n)
    <3>2. n \in 0..RollWrites
      BY DEF RollWrites
    <3>3. /\ StoreAt(r, clock) /\ r.calls \in {usage.calls, 0}
          /\ r.callsBy \in {usage.callsBy, NoneBy}
          /\ r.callsBy = usage.callsBy \/ r.calls = 0
      BY <2>1, <3>2, RollStore, RolledMoney
    <3>4. CASE r.callsBy = usage.callsBy
      <4>1. usage.calls \in Nat /\ usage.callsBy \in [Categories -> Nat]
        BY <2>1, StoreMoney
      <4> HIDE DEF r
      <4>2. r.calls <= usage.calls + 1 /\ \A d \in Categories : r.callsBy[d] >= usage.callsBy[d]
        BY <3>3, <3>4, <4>1
      <4>3. Restart(r)
        BY <3>1 DEF r
      <4>4. QED
        BY <2>1, <2>12, <3>3, <4>2, <4>3
    <3>5. CASE r.callsBy = NoneBy /\ r.calls = 0
      <4>1. usage' = r /\ crashes' = crashes + 1 /\ CallersFit(caller')
        BY <3>1, IdleCallers DEF Restart
      <4>2. crashes + 1 \in Nat /\ crashes + 1 # 0
        BY <2>1
      <4>3. InReserve(caller', crashes + 1) /\ BookedAt(r, crashes + 1)
        BY <4>2 DEF InReserve, BookedAt
      <4> HIDE DEF r
      <4>4. CoverAt(r, caller', crashes + 1)
        BY <3>3, <3>5, <4>1, <4>2, <4>3, ClearedCover
      <4>5. QED
        BY <4>1, <4>3, <4>4 DEF ReserveAt
    <3>6. QED
      BY <3>3, <3>4, <3>5
  <2>15. ASSUME CrashInRecord PROVE Goal
    <3>1. PICK p \in Callers, n \in 1..RecordWrites :
            \E k \in Prices[caller[p].cat] :
              caller[p].left > 0 /\ Restart(Recorded(caller[p].cat, k, n))
      BY <2>15 DEF CrashInRecord
    <3> DEFINE cat == caller[p].cat
               u == Rolled
    <3>2. PICK k \in Prices[cat] : Restart(Recorded(cat, k, n))
      BY <3>1
    <3> DEFINE r == Recorded(cat, k, n)
    <3>3. cat \in Categories /\ k \in Nat
      BY <2>1, CallerAt, PriceNat
    <3>4. /\ r.calls = (IF n >= 2 THEN u.calls + 1 ELSE u.calls)
          /\ r.callsBy[cat] = (IF n >= 5 THEN u.callsBy[cat] + 1 ELSE u.callsBy[cat])
          /\ \A d \in Categories \ {cat} : r.callsBy[d] = u.callsBy[d]
          /\ u.calls \in Nat /\ u.callsBy \in [Categories -> Nat]
      BY <2>1, <3>3, RecordMoney
    <3>5. StoreAt(r, clock)
      BY <2>1, <3>3, RecordStore
    <3>6. Restart(r)
      BY <3>2
    <3>7. StoreAt(u, clock) /\ ReserveAt(u, caller, crashes)
      BY <2>1, <2>2
    <3> HIDE DEF r, u, cat
    <3>8. r.calls <= u.calls + 1
      BY <3>4
    <3>9. \A d \in Categories : r.callsBy[d] >= u.callsBy[d]
      BY <3>4
    <3>10. QED
      BY <2>12, <3>5, <3>6, <3>7, <3>8, <3>9
  <2>16. QED
    <3> HIDE DEF Goal
    <3>1. Goal
      BY <2>5, <2>6, <2>7, <2>8, <2>9, <2>10, <2>11, <2>13, <2>14, <2>15 DEF Next
    <3>2. QED
      BY <3>1 DEF Goal
<1>3. TypeOK /\ Inv => ReservedIsAdmitted
  <2> SUFFICES ASSUME TypeOK, Inv, NEW d \in Categories,
                      UnspentCalls(usage, d) >= MostOutstanding + crashes
               PROVE  CallRoom(usage, d)
    BY DEF ReservedIsAdmitted
  <2>1. StoreAt(usage, clock) /\ CallersFit(caller) /\ crashes \in Nat
    BY TypeParts, Limits
  <2>2. CoverAt(usage, caller, crashes)
    BY DEF ReserveAt
  <2>3. QED
    BY <2>1, <2>2, CoverLeavesRoom
<1> HIDE DEF Inv
<1>4. QED
  BY <1>1, <1>2, <1>3, TypeCorrect, PTL DEF Spec
=============================================================================
