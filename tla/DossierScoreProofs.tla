------------------------- MODULE DossierScoreProofs -------------------------
(***************************************************************************)
(* Machine-checked theorems about the arithmetic of a dossier, for every   *)
(* set of records, mapping of labels and value of the bars. The masses are *)
(* sums over finite sets, so their laws come first, by induction over      *)
(* subsets; then what _aggregate does to any body of evidence; and last    *)
(* that a dossier is always the aggregate of the evidence it holds.        *)
(***************************************************************************)
EXTENDS DossierScore, FiniteSetTheorems, WellFoundedInduction, TLAPS

-----------------------------------------------------------------------------
(* Sums over finite sets.                                                   *)

\* Induction over the subsets of a finite set, from the well-foundedness of
\* inclusion: as the conclusion is membership in a set, no operator is a
\* parameter.
LEMMA SetInduction ==
  ASSUME NEW S, IsFiniteSet(S), NEW T,
         {} \in T,
         \A s \in SUBSET S : s # {} /\ (\A x \in s : s \ {x} \in T) => s \in T
  PROVE  S \in T
<1> SUFFICES ASSUME S \notin T PROVE FALSE
  OBVIOUS
<1> DEFINE Bad == (SUBSET S) \ T
<1>1. IsWellFoundedOn(StrictSubsetOrdering(S), FiniteSubsetsOf(S))
  BY FS_StrictSubsetOrderingWellFounded
<1>2. Bad \subseteq FiniteSubsetsOf(S) /\ Bad # {}
  BY FS_Subset DEF FiniteSubsetsOf
<1>3. \E m \in Bad : \A y \in Bad : ~(<<y, m>> \in StrictSubsetOrdering(S))
  <2> HIDE DEF Bad
  <2> QED BY <1>1, <1>2, WFMin
<1>4. PICK m \in Bad : \A y \in Bad : ~(<<y, m>> \in StrictSubsetOrdering(S))
  BY <1>3
<1>5. \A x \in m : m \ {x} \in T
  <2> SUFFICES ASSUME NEW x \in m, m \ {x} \notin T PROVE FALSE
    OBVIOUS
  <2>1. m \ {x} \in Bad
    OBVIOUS
  <2>2. <<m \ {x}, m>> \in StrictSubsetOrdering(S)
    BY DEF StrictSubsetOrdering
  <2>3. QED
    BY <1>4, <2>1, <2>2
<1>6. QED
  BY <1>5

\* The element the library's fold takes next,
Pick(s) == CHOOSE x \in s : TRUE
\* and what an item adds to the sum.
Mass(ev, i) == ev[i].confidence * Weight(ev[i])
\* The recursion the fold is defined by, its solution, and the sum over a set of
\* items.
Unfolds(g, ev, I) ==
  g = [s \in SUBSET I |-> IF s = {} THEN 0 ELSE Mass(ev, Pick(s)) + g[s \ {Pick(s)}]]
Iter(ev, I) == CHOOSE g : Unfolds(g, ev, I)
MassOf(ev, I) == Iter(ev, I)[I]

\* The mass of a side is the sum over its agreeing items,
LEMMA SideMassIs ==
  ASSUME NEW ev, NEW side
  PROVE  SideMass(ev, side) = MassOf(ev, Agreeing(ev, side))
  BY DEF SideMass, MassOf, Iter, Unfolds, Mass, Pick, MapThenSumSet, MapThenFoldSet

LEMMA PickIn == ASSUME NEW s, s # {} PROVE Pick(s) \in s
  BY DEF Pick

LEMMA UnfoldAt ==
  ASSUME NEW ev, NEW A, NEW g, Unfolds(g, ev, A), NEW s \in SUBSET A
  PROVE  g[s] = IF s = {} THEN 0 ELSE Mass(ev, Pick(s)) + g[s \ {Pick(s)}]
  BY DEF Unfolds

\* Two solutions agree where both are defined,
LEMMA UnfoldUnique ==
  ASSUME NEW ev, NEW A, NEW B, NEW g, NEW h, Unfolds(g, ev, A), Unfolds(h, ev, B),
         NEW s, s \subseteq A, s \subseteq B, IsFiniteSet(s)
  PROVE  g[s] = h[s]
<1> DEFINE T == {t \in SUBSET s : g[t] = h[t]}
<1>1. {} \in T
  BY UnfoldAt
<1>2. \A t \in SUBSET s : t # {} /\ (\A x \in t : t \ {x} \in T) => t \in T
  <2> SUFFICES ASSUME NEW t \in SUBSET s, t # {}, \A x \in t : t \ {x} \in T
               PROVE  g[t] = h[t]
    OBVIOUS
  <2>1. Pick(t) \in t
    BY PickIn
  <2>2. g[t] = Mass(ev, Pick(t)) + g[t \ {Pick(t)}] /\ h[t] = Mass(ev, Pick(t)) + h[t \ {Pick(t)}]
    <3>1. t \in SUBSET A /\ t \in SUBSET B OBVIOUS
    <3> QED BY <3>1, UnfoldAt
  <2>3. QED
    BY <2>1, <2>2
<1>3. s \in T
  <2> HIDE DEF T
  <2> QED BY <1>1, <1>2, SetInduction
<1>4. QED
  BY <1>3

\* and there is one for every finite set,
LEMMA UnfoldExists ==
  ASSUME NEW ev, NEW S, IsFiniteSet(S)
  PROVE  Unfolds(Iter(ev, S), ev, S)
<1> DEFINE T == {s \in SUBSET S : \A t \in SUBSET s : Unfolds(Iter(ev, t), ev, t)}
<1>0. ASSUME NEW s, NEW g, Unfolds(g, ev, s) PROVE Unfolds(Iter(ev, s), ev, s)
  BY <1>0 DEF Iter
<1>1. {} \in T
  <2> DEFINE g == [s \in SUBSET {} |-> 0]
  <2>1. Unfolds(g, ev, {})
    BY DEF Unfolds
  <2>2. QED
    BY <1>0, <2>1
<1>2. \A s \in SUBSET S : s # {} /\ (\A x \in s : s \ {x} \in T) => s \in T
  <2> SUFFICES ASSUME NEW s \in SUBSET S, s # {}, \A x \in s : s \ {x} \in T
               PROVE  s \in T
    OBVIOUS
  <2>1. \A t \in SUBSET s : t # s => Unfolds(Iter(ev, t), ev, t)
    <3> SUFFICES ASSUME NEW t \in SUBSET s, t # s PROVE Unfolds(Iter(ev, t), ev, t)
      OBVIOUS
    <3>1. PICK x \in s : x \notin t
      OBVIOUS
    <3>2. t \in SUBSET (s \ {x})
      BY <3>1
    <3>3. QED
      BY <3>1, <3>2
  <2> DEFINE v(t) == IF t = s THEN Mass(ev, Pick(s)) + MassOf(ev, s \ {Pick(s)}) ELSE MassOf(ev, t)
             g == [t \in SUBSET s |-> v(t)]
  <2>2. ASSUME NEW t \in SUBSET s
        PROVE  g[t] = IF t = {} THEN 0 ELSE Mass(ev, Pick(t)) + g[t \ {Pick(t)}]
    <3>1. CASE t = {}
      <4>1. Iter(ev, t)[t] = 0
        BY <3>1, <2>1, UnfoldAt
      <4>2. QED
        BY <3>1, <4>1 DEF MassOf
    <3>2. CASE t # {}
      <4> DEFINE r == t \ {Pick(t)}
      <4>1. Pick(t) \in t /\ r \in SUBSET s /\ r # s
        BY <3>2, PickIn
      <4>2. g[r] = MassOf(ev, r)
        BY <4>1
      <4>3. CASE t = s
        BY <3>2, <4>2, <4>3
      <4>4. CASE t # s
        <5>1. Unfolds(Iter(ev, t), ev, t) /\ Unfolds(Iter(ev, r), ev, r)
          BY <2>1, <4>1, <4>4
        <5>2. Iter(ev, t)[t] = Mass(ev, Pick(t)) + Iter(ev, t)[r]
          BY <5>1, <3>2, UnfoldAt
        <5>3. IsFiniteSet(r)
          BY FS_Subset, <4>1
        <5>4. Iter(ev, t)[r] = Iter(ev, r)[r]
          BY <5>1, <5>3, UnfoldUnique
        <5>5. QED
          BY <3>2, <4>2, <4>4, <5>2, <5>4 DEF MassOf
      <4>5. QED
        BY <4>3, <4>4
    <3>3. QED
      BY <3>1, <3>2
  <2>3. Unfolds(g, ev, s)
    <3> DEFINE h == [t \in SUBSET s |-> IF t = {} THEN 0 ELSE Mass(ev, Pick(t)) + g[t \ {Pick(t)}]]
    <3>1. g = h
      <4> HIDE DEF v
      <4> QED BY <2>2
    <3>2. QED
      BY <3>1 DEF Unfolds
  <2>4. Unfolds(Iter(ev, s), ev, s)
    <3> HIDE DEF g
    <3> QED BY <1>0, <2>3
  <2>5. QED
    BY <2>1, <2>4
<1>3. S \in T
  <2> HIDE DEF T
  <2> QED BY <1>1, <1>2, SetInduction
<1>4. QED
  BY <1>3

\* so the sum unfolds one item at a time:
LEMMA MassStep ==
  ASSUME NEW ev, NEW S, IsFiniteSet(S)
  PROVE  MassOf(ev, S) = IF S = {} THEN 0 ELSE Mass(ev, Pick(S)) + MassOf(ev, S \ {Pick(S)})
<1>1. Unfolds(Iter(ev, S), ev, S)
  BY UnfoldExists
<1>2. CASE S = {}
  BY <1>1, <1>2, UnfoldAt DEF MassOf
<1>3. CASE S # {}
  <2> DEFINE R == S \ {Pick(S)}
  <2>1. R \subseteq S /\ IsFiniteSet(R)
    BY FS_Subset
  <2>2. Unfolds(Iter(ev, R), ev, R)
    BY <2>1, UnfoldExists
  <2>3. Iter(ev, S)[R] = Iter(ev, R)[R]
    BY <1>1, <2>1, <2>2, UnfoldUnique
  <2>4. Iter(ev, S)[S] = Mass(ev, Pick(S)) + Iter(ev, S)[R]
    BY <1>1, <1>3, UnfoldAt
  <2>5. QED
    BY <1>3, <2>3, <2>4 DEF MassOf
<1>4. QED
  BY <1>2, <1>3

\* nothing for no items,
LEMMA MassEmpty == ASSUME NEW ev PROVE MassOf(ev, {}) = 0
  BY MassStep, FS_EmptySet

\* a natural when each item's share is,
LEMMA MassNat ==
  ASSUME NEW ev, NEW S, IsFiniteSet(S), \A x \in S : Mass(ev, x) \in Nat
  PROVE  MassOf(ev, S) \in Nat
<1> DEFINE T == {s \in SUBSET S : MassOf(ev, s) \in Nat}
<1>1. {} \in T
  BY MassEmpty
<1>2. \A s \in SUBSET S : s # {} /\ (\A x \in s : s \ {x} \in T) => s \in T
  <2> SUFFICES ASSUME NEW s \in SUBSET S, s # {}, \A x \in s : s \ {x} \in T
               PROVE  MassOf(ev, s) \in Nat
    OBVIOUS
  <2>1. Pick(s) \in s /\ IsFiniteSet(s)
    BY PickIn, FS_Subset
  <2>2. MassOf(ev, s) = Mass(ev, Pick(s)) + MassOf(ev, s \ {Pick(s)})
    BY <2>1, MassStep
  <2>3. QED
    BY <2>1, <2>2
<1>3. S \in T
  <2> HIDE DEF T
  <2> QED BY <1>1, <1>2, SetInduction
<1>4. QED
  BY <1>3

\* the same whichever item is taken first,
LEMMA MassRemove ==
  ASSUME NEW ev, NEW S, IsFiniteSet(S), \A x \in S : Mass(ev, x) \in Nat, NEW a \in S
  PROVE  MassOf(ev, S) = Mass(ev, a) + MassOf(ev, S \ {a})
<1> DEFINE T == {s \in SUBSET S : \A x \in s : MassOf(ev, s) = Mass(ev, x) + MassOf(ev, s \ {x})}
<1>1. {} \in T
  OBVIOUS
<1>2. \A s \in SUBSET S : s # {} /\ (\A x \in s : s \ {x} \in T) => s \in T
  <2> SUFFICES ASSUME NEW s \in SUBSET S, s # {}, \A x \in s : s \ {x} \in T, NEW x \in s
               PROVE  MassOf(ev, s) = Mass(ev, x) + MassOf(ev, s \ {x})
    OBVIOUS
  <2> DEFINE p == Pick(s)
             r == (s \ {p}) \ {x}
  <2>1. p \in s /\ IsFiniteSet(s) /\ IsFiniteSet(r)
    BY PickIn, FS_Subset
  <2>2. MassOf(ev, s) = Mass(ev, p) + MassOf(ev, s \ {p})
    BY <2>1, MassStep
  <2>3. CASE x = p
    BY <2>2, <2>3
  <2>4. CASE x # p
    <3>1. MassOf(ev, s \ {p}) = Mass(ev, x) + MassOf(ev, r)
      BY <2>1, <2>4
    <3>2. MassOf(ev, s \ {x}) = Mass(ev, p) + MassOf(ev, r)
      <4>1. p \in s \ {x} /\ r = (s \ {x}) \ {p}
        BY <2>1, <2>4
      <4> HIDE DEF p, r
      <4>2. QED BY <4>1
    <3>3. MassOf(ev, r) \in Nat /\ Mass(ev, x) \in Nat /\ Mass(ev, p) \in Nat
      BY <2>1, MassNat
    <3> HIDE DEF p, r
    <3>4. QED
      BY <2>2, <3>1, <3>2, <3>3
  <2>5. QED
    BY <2>3, <2>4
<1>3. S \in T
  <2> HIDE DEF T
  <2> QED BY <1>1, <1>2, SetInduction
<1>4. QED
  BY <1>3

\* and the same for two bodies of evidence that agree on the items.
LEMMA MassSame ==
  ASSUME NEW ev, NEW ex, NEW S, IsFiniteSet(S), \A i \in S : Mass(ev, i) = Mass(ex, i)
  PROVE  MassOf(ev, S) = MassOf(ex, S)
<1> DEFINE T == {s \in SUBSET S : MassOf(ev, s) = MassOf(ex, s)}
<1>1. {} \in T
  BY MassEmpty
<1>2. \A s \in SUBSET S : s # {} /\ (\A x \in s : s \ {x} \in T) => s \in T
  <2> SUFFICES ASSUME NEW s \in SUBSET S, s # {}, \A x \in s : s \ {x} \in T
               PROVE  MassOf(ev, s) = MassOf(ex, s)
    OBVIOUS
  <2>1. Pick(s) \in s /\ IsFiniteSet(s)
    BY PickIn, FS_Subset
  <2>2. /\ MassOf(ev, s) = Mass(ev, Pick(s)) + MassOf(ev, s \ {Pick(s)})
        /\ MassOf(ex, s) = Mass(ex, Pick(s)) + MassOf(ex, s \ {Pick(s)})
    BY <2>1, MassStep
  <2>3. QED
    BY <2>1, <2>2
<1>3. S \in T
  <2> HIDE DEF T
  <2> QED BY <1>1, <1>2, SetInduction
<1>4. QED
  BY <1>3

-----------------------------------------------------------------------------
(* Least members, division and products.                                    *)

\* A nonempty set of naturals has a least member.
LEMMA LeastExists ==
  ASSUME NEW S \in SUBSET Nat, S # {}
  PROVE  \E m \in S : \A j \in S : m <= j
<1> DEFINE R == OpToRel(<, Nat)
<1>1. \A a, b \in Nat : <<a, b>> \in R <=> a < b
  BY DEF OpToRel
<1>2. IsWellFoundedOn(R, Nat)
  BY NatLessThanWellFounded
<1> HIDE DEF R
<1>3. PICK m \in S : \A j \in S : ~(<<j, m>> \in R)
  BY <1>2, WFMin
<1>4. ASSUME NEW j \in S PROVE m <= j
  <2>1. ~(<<j, m>> \in R) /\ j \in Nat /\ m \in Nat
    BY <1>3
  <2>2. QED
    BY <1>1, <2>1
<1>5. QED
  BY <1>4

\* Floor division by a positive number: natural,
LEMMA DivNat ==
  ASSUME NEW a \in Nat, NEW b \in Nat \ {0}
  PROVE  a \div b \in Nat /\ b * (a \div b) <= a
<1>1. a \div b \in Int
  OBVIOUS
<1>2. b * (a \div b) <= a
  OBVIOUS
<1>3. a \div b \in Nat
  OBVIOUS
<1>4. QED
  BY <1>2, <1>3

\* monotonic,
LEMMA DivMono ==
  ASSUME NEW a \in Nat, NEW c \in Nat, a <= c, NEW b \in Nat \ {0}
  PROVE  a \div b <= c \div b
  OBVIOUS

\* and bounded when the dividend is.
LEMMA DivCap ==
  ASSUME NEW a \in Nat, NEW b \in Nat \ {0}, NEW q \in Nat, a <= b * q
  PROVE  a \div b <= q
  OBVIOUS

\* So is a product of naturals.
LEMMA TimesMono ==
  ASSUME NEW a \in Nat, NEW b \in Nat, NEW c \in Nat, a <= b
  PROVE  a * c <= b * c /\ c * a <= c * b
  OBVIOUS

-----------------------------------------------------------------------------
(* Weights, masses and the direction.                                       *)

\* The decay weight stays a natural: the slope is shorter than the drop it
\* divides.
LEMMA WeightNat ==
  ASSUME NEW r \in EvidenceRecord
  PROVE  Weight(r) \in Nat
<1>1. r.age \in Nat /\ r.horizon \in Nat \ {0}
  BY DEF EvidenceRecord
<1>2. StaleCutoff(r) = 2 * r.horizon
  BY <1>1 DEF StaleCutoff, Most, MinStale
<1>3. CASE r.age <= r.horizon
  BY <1>1, <1>2, <1>3 DEF Weight, Full
<1>4. CASE ~(r.age <= r.horizon) /\ r.age >= StaleCutoff(r)
  BY <1>4 DEF Weight, Floor
<1>5. CASE ~(r.age <= r.horizon) /\ ~(r.age >= StaleCutoff(r))
  <2> DEFINE h == r.horizon
             x == r.age - r.horizon
             q == (17 * x) \div h
  <2>1. h \in Nat \ {0} /\ x \in Nat /\ x <= h
    BY <1>1, <1>2, <1>5
  <2>2. Weight(r) = 20 - q
    <3>1. StaleCutoff(r) - r.horizon = h
      BY <1>1, <1>2
    <3>2. Weight(r) = Full - ((Full - Floor) * (r.age - r.horizon))
                             \div (StaleCutoff(r) - r.horizon)
      BY <1>5 DEF Weight
    <3>3. Full = 20 /\ Full - Floor = 17
      BY DEF Full, Floor
    <3>4. QED
      BY <3>1, <3>2, <3>3
  <2> HIDE DEF h, x
  <2>3. 17 * x \in Nat /\ 17 * x <= h * 17
    BY <2>1
  <2>4. q \in Nat /\ q <= 17
    BY <2>1, <2>3, DivNat, DivCap
  <2> HIDE DEF q
  <2>5. QED
    BY <2>2, <2>4
<1>6. QED
  BY <1>1, <1>2, <1>3, <1>4, <1>5

\* The items that agree are positions of the evidence, finitely many of them.
LEMMA AgreeingFinite ==
  ASSUME NEW ev \in Seq(EvidenceRecord), NEW side
  PROVE  /\ Agreeing(ev, side) \in SUBSET Nat /\ Agreeing(ev, side) \subseteq DOMAIN ev
         /\ IsFiniteSet(Agreeing(ev, side))
         /\ \A i \in DOMAIN ev : ev[i] \in EvidenceRecord
<1>1. /\ Len(ev) \in Nat /\ DOMAIN ev = 1 .. Len(ev)
      /\ \A i \in DOMAIN ev : ev[i] \in EvidenceRecord
  OBVIOUS
<1>2. Agreeing(ev, side) \subseteq 1 .. Len(ev)
  BY <1>1 DEF Agreeing
<1>3. IsFiniteSet(1 .. Len(ev))
  BY <1>1, FS_Interval
<1>4. QED
  BY <1>1, <1>2, <1>3, FS_Subset

\* A side's mass is a natural, and nothing without an item.
LEMMA SideMassNat ==
  ASSUME NEW ev \in Seq(EvidenceRecord), NEW side
  PROVE  /\ \A i \in DOMAIN ev : Mass(ev, i) \in Nat
         /\ SideMass(ev, side) \in Nat
         /\ Agreeing(ev, side) = {} => SideMass(ev, side) = 0
<1>1. ASSUME NEW i \in DOMAIN ev PROVE Mass(ev, i) \in Nat
  <2>1. ev[i] \in EvidenceRecord
    BY AgreeingFinite
  <2>2. ev[i].confidence \in 0 .. 10
    BY <2>1 DEF EvidenceRecord
  <2>3. Weight(ev[i]) \in Nat
    BY <2>1, WeightNat
  <2>4. QED
    BY <2>2, <2>3 DEF Mass
<1>2. SideMass(ev, side) \in Nat
  <2>1. \A i \in Agreeing(ev, side) : Mass(ev, i) \in Nat
    BY <1>1, AgreeingFinite
  <2>2. QED
    BY <2>1, AgreeingFinite, SideMassIs, MassNat
<1>3. QED
  BY <1>1, <1>2, SideMassIs, MassEmpty

\* A direction that is resolved has items and a positive mass, outweighs or
\* equals the other side, and would be resolved again.
LEMMA Verdict ==
  ASSUME NEW ev \in Seq(EvidenceRecord), NEW was \in {"LONG", "SHORT", "NONE"},
         Resolved(ev, was) # "NONE"
  PROVE  LET side == Resolved(ev, was)
         IN /\ side \in {"LONG", "SHORT"}
            /\ Resolved(ev, side) = side
            /\ SideMass(ev, side) \in Nat \ {0}
            /\ SideMass(ev, Opposite(side)) \in Nat
            /\ SideMass(ev, Opposite(side)) <= SideMass(ev, side)
            /\ Agreeing(ev, side) # {}
<1> DEFINE l == SideMass(ev, "LONG")
           s == SideMass(ev, "SHORT")
<1>1. l \in Nat /\ s \in Nat
  BY SideMassNat
<1>2. Opposite("LONG") = "SHORT" /\ Opposite("SHORT") = "LONG"
  BY DEF Opposite
<1>3. \A w : Resolved(ev, w) = CASE l > s -> "LONG" [] s > l -> "SHORT"
                                 [] l = s /\ l = 0 -> "NONE" [] OTHER -> w
  BY DEF Resolved
<1> HIDE DEF l, s
<1>4. /\ Resolved(ev, was) \in {"LONG", "SHORT"}
      /\ Resolved(ev, was) = "LONG" => l >= s /\ l > 0 /\ Resolved(ev, "LONG") = "LONG"
      /\ Resolved(ev, was) = "SHORT" => s >= l /\ s > 0 /\ Resolved(ev, "SHORT") = "SHORT"
  <2>1. CASE l > s
    BY <1>1, <1>3, <2>1
  <2>2. CASE s > l
    BY <1>1, <1>3, <2>2
  <2>3. CASE l = s
    BY <1>1, <1>3, <2>3
  <2>4. QED
    BY <1>1, <2>1, <2>2, <2>3
<1>5. CASE Resolved(ev, was) = "LONG"
  <2>1. SideMass(ev, "LONG") = l /\ SideMass(ev, "SHORT") = s
    BY DEF l, s
  <2>2. Agreeing(ev, "LONG") # {}
    BY <1>1, <1>4, <1>5, <2>1, SideMassNat
  <2>3. QED
    BY <1>1, <1>2, <1>4, <1>5, <2>1, <2>2
<1>6. CASE Resolved(ev, was) = "SHORT"
  <2>1. SideMass(ev, "LONG") = l /\ SideMass(ev, "SHORT") = s
    BY DEF l, s
  <2>2. Agreeing(ev, "SHORT") # {}
    BY <1>1, <1>4, <1>6, <2>1, SideMassNat
  <2>3. QED
    BY <1>1, <1>2, <1>4, <1>6, <2>1, <2>2
<1>7. QED
  BY <1>4, <1>5, <1>6

\* So would the absence of one.
LEMMA NoneStays ==
  ASSUME NEW ev \in Seq(EvidenceRecord), NEW was \in {"LONG", "SHORT", "NONE"},
         Resolved(ev, was) = "NONE"
  PROVE  Resolved(ev, "NONE") = "NONE"
<1>1. SideMass(ev, "LONG") \in Nat /\ SideMass(ev, "SHORT") \in Nat
  BY SideMassNat
<1>2. QED
  BY <1>1 DEF Resolved

-----------------------------------------------------------------------------
(* The score.                                                               *)

\* What the strongest item is chosen by.
Worth(ev, i) == ev[i].confidence * ev[i].magnitude * Weight(ev[i]) * Weight(ev[i])
Best(ev, side) ==
  {i \in Agreeing(ev, side) : \A j \in Agreeing(ev, side) : Worth(ev, j) <= Worth(ev, i)}

\* The first of the best
LEMMA StrongestIs ==
  ASSUME NEW ev, NEW side
  PROVE  Strongest(ev, side) = CHOOSE i \in Best(ev, side) : \A j \in Best(ev, side) : i <= j
  BY DEF Strongest, Best, Worth

LEMMA Numbers ==
  ASSUME NEW r \in EvidenceRecord
  PROVE  /\ r.confidence \in Nat /\ r.magnitude \in Nat /\ Weight(r) \in Nat
         /\ r.link \in Nat
<1>1. r.confidence \in 0 .. 10 /\ r.magnitude \in 0 .. 10 /\ r.link \in 0 .. 100
  BY DEF EvidenceRecord
<1>2. QED
  BY <1>1, WeightNat

\* is one of the items that agree, when any does.
LEMMA StrongestIn ==
  ASSUME NEW ev \in Seq(EvidenceRecord), NEW side, Agreeing(ev, side) # {}
  PROVE  Strongest(ev, side) \in Agreeing(ev, side)
<1> DEFINE A == Agreeing(ev, side)
           B == Best(ev, side)
<1>1. A \in SUBSET Nat /\ IsFiniteSet(A)
  BY AgreeingFinite
<1>2. ASSUME NEW i \in A PROVE Worth(ev, i) \in Nat
  <2>1. ev[i] \in EvidenceRecord
    BY AgreeingFinite
  <2> DEFINE c == ev[i].confidence
             m == ev[i].magnitude
             w == Weight(ev[i])
  <2>2. c \in Nat /\ m \in Nat /\ w \in Nat
    BY <2>1, Numbers
  <2>3. Worth(ev, i) = c * m * w * w
    BY DEF Worth
  <2> HIDE DEF c, m, w
  <2>4. c * m \in Nat
    BY <2>2
  <2>5. c * m * w \in Nat
    BY <2>2, <2>4
  <2>6. QED
    BY <2>2, <2>3, <2>5
<1>3. B # {}
  <2> DEFINE Top(s) == \E i \in s : \A j \in s : Worth(ev, j) <= Worth(ev, i)
             T == {s \in SUBSET A : s # {} => Top(s)}
  <2>1. {} \in T
    OBVIOUS
  <2>2. \A s \in SUBSET A : s # {} /\ (\A x \in s : s \ {x} \in T) => s \in T
    <3> SUFFICES ASSUME NEW s \in SUBSET A, s # {}, \A x \in s : s \ {x} \in T
                 PROVE  Top(s)
      OBVIOUS
    <3>1. PICK x \in s : TRUE
      OBVIOUS
    <3>2. Worth(ev, x) \in Nat /\ \A j \in s : Worth(ev, j) \in Nat
      BY <1>2
    <3>3. CASE s \ {x} = {}
      <4>1. \A j \in s : j = x
        BY <3>3
      <4>2. QED
        BY <3>2, <4>1
    <3>4. CASE s \ {x} # {}
      <4>1. PICK i \in s \ {x} : \A j \in s \ {x} : Worth(ev, j) <= Worth(ev, i)
        BY <3>1, <3>4
      <4>2. CASE Worth(ev, x) <= Worth(ev, i)
        BY <4>1, <4>2
      <4>3. CASE ~(Worth(ev, x) <= Worth(ev, i))
        <5>1. \A j \in s : Worth(ev, j) <= Worth(ev, x)
          BY <3>2, <4>1, <4>3
        <5>2. QED
          BY <3>1, <5>1
      <4>4. QED
        BY <4>2, <4>3
    <3>5. QED
      BY <3>3, <3>4
  <2>3. A \in T
    <3> HIDE DEF T, A
    <3> QED BY <1>1, <2>1, <2>2, SetInduction
  <2>4. QED
    BY <2>3 DEF Best
<1>4. B \in SUBSET Nat /\ B \subseteq A
  BY <1>1 DEF Best
<1>5. PICK i \in B : \A j \in B : i <= j
  <2> HIDE DEF B
  <2> QED BY <1>3, <1>4, LeastExists
<1>6. (CHOOSE k \in B : \A j \in B : k <= j) \in B
  BY <1>5
<1>7. QED
  BY <1>4, <1>6, StrongestIs

\* The factors of a score: the strongest item's, each with its bonus and its
\* cap.
Conf(b, n) == Least(Whole, b.confidence * Weight(b) + 2 * Doublings(n))
Magn(b, n) == Least(WholeMagnitude, b.magnitude * Weight(b) * (40 + Doublings(n)))

LEMMA ScoreIs ==
  ASSUME NEW ev, NEW side, NEW n
  PROVE  Score(ev, side, n)
         = (Conf(ev[Strongest(ev, side)], n) * Magn(ev[Strongest(ev, side)], n)
            * (SideMass(ev, side) - SideMass(ev, Opposite(side)))) \div SideMass(ev, side)
  BY DEF Score, Conf, Magn

\* More sources, no smaller a bonus,
LEMMA DoublingsGrow ==
  ASSUME NEW n \in Nat, NEW m \in Nat, n <= m
  PROVE  Doublings(n) \in Nat /\ Doublings(m) \in Nat /\ Doublings(n) <= Doublings(m)
  BY DEF Doublings

LEMMA Capped ==
  ASSUME NEW a \in Nat, NEW u \in Nat, NEW v \in Nat, u <= v
  PROVE  /\ Least(a, u) \in Nat /\ Least(a, v) \in Nat
         /\ Least(a, u) <= a /\ Least(a, v) <= a /\ Least(a, u) <= Least(a, v)
  BY DEF Least

\* and no smaller a factor, up to its cap.
LEMMA FactorsGrow ==
  ASSUME NEW b \in EvidenceRecord, NEW n \in Nat, NEW m \in Nat, n <= m
  PROVE  /\ Conf(b, n) \in Nat /\ Conf(b, m) \in Nat /\ Magn(b, n) \in Nat /\ Magn(b, m) \in Nat
         /\ Conf(b, n) <= Conf(b, m) /\ Conf(b, m) <= Whole
         /\ Magn(b, n) <= Magn(b, m) /\ Magn(b, m) <= WholeMagnitude
<1> DEFINE x == b.confidence * Weight(b)
           y == b.magnitude * Weight(b)
           p == Doublings(n)
           q == Doublings(m)
<1>1. x \in Nat /\ y \in Nat
  BY Numbers
<1>2. p \in Nat /\ q \in Nat /\ p <= q
  BY DoublingsGrow
<1>3. /\ Conf(b, n) = Least(200, x + 2 * p) /\ Conf(b, m) = Least(200, x + 2 * q)
      /\ Magn(b, n) = Least(8000, y * (40 + p)) /\ Magn(b, m) = Least(8000, y * (40 + q))
  BY DEF Conf, Magn, Whole, WholeMagnitude
<1> HIDE DEF x, y, p, q
<1>4. /\ y * (40 + p) \in Nat /\ y * (40 + q) \in Nat
      /\ y * (40 + p) <= y * (40 + q)
  <2>1. 40 + p \in Nat /\ 40 + q \in Nat /\ 40 + p <= 40 + q
    BY <1>2
  <2>2. QED
    BY <1>1, <2>1, TimesMono
<1>5. x + 2 * p \in Nat /\ x + 2 * q \in Nat /\ x + 2 * p <= x + 2 * q
  BY <1>1, <1>2
<1>6. 200 \in Nat /\ 8000 \in Nat
  OBVIOUS
<1>7. /\ Conf(b, n) \in Nat /\ Conf(b, m) \in Nat
      /\ Conf(b, n) <= Conf(b, m) /\ Conf(b, m) <= 200
  BY <1>3, <1>5, <1>6, Capped
<1>8. /\ Magn(b, n) \in Nat /\ Magn(b, m) \in Nat
      /\ Magn(b, n) <= Magn(b, m) /\ Magn(b, m) <= 8000
  BY <1>3, <1>4, <1>6, Capped
<1>9. QED
  BY <1>7, <1>8 DEF Whole, WholeMagnitude

\* Larger factors and a lighter opposition, no lower a score; and the division
\* by the side's mass never takes it over the product of the factors.
LEMMA Discounted ==
  ASSUME NEW c \in Nat, NEW d \in Nat, c <= d, NEW g \in Nat, NEW h \in Nat, g <= h,
         NEW a \in Nat \ {0}, NEW o \in Nat, NEW w \in Nat, o <= w, w <= a
  PROVE  /\ (c * g * (a - w)) \div a \in Nat
         /\ (c * g * (a - w)) \div a <= (d * h * (a - o)) \div a
         /\ (d * h * (a - o)) \div a <= d * h
<1>1. c * g \in Nat /\ d * h \in Nat /\ d * g \in Nat /\ c * g <= d * g /\ d * g <= d * h
  BY TimesMono
<1> DEFINE x == c * g
           y == d * h
           u == a - w
           v == a - o
<1>2. x \in Nat /\ y \in Nat /\ x <= y
  BY <1>1
<1>3. u \in Nat /\ v \in Nat /\ u <= v /\ v <= a
  OBVIOUS
<1> HIDE DEF x, y, u, v
<1>4. x * u \in Nat /\ y * v \in Nat /\ y * u \in Nat /\ x * u <= y * u /\ y * u <= y * v
  BY <1>2, <1>3, TimesMono
<1>5. x * u <= y * v
  BY <1>4
<1>6. y * v <= y * a /\ y * a = a * y
  BY <1>2, <1>3, TimesMono
<1>7. (x * u) \div a \in Nat /\ (x * u) \div a <= (y * v) \div a
  BY <1>4, <1>5, DivNat, DivMono
<1>8. (y * v) \div a <= y
  BY <1>2, <1>4, <1>6, DivCap
<1>9. QED
  BY <1>7, <1>8 DEF x, y, u, v

\* A score lies within its range and grows with the sources it is paid on.
LEMMA ScoreGrows ==
  ASSUME NEW ev \in Seq(EvidenceRecord), NEW side, Agreeing(ev, side) # {},
         SideMass(ev, side) \in Nat \ {0}, SideMass(ev, Opposite(side)) \in Nat,
         SideMass(ev, Opposite(side)) <= SideMass(ev, side),
         NEW n \in Nat, NEW m \in Nat, n <= m
  PROVE  /\ Score(ev, side, n) \in 0 .. Whole * WholeMagnitude
         /\ Score(ev, side, n) <= Score(ev, side, m)
<1> DEFINE b == ev[Strongest(ev, side)]
           a == SideMass(ev, side)
           o == SideMass(ev, Opposite(side))
<1>1. b \in EvidenceRecord
  BY StrongestIn, AgreeingFinite
<1>2. a \in Nat \ {0} /\ o \in Nat /\ o <= a
  OBVIOUS
<1>3. \A k : Score(ev, side, k) = (Conf(b, k) * Magn(b, k) * (a - o)) \div a
  BY ScoreIs
<1> HIDE DEF b, a, o
<1>4. /\ Conf(b, n) \in Nat /\ Conf(b, m) \in Nat /\ Magn(b, n) \in Nat /\ Magn(b, m) \in Nat
      /\ Conf(b, n) <= Conf(b, m) /\ Conf(b, m) <= 200
      /\ Magn(b, n) <= Magn(b, m) /\ Magn(b, m) <= 8000
  <2>1. /\ Conf(b, n) \in Nat /\ Conf(b, m) \in Nat /\ Magn(b, n) \in Nat /\ Magn(b, m) \in Nat
        /\ Conf(b, n) <= Conf(b, m) /\ Conf(b, m) <= Whole
        /\ Magn(b, n) <= Magn(b, m) /\ Magn(b, m) <= WholeMagnitude
    BY <1>1, FactorsGrow
  <2>2. QED
    BY <2>1 DEF Whole, WholeMagnitude
<1>5. /\ Score(ev, side, n) \in Nat /\ Score(ev, side, n) <= Score(ev, side, m)
      /\ Score(ev, side, n) <= Conf(b, n) * Magn(b, n)
  <2> DEFINE c == Conf(b, n)
             d == Conf(b, m)
             g == Magn(b, n)
             h == Magn(b, m)
  <2>1. c \in Nat /\ d \in Nat /\ g \in Nat /\ h \in Nat /\ c <= d /\ g <= h /\ o <= o /\ c <= c
        /\ g <= g
    BY <1>2, <1>4
  <2>2. /\ Score(ev, side, n) = (c * g * (a - o)) \div a
        /\ Score(ev, side, m) = (d * h * (a - o)) \div a
    BY <1>3
  <2> HIDE DEF c, d, g, h
  <2>3. /\ (c * g * (a - o)) \div a \in Nat
        /\ (c * g * (a - o)) \div a <= (d * h * (a - o)) \div a
    BY <1>2, <2>1, Discounted
  <2>4. (c * g * (a - o)) \div a <= c * g
    BY <1>2, <2>1, Discounted
  <2>5. QED
    BY <2>2, <2>3, <2>4 DEF c, g
<1>6. Conf(b, n) * Magn(b, n) <= 200 * 8000
  <2> DEFINE c == Conf(b, n)
             g == Magn(b, n)
  <2>1. c \in Nat /\ g \in Nat /\ c <= 200 /\ g <= 8000
    BY <1>4
  <2> HIDE DEF c, g
  <2>2. c * g <= 200 * g
    BY <2>1, TimesMono
  <2>3. c * g \in Nat /\ c * g <= 200 * 8000
    BY <2>1, <2>2
  <2>4. QED
    BY <2>3 DEF c, g
<1>7. Conf(b, n) * Magn(b, n) \in Nat
  BY <1>4, TimesMono
<1>8. Score(ev, side, n) \in Nat /\ Score(ev, side, n) <= 200 * 8000
  BY <1>5, <1>6, <1>7
<1>9. Whole * WholeMagnitude = 200 * 8000
  BY DEF Whole, WholeMagnitude
<1>10. Score(ev, side, n) \in 0 .. Whole * WholeMagnitude
  BY <1>8, <1>9
<1>11. QED
  BY <1>5, <1>10

-----------------------------------------------------------------------------
(* Slots.                                                                   *)

\* The image of a finite set is finite.
LEMMA ImageFinite ==
  ASSUME NEW S, IsFiniteSet(S), NEW f, f = [x \in S |-> f[x]]
  PROVE  IsFiniteSet({f[x] : x \in S})
<1> DEFINE T == {f[x] : x \in S}
<1>1. f \in Surjection(S, T)
  BY DEF Surjection
<1>2. QED
  BY <1>1, FS_Surjection

\* The two partitions KeysOf chooses between: by label, where an item has one,
\* and by channel.
FactSlot(r) == IF IsSector(r) THEN SectorSlot ELSE IndependenceKey(r)
ChannelSlot(r) == IF IsSector(r) THEN SectorSlot ELSE ChannelKey(r)
ByFact(S) == {FactSlot(r) : r \in S}
ByChannel(S) == {ChannelSlot(r) : r \in S}

\* The smaller of the two, the labels' on a tie,
LEMMA KeysAre ==
  ASSUME NEW S
  PROVE  KeysOf(S) = IF Cardinality(ByFact(S)) <= Cardinality(ByChannel(S)) THEN ByFact(S)
                     ELSE ByChannel(S)
  BY DEF KeysOf, ByFact, ByChannel, FactSlot, ChannelSlot

\* so no larger than either.
LEMMA KeysBounds ==
  ASSUME NEW S, IsFiniteSet(S)
  PROVE  /\ IsFiniteSet(ByFact(S)) /\ IsFiniteSet(ByChannel(S))
         /\ Cardinality(KeysOf(S)) \in Nat
         /\ Cardinality(KeysOf(S)) <= Cardinality(ByFact(S))
         /\ Cardinality(KeysOf(S)) <= Cardinality(ByChannel(S))
         /\ KeysOf(S) = ByFact(S) \/ KeysOf(S) = ByChannel(S)
<1>1. IsFiniteSet(ByFact(S))
  <2> DEFINE f == [r \in S |-> FactSlot(r)]
  <2>1. IsFiniteSet({f[r] : r \in S})
    BY ImageFinite
  <2>2. {f[r] : r \in S} = ByFact(S)
    BY DEF ByFact
  <2>3. QED
    BY <2>1, <2>2
<1>2. IsFiniteSet(ByChannel(S))
  <2> DEFINE f == [r \in S |-> ChannelSlot(r)]
  <2>1. IsFiniteSet({f[r] : r \in S})
    BY ImageFinite
  <2>2. {f[r] : r \in S} = ByChannel(S)
    BY DEF ByChannel
  <2>3. QED
    BY <2>1, <2>2
<1>3. Cardinality(ByFact(S)) \in Nat /\ Cardinality(ByChannel(S)) \in Nat
  BY <1>1, <1>2, FS_CardinalityType
<1>4. CASE Cardinality(ByFact(S)) <= Cardinality(ByChannel(S))
  <2>1. KeysOf(S) = ByFact(S)
    BY <1>4, KeysAre
  <2>2. QED
    BY <1>1, <1>2, <1>3, <1>4, <2>1
<1>5. CASE ~(Cardinality(ByFact(S)) <= Cardinality(ByChannel(S)))
  <2>1. KeysOf(S) = ByChannel(S)
    BY <1>5, KeysAre
  <2>2. QED
    BY <1>1, <1>2, <1>3, <1>5, <2>1
<1>6. QED
  BY <1>4, <1>5

\* Sector items share a slot: whatever their number, they add one source at
\* most,
LEMMA SectorAddsOne ==
  ASSUME NEW S, IsFiniteSet(S)
  PROVE  Cardinality(KeysOf(S)) <= Cardinality(KeysOf({r \in S : ~IsSector(r)})) + 1
<1> DEFINE W == {r \in S : ~IsSector(r)}
<1>1. IsFiniteSet(W)
  BY FS_Subset
<1>2. ByFact(S) \subseteq ByFact(W) \cup {SectorSlot}
  BY DEF ByFact, FactSlot
<1>3. ByChannel(S) \subseteq ByChannel(W) \cup {SectorSlot}
  BY DEF ByChannel, ChannelSlot
<1> HIDE DEF W
<1>4. ASSUME NEW A, NEW B, IsFiniteSet(B), A \subseteq B \cup {SectorSlot}
      PROVE  /\ Cardinality(A) <= Cardinality(B) + 1
             /\ Cardinality(A) \in Nat /\ Cardinality(B) \in Nat
  <2>1. IsFiniteSet(B \cup {SectorSlot}) /\ Cardinality(B) \in Nat
    BY <1>4, FS_AddElement, FS_CardinalityType
  <2>2. Cardinality(B \cup {SectorSlot}) \in {Cardinality(B), Cardinality(B) + 1}
    BY <1>4, FS_AddElement
  <2>3. IsFiniteSet(A) /\ Cardinality(A) <= Cardinality(B \cup {SectorSlot})
    BY <1>4, <2>1, FS_Subset
  <2>4. Cardinality(A) \in Nat
    BY <2>3, FS_CardinalityType
  <2>5. QED
    BY <2>1, <2>2, <2>3, <2>4
<1>5. /\ IsFiniteSet(ByFact(W)) /\ IsFiniteSet(ByChannel(W))
      /\ KeysOf(W) = ByFact(W) \/ KeysOf(W) = ByChannel(W)
  BY <1>1, KeysBounds
<1>6. /\ Cardinality(ByFact(S)) <= Cardinality(ByFact(W)) + 1
      /\ Cardinality(ByFact(S)) \in Nat /\ Cardinality(ByFact(W)) \in Nat
  BY <1>2, <1>4, <1>5
<1>7. /\ Cardinality(ByChannel(S)) <= Cardinality(ByChannel(W)) + 1
      /\ Cardinality(ByChannel(S)) \in Nat /\ Cardinality(ByChannel(W)) \in Nat
  BY <1>3, <1>4, <1>5
<1>8. /\ Cardinality(KeysOf(S)) \in Nat
      /\ Cardinality(KeysOf(S)) <= Cardinality(ByFact(S))
      /\ Cardinality(KeysOf(S)) <= Cardinality(ByChannel(S))
  BY KeysBounds
<1>9. Cardinality(KeysOf(S)) <= Cardinality(KeysOf(W)) + 1
  <2>1. CASE KeysOf(W) = ByFact(W)
    BY <1>6, <1>8, <2>1
  <2>2. CASE KeysOf(W) = ByChannel(W)
    BY <1>7, <1>8, <2>2
  <2>3. QED
    BY <1>5, <2>1, <2>2
<1>10. QED
  BY <1>9 DEF W

\* and are one source alone.
LEMMA SectorAlone ==
  ASSUME NEW S, IsFiniteSet(S), \A r \in S : IsSector(r)
  PROVE  Cardinality(KeysOf(S)) <= 1
<1>1. ByFact(S) \subseteq {SectorSlot}
  BY DEF ByFact, FactSlot
<1>2. IsFiniteSet({SectorSlot}) /\ Cardinality({SectorSlot}) = 1
  BY FS_Singleton
<1>3. Cardinality(ByFact(S)) <= 1
  BY <1>1, <1>2, FS_Subset
<1>4. IsFiniteSet(ByFact(S)) /\ Cardinality(ByFact(S)) \in Nat
  BY KeysBounds, FS_CardinalityType
<1>5. QED
  BY <1>3, <1>4, KeysBounds

-----------------------------------------------------------------------------
(* Evidence without labels.                                                 *)

\* A record without its label
Strip(r) == [r EXCEPT !.fact = NoLabel]

\* has the other fields,
LEMMA StripIs ==
  ASSUME NEW r \in EvidenceRecord
  PROVE  /\ Strip(r) \in EvidenceRecord /\ Strip(r).fact = NoLabel
         /\ Strip(r).source_type = r.source_type /\ Strip(r).source = r.source
         /\ Strip(r).day = r.day /\ Strip(r).origin = r.origin
         /\ Strip(r).link = r.link /\ Strip(r).role = r.role
         /\ Strip(r).direction = r.direction /\ Strip(r).confidence = r.confidence
         /\ Strip(r).magnitude = r.magnitude /\ Strip(r).horizon = r.horizon
         /\ Strip(r).age = r.age
  BY DossierAssumption DEF Strip, EvidenceRecord, NoLabel

\* the same weight, and its channel for a slot in both partitions.
LEMMA StripSame ==
  ASSUME NEW r \in EvidenceRecord
  PROVE  /\ Weight(Strip(r)) = Weight(r)
         /\ IsStale(Strip(r)) <=> IsStale(r)
         /\ IsSector(Strip(r)) <=> IsSector(r)
         /\ ChannelKey(Strip(r)) = ChannelKey(r)
         /\ FactSlot(Strip(r)) = ChannelSlot(r) /\ ChannelSlot(Strip(r)) = ChannelSlot(r)
<1> DEFINE s == Strip(r)
<1>1. /\ s.fact = NoLabel /\ s.source_type = r.source_type /\ s.source = r.source
      /\ s.day = r.day /\ s.origin = r.origin /\ s.link = r.link
      /\ s.horizon = r.horizon /\ s.age = r.age
  BY StripIs
<1> HIDE DEF s
<1>2. StaleCutoff(s) = StaleCutoff(r)
  BY <1>1 DEF StaleCutoff
<1>3. Weight(s) = Weight(r) /\ (IsStale(s) <=> IsStale(r))
  BY <1>1, <1>2 DEF Weight, IsStale
<1>4. (IsPropagated(s) <=> IsPropagated(r)) /\ (IsSector(s) <=> IsSector(r))
  BY <1>1 DEF IsPropagated, IsSector
<1>5. ChannelKey(s) = ChannelKey(r)
  BY <1>1, <1>4 DEF ChannelKey
<1>6. IndependenceKey(s) = ChannelKey(s)
  BY <1>1 DEF IndependenceKey
<1>7. QED
  BY <1>3, <1>4, <1>5, <1>6 DEF s, FactSlot, ChannelSlot

\* So labels can merge sources and never add one.
LEMMA LabelsMerge ==
  ASSUME NEW S \in SUBSET EvidenceRecord, IsFiniteSet(S)
  PROVE  Cardinality(KeysOf(S)) <= Cardinality(KeysOf({Strip(r) : r \in S}))
<1> DEFINE T == {Strip(r) : r \in S}
<1>1. ByFact(T) = ByChannel(S)
  BY StripSame DEF ByFact, ByChannel
<1>2. ByChannel(T) = ByChannel(S)
  BY StripSame DEF ByChannel
<1> HIDE DEF T
<1>3. KeysOf(T) = ByChannel(S)
  BY <1>1, <1>2, KeysAre
<1>4. Cardinality(KeysOf(S)) <= Cardinality(ByChannel(S))
  BY KeysBounds
<1>5. QED
  BY <1>3, <1>4 DEF T

\* What a score is made of is the same for two bodies of evidence with the same
\* agreeing items, of the same strength.
LEMMA SameScore ==
  ASSUME NEW ev \in Seq(EvidenceRecord), NEW ex \in Seq(EvidenceRecord), NEW side,
         Agreeing(ex, side) = Agreeing(ev, side),
         \A i \in Agreeing(ev, side) :
           /\ ex[i].confidence = ev[i].confidence /\ ex[i].magnitude = ev[i].magnitude
           /\ Weight(ex[i]) = Weight(ev[i])
  PROVE  /\ SideMass(ex, side) = SideMass(ev, side)
         /\ Agreeing(ev, side) # {} =>
              \A n : /\ Conf(ex[Strongest(ex, side)], n) = Conf(ev[Strongest(ev, side)], n)
                     /\ Magn(ex[Strongest(ex, side)], n) = Magn(ev[Strongest(ev, side)], n)
<1> DEFINE A == Agreeing(ev, side)
<1>1. IsFiniteSet(A)
  BY AgreeingFinite
<1>2. \A i \in A : Mass(ex, i) = Mass(ev, i) /\ Worth(ex, i) = Worth(ev, i)
  BY DEF Mass, Worth
<1>3. MassOf(ex, A) = MassOf(ev, A)
  <2> HIDE DEF A
  <2>1. \A i \in A : Mass(ex, i) = Mass(ev, i)
    BY <1>2
  <2>2. QED
    BY <1>1, <2>1, MassSame
<1>4. SideMass(ex, side) = SideMass(ev, side)
  BY <1>3, SideMassIs
<1>5. Best(ex, side) = Best(ev, side)
  BY <1>2 DEF Best
<1>6. Strongest(ex, side) = Strongest(ev, side)
  BY <1>5, StrongestIs
<1>7. ASSUME A # {}
      PROVE  \A n : /\ Conf(ex[Strongest(ex, side)], n) = Conf(ev[Strongest(ev, side)], n)
                    /\ Magn(ex[Strongest(ex, side)], n) = Magn(ev[Strongest(ev, side)], n)
  <2>1. Strongest(ev, side) \in A
    BY <1>7, StrongestIn
  <2>2. QED
    BY <1>6, <2>1 DEF Conf, Magn
<1>8. QED
  BY <1>4, <1>7

\* The evidence without its labels
Stripped(ev) == [i \in DOMAIN ev |-> Strip(ev[i])]

\* agrees on the same items with the same mass,
LEMMA StrippedIs ==
  ASSUME NEW ev \in Seq(EvidenceRecord)
  PROVE  /\ Stripped(ev) \in Seq(EvidenceRecord)
         /\ DOMAIN Stripped(ev) = DOMAIN ev
         /\ \A i \in DOMAIN ev : Stripped(ev)[i] = Strip(ev[i]) /\ ev[i] \in EvidenceRecord
         /\ \A side : Agreeing(Stripped(ev), side) = Agreeing(ev, side)
         /\ \A side : SideMass(Stripped(ev), side) = SideMass(ev, side)
<1> DEFINE ex == Stripped(ev)
<1>1. /\ DOMAIN ev = 1 .. Len(ev) /\ Len(ev) \in Nat
      /\ \A i \in DOMAIN ev : ev[i] \in EvidenceRecord
  OBVIOUS
<1>2. DOMAIN ex = DOMAIN ev /\ \A i \in DOMAIN ev : ex[i] = Strip(ev[i])
  BY DEF Stripped
<1>3. \A i \in DOMAIN ev : Strip(ev[i]) \in EvidenceRecord
  BY <1>1, StripIs
<1>4. ex \in Seq(EvidenceRecord)
  <2>1. ex = [i \in 1 .. Len(ev) |-> Strip(ev[i])]
    BY <1>1 DEF Stripped
  <2>2. ex \in [1 .. Len(ev) -> EvidenceRecord]
    BY <1>1, <1>3, <2>1
  <2>3. QED
    BY <1>1, <2>2
<1> HIDE DEF ex
<1>5. ASSUME NEW side PROVE Agreeing(ex, side) = Agreeing(ev, side)
  <2>1. \A i \in DOMAIN ev : /\ ex[i].direction = ev[i].direction
                             /\ IsStale(ex[i]) <=> IsStale(ev[i])
    BY <1>1, <1>2, StripIs, StripSame
  <2>2. QED
    BY <1>2, <2>1 DEF Agreeing
<1>6. ASSUME NEW side PROVE SideMass(ex, side) = SideMass(ev, side)
  <2>1. \A i \in Agreeing(ev, side) :
          /\ ex[i].confidence = ev[i].confidence /\ ex[i].magnitude = ev[i].magnitude
          /\ Weight(ex[i]) = Weight(ev[i])
    BY <1>1, <1>2, AgreeingFinite, StripIs, StripSame
  <2>2. QED
    BY <1>4, <1>5, <2>1, SameScore
<1>7. QED
  BY <1>1, <1>2, <1>4, <1>5, <1>6 DEF ex

\* scores the same on the same sources,
LEMMA StrippedScore ==
  ASSUME NEW ev \in Seq(EvidenceRecord), NEW side, Agreeing(ev, side) # {}, NEW n
  PROVE  Score(Stripped(ev), side, n) = Score(ev, side, n)
<1> DEFINE ex == Stripped(ev)
<1>1. /\ ex \in Seq(EvidenceRecord) /\ Agreeing(ex, side) = Agreeing(ev, side)
      /\ SideMass(ex, side) = SideMass(ev, side)
      /\ SideMass(ex, Opposite(side)) = SideMass(ev, Opposite(side))
  BY StrippedIs
<1>2. \A i \in Agreeing(ev, side) :
          /\ ex[i].confidence = ev[i].confidence /\ ex[i].magnitude = ev[i].magnitude
          /\ Weight(ex[i]) = Weight(ev[i])
  BY StrippedIs, AgreeingFinite, StripIs, StripSame
<1> HIDE DEF ex
<1>3. /\ Conf(ex[Strongest(ex, side)], n) = Conf(ev[Strongest(ev, side)], n)
      /\ Magn(ex[Strongest(ex, side)], n) = Magn(ev[Strongest(ev, side)], n)
  <2>1. Agreeing(ev, side) # {} =>
          \A k : /\ Conf(ex[Strongest(ex, side)], k) = Conf(ev[Strongest(ev, side)], k)
                 /\ Magn(ex[Strongest(ex, side)], k) = Magn(ev[Strongest(ev, side)], k)
    BY <1>1, <1>2, SameScore
  <2>2. QED
    BY <2>1
<1>4. QED
  BY <1>1, <1>3, ScoreIs DEF ex

LEMMA ContributingFinite ==
  ASSUME NEW ev \in Seq(EvidenceRecord), NEW side
  PROVE  Contributing(ev, side) \in SUBSET EvidenceRecord /\ IsFiniteSet(Contributing(ev, side))
<1> DEFINE J == {j \in Agreeing(ev, side) : ev[j].confidence * Weight(ev[j]) >= MinContribution}
           f == [j \in J |-> ev[j]]
<1>1. IsFiniteSet(J) /\ J \subseteq DOMAIN ev
  BY AgreeingFinite, FS_Subset
<1>2. Contributing(ev, side) = {f[j] : j \in J}
  BY DEF Contributing
<1>3. \A j \in J : f[j] \in EvidenceRecord
  BY <1>1, AgreeingFinite
<1>4. f = [j \in J |-> f[j]]
  OBVIOUS
<1> HIDE DEF J, f
<1>5. QED
  BY <1>1, <1>2, <1>3, <1>4, ImageFinite

\* has the same contributing items, stripped,
LEMMA StrippedSources ==
  ASSUME NEW ev \in Seq(EvidenceRecord), NEW side
  PROVE  Contributing(Stripped(ev), side) = {Strip(r) : r \in Contributing(ev, side)}
<1> DEFINE ex == Stripped(ev)
           J == {j \in Agreeing(ev, side) : ev[j].confidence * Weight(ev[j]) >= MinContribution}
           K == {j \in Agreeing(ex, side) : ex[j].confidence * Weight(ex[j]) >= MinContribution}
<1>1. Agreeing(ex, side) = Agreeing(ev, side) /\ Agreeing(ev, side) \subseteq DOMAIN ev
  BY StrippedIs, AgreeingFinite
<1>2. \A j \in DOMAIN ev : /\ ex[j] = Strip(ev[j]) /\ ex[j].confidence = ev[j].confidence
                           /\ Weight(ex[j]) = Weight(ev[j])
  BY StrippedIs, StripIs, StripSame
<1>3. K = J
  <2> HIDE DEF ex
  <2>1. QED
    BY <1>1, <1>2
<1>4. Contributing(ex, side) = {ex[j] : j \in K} /\ Contributing(ev, side) = {ev[j] : j \in J}
  BY DEF Contributing
<1>5. J \subseteq DOMAIN ev
  BY <1>1
<1> HIDE DEF J, K, ex
<1>6. {ex[j] : j \in J} = {Strip(r) : r \in {ev[j] : j \in J}}
  BY <1>2, <1>5
<1>7. QED
  BY <1>3, <1>4, <1>6 DEF ex

\* with the backing and the sources of a side written for its items,
Filing(ev, side) ==
  \E i \in Agreeing(ev, side) :
    ev[i].source_type # "news" /\ (ev[i].link = Direct \/ ev[i].link >= DisclosedLink)
Disclosed(ev, side) ==
  \E i \in Agreeing(ev, side) : ev[i].link >= DisclosedLink /\ ev[i].role # "competitor"
Sources(ev, side) == Cardinality(KeysOf(Contributing(ev, side)))

LEMMA SourcesNat ==
  ASSUME NEW ev \in Seq(EvidenceRecord), NEW side
  PROVE  Sources(ev, side) \in Nat
  BY ContributingFinite, KeysBounds DEF Sources

\* and the same backing.
LEMMA StrippedBacking ==
  ASSUME NEW ev \in Seq(EvidenceRecord), NEW side
  PROVE  /\ Filing(Stripped(ev), side) <=> Filing(ev, side)
         /\ Disclosed(Stripped(ev), side) <=> Disclosed(ev, side)
<1> DEFINE ex == Stripped(ev)
<1>1. Agreeing(ex, side) = Agreeing(ev, side)
  BY StrippedIs
<1>2. \A i \in Agreeing(ev, side) : /\ ex[i].source_type = ev[i].source_type
                                    /\ ex[i].link = ev[i].link /\ ex[i].role = ev[i].role
  BY StrippedIs, AgreeingFinite, StripIs
<1> HIDE DEF ex
<1>3. QED
  BY <1>1, <1>2 DEF Filing, Disclosed, ex

-----------------------------------------------------------------------------
(* The aggregate.                                                           *)

\* The sides a dossier can have.
Directions == {"LONG", "SHORT", "NONE"}

\* What _aggregate writes, field by field.
LEMMA AggregateIs ==
  ASSUME NEW ev, NEW was, NEW judged
  PROVE  /\ Resolved(ev, was) = "NONE" => Aggregate(ev, was, judged) = NoThesis
         /\ Resolved(ev, was) # "NONE" =>
              LET d == Aggregate(ev, was, judged)
                  side == Resolved(ev, was)
              IN /\ d = [direction |-> d.direction, sources |-> d.sources, filing |-> d.filing,
                         disclosed |-> d.disclosed, score |-> d.score,
                         arithmetic |-> d.arithmetic]
                 /\ d.direction = side
                 /\ d.sources = Sources(ev, side)
                 /\ d.filing \in BOOLEAN /\ (d.filing <=> Filing(ev, side))
                 /\ d.disclosed \in BOOLEAN /\ (d.disclosed <=> Disclosed(ev, side))
                 /\ d.score = Score(ev, side, EffectiveCount(Sources(ev, side), judged))
                 /\ d.arithmetic = Score(ev, side, Sources(ev, side))
<1>1. Resolved(ev, was) = "NONE" => Aggregate(ev, was, judged) = NoThesis
  BY DEF Aggregate
<1>2. ASSUME Resolved(ev, was) # "NONE"
      PROVE  LET d == Aggregate(ev, was, judged)
                 side == Resolved(ev, was)
             IN /\ d = [direction |-> d.direction, sources |-> d.sources, filing |-> d.filing,
                         disclosed |-> d.disclosed, score |-> d.score,
                         arithmetic |-> d.arithmetic]
                /\ d.direction = side
                /\ d.sources = Sources(ev, side)
                /\ d.filing \in BOOLEAN /\ (d.filing <=> Filing(ev, side))
                /\ d.disclosed \in BOOLEAN /\ (d.disclosed <=> Disclosed(ev, side))
                /\ d.score = Score(ev, side, EffectiveCount(Sources(ev, side), judged))
                /\ d.arithmetic = Score(ev, side, Sources(ev, side))
  <2> DEFINE side == Resolved(ev, was)
             agreeing == {ev[i] : i \in Agreeing(ev, side)}
             f == \E r \in agreeing :
                    r.source_type # "news" /\ (r.link = Direct \/ r.link >= DisclosedLink)
             g == \E r \in agreeing : r.link >= DisclosedLink /\ r.role # "competitor"
             n == Sources(ev, side)
             d == Aggregate(ev, was, judged)
  <2>1. d = [direction |-> side, sources |-> n, filing |-> f, disclosed |-> g,
             score |-> Score(ev, side, EffectiveCount(n, judged)),
             arithmetic |-> Score(ev, side, n)]
    BY <1>2 DEF Aggregate, Sources
  <2>2. f \in BOOLEAN /\ g \in BOOLEAN
    OBVIOUS
  <2>3. (f <=> Filing(ev, side)) /\ (g <=> Disclosed(ev, side))
    BY DEF Filing, Disclosed
  <2> HIDE DEF f, g, n, side, d
  <2>4. QED
    BY <2>1, <2>2, <2>3 DEF d, n, side
<1>3. QED
  BY <1>1, <1>2

\* A verdict of the synthesis never pays on more sources than were counted.
LEMMA EffectiveFewer ==
  ASSUME NEW n \in Nat, NEW judged \in Nat
  PROVE  EffectiveCount(n, judged) \in Nat /\ EffectiveCount(n, judged) <= n
  BY DEF EffectiveCount, Least

\* _aggregate writes a dossier, for every body of evidence,
LEMMA AggregateType ==
  ASSUME NEW ev \in Seq(EvidenceRecord), NEW was \in Directions, NEW judged \in Nat
  PROVE  Aggregate(ev, was, judged) \in Dossier
<1> DEFINE d == Aggregate(ev, was, judged)
           side == Resolved(ev, was)
<1>1. CASE side = "NONE"
  <2>1. d = NoThesis
    BY <1>1, AggregateIs
  <2>2. NoThesis \in Dossier
    <3>1. 0 \in 0 .. Whole * WholeMagnitude
      <4>1. Whole \in Nat /\ WholeMagnitude \in Nat
        BY DEF Whole, WholeMagnitude
      <4>2. Whole * WholeMagnitude \in Nat
        BY <4>1
      <4>3. QED
        BY <4>2
    <3> DEFINE top == Whole * WholeMagnitude
    <3> HIDE DEF top
    <3>2. 0 \in 0 .. top
      BY <3>1 DEF top
    <3>3. Dossier = [direction : {"LONG", "SHORT", "NONE"}, sources : Nat, filing : BOOLEAN,
                     disclosed : BOOLEAN, score : 0 .. top, arithmetic : 0 .. top]
      BY DEF Dossier, top
    <3>4. QED
      BY <3>2, <3>3 DEF NoThesis
  <2>3. QED
    BY <2>1, <2>2
<1>2. CASE side # "NONE"
  <2>1. /\ d = [direction |-> d.direction, sources |-> d.sources, filing |-> d.filing,
                disclosed |-> d.disclosed, score |-> d.score, arithmetic |-> d.arithmetic]
        /\ d.direction = side /\ d.sources = Sources(ev, side)
        /\ d.filing \in BOOLEAN /\ d.disclosed \in BOOLEAN
        /\ d.score = Score(ev, side, EffectiveCount(Sources(ev, side), judged))
        /\ d.arithmetic = Score(ev, side, Sources(ev, side))
    BY <1>2, AggregateIs
  <2>2. /\ side \in {"LONG", "SHORT"}
        /\ SideMass(ev, side) \in Nat \ {0} /\ SideMass(ev, Opposite(side)) \in Nat
        /\ SideMass(ev, Opposite(side)) <= SideMass(ev, side) /\ Agreeing(ev, side) # {}
    BY <1>2, Verdict DEF Directions
  <2>3. Sources(ev, side) \in Nat
    BY SourcesNat
  <2> HIDE DEF d, side
  <2>4. EffectiveCount(Sources(ev, side), judged) \in Nat
    BY <2>3, EffectiveFewer
  <2>5. \A n \in Nat : Score(ev, side, n) \in 0 .. Whole * WholeMagnitude
    <3>1. SUFFICES ASSUME NEW n \in Nat PROVE Score(ev, side, n) \in 0 .. Whole * WholeMagnitude
      OBVIOUS
    <3>2. n <= n
      OBVIOUS
    <3>3. QED
      BY <2>2, <3>2, ScoreGrows
  <2>6. /\ d.score \in 0 .. Whole * WholeMagnitude
        /\ d.arithmetic \in 0 .. Whole * WholeMagnitude
    BY <2>1, <2>3, <2>4, <2>5
  <2> DEFINE top == Whole * WholeMagnitude
  <2> HIDE DEF top
  <2>7. d \in Dossier
    <3>1. d.score \in 0 .. top /\ d.arithmetic \in 0 .. top
      BY <2>6 DEF top
    <3>2. Dossier = [direction : {"LONG", "SHORT", "NONE"}, sources : Nat, filing : BOOLEAN,
                     disclosed : BOOLEAN, score : 0 .. top, arithmetic : 0 .. top]
      BY DEF Dossier, top
    <3>3. d.direction \in {"LONG", "SHORT", "NONE"} /\ d.sources \in Nat
      BY <2>1, <2>2, <2>3
    <3>4. QED
      BY <2>1, <3>1, <3>2, <3>3
  <2>8. QED
    BY <2>7 DEF d
<1>3. QED
  BY <1>1, <1>2

\* and one that it would write again: from the direction it resolved it resolves
\* the same.
LEMMA AggregateSettles ==
  ASSUME NEW ev \in Seq(EvidenceRecord), NEW was \in Directions, NEW judged
  PROVE  LET d == Aggregate(ev, was, judged)
         IN /\ d.direction = Resolved(ev, was) /\ d.direction \in Directions
            /\ Resolved(ev, d.direction) = d.direction
            /\ d = Aggregate(ev, d.direction, judged)
<1> DEFINE d == Aggregate(ev, was, judged)
           side == Resolved(ev, was)
<1>1. CASE side = "NONE"
  <2>1. d = NoThesis /\ NoThesis.direction = "NONE"
    BY <1>1, AggregateIs DEF NoThesis
  <2>2. Resolved(ev, "NONE") = "NONE"
    BY <1>1, NoneStays DEF Directions
  <2>3. Aggregate(ev, "NONE", judged) = NoThesis
    BY <2>2, AggregateIs
  <2>4. QED
    BY <1>1, <2>1, <2>2, <2>3 DEF Directions
<1>2. CASE side # "NONE"
  <2>1. d.direction = side
    BY <1>2, AggregateIs
  <2>2. side \in {"LONG", "SHORT"} /\ Resolved(ev, side) = side
    BY <1>2, Verdict DEF Directions
  <2>3. Aggregate(ev, side, judged) = Aggregate(ev, was, judged)
    <3>1. Resolved(ev, side) = Resolved(ev, was)
      BY <2>2
    <3>2. QED
      BY <3>1 DEF Aggregate
  <2>4. QED
    BY <2>1, <2>2, <2>3 DEF Directions
<1>3. QED
  BY <1>1, <1>2

-----------------------------------------------------------------------------
(* The inductive invariant.                                                 *)

\* The dossier is at all times the aggregate of its evidence, on some verdict:
\* no step changes the one and not the other. Only the count of facts may have
\* changed since.
Kept == \E judged \in Nat : dossier = Aggregate(evidence, dossier.direction, judged)
\* Inductive: the properties relate a dossier to its evidence, and a state's
\* types alone do not.
IInv == TypeOK /\ Kept

\* The direction of a dossier is the one its evidence resolves.
LEMMA KeptResolved ==
  ASSUME IInv
  PROVE  /\ dossier.direction \in Directions
         /\ Resolved(evidence, dossier.direction) = dossier.direction
<1>1. evidence \in Seq(EvidenceRecord) /\ dossier.direction \in Directions
  BY DEF IInv, TypeOK, Dossier, Directions
<1>2. PICK judged \in Nat : dossier = Aggregate(evidence, dossier.direction, judged)
  BY DEF IInv, Kept
<1>3. dossier.direction = Resolved(evidence, dossier.direction)
  BY <1>1, <1>2, AggregateSettles
<1>4. QED
  BY <1>1, <1>3

\* A week ages every record and adds none.
LEMMA AgedType ==
  ASSUME NEW ev \in Seq(EvidenceRecord)
  PROVE  Aged(ev) \in Seq(EvidenceRecord) /\ Len(Aged(ev)) = Len(ev)
<1>1. ASSUME NEW r \in EvidenceRecord PROVE [r EXCEPT !.age = @ + 1] \in EvidenceRecord
  <2> DEFINE a == r.age + 1
  <2>1. r.age \in Nat
    BY DEF EvidenceRecord
  <2>2. a \in Nat
    BY <2>1
  <2> HIDE DEF a
  <2>3. [r EXCEPT !.age = a] \in EvidenceRecord
    BY <2>2 DEF EvidenceRecord
  <2>4. QED
    BY <2>3 DEF a
<1>2. \A i \in DOMAIN ev : [ev[i] EXCEPT !.age = @ + 1] \in EvidenceRecord
  <2>1. \A i \in DOMAIN ev : ev[i] \in EvidenceRecord
    OBVIOUS
  <2>2. QED
    BY <1>1, <2>1
<1>3. DOMAIN ev = 1 .. Len(ev) /\ Len(ev) \in Nat
  OBVIOUS
<1>4. Aged(ev) = [i \in 1 .. Len(ev) |-> [ev[i] EXCEPT !.age = @ + 1]]
  BY <1>3 DEF Aged
<1>5. Aged(ev) \in [1 .. Len(ev) -> EvidenceRecord]
  BY <1>2, <1>3, <1>4
<1> HIDE DEF Aged
<1>6. QED
  BY <1>3, <1>5

LEMMA InitIInv == Init => IInv
<1> SUFFICES ASSUME Init PROVE IInv
  OBVIOUS
<1>1. evidence = <<>> /\ facts = 0 /\ dossier = NoThesis /\ weeks = 0
  BY DEF Init
<1>2. <<>> \in Seq(EvidenceRecord) /\ Len(<<>>) = 0
  OBVIOUS
<1>3. \A side : Agreeing(<<>>, side) = {}
  BY DEF Agreeing
<1>4. SideMass(<<>>, "LONG") = 0 /\ SideMass(<<>>, "SHORT") = 0
  BY <1>2, <1>3, SideMassNat
<1>5. Resolved(<<>>, "NONE") = "NONE"
  BY <1>4 DEF Resolved
<1>6. Aggregate(<<>>, "NONE", 0) = NoThesis /\ NoThesis.direction = "NONE"
  BY <1>5, AggregateIs DEF NoThesis
<1>7. NoThesis \in Dossier
  BY <1>2, <1>6, AggregateType DEF Directions
<1>8. MaxEvidence \in Nat /\ MaxWeeks \in Nat /\ MaxFacts \in Nat
  BY DossierAssumption
<1>9. TypeOK
  BY <1>1, <1>2, <1>7, <1>8 DEF TypeOK
<1>10. Kept
  BY <1>1, <1>6 DEF Kept
<1>11. QED
  BY <1>9, <1>10 DEF IInv

LEMMA NextIInv == IInv /\ [Next]_vars => IInv'
<1> SUFFICES ASSUME IInv, [Next]_vars PROVE IInv'
  OBVIOUS
<1>1. /\ evidence \in Seq(EvidenceRecord) /\ Len(evidence) \in Nat /\ Len(evidence) <= MaxEvidence
      /\ facts \in 0 .. MaxFacts /\ facts \in Nat /\ dossier \in Dossier
      /\ weeks \in 0 .. MaxWeeks /\ dossier.direction \in Directions
      /\ MaxEvidence \in Nat /\ MaxWeeks \in Nat /\ MaxFacts \in Nat
  BY DossierAssumption, KeptResolved DEF IInv, TypeOK
<1>2. ASSUME NEW ev \in Seq(EvidenceRecord), Len(ev) <= MaxEvidence, NEW judged \in Nat,
             evidence' = ev, dossier' = Aggregate(ev, dossier.direction, judged),
             facts' \in 0 .. MaxFacts, weeks' \in 0 .. MaxWeeks
      PROVE  IInv'
  <2>1. dossier' \in Dossier
    BY <1>1, <1>2, AggregateType
  <2>2. dossier' = Aggregate(ev, dossier'.direction, judged)
    BY <1>1, <1>2, AggregateSettles
  <2>3. TypeOK'
    BY <1>2, <2>1 DEF TypeOK
  <2>4. Kept'
    BY <1>2, <2>2 DEF Kept
  <2>5. QED
    BY <2>3, <2>4 DEF IInv
<1>3. ASSUME NEW r \in Records, MergeEvidence(r) PROVE IInv'
  <2>1. r \in EvidenceRecord
    BY DossierAssumption
  <2>2. /\ evidence' = Append(evidence, r) /\ Len(evidence) < MaxEvidence
        /\ dossier' = Aggregate(Append(evidence, r), dossier.direction, facts)
        /\ facts' = facts /\ weeks' = weeks
    BY <1>3 DEF MergeEvidence
  <2>3. Append(evidence, r) \in Seq(EvidenceRecord) /\ Len(Append(evidence, r)) <= MaxEvidence
    BY <1>1, <2>1, <2>2
  <2>4. QED
    BY <1>1, <1>2, <2>2, <2>3
<1>4. CASE RecomputeDecay
  <2>1. /\ evidence' = Aged(evidence) /\ weeks < MaxWeeks /\ weeks' = weeks + 1 /\ facts' = 0
        /\ dossier' = Aggregate(Aged(evidence), dossier.direction, 0)
    BY <1>4 DEF RecomputeDecay
  <2>2. Aged(evidence) \in Seq(EvidenceRecord) /\ Len(Aged(evidence)) <= MaxEvidence
    BY <1>1, AgedType
  <2>3. facts' \in 0 .. MaxFacts /\ weeks' \in 0 .. MaxWeeks
    BY <1>1, <2>1
  <2>4. QED
    BY <1>2, <2>1, <2>2, <2>3
<1>5. CASE RecomputeUnjudged
  <2>1. /\ evidence' = evidence /\ weeks' = weeks /\ facts' = 0
        /\ dossier' = Aggregate(evidence, dossier.direction, 0)
    BY <1>5 DEF RecomputeUnjudged
  <2>2. facts' \in 0 .. MaxFacts /\ weeks' \in 0 .. MaxWeeks
    BY <1>1, <2>1
  <2>3. QED
    BY <1>1, <1>2, <2>1, <2>2
<1>6. ASSUME NEW n \in 1 .. MaxFacts, Synthesize(n) PROVE IInv'
  <2>1. facts' = n /\ evidence' = evidence /\ dossier' = dossier /\ weeks' = weeks
    BY <1>6 DEF Synthesize
  <2>2. facts' \in 0 .. MaxFacts
    BY <1>1, <2>1
  <2>3. TypeOK'
    BY <1>1, <2>1, <2>2 DEF TypeOK
  <2>4. Kept'
    BY <2>1 DEF IInv, Kept
  <2>5. QED
    BY <2>3, <2>4 DEF IInv
<1>7. CASE UNCHANGED vars
  BY <1>7 DEF vars, IInv, TypeOK, Kept
<1>8. QED
  BY <1>3, <1>4, <1>5, <1>6, <1>7 DEF Next

\* Every dossier the engine saves is well formed: direction, count of sources,
\* backing, and both scores within the caps, for every body of evidence, order
\* of merging and verdict.
THEOREM TypeCorrect == Spec => []TypeOK
<1>1. IInv => TypeOK
  BY DEF IInv
<1>2. QED
  BY <1>1, InitIInv, NextIInv, PTL DEF Spec

-----------------------------------------------------------------------------
(* Nothing is inflated.                                                     *)

\* The dossier in terms of its evidence,
LEMMA DossierIs ==
  ASSUME IInv
  PROVE  LET side == dossier.direction
         IN /\ side = "NONE" => dossier = NoThesis
            /\ side # "NONE" =>
                 /\ side \in {"LONG", "SHORT"}
                 /\ SideMass(evidence, side) \in Nat \ {0}
                 /\ SideMass(evidence, Opposite(side)) \in Nat
                 /\ SideMass(evidence, Opposite(side)) <= SideMass(evidence, side)
                 /\ Agreeing(evidence, side) # {}
                 /\ dossier.sources = Sources(evidence, side)
                 /\ dossier.filing \in BOOLEAN /\ (dossier.filing <=> Filing(evidence, side))
                 /\ dossier.disclosed \in BOOLEAN
                 /\ dossier.disclosed <=> Disclosed(evidence, side)
                 /\ dossier.arithmetic = Score(evidence, side, Sources(evidence, side))
                 /\ \E n \in Nat : /\ n <= Sources(evidence, side)
                                   /\ dossier.score = Score(evidence, side, n)
<1> DEFINE side == dossier.direction
<1>1. evidence \in Seq(EvidenceRecord) /\ side \in Directions /\ Resolved(evidence, side) = side
  BY KeptResolved DEF IInv, TypeOK
<1>2. PICK judged \in Nat : dossier = Aggregate(evidence, side, judged)
  BY DEF IInv, Kept
<1>3. CASE side = "NONE"
  BY <1>1, <1>2, <1>3, AggregateIs
<1>4. CASE side # "NONE"
  <2>1. /\ side \in {"LONG", "SHORT"}
        /\ SideMass(evidence, side) \in Nat \ {0}
        /\ SideMass(evidence, Opposite(side)) \in Nat
        /\ SideMass(evidence, Opposite(side)) <= SideMass(evidence, side)
        /\ Agreeing(evidence, side) # {}
    BY <1>1, <1>4, Verdict DEF Directions
  <2>2. /\ dossier.sources = Sources(evidence, side)
        /\ dossier.filing \in BOOLEAN /\ (dossier.filing <=> Filing(evidence, side))
        /\ dossier.disclosed \in BOOLEAN /\ (dossier.disclosed <=> Disclosed(evidence, side))
        /\ dossier.score = Score(evidence, side, EffectiveCount(Sources(evidence, side), judged))
        /\ dossier.arithmetic = Score(evidence, side, Sources(evidence, side))
    BY <1>1, <1>2, <1>4, AggregateIs
  <2>3. /\ EffectiveCount(Sources(evidence, side), judged) \in Nat
        /\ EffectiveCount(Sources(evidence, side), judged) <= Sources(evidence, side)
    BY <1>1, SourcesNat, EffectiveFewer
  <2>4. QED
    BY <1>4, <2>1, <2>2, <2>3
<1>5. QED
  BY <1>3, <1>4

\* and what it would be without labels and without a verdict.
LEMMA PlainIs ==
  ASSUME IInv
  PROVE  LET side == dossier.direction
         IN /\ side = "NONE" => Plain = NoThesis
            /\ side # "NONE" =>
                 /\ Plain.direction = side
                 /\ Plain.sources = Sources(Stripped(evidence), side)
                 /\ Plain.filing <=> Filing(evidence, side)
                 /\ Plain.disclosed <=> Disclosed(evidence, side)
                 /\ Plain.score = Score(evidence, side, Plain.sources)
                 /\ Plain.arithmetic = Score(evidence, side, Plain.sources)
                 /\ Plain.sources \in Nat
                 /\ Sources(evidence, side) <= Plain.sources
<1> DEFINE side == dossier.direction
           ex == Stripped(evidence)
<1>1. evidence \in Seq(EvidenceRecord) /\ side \in Directions /\ Resolved(evidence, side) = side
  BY KeptResolved DEF IInv, TypeOK
<1>2. Plain = Aggregate(ex, side, 0)
  BY DEF Plain, WithoutLabels, Stripped, Strip
<1>3. Resolved(ex, side) = side
  <2>1. /\ SideMass(ex, "LONG") = SideMass(evidence, "LONG")
        /\ SideMass(ex, "SHORT") = SideMass(evidence, "SHORT")
    BY <1>1, StrippedIs
  <2>2. Resolved(ex, side) = Resolved(evidence, side)
    BY <2>1 DEF Resolved
  <2>3. QED
    BY <1>1, <2>2
<1>4. CASE side = "NONE"
  BY <1>2, <1>3, <1>4, AggregateIs
<1>5. CASE side # "NONE"
  <2>1. /\ Plain.direction = side
        /\ Plain.sources = Sources(ex, side)
        /\ Plain.filing <=> Filing(ex, side)
        /\ Plain.disclosed <=> Disclosed(ex, side)
        /\ Plain.score = Score(ex, side, EffectiveCount(Sources(ex, side), 0))
        /\ Plain.arithmetic = Score(ex, side, Sources(ex, side))
    BY <1>2, <1>3, <1>5, AggregateIs
  <2>2. EffectiveCount(Sources(ex, side), 0) = Sources(ex, side)
    BY DEF EffectiveCount
  <2>3. Agreeing(evidence, side) # {}
    BY <1>5, DossierIs
  <2>4. Score(ex, side, Sources(ex, side)) = Score(evidence, side, Sources(ex, side))
    BY <1>1, <2>3, StrippedScore
  <2>5. (Filing(ex, side) <=> Filing(evidence, side))
        /\ (Disclosed(ex, side) <=> Disclosed(evidence, side))
    BY <1>1, StrippedBacking
  <2>6. Sources(ex, side) \in Nat
    BY <1>1, StrippedIs, SourcesNat
  <2>7. Sources(evidence, side) <= Sources(ex, side)
    BY <1>1, ContributingFinite, StrippedSources, LabelsMerge DEF Sources
  <2> HIDE DEF ex
  <2>8. QED
    BY <1>5, <2>1, <2>2, <2>4, <2>5, <2>6, <2>7 DEF ex
<1>6. QED
  BY <1>4, <1>5

\* The part of SourcesNotInflated that needs no assumption.
NothingAdded ==
  /\ dossier.sources <= Plain.sources
  /\ dossier.arithmetic <= Plain.arithmetic
  /\ Qualifies(dossier) => Qualifies(Plain)
  /\ dossier.direction # "NONE" => dossier.sources <= Cardinality(KeysOf(WithoutSector)) + 1

LEMMA AddsNothing == ASSUME IInv PROVE NothingAdded
<1> DEFINE side == dossier.direction
<1>1. evidence \in Seq(EvidenceRecord) /\ Threshold \in Nat
  BY DossierAssumption DEF IInv, TypeOK
<1>2. CASE side = "NONE"
  <2>1. dossier = NoThesis /\ Plain = NoThesis
    BY <1>2, DossierIs, PlainIs
  <2>2. NoThesis.sources = 0 /\ NoThesis.arithmetic = 0
    BY DEF NoThesis
  <2>3. QED
    BY <1>2, <2>1, <2>2 DEF NothingAdded
<1>3. CASE side # "NONE"
  <2>1. /\ side \in {"LONG", "SHORT"}
        /\ SideMass(evidence, side) \in Nat \ {0}
        /\ SideMass(evidence, Opposite(side)) \in Nat
        /\ SideMass(evidence, Opposite(side)) <= SideMass(evidence, side)
        /\ Agreeing(evidence, side) # {}
    BY <1>3, DossierIs
  <2>2. /\ dossier.sources = Sources(evidence, side)
        /\ dossier.filing <=> Filing(evidence, side)
        /\ dossier.disclosed <=> Disclosed(evidence, side)
        /\ dossier.arithmetic = Score(evidence, side, Sources(evidence, side))
    BY <1>3, DossierIs
  <2>3. PICK n \in Nat : n <= Sources(evidence, side) /\ dossier.score = Score(evidence, side, n)
    BY <1>3, DossierIs
  <2>4. /\ Plain.direction = side
        /\ Plain.filing <=> Filing(evidence, side)
        /\ Plain.disclosed <=> Disclosed(evidence, side)
        /\ Plain.score = Score(evidence, side, Plain.sources)
        /\ Plain.arithmetic = Score(evidence, side, Plain.sources)
        /\ Plain.sources \in Nat
        /\ Sources(evidence, side) <= Plain.sources
    BY <1>3, PlainIs
  <2>5. Sources(evidence, side) \in Nat
    BY <1>1, SourcesNat
  <2>6. dossier.arithmetic <= Plain.arithmetic
    <3>1. Score(evidence, side, Sources(evidence, side)) <= Score(evidence, side, Plain.sources)
      BY <1>1, <2>1, <2>4, <2>5, ScoreGrows
    <3>2. QED
      BY <2>2, <2>4, <3>1
  <2>7. dossier.score <= Plain.score /\ dossier.score \in Nat /\ Plain.score \in Nat
    <3>1. n <= Plain.sources /\ Plain.sources <= Plain.sources
      BY <2>3, <2>4, <2>5
    <3>2. /\ Score(evidence, side, n) <= Score(evidence, side, Plain.sources)
          /\ Score(evidence, side, n) \in 0 .. Whole * WholeMagnitude
      BY <1>1, <2>1, <2>4, <3>1, ScoreGrows
    <3>3. Score(evidence, side, Plain.sources) \in 0 .. Whole * WholeMagnitude
      BY <1>1, <2>1, <2>4, <3>1, ScoreGrows
    <3> DEFINE top == Whole * WholeMagnitude
    <3> HIDE DEF top
    <3>4. /\ Score(evidence, side, n) \in Nat /\ Score(evidence, side, Plain.sources) \in Nat
      BY <3>2, <3>3 DEF top
    <3>5. QED
      BY <2>3, <2>4, <3>2, <3>4
  <2>8. Qualifies(dossier) => Qualifies(Plain)
    <3>1. RequiredSources(dossier) = RequiredSources(Plain) /\ RequiredSources(Plain) \in Nat
      BY <2>2, <2>4, DossierAssumption DEF RequiredSources, Most
    <3>2. ASSUME Qualifies(dossier) PROVE Qualifies(Plain)
      <4>1. dossier.sources >= RequiredSources(dossier) /\ dossier.score >= Threshold
        BY <3>2 DEF Qualifies
      <4>2. Plain.sources >= RequiredSources(Plain)
        BY <2>2, <2>4, <2>5, <3>1, <4>1
      <4>3. Plain.score >= Threshold
        BY <1>1, <2>7, <4>1
      <4>4. QED
        BY <1>3, <2>4, <4>2, <4>3 DEF Qualifies
    <3>3. QED
      BY <3>2
  <2>9. dossier.sources <= Cardinality(KeysOf(WithoutSector)) + 1
    <3> DEFINE S == Contributing(evidence, side)
    <3>1. IsFiniteSet(S)
      BY <1>1, ContributingFinite
    <3>2. Cardinality(KeysOf(S)) <= Cardinality(KeysOf({r \in S : ~IsSector(r)})) + 1
      BY <3>1, SectorAddsOne
    <3>3. WithoutSector = {r \in S : ~IsSector(r)}
      BY DEF WithoutSector
    <3>4. QED
      BY <2>2, <3>2, <3>3 DEF Sources
  <2>10. dossier.sources <= Plain.sources
    BY <2>2, <2>4
  <2>11. QED
    BY <2>6, <2>8, <2>9, <2>10 DEF NothingAdded
<1>4. QED
  BY <1>2, <1>3

\* dossier.py's slots: a dossier counts no more sources than by channel, scores
\* no higher and qualifies only where it would without its labels, and the
\* sector items it holds add one source at most, for every set of records and
\* mapping of labels, and whatever the bars are.
THEOREM LabelsAddNothing == Spec => []NothingAdded
<1>1. IInv => NothingAdded
  BY AddsNothing
<1>2. QED
  BY <1>1, InitIInv, NextIInv, PTL DEF Spec

\* With sector items alone there is one source and no backing, so the bar is the
\* higher of the two.
LEMMA SectorQualifiesNothing ==
  ASSUME IInv, MinSources > 1 \/ NewsOnly > 1, OnlySector
  PROVE  ~Qualifies(dossier)
<1> SUFFICES ASSUME Qualifies(dossier) PROVE FALSE
  OBVIOUS
<1> DEFINE side == dossier.direction
<1>1. evidence \in Seq(EvidenceRecord) /\ MinSources \in Nat /\ NewsOnly \in Nat
  BY DossierAssumption DEF IInv, TypeOK
<1>2. side # "NONE" /\ dossier.sources >= RequiredSources(dossier)
  BY DEF Qualifies
<1>3. /\ dossier.sources = Sources(evidence, side)
      /\ dossier.filing <=> Filing(evidence, side)
      /\ dossier.disclosed <=> Disclosed(evidence, side)
  BY <1>2, DossierIs
<1>4. \A i \in Agreeing(evidence, side) :
        evidence[i].link \in Nat /\ evidence[i].link # 0 /\ evidence[i].link <= 25
  <2>1. ASSUME NEW i \in Agreeing(evidence, side)
        PROVE  evidence[i].link \in Nat /\ evidence[i].link # 0 /\ evidence[i].link <= 25
    <3>1. evidence[i] \in EvidenceRecord /\ i \in DOMAIN evidence
      BY <1>1, AgreeingFinite
    <3>2. evidence[i].link \in Nat
      BY <3>1, Numbers
    <3>3. IsSector(evidence[i])
      BY <3>1 DEF OnlySector
    <3>4. QED
      BY <3>2, <3>3 DEF IsSector, IsPropagated, Direct, SectorLink
  <2>2. QED
    BY <2>1
<1>5. ~Filing(evidence, side) /\ ~Disclosed(evidence, side)
  BY <1>4 DEF Filing, Disclosed, Direct, DisclosedLink
<1>6. RequiredSources(dossier) = Most(MinSources, NewsOnly)
  BY <1>3, <1>5 DEF RequiredSources
<1>7. RequiredSources(dossier) \in Nat /\ RequiredSources(dossier) > 1
  BY <1>1, <1>6 DEF Most
<1>8. \A r \in Contributing(evidence, side) : IsSector(r)
  <2>1. \A i \in Agreeing(evidence, side) : IsSector(evidence[i])
    BY <1>1, AgreeingFinite DEF OnlySector
  <2>2. QED
    BY <2>1 DEF Contributing
<1>9. Sources(evidence, side) <= 1 /\ Sources(evidence, side) \in Nat
  BY <1>1, <1>8, ContributingFinite, SectorAlone, SourcesNat DEF Sources
<1>10. QED
  BY <1>2, <1>3, <1>7, <1>9

\* SourcesNotInflated, all of it: neither labels nor sector links inflate a
\* thesis. To the theorem above it adds dossier.py's promise of the sector
\* class, that it can raise a thesis and never single-handedly qualify one. It
\* holds by the reason the code gives, 1 < min_independent_sources (dossier.py
\* 631); the configuration enforces no such bound, so it is assumed here, and of
\* one of the two bars only.
THEOREM NothingInflated ==
  ASSUME MinSources > 1 \/ NewsOnly > 1
  PROVE  Spec => []SourcesNotInflated
<1>1. IInv => SourcesNotInflated
  <2>1. ASSUME IInv PROVE SourcesNotInflated
    <3>1. NothingAdded
      BY <2>1, AddsNothing
    <3>2. OnlySector => ~Qualifies(dossier)
      BY <2>1, SectorQualifiesNothing
    <3>3. QED
      BY <3>1, <3>2 DEF NothingAdded, SourcesNotInflated
  <2>2. QED
    BY <2>1
<1>2. QED
  BY <1>1, InitIInv, NextIInv, PTL DEF Spec

-----------------------------------------------------------------------------
(* Opposition.                                                              *)

\* An item of another direction leaves the items that agree, what they are worth
\* and where they come from, and adds to the opposition or to neither.
LEMMA Opposed ==
  ASSUME NEW ev \in Seq(EvidenceRecord), NEW r \in EvidenceRecord, NEW side \in {"LONG", "SHORT"},
         r.direction # side, Agreeing(ev, side) # {}
  PROVE  LET ex == Append(ev, r)
         IN /\ ex \in Seq(EvidenceRecord)
            /\ Agreeing(ex, side) = Agreeing(ev, side)
            /\ \A i \in DOMAIN ev : ex[i] = ev[i]
            /\ SideMass(ex, side) = SideMass(ev, side)
            /\ SideMass(ev, Opposite(side)) <= SideMass(ex, Opposite(side))
            /\ \A n : /\ Conf(ex[Strongest(ex, side)], n) = Conf(ev[Strongest(ev, side)], n)
                      /\ Magn(ex[Strongest(ex, side)], n) = Magn(ev[Strongest(ev, side)], n)
            /\ Contributing(ex, side) = Contributing(ev, side)
            /\ Filing(ex, side) <=> Filing(ev, side)
            /\ Disclosed(ex, side) <=> Disclosed(ev, side)
<1> DEFINE ex == Append(ev, r)
           A == Agreeing(ev, side)
           opp == Opposite(side)
           last == Len(ev) + 1
<1>1. /\ ex \in Seq(EvidenceRecord) /\ Len(ev) \in Nat
      /\ DOMAIN ev = 1 .. Len(ev) /\ DOMAIN ex = DOMAIN ev \cup {last} /\ last \notin DOMAIN ev
      /\ ex[last] = r
      /\ \A i \in DOMAIN ev : ex[i] = ev[i]
  OBVIOUS
<1>2. A \subseteq DOMAIN ev
  BY AgreeingFinite
<1> HIDE DEF ex, opp, last
<1>3. Agreeing(ex, side) = A
  BY <1>1 DEF Agreeing
<1>4. \A i \in A : ex[i] = ev[i]
  BY <1>1, <1>2
<1>5. \A i \in A :
        /\ ex[i].confidence = ev[i].confidence /\ ex[i].magnitude = ev[i].magnitude
        /\ Weight(ex[i]) = Weight(ev[i])
  BY <1>4
<1>6. /\ SideMass(ex, side) = SideMass(ev, side)
      /\ A # {} => \A n : /\ Conf(ex[Strongest(ex, side)], n) = Conf(ev[Strongest(ev, side)], n)
                          /\ Magn(ex[Strongest(ex, side)], n) = Magn(ev[Strongest(ev, side)], n)
  BY <1>1, <1>3, <1>5, SameScore
<1>7. SideMass(ev, opp) <= SideMass(ex, opp)
  <2> DEFINE B == Agreeing(ev, opp)
             C == Agreeing(ex, opp)
  <2>1. IsFiniteSet(B) /\ IsFiniteSet(C) /\ B \subseteq DOMAIN ev /\ C \subseteq DOMAIN ex
    BY <1>1, AgreeingFinite
  <2>2. B = C \ {last} /\ B \subseteq DOMAIN ev
    BY <1>1, <2>1 DEF Agreeing
  <2>3. /\ \A i \in DOMAIN ex : Mass(ex, i) \in Nat
        /\ SideMass(ev, opp) \in Nat /\ SideMass(ex, opp) \in Nat
    BY <1>1, SideMassNat
  <2>4. \A i \in B : Mass(ev, i) = Mass(ex, i)
    BY <1>1, <2>1 DEF Mass
  <2>5. SideMass(ev, opp) = MassOf(ev, B) /\ SideMass(ex, opp) = MassOf(ex, C)
    BY SideMassIs
  <2> HIDE DEF B, C
  <2>6. MassOf(ev, B) = MassOf(ex, B)
    BY <2>1, <2>4, MassSame
  <2>7. CASE last \in C
    <3>1. \A i \in C : Mass(ex, i) \in Nat
      BY <2>1, <2>3
    <3>2. MassOf(ex, C) = Mass(ex, last) + MassOf(ex, C \ {last})
      BY <2>1, <2>7, <3>1, MassRemove
    <3>3. MassOf(ex, C) = Mass(ex, last) + MassOf(ex, B) /\ Mass(ex, last) \in Nat
      BY <2>2, <2>7, <3>1, <3>2
    <3>4. QED
      BY <2>3, <2>5, <2>6, <3>3
  <2>8. CASE last \notin C
    <3>1. B = C
      BY <2>2, <2>8
    <3>2. QED
      BY <2>3, <2>5, <2>6, <3>1
  <2>9. QED
    BY <2>7, <2>8
<1>8. Contributing(ex, side) = Contributing(ev, side)
  <2> DEFINE J == {j \in A : ev[j].confidence * Weight(ev[j]) >= MinContribution}
             K == {j \in A : ex[j].confidence * Weight(ex[j]) >= MinContribution}
  <2>1. J = K
    BY <1>4
  <2>2. Contributing(ex, side) = {ex[j] : j \in K} /\ Contributing(ev, side) = {ev[j] : j \in J}
    BY <1>3 DEF Contributing
  <2>3. \A j \in J : ex[j] = ev[j]
    BY <1>4
  <2> HIDE DEF J, K
  <2>4. QED
    BY <2>1, <2>2, <2>3
<1>9. (Filing(ex, side) <=> Filing(ev, side)) /\ (Disclosed(ex, side) <=> Disclosed(ev, side))
  <2> HIDE DEF A
  <2>1. Agreeing(ev, side) = A /\ Agreeing(ex, side) = A
    BY <1>3 DEF A
  <2>2. Filing(ex, side) <=> Filing(ev, side)
    BY <1>4, <2>1 DEF Filing
  <2>3. Disclosed(ex, side) <=> Disclosed(ev, side)
    BY <1>4, <2>1 DEF Disclosed
  <2>4. QED
    BY <2>2, <2>3
<1>10. QED
  BY <1>1, <1>3, <1>6, <1>7, <1>8, <1>9 DEF ex, opp

\* So the aggregate after it differs by the discount only.
LEMMA Contested ==
  ASSUME NEW ev \in Seq(EvidenceRecord), NEW r \in EvidenceRecord, NEW was \in Directions,
         NEW judged, was # "NONE", Resolved(ev, was) = was,
         Resolved(Append(ev, r), was) = was, r.direction # was
  PROVE  LET e == Aggregate(Append(ev, r), was, judged)
         IN /\ e.sources = Sources(ev, was)
            /\ e.filing \in BOOLEAN /\ (e.filing <=> Filing(ev, was))
            /\ e.disclosed \in BOOLEAN /\ (e.disclosed <=> Disclosed(ev, was))
            /\ e.arithmetic <= Score(ev, was, Sources(ev, was))
<1> DEFINE ex == Append(ev, r)
           e == Aggregate(ex, was, judged)
           n == Sources(ev, was)
           b == ev[Strongest(ev, was)]
           c == Conf(b, n)
           g == Magn(b, n)
           a == SideMass(ev, was)
           o == SideMass(ev, Opposite(was))
           w == SideMass(ex, Opposite(was))
<1>1. ex \in Seq(EvidenceRecord)
  OBVIOUS
<1>2. was \in {"LONG", "SHORT"} /\ Agreeing(ev, was) # {} /\ a \in Nat \ {0} /\ o \in Nat /\ o <= a
  BY Verdict DEF Directions
<1>3. w \in Nat /\ w <= SideMass(ex, was)
  BY <1>1, Verdict DEF Directions
<1>4. /\ SideMass(ex, was) = a /\ o <= w
      /\ Conf(ex[Strongest(ex, was)], n) = c /\ Magn(ex[Strongest(ex, was)], n) = g
      /\ Contributing(ex, was) = Contributing(ev, was)
      /\ Filing(ex, was) <=> Filing(ev, was)
      /\ Disclosed(ex, was) <=> Disclosed(ev, was)
  <2>1. r.direction # was
    OBVIOUS
  <2> HIDE DEF n, b
  <2>2. /\ Agreeing(ex, was) = Agreeing(ev, was)
        /\ SideMass(ex, was) = SideMass(ev, was)
        /\ SideMass(ev, Opposite(was)) <= SideMass(ex, Opposite(was))
        /\ \A m : /\ Conf(ex[Strongest(ex, was)], m) = Conf(ev[Strongest(ev, was)], m)
                  /\ Magn(ex[Strongest(ex, was)], m) = Magn(ev[Strongest(ev, was)], m)
        /\ Contributing(ex, was) = Contributing(ev, was)
        /\ Filing(ex, was) <=> Filing(ev, was)
        /\ Disclosed(ex, was) <=> Disclosed(ev, was)
    <3>1. was \in {"LONG", "SHORT"} /\ Agreeing(ev, was) # {}
      BY <1>2
    <3>2. Agreeing(ex, was) = Agreeing(ev, was)
      BY <2>1, <3>1, Opposed
    <3>3. /\ SideMass(ex, was) = SideMass(ev, was)
          /\ SideMass(ev, Opposite(was)) <= SideMass(ex, Opposite(was))
      BY <2>1, <3>1, Opposed
    <3>4. \A m : /\ Conf(ex[Strongest(ex, was)], m) = Conf(ev[Strongest(ev, was)], m)
                 /\ Magn(ex[Strongest(ex, was)], m) = Magn(ev[Strongest(ev, was)], m)
      BY <2>1, <3>1, Opposed
    <3>5. /\ Contributing(ex, was) = Contributing(ev, was)
          /\ Filing(ex, was) <=> Filing(ev, was)
          /\ Disclosed(ex, was) <=> Disclosed(ev, was)
      BY <2>1, <3>1, Opposed
    <3>6. QED
      BY <3>2, <3>3, <3>4, <3>5
  <2> HIDE DEF ex
  <2>3. QED
    BY <2>2 DEF b
<1>5. n \in Nat /\ Sources(ex, was) = n
  BY <1>4, SourcesNat DEF Sources
<1>6. c \in Nat /\ g \in Nat
  <2>1. b \in EvidenceRecord
    BY <1>2, StrongestIn, AgreeingFinite
  <2>2. n <= n
    BY <1>5
  <2> HIDE DEF b, n
  <2>3. QED
    BY <1>5, <2>1, <2>2, FactorsGrow
<1>7. Score(ex, was, n) <= Score(ev, was, n)
  <2>1. Score(ex, was, n) = (c * g * (a - w)) \div a
    BY <1>4, ScoreIs
  <2>2. Score(ev, was, n) = (c * g * (a - o)) \div a
    BY ScoreIs
  <2>3. c <= c /\ g <= g /\ w <= a
    BY <1>3, <1>4, <1>6
  <2> HIDE DEF a, o, w, c, g
  <2>4. (c * g * (a - w)) \div a <= (c * g * (a - o)) \div a
    BY <1>2, <1>3, <1>4, <1>6, <2>3, Discounted
  <2>5. QED
    BY <2>1, <2>2, <2>4
<1>8. /\ e.sources = Sources(ex, was)
      /\ e.filing \in BOOLEAN /\ (e.filing <=> Filing(ex, was))
      /\ e.disclosed \in BOOLEAN /\ (e.disclosed <=> Disclosed(ex, was))
      /\ e.arithmetic = Score(ex, was, Sources(ex, was))
  <2> HIDE DEF ex
  <2>1. Resolved(ex, was) = was
    BY DEF ex
  <2>2. QED
    BY <2>1, AggregateIs
<1> HIDE DEF ex, n
<1>9. QED
  BY <1>4, <1>5, <1>7, <1>8 DEF ex, n

\* Only a merge lengthens the evidence, and it adds the item at the end.
LEMMA OppositionStep ==
  ASSUME IInv, [Next]_vars, Len(evidence') > Len(evidence), dossier.direction # "NONE",
         dossier'.direction = dossier.direction,
         evidence'[Len(evidence')].direction # dossier.direction
  PROVE  /\ dossier'.sources = dossier.sources
         /\ dossier'.filing = dossier.filing /\ dossier'.disclosed = dossier.disclosed
         /\ dossier'.arithmetic <= dossier.arithmetic
<1> DEFINE side == dossier.direction
<1>1. /\ evidence \in Seq(EvidenceRecord) /\ Len(evidence) \in Nat
      /\ side \in Directions /\ Resolved(evidence, side) = side
  BY KeptResolved DEF IInv, TypeOK
<1>2. PICK r \in Records : MergeEvidence(r)
  <2>1. CASE RecomputeDecay
    <3>1. evidence' = Aged(evidence)
      BY <2>1 DEF RecomputeDecay
    <3>2. Len(Aged(evidence)) = Len(evidence)
      BY <1>1, AgedType
    <3>3. QED
      BY <1>1, <3>1, <3>2
  <2>2. CASE RecomputeUnjudged \/ UNCHANGED vars \/ \E n \in 1 .. MaxFacts : Synthesize(n)
    <3>1. evidence' = evidence
      BY <2>2 DEF RecomputeUnjudged, Synthesize, vars
    <3>2. QED
      BY <1>1, <3>1
  <2>3. QED
    BY <2>1, <2>2 DEF Next
<1>3. r \in EvidenceRecord
  BY DossierAssumption
<1>4. /\ evidence' = Append(evidence, r)
      /\ dossier' = Aggregate(Append(evidence, r), side, facts)
  BY <1>2 DEF MergeEvidence
<1>5. evidence'[Len(evidence')] = r
  BY <1>1, <1>3, <1>4
<1>6. Resolved(Append(evidence, r), side) = side
  <2>1. Append(evidence, r) \in Seq(EvidenceRecord)
    BY <1>1, <1>3
  <2>2. dossier'.direction = Resolved(Append(evidence, r), side)
    BY <1>1, <1>4, <2>1, AggregateSettles
  <2>3. QED
    BY <2>2
<1>7. r.direction # side
  BY <1>5
<1>8. /\ dossier'.sources = Sources(evidence, side)
      /\ dossier'.filing \in BOOLEAN /\ (dossier'.filing <=> Filing(evidence, side))
      /\ dossier'.disclosed \in BOOLEAN /\ (dossier'.disclosed <=> Disclosed(evidence, side))
      /\ dossier'.arithmetic <= Score(evidence, side, Sources(evidence, side))
  <2> HIDE DEF side
  <2>1. side # "NONE"
    BY DEF side
  <2>2. QED
    BY <1>1, <1>3, <1>4, <1>6, <1>7, <2>1, Contested
<1>9. /\ dossier.sources = Sources(evidence, side)
      /\ dossier.filing \in BOOLEAN /\ (dossier.filing <=> Filing(evidence, side))
      /\ dossier.disclosed \in BOOLEAN /\ (dossier.disclosed <=> Disclosed(evidence, side))
      /\ dossier.arithmetic = Score(evidence, side, Sources(evidence, side))
  BY DossierIs
<1>10. dossier'.filing = dossier.filing /\ dossier'.disclosed = dossier.disclosed
  <2>1. dossier'.filing <=> dossier.filing
    BY <1>8, <1>9
  <2>2. dossier'.disclosed <=> dossier.disclosed
    BY <1>8, <1>9
  <2>3. QED
    BY <1>8, <1>9, <2>1, <2>2
<1>11. QED
  BY <1>8, <1>9, <1>10

\* _aggregate's discount: evidence against a thesis, unless it turns the
\* direction, leaves its sources and its backing and never raises its score, for
\* every dossier it is merged into, whatever its age and its verdict.
THEOREM OppositionContests == Spec => OpposingOnlyContests
<1> DEFINE A == /\ Len(evidence') > Len(evidence)
                /\ dossier.direction # "NONE" /\ dossier'.direction = dossier.direction
                /\ evidence'[Len(evidence')].direction # dossier.direction
                => /\ dossier'.sources = dossier.sources
                   /\ dossier'.filing = dossier.filing /\ dossier'.disclosed = dossier.disclosed
                   /\ dossier'.arithmetic <= dossier.arithmetic
<1>1. IInv /\ [Next]_vars => [A]_vars
  BY OppositionStep
<1> HIDE DEF A
<1>2. Spec => [][A]_vars
  BY <1>1, InitIInv, NextIInv, PTL DEF Spec
<1>3. QED
  BY <1>2 DEF A, OpposingOnlyContests
=============================================================================
