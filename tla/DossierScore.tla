---------------------------- MODULE DossierScore ----------------------------
(* The arithmetic of a dossier: what a body of evidence adds up to          *)
(* (dossier.py 340-1183) and the bar it is held to (signals.py).            *)
(*                                                                          *)
(* Evidence is merged one record at a time and ages; the daily pass decays  *)
(* it, the synthesis names how many facts it really holds. What the engine  *)
(* does with the score is SignalEngine's.                                   *)
(*                                                                          *)
(* Confidence and magnitude are tenths, a weight is a twentieth, a link's   *)
(* confidence is in hundredths; time is in weeks, so no verdict of the      *)
(* synthesis (36 hours) outlives one; a horizon is a week at least.         *)
EXTENDS Integers, Sequences, FiniteSets, FiniteSetsExt, TLC

CONSTANTS
  Records,        \* the evidence that can be merged, each fresh
  Folded,         \* normalized_fact_key: the fact a label names, for every label
  MinSources,     \* min_independent_sources
  NewsOnly,       \* min_independent_sources_news_only
  Threshold,      \* signal_confidence_threshold, in units of a score
  MaxEvidence,    \* bound: records in a dossier
  MaxWeeks,       \* bound: weeks that pass
  MaxFacts        \* bound: facts a verdict counts

NoLabel == ""   \* fact_key of a record that names no fact
Direct == 0       \* relationship_confidence None: evidence about the company itself

EvidenceRecord ==
  [source_type : {"news", "8-K", "10-K", "contract_award"}, source : STRING, day : Nat,
   origin : STRING, link : 0 .. 100, role : {"", "customer", "supplier", "competitor"},
   fact : DOMAIN Folded, direction : {"LONG", "SHORT", "NONE"},
   confidence : 0 .. 10, magnitude : 0 .. 10, horizon : Nat \ {0}, age : Nat]

ASSUME DossierAssumption ==
  /\ \A r \in Records : r \in EvidenceRecord /\ r.age = 0
  /\ NoLabel \in DOMAIN Folded
  /\ {MinSources, NewsOnly, Threshold, MaxEvidence, MaxWeeks, MaxFacts} \subseteq Nat

VARIABLES
  evidence,    \* the records, in the order of their merging
  facts,       \* distinct_fact_count while the verdict is fresh, else 0
  dossier,     \* the fields _aggregate writes, as last written
  weeks        \* weeks that have passed

vars == <<evidence, facts, dossier, weeks>>

Least(a, b) == IF a <= b THEN a ELSE b
Most(a, b) == IF a >= b THEN a ELSE b

-----------------------------------------------------------------------------
(* Age.                                                                     *)

Full == 20
Floor == 3         \* _DECAY_FLOOR
MinStale == 2      \* _MIN_STALE_DAYS

StaleCutoff(r) == Most(2 * r.horizon, MinStale)
IsStale(r) == r.age > StaleCutoff(r)

Weight(r) ==
  CASE r.age <= r.horizon -> Full
    [] r.age >= StaleCutoff(r) -> Floor
    [] OTHER -> Full - ((Full - Floor) * (r.age - r.horizon)) \div (StaleCutoff(r) - r.horizon)

-----------------------------------------------------------------------------
(* Slots: how many independent sources the evidence comes from. A label     *)
(* names the fact, else the channel it was disclosed through stands for it. *)

SectorLink == 25      \* ECOSYSTEM_ASSOCIATION_CONFIDENCE
DisclosedLink == 85   \* DISCLOSED_LINK_CONFIDENCE
MinContribution == 30 \* MIN_SOURCE_CONTRIBUTION

IsPropagated(r) == r.link # Direct
IsSector(r) == IsPropagated(r) /\ r.link <= SectorLink

SectorSlot == <<"sector", "", "">>

\* The source names that begin with "SEC EDGAR".
EdgarNames == {"SEC EDGAR (8-K)", "SEC EDGAR (10-K)"}

ChannelKey(r) ==
  CASE IsPropagated(r) -> <<"propagated", r.origin, r.source>>
    [] ~IsPropagated(r) /\ r.source \in EdgarNames -> <<"filed", r.source, ToString(r.day)>>
    [] OTHER -> <<"published", r.source, "">>

IndependenceKey(r) == IF r.fact # NoLabel THEN <<"fact", Folded[r.fact], "">> ELSE ChannelKey(r)

\* Mutant: the labels decide, so two labels of one announcement are two sources.
KeysByLabel(S) == {IF IsSector(r) THEN SectorSlot ELSE IndependenceKey(r) : r \in S}

\* The partition with fewer slots: a label may merge items, and never splits them.
KeysOf(S) ==
  LET slot(Key(_), r) == IF IsSector(r) THEN SectorSlot ELSE Key(r)
      byFact == {slot(IndependenceKey, r) : r \in S}
      byChannel == {slot(ChannelKey, r) : r \in S}
  IN IF Cardinality(byFact) <= Cardinality(byChannel) THEN byFact ELSE byChannel

-----------------------------------------------------------------------------
(* The aggregate.                                                           *)

Agreeing(ev, side) == {i \in DOMAIN ev : ev[i].direction = side /\ ~IsStale(ev[i])}

\* Mutant: the sources are counted on both sides.
ContributingEither(ev, side) ==
  {ev[i] : i \in {j \in DOMAIN ev : ~IsStale(ev[j]) /\ ev[j].confidence * Weight(ev[j]) >= MinContribution}}

Contributing(ev, side) ==
  {ev[i] : i \in {j \in Agreeing(ev, side) : ev[j].confidence * Weight(ev[j]) >= MinContribution}}

SideMass(ev, side) ==
  LET mass(i) == ev[i].confidence * Weight(ev[i]) IN MapThenSumSet(mass, Agreeing(ev, side))

Opposite(side) == IF side = "LONG" THEN "SHORT" ELSE "LONG"

\* The side with more mass; a tie keeps the direction unless there is nothing.
Resolved(ev, was) ==
  LET long == SideMass(ev, "LONG")
      short == SideMass(ev, "SHORT")
  IN CASE long > short -> "LONG"
       [] short > long -> "SHORT"
       [] long = short /\ long = 0 -> "NONE"
       [] OTHER -> was

\* The first of the items whose decayed confidence times decayed magnitude is the largest.
Strongest(ev, side) ==
  LET worth(i) == ev[i].confidence * ev[i].magnitude * Weight(ev[i]) * Weight(ev[i])
      best == {i \in Agreeing(ev, side) : \A j \in Agreeing(ev, side) : worth(j) <= worth(i)}
  IN CHOOSE i \in best : \A j \in best : i <= j

\* log2 of the sources, in tenths, and no more than two and a half.
Doublings(n) ==
  CASE n < 2 -> 0 [] n = 2 -> 10 [] n = 3 -> 16 [] n = 4 -> 20 [] n = 5 -> 23 [] OTHER -> 25

EffectiveCount(n, judged) == IF judged > 0 THEN Least(n, judged) ELSE n

Whole == 200            \* a confidence of one: ten tenths of twenty twentieths
WholeMagnitude == 8000  \* a magnitude of one: the same, in fortieths of a corroboration step

\* What _aggregate leaves in a dossier.
Dossier ==
  [direction : {"LONG", "SHORT", "NONE"}, sources : Nat, filing : BOOLEAN, disclosed : BOOLEAN,
   score : 0 .. Whole * WholeMagnitude, arithmetic : 0 .. Whole * WholeMagnitude]

\* Confidence with its bonus, discounted by the opposition, times magnitude with its own.
Score(ev, side, n) ==
  LET b == ev[Strongest(ev, side)]
      agree == SideMass(ev, side)
      confidence == Least(Whole, b.confidence * Weight(b) + 2 * Doublings(n))
      magnitude == Least(WholeMagnitude, b.magnitude * Weight(b) * (40 + Doublings(n)))
  IN (confidence * magnitude * (agree - SideMass(ev, Opposite(side)))) \div agree

NoThesis == [direction |-> "NONE", sources |-> 0, filing |-> FALSE, disclosed |-> FALSE,
             score |-> 0, arithmetic |-> 0]

Aggregate(ev, was, judged) ==
  LET side == Resolved(ev, was)
      n == Cardinality(KeysOf(Contributing(ev, side)))
      agreeing == {ev[i] : i \in Agreeing(ev, side)}
  IN IF side = "NONE" THEN NoThesis ELSE
     [direction |-> side,
      sources |-> n,
      filing |-> \E r \in agreeing :
                   r.source_type # "news" /\ (r.link = Direct \/ r.link >= DisclosedLink),
      disclosed |-> \E r \in agreeing : r.link >= DisclosedLink /\ r.role # "competitor",
      score |-> Score(ev, side, EffectiveCount(n, judged)),
      arithmetic |-> Score(ev, side, n)]

RequiredSources(d) ==
  IF d.filing \/ d.disclosed THEN MinSources ELSE Most(MinSources, NewsOnly)

\* signals.evaluate returns an event.
Qualifies(d) ==
  /\ d.direction # "NONE"
  /\ d.sources >= RequiredSources(d)
  /\ d.score >= Threshold

-----------------------------------------------------------------------------
Init ==
  /\ evidence = <<>>
  /\ facts = 0
  /\ dossier = NoThesis
  /\ weeks = 0

MergeEvidence(r) ==
  /\ Len(evidence) < MaxEvidence
  /\ evidence' = Append(evidence, r)
  /\ dossier' = Aggregate(evidence', dossier.direction, facts)
  /\ UNCHANGED <<facts, weeks>>

Aged(ev) == [i \in DOMAIN ev |-> [ev[i] EXCEPT !.age = @ + 1]]

\* The daily pass after a week; the verdict it finds is stale.
RecomputeDecay ==
  /\ weeks < MaxWeeks
  /\ weeks' = weeks + 1
  /\ evidence' = Aged(evidence)
  /\ facts' = 0
  /\ dossier' = Aggregate(evidence', dossier.direction, 0)

\* The daily pass within a week, the verdict having become stale.
RecomputeUnjudged ==
  /\ facts > 0
  /\ facts' = 0
  /\ dossier' = Aggregate(evidence, dossier.direction, 0)
  /\ UNCHANGED <<evidence, weeks>>

\* The synthesis counts the facts; the next recomputation pays on them.
Synthesize(n) ==
  /\ dossier.direction # "NONE"
  /\ facts' = n
  /\ UNCHANGED <<evidence, dossier, weeks>>

Next ==
  \/ \E r \in Records : MergeEvidence(r)
  \/ RecomputeDecay
  \/ RecomputeUnjudged
  \/ \E n \in 1 .. MaxFacts : Synthesize(n)

Spec == Init /\ [][Next]_vars

-----------------------------------------------------------------------------
(* Properties.                                                              *)

TypeOK ==
  /\ evidence \in Seq(EvidenceRecord) /\ Len(evidence) <= MaxEvidence
  /\ facts \in 0 .. MaxFacts
  /\ dossier \in Dossier
  /\ weeks \in 0 .. MaxWeeks

WithoutLabels == [i \in DOMAIN evidence |-> [evidence[i] EXCEPT !.fact = NoLabel]]

Plain == Aggregate(WithoutLabels, dossier.direction, 0)

OnlySector == \A i \in DOMAIN evidence : IsSector(evidence[i])

WithoutSector == {r \in Contributing(evidence, dossier.direction) : ~IsSector(r)}

\* Neither labels nor sector links inflate a thesis. The labels a model writes
\* for the facts merge sources and never add one: a dossier counts no more
\* sources than by channel, scores no higher, and qualifies only where it would
\* without them. And sector co-membership, however many items, origins,
\* publishers or labels carry it, adds one source and alone qualifies nothing.
SourcesNotInflated ==
  /\ dossier.sources <= Plain.sources
  /\ dossier.arithmetic <= Plain.arithmetic
  /\ Qualifies(dossier) => Qualifies(Plain)
  /\ dossier.direction # "NONE" => dossier.sources <= Cardinality(KeysOf(WithoutSector)) + 1
  /\ OnlySector => ~Qualifies(dossier)

\* Evidence against a thesis contests it and nothing else: unless it turns the
\* direction, the item leaves the sources and the backing as they are and never
\* raises the score.
OpposingOnlyContests ==
  [][ /\ Len(evidence') > Len(evidence)
      /\ dossier.direction # "NONE" /\ dossier'.direction = dossier.direction
      /\ evidence'[Len(evidence')].direction # dossier.direction
      => /\ dossier'.sources = dossier.sources
         /\ dossier'.filing = dossier.filing /\ dossier'.disclosed = dossier.disclosed
         /\ dossier'.arithmetic <= dossier.arithmetic ]_vars
=============================================================================
