----------------------- MODULE OfflineReportsProofs -----------------------
(***************************************************************************)
(* Machine-checked theorems about the reports, for every calendar, number  *)
(* of days, horizon, tape of prices, and number of episodes and rows. A    *)
(* report is an operator over the logs, so each proof has two parts: what  *)
(* the logs can hold, an inductive invariant over the engine's writes, and *)
(* that the operator turns any such logs into a value with the property.   *)
(* Of the windows there is the second part only: they hold of any marks.   *)
(***************************************************************************)
EXTENDS OfflineReports, FiniteSetTheorems, WellFoundedInduction, TLAPS

-----------------------------------------------------------------------------
(* Least and greatest, and the calendar.                                    *)

\* A nonempty set of naturals has a least member,
LEMMA LeastExists ==
  ASSUME NEW S \in SUBSET Nat, S # {}
  PROVE  \E m \in S : \A j \in S : m <= j
<1> DEFINE R == OpToRel(<, Nat)
<1>1. \A a, b \in Nat : <<a, b>> \in R <=> a < b
  BY DEF OpToRel
<1>2. IsWellFoundedOn(R, Nat)
  BY NatLessThanWellFounded
<1> HIDE DEF R
<1>3. PICK m \in S : \A j \in S : ~(<<j, m>> \in R)
  BY <1>2, WFMin
<1>4. ASSUME NEW j \in S PROVE m <= j
  <2>1. ~(<<j, m>> \in R) /\ j \in Nat /\ m \in Nat
    BY <1>3
  <2>2. QED
    BY <1>1, <2>1
<1>5. QED
  BY <1>4

\* and a bounded one a greatest.
LEMMA GreatestExists ==
  ASSUME NEW S \in SUBSET Nat, S # {}, NEW n \in Nat, \A j \in S : j <= n
  PROVE  \E m \in S : \A j \in S : j <= m
<1> DEFINE D == {n - j : j \in S}
<1>1. D \in SUBSET Nat /\ D # {}
  <2>1. \A j \in S : n - j \in Nat
    OBVIOUS
  <2>2. QED
    BY <2>1
<1>2. PICK d \in D : \A e \in D : d <= e
  BY <1>1, LeastExists
<1>3. PICK m \in S : d = n - m
  BY <1>2
<1>4. \A j \in S : n - j \in D
  OBVIOUS
<1> HIDE DEF D
<1>5. QED
  BY <1>2, <1>3, <1>4

\* The library's least is one of them,
LEMMA MinIs ==
  ASSUME NEW S \in SUBSET Nat, S # {}
  PROVE  Min(S) \in S /\ \A j \in S : Min(S) <= j
  BY LeastExists DEF Min

\* its greatest the other,
LEMMA MaxIs ==
  ASSUME NEW S \in SUBSET Nat, S # {}, NEW n \in Nat, \A j \in S : j <= n
  PROVE  Max(S) \in S /\ \A j \in S : j <= Max(S)
<1>1. \E m \in S : \A j \in S : j <= m
  BY GreatestExists
<1>2. \E m \in S : \A j \in S : m >= j
  BY <1>1
<1>3. Max(S) \in S /\ \A j \in S : Max(S) >= j
  BY <1>2 DEF Max
<1>4. QED
  BY <1>3

\* and a greatest member is the greatest.
LEMMA MaxOf ==
  ASSUME NEW S \in SUBSET Nat, NEW m \in S, \A j \in S : j <= m
  PROVE  Max(S) = m
<1>1. Max(S) \in S /\ \A j \in S : j <= Max(S)
  BY MaxIs
<1>2. Max(S) <= m /\ m <= Max(S) /\ Max(S) \in Nat /\ m \in Nat
  BY <1>1
<1>3. QED
  BY <1>2

\* What the constants are assumed to be.
LEMMA Limits ==
  /\ Days \in Nat /\ MaxEpisodes \in Nat /\ MaxRelogs \in Nat /\ MaxMarks \in Nat
  /\ Horizons \subseteq Nat \ {0}
  BY OfflineAssumption

\* A moment is a part of a day,
LEMMA Parts ==
  ASSUME NEW t \in Nat
  PROVE  /\ DayOf(t) \in Nat /\ PartOf(t) \in {Before, Midday, Closing, After}
         /\ t = 4 * DayOf(t) + PartOf(t)
  BY DEF DayOf, PartOf, PartsPerDay, Before, Midday, Closing, After

\* the one its day and part name,
LEMMA AtDay ==
  ASSUME NEW d \in Nat, NEW p \in {Before, Midday, Closing, After}
  PROVE  At(d, p) \in Nat /\ At(d, p) = 4 * d + p /\ DayOf(At(d, p)) = d /\ PartOf(At(d, p)) = p
  BY DEF At, DayOf, PartOf, PartsPerDay, Before, Midday, Closing, After

\* and within the bound when its day is.
LEMMA MomentIs ==
  ASSUME NEW t \in Nat
  PROVE  t \in Moments <=> DayOf(t) \in 0 .. Days - 1
<1>1. t = 4 * DayOf(t) + PartOf(t) /\ DayOf(t) \in Nat /\ PartOf(t) \in 0..3
  BY Parts DEF Before, Midday, Closing, After
<1> DEFINE d == DayOf(t)
           p == PartOf(t)
<1> HIDE DEF d, p
<1>2. t \in 0 .. 4 * Days - 1 <=> d \in 0 .. Days - 1
  BY <1>1, Limits DEF d, p
<1>3. QED
  BY <1>2 DEF d, Moments, PartsPerDay

\* A session's close is a moment at which its price is struck.
LEMMA CloseIs ==
  ASSUME NEW d \in Sessions
  PROVE  d \in Nat /\ CloseOf(d) \in Moments /\ Regular(CloseOf(d)) /\ CloseOf(d) = 4 * d + 2
<1>1. d \in Nat /\ d \in 0 .. Days - 1 /\ Trades(d)
  BY Limits DEF Sessions
<1>2. CloseOf(d) \in Nat /\ CloseOf(d) = 4 * d + 2 /\ DayOf(CloseOf(d)) = d
      /\ PartOf(CloseOf(d)) = Closing
  BY <1>1, AtDay DEF CloseOf, Closing
<1>3. QED
  BY <1>1, <1>2, MomentIs DEF Regular

\* A price is filed under a session that has not closed before it: whenever it
\* was struck and however late it was stamped, it is no later than that
\* session's close.
LEMMA StruckBeforeClose ==
  ASSUME NEW t \in Moments, NEW u \in Struck(t), NEW d \in SessionForQuote(t)
  PROVE  u <= CloseOf(d) /\ d \in Sessions
<1>1. t \in Nat /\ u \in Nat /\ u \in Moments /\ u <= t /\ Regular(u)
  BY Limits DEF Struck, Moments, PartsPerDay
<1>2. /\ DayOf(t) \in Nat /\ t = 4 * DayOf(t) + PartOf(t)
      /\ PartOf(t) \in {Before, Midday, Closing, After}
  BY <1>1, Parts
<1>3. /\ DayOf(u) \in Nat /\ u = 4 * DayOf(u) + PartOf(u) /\ PartOf(u) \in {1, 2}
      /\ Trades(DayOf(u))
  BY <1>1, Parts DEF Regular, Midday, Closing
<1>4. DayOf(u) \in Sessions /\ DayOf(t) \in 0 .. Days - 1
  BY <1>1, <1>3, MomentIs DEF Sessions
<1>5. DayOf(u) <= DayOf(t)
  BY <1>1, <1>2, <1>3 DEF Before, Midday, Closing, After
<1>6. ASSUME NEW b \in Sessions, DayOf(u) <= b PROVE u <= CloseOf(b)
  <2>1. b \in Nat /\ CloseOf(b) = 4 * b + 2
    BY CloseIs
  <2>2. QED
    BY <1>3, <1>6, <2>1
<1>7. CASE Trades(DayOf(t)) /\ PartOf(t) # Before
  <2>1. d = DayOf(t)
    BY <1>7 DEF SessionForQuote
  <2>2. d \in Sessions
    BY <1>4, <1>7, <2>1 DEF Sessions
  <2>3. QED
    BY <1>5, <1>6, <2>1, <2>2
<1>8. CASE ~(Trades(DayOf(t)) /\ PartOf(t) # Before)
  <2> DEFINE B == SessionBefore(DayOf(t))
  <2>1. B # {} /\ d = Max(B)
    BY <1>8 DEF SessionForQuote
  <2>2. /\ B \in SUBSET Nat /\ B \subseteq Sessions
        /\ \A b \in B : b <= DayOf(t) /\ DayOf(t) - b <= 7
    BY <1>2, Limits DEF SessionBefore, Sessions
  <2>3. d \in B /\ \A b \in B : b <= d
    <3> HIDE DEF B
    <3>1. QED
      BY <1>2, <2>1, <2>2, MaxIs
  <2>4. DayOf(u) < DayOf(t)
    <3>1. DayOf(u) # DayOf(t)
      BY <1>1, <1>2, <1>3, <1>8 DEF Before
    <3>2. QED
      BY <1>2, <1>3, <1>5, <3>1
  <2>5. CASE DayOf(t) - DayOf(u) <= 7
    <3>1. DayOf(u) \in B
      BY <1>4, <2>4, <2>5 DEF SessionBefore
    <3>2. QED
      BY <1>6, <2>2, <2>3, <3>1
  <2>6. CASE ~(DayOf(t) - DayOf(u) <= 7)
    <3>1. d \in Nat /\ DayOf(t) - d <= 7 /\ d \in Sessions
      BY <2>2, <2>3
    <3>2. DayOf(u) <= d
      BY <1>2, <1>3, <2>6, <3>1
    <3>3. QED
      BY <1>6, <3>1, <3>2
  <2>7. QED
    BY <2>5, <2>6
<1>9. QED
  BY <1>7, <1>8

\* market_hours.py's session_for_quote: a quote taken while the market is shut
\* shows the close of the session it is filed under.
LEMMA QuoteOfAClose ==
  ASSUME NEW t \in Moments, ~Regular(t), NEW d \in Sessions, d \in SessionForQuote(t)
  PROVE  Max(Struck(t)) = CloseOf(d)
<1>1. t \in Nat
  BY Limits DEF Moments, PartsPerDay
<1>2. /\ DayOf(t) \in Nat /\ t = 4 * DayOf(t) + PartOf(t)
      /\ PartOf(t) \in {Before, Midday, Closing, After}
  BY <1>1, Parts
<1>3. d \in Nat /\ CloseOf(d) \in Moments /\ Regular(CloseOf(d)) /\ CloseOf(d) = 4 * d + 2
  BY CloseIs
<1>4. CloseOf(d) <= t
  <2>1. CASE Trades(DayOf(t)) /\ PartOf(t) # Before
    <3>1. d = DayOf(t) /\ PartOf(t) = After
      BY <1>2, <2>1 DEF SessionForQuote, Regular
    <3>2. QED
      BY <1>2, <1>3, <3>1 DEF After
  <2>2. CASE ~(Trades(DayOf(t)) /\ PartOf(t) # Before)
    <3> DEFINE B == SessionBefore(DayOf(t))
    <3>1. d \in {Max(B)} /\ B # {}
      BY <2>2 DEF SessionForQuote
    <3>2. B \in SUBSET Nat /\ \A b \in B : b <= DayOf(t)
      BY <1>2, Limits DEF SessionBefore, Sessions
    <3>3. d \in B
      <4> HIDE DEF B
      <4> QED BY <1>2, <3>1, <3>2, MaxIs
    <3>4. d < DayOf(t)
      BY <3>3 DEF SessionBefore
    <3>5. QED
      BY <1>2, <1>3, <3>4 DEF Before, Midday, Closing, After
  <2>3. QED
    BY <2>1, <2>2
<1>5. CloseOf(d) \in Struck(t)
  BY <1>3, <1>4 DEF Struck
<1>6. \A u \in Struck(t) : u <= CloseOf(d)
  BY StruckBeforeClose
<1>7. Struck(t) \in SUBSET Nat
  BY Limits DEF Struck, Moments, PartsPerDay
<1>8. QED
  BY <1>5, <1>6, <1>7, MaxOf

-----------------------------------------------------------------------------
(* Marks in event time.                                                     *)

\* Only the first moment may lie outside a calendar of no days.
ClockInv == now \in Nat /\ (now # 0 => now \in Moments)
\* A quote shows the last price there was when it was asked for.
Rows == [asked : Moments, at : Moments, price : Moments]
Quoted(q) == q.asked \in Moments /\ Struck(q.asked) # {} /\ q.price = Max(Struck(q.asked))
\* Inductive: one in hand was asked for by now, a row's by its stamp.
MarksInv ==
  /\ ClockInv
  /\ quoted # None => Quoted(quoted) /\ quoted.asked <= now
  /\ marks \in Seq(Rows)
  /\ \A i \in DOMAIN marks : Quoted(marks[i]) /\ marks[i].asked <= marks[i].at

\* A quote's price is one that was struck.
LEMMA LastStruck ==
  ASSUME NEW t \in Moments, Struck(t) # {}
  PROVE  Max(Struck(t)) \in Struck(t)
<1>1. t \in Nat /\ Struck(t) \in SUBSET Nat /\ \A u \in Struck(t) : u <= t
  BY Limits DEF Struck, Moments, PartsPerDay
<1>2. QED
  BY <1>1, MaxIs

\* A session's mark is chosen among the rows filed under it: of two rows the
\* better one is the settled one or the further one.
LEMMA ChosenIs ==
  ASSUME marks \in Seq(Rows), NEW d \in Filed
  PROVE  Chosen(d) \in FiledUnder(d)
<1> DEFINE F == FiledUnder(d)
           Best(q) == {i \in F : Quality(marks[i]) = q}
<1>1. F # {} /\ F \in SUBSET Nat /\ Len(marks) \in Nat /\ \A i \in F : i <= Len(marks)
  BY DEF Filed, FiledUnder
<1>2. \A i \in F : Quality(marks[i]) \in {1, 2}
  BY DEF Quality
<1> HIDE DEF F
<1>3. ASSUME NEW q \in {1, 2}, Best(q) # {}
      PROVE  \E i \in Best(q) : \A j \in Best(q) \ {i} : i > j
  <2>1. Best(q) \in SUBSET Nat /\ \A i \in Best(q) : i <= Len(marks)
    BY <1>1
  <2>2. PICK i \in Best(q) : \A j \in Best(q) : j <= i
    <3> HIDE DEF Best
    <3> QED BY <1>1, <1>3, <2>1, GreatestExists
  <2>3. ASSUME NEW j \in Best(q) \ {i} PROVE i > j
    <3>1. i \in Nat /\ j \in Nat /\ j <= i /\ j # i
      BY <2>1, <2>2
    <3>2. QED
      BY <3>1
  <2>4. QED
    BY <2>3
<1>4. \E i \in F : \A j \in F \ {i} : Better(i, j)
  <2>1. CASE Best(2) # {}
    <3>1. PICK i \in Best(2) : \A j \in Best(2) \ {i} : i > j
      BY <1>3, <2>1
    <3>2. ASSUME NEW j \in F \ {i} PROVE Better(i, j)
      <4>1. Quality(marks[i]) = 2 /\ Quality(marks[j]) \in {1, 2}
        BY <1>2, <3>1
      <4>2. Quality(marks[j]) = 2 => i > j
        BY <3>1
      <4>3. QED
        BY <4>1, <4>2 DEF Better
    <3>3. QED
      BY <3>1, <3>2
  <2>2. CASE Best(2) = {}
    <3>1. Best(1) = F
      BY <1>2, <2>2
    <3>2. PICK i \in Best(1) : \A j \in Best(1) \ {i} : i > j
      BY <1>1, <1>3, <3>1
    <3>3. ASSUME NEW j \in F \ {i} PROVE Better(i, j)
      <4>1. i \in Best(1) /\ j \in Best(1)
        BY <3>1, <3>2
      <4>2. Quality(marks[i]) = 1 /\ Quality(marks[j]) = 1
        BY <4>1
      <4>3. QED
        BY <3>2, <4>1, <4>2 DEF Better
    <3>4. QED
      BY <3>1, <3>2, <3>3
  <2>3. QED
    BY <2>1, <2>2
<1>5. QED
  BY <1>4 DEF Chosen, F

\* So a mark carries a price struck by its stamp, and the last one struck by
\* then unless one was struck while the pass waited.
LEMMA MarkIs ==
  ASSUME MarksInv, NEW d \in Filed
  PROVE  /\ Mark(d).at \in Moments /\ d \in Sessions /\ d \in SessionForQuote(Mark(d).at)
         /\ Mark(d).price \in Struck(Mark(d).at)
         /\ ~Overtaken(Mark(d)) => Mark(d).price = Max(Struck(Mark(d).at))
<1> DEFINE m == Mark(d)
<1>1. Chosen(d) \in FiledUnder(d) /\ d \in Sessions
  BY ChosenIs DEF MarksInv, Filed
<1>2. Chosen(d) \in DOMAIN marks /\ d \in SessionForQuote(m.at)
  BY <1>1 DEF FiledUnder, Mark
<1>3. m \in Rows /\ Quoted(m) /\ m.asked <= m.at
  BY <1>2 DEF MarksInv, Mark
<1> HIDE DEF m
<1>4. /\ m.asked \in Moments /\ m.at \in Moments /\ m.asked \in Nat /\ m.at \in Nat
      /\ Struck(m.asked) # {} /\ m.price = Max(Struck(m.asked))
  BY <1>3, Limits DEF Rows, Quoted, Moments, PartsPerDay
<1>5. Struck(m.asked) \subseteq Struck(m.at)
  BY <1>3, <1>4, Limits DEF Struck, Moments, PartsPerDay
<1>6. m.price \in Struck(m.at)
  BY <1>4, <1>5, LastStruck
<1>7. ~Overtaken(m) => Struck(m.at) = Struck(m.asked)
  <2> SUFFICES ASSUME ~Overtaken(m), NEW u \in Struck(m.at) PROVE u \in Struck(m.asked)
    BY <1>5
  <2>1. u \in Moments /\ u \in Nat /\ u <= m.at /\ Regular(u)
    BY Limits DEF Struck, Moments, PartsPerDay
  <2>2. ~(m.asked < u)
    BY <2>1 DEF Overtaken
  <2>3. u <= m.asked
    BY <1>4, <2>1, <2>2
  <2>4. QED
    BY <2>1, <2>3 DEF Struck
<1>8. QED
  BY <1>1, <1>2, <1>4, <1>6, <1>7 DEF m

\* Nothing else is needed for the paths to be aligned.
LEMMA AlignedMarks == ASSUME MarksInv PROVE EventTimeAligned
<1>1. ASSUME NEW d \in Filed, IsSettled(d), ~Overtaken(Mark(d)) PROVE Mark(d).price = CloseOf(d)
  <2>1. ~Regular(Mark(d).at)
    BY <1>1 DEF IsSettled, Quality, QuoteIsAClose
  <2>2. QED
    BY <1>1, <2>1, MarkIs, QuoteOfAClose
<1>2. ASSUME NEW t \in Moments, NEW d \in Filed
      PROVE  /\ d \in EventPath(t).traded => CloseOf(d) >= t
             /\ d \in EventPath(t).base => CloseOf(d) < t
  <2>1. /\ t \in Nat /\ DayOf(t) \in Nat /\ PartOf(t) \in {Before, Midday, Closing, After}
        /\ t = 4 * DayOf(t) + PartOf(t)
    BY Parts, Limits DEF Moments, PartsPerDay
  <2>2. d \in Nat /\ CloseOf(d) = 4 * d + 2
    BY CloseIs DEF Filed
  <2>3. d >= ActionableDate(t) => CloseOf(d) >= t
    BY <2>1, <2>2 DEF ActionableDate, Before, Midday, Closing, After
  <2>4. ~(d >= ActionableDate(t)) => CloseOf(d) < t
    BY <2>1, <2>2 DEF ActionableDate, Before, Midday, Closing, After
  <2>5. d \in EventPath(t).traded => d >= ActionableDate(t)
    BY DEF EventPath, FromEvent
  <2>6. d \in EventPath(t).base => ~(d >= ActionableDate(t))
    BY DEF EventPath, FromEvent
  <2>7. QED
    BY <2>3, <2>4, <2>5, <2>6
<1>3. ASSUME NEW d \in Filed
      PROVE  /\ Mark(d).price <= CloseOf(d) /\ Mark(d).price \in Nat
             /\ CloseOf(d) \in Nat
  <2>1. Mark(d).price <= CloseOf(d)
    BY MarkIs, StruckBeforeClose
  <2>2. Mark(d).price \in Struck(Mark(d).at) /\ d \in Sessions
    BY MarkIs
  <2>3. Mark(d).price \in Nat /\ CloseOf(d) \in Nat
    BY <2>2, CloseIs, Limits DEF Struck, Moments, PartsPerDay
  <2>4. QED
    BY <2>1, <2>3
<1>4. ASSUME NEW t \in Moments, NEW d \in EventPath(t).traded, IsSettled(d), ~Overtaken(Mark(d))
      PROVE  Mark(d).price >= t
  <2>1. d \in Filed
    BY DEF EventPath, FromEvent
  <2>2. QED
    BY <1>1, <1>2, <1>4, <2>1
<1>5. ASSUME NEW t \in Moments, NEW d \in EventPath(t).base PROVE Mark(d).price < t
  <2>1. d \in Filed
    BY DEF EventPath
  <2>2. CloseOf(d) < t /\ Mark(d).price <= CloseOf(d) /\ Mark(d).price \in Nat /\ CloseOf(d) \in Nat
    BY <1>2, <1>3, <2>1
  <2>3. t \in Nat
    BY Limits DEF Moments, PartsPerDay
  <2>4. QED
    BY <2>2, <2>3
<1>6. QED
  BY <1>1, <1>4, <1>5 DEF EventTimeAligned

\* price_marks.jsonl joined to events, for every calendar and however long a
\* pass over the prices takes: a move is never measured from a price the event
\* could have moved, and the settled bars it is followed through closed at the
\* event or later, but for those a pass asked for before the close and stamped
\* after it. Without that exception SettledIsClose is a counterexample.
THEOREM MarksCorrect == Spec => []EventTimeAligned
<1>1. Init => MarksInv
  BY DEF Init, MarksInv, ClockInv
<1>2. MarksInv /\ [Next]_vars => MarksInv'
  <2> SUFFICES ASSUME MarksInv, [Next]_vars PROVE MarksInv'
    OBVIOUS
  <2>1. /\ now \in Nat /\ (now # 0 => now \in Moments)
        /\ quoted # None => Quoted(quoted) /\ quoted.asked <= now
        /\ marks \in Seq(Rows)
        /\ \A i \in DOMAIN marks : Quoted(marks[i]) /\ marks[i].asked <= marks[i].at
    BY DEF MarksInv, ClockInv
  <2>2. ASSUME now' \in Nat, now <= now', now' # 0 => now' \in Moments,
               quoted' = quoted, marks' = marks
        PROVE  MarksInv'
    <3>1. quoted # None => quoted.asked <= now'
      <4>1. quoted # None => quoted.asked \in Nat
        BY <2>1, Limits DEF Quoted, Moments, PartsPerDay
      <4>2. QED
        BY <2>1, <2>2, <4>1
    <3>2. QED
      BY <2>1, <2>2, <3>1 DEF MarksInv, ClockInv, Quoted, Rows, Struck
  <2>3. CASE QuoteTaken
    <3>1. /\ now' = now /\ marks' = marks /\ Struck(now) # {}
          /\ quoted' = [asked |-> now, price |-> Max(Struck(now))]
      BY <2>3 DEF QuoteTaken
    <3>2. now \in Moments
      <4>1. PICK u \in Struck(now) : TRUE
        BY <3>1
      <4>2. u \in Nat /\ Regular(u) /\ u <= now
        BY Limits DEF Struck, Moments, PartsPerDay
      <4>3. u # 0
        BY <4>2, Parts DEF Regular, Midday, Closing
      <4>4. QED
        BY <2>1, <4>2, <4>3
    <3>3. Quoted(quoted') /\ quoted'.asked <= now
      BY <2>1, <3>1, <3>2 DEF Quoted
    <3>4. QED
      BY <2>1, <3>1, <3>3 DEF MarksInv, ClockInv, Quoted, Rows, Struck
  <2>4. CASE MarksWritten
    <3> DEFINE new == [asked |-> quoted.asked, at |-> now, price |-> quoted.price]
    <3>1. now' = now /\ quoted' = None /\ marks' = Append(marks, new) /\ quoted # None
      BY <2>4 DEF MarksWritten
    <3>2. new.asked = quoted.asked /\ new.at = now /\ new.price = quoted.price
      OBVIOUS
    <3>3. quoted.asked \in Moments /\ quoted.asked \in Nat /\ quoted.asked <= now /\ Quoted(quoted)
      BY <2>1, <3>1, Limits DEF Quoted, Moments, PartsPerDay
    <3>4. now \in Moments
      BY <2>1, <3>3
    <3>5. quoted.price \in Moments
      BY <3>3, LastStruck DEF Quoted, Struck
    <3>6. new \in Rows
      BY <3>3, <3>4, <3>5 DEF Rows
    <3>7. Quoted(new) /\ new.asked <= new.at
      BY <3>2, <3>3 DEF Quoted
    <3> HIDE DEF new
    <3>8. marks' \in Seq(Rows)
      BY <2>1, <3>1, <3>6
    <3>9. ASSUME NEW i \in DOMAIN marks'
          PROVE  Quoted(marks'[i]) /\ marks'[i].asked <= marks'[i].at
      <4>1. CASE i \in DOMAIN marks
        <5>1. marks'[i] = marks[i]
          BY <2>1, <3>1, <3>6, <4>1
        <5>2. QED
          BY <2>1, <4>1, <5>1
      <4>2. CASE i \notin DOMAIN marks
        <5>1. marks'[i] = new
          BY <2>1, <3>1, <3>6, <3>9, <4>2
        <5>2. QED
          BY <3>7, <5>1
      <4>3. QED
        BY <4>1, <4>2
    <3>10. QED
      BY <2>1, <3>1, <3>8, <3>9 DEF MarksInv, ClockInv, Quoted, Rows, Struck
  <2>5. ASSUME Continues, quoted' = quoted, marks' = marks PROVE MarksInv'
    <3>1. now' \in Moments /\ now' = now + 1
      BY <2>5 DEF Continues
    <3>2. now' \in Nat /\ now <= now'
      BY <2>1, <3>1
    <3>3. QED
      BY <2>2, <2>5, <3>1, <3>2
  <2>6. CASE TimePasses
    BY <2>5, <2>6 DEF TimePasses, markVars
  <2>7. ASSUME NEW price \in Prices, PriceMoves(price) PROVE MarksInv'
    BY <2>5, <2>7 DEF PriceMoves, markVars
  <2>8. ASSUME now' = now, quoted' = quoted, marks' = marks PROVE MarksInv'
    BY <2>1, <2>2, <2>8
  <2>9. ASSUME \/ \E side \in Sides : Fires(side)
               \/ Relogs \/ DriftSkips \/ Expires \/ Opens \/ OpeningDecided
               \/ CloseLogged \/ CloseDone
        PROVE  MarksInv'
    BY <2>8, <2>9 DEF Fires, Relogs, DriftSkips, Expires, Opens, OpeningDecided, CloseLogged,
       CloseDone, markVars
  <2>10. ASSUME \/ \E side \in Sides, horizon \in Horizons : PositionOpens(side, horizon)
                \/ JournalUpdates \/ JournalExpires
         PROVE  MarksInv'
    BY <2>8, <2>10 DEF PositionOpens, JournalUpdates, JournalExpires, markVars
  <2>11. CASE UNCHANGED vars
    BY <2>8, <2>11 DEF vars, markVars
  <2>12. QED
    BY <2>3, <2>4, <2>6, <2>7, <2>9, <2>10, <2>11 DEF Next
<1>3. MarksInv => EventTimeAligned
  BY AlignedMarks
<1>4. QED
  BY <1>1, <1>2, <1>3, PTL DEF Spec

-----------------------------------------------------------------------------
(* The replay.                                                              *)

\* The journal's own count of the days held, in whole days since the entry.
HeldSince(t) == (t - position.at) \div PartsPerDay >= position.horizon
\* A close by a poll that found a price, and one without a price.
Polled ==
  /\ Regular(close.at) /\ DayOf(close.at) > DayOf(position.at)
  /\ close.status = Verdict(Bar(DayOf(close.at), close.at), HeldSince(close.at))
  /\ close.status # "OPEN"
Expired == close.status = "TIMEOUT" /\ HeldSince(close.at)

\* The position and its tape are of the past,
PositionInv ==
  position # None =>
    /\ position.at \in Moments /\ position.at <= now
    /\ position.horizon \in Nat \ {0}
    /\ DOMAIN tape \subseteq Moments /\ \A u \in DOMAIN tape : u <= now
\* and its close is a verdict on a bar as it then stood, or past the horizon.
CloseInv ==
  close # None =>
    /\ position # None
    /\ close.at \in Moments /\ position.at <= close.at /\ close.at <= now
    /\ (Polled \/ Expired)
ReplayInv == ClockInv /\ PositionInv /\ CloseInv

\* Order on the naturals is transitive, as a fact to cite,
LEMMA Chain == \A a, b, c \in Nat : a <= b /\ b <= c => a <= c
  OBVIOUS

\* and moments are naturals.
LEMMA MomentNat == Moments \subseteq Nat
  BY Limits DEF Moments, PartsPerDay

\* The market is open within the bound only.
LEMMA RegularMoment ==
  ASSUME ClockInv, Regular(now)
  PROVE  now \in Moments
<1>1. now \in Nat /\ PartOf(now) # Before /\ (now # 0 => now \in Moments)
  BY DEF ClockInv, Regular, Midday, Closing, Before
<1>2. PartOf(0) = Before
  BY DEF PartOf, PartsPerDay, Before
<1>3. QED
  BY <1>1, <1>2

\* Held for whole days is held for calendar days: the replay, which counts the
\* latter, times out no later than the journal.
LEMMA HeldIsDays ==
  ASSUME NEW a \in Nat, NEW b \in Nat, a <= b, NEW h \in Nat, (b - a) \div PartsPerDay >= h
  PROVE  DayOf(b) - DayOf(a) >= h
<1>1. /\ a = 4 * DayOf(a) + PartOf(a) /\ PartOf(a) \in 0..3 /\ DayOf(a) \in Nat
      /\ b = 4 * DayOf(b) + PartOf(b) /\ PartOf(b) \in 0..3 /\ DayOf(b) \in Nat
  BY Parts DEF Before, Midday, Closing, After
<1>2. (b - a) \div 4 \in Nat /\ 4 * ((b - a) \div 4) <= b - a /\ (b - a) \div 4 >= h
  <2>1. b - a \in Nat
    OBVIOUS
  <2>2. QED
    BY <2>1 DEF PartsPerDay
<1> DEFINE q == (b - a) \div 4
<1> HIDE DEF q
<1>3. 4 * q <= b - a /\ q >= h /\ q \in Nat
  BY <1>2 DEF q
<1>4. QED
  BY <1>1, <1>3

\* A verdict on a part of a bar is one on the whole of it, but that a stop seen
\* later turns a win into a loss; and a position the journal held past its
\* horizon is past it by the session due.
LEMMA ReplayEnds ==
  ASSUME ReplayInv
  PROVE  ReplayConservative
<1> SUFFICES ASSUME close # None
             PROVE  LET due == {d \in Sessions : d >= DayOf(close.at)}
                    IN due # {} /\ At(Min(due), After) <= now =>
                         /\ \E d \in ReplayExits : d <= Min(due)
                         /\ LET exit == Min(ReplayExits)
                            IN exit = DayOf(close.at) =>
                                 /\ close.status = "LOSS" => ReplayOutcome(exit) = "LOSS"
                                 /\ close.status = "WIN" => ReplayOutcome(exit) \in {"WIN", "LOSS"}
  BY DEF ReplayConservative
<1> DEFINE due == {d \in Sessions : d >= DayOf(close.at)}
           D == Min(due)
<1> SUFFICES ASSUME due # {}, At(D, After) <= now
             PROVE  /\ \E d \in ReplayExits : d <= D
                    /\ LET exit == Min(ReplayExits)
                       IN exit = DayOf(close.at) =>
                            /\ close.status = "LOSS" => ReplayOutcome(exit) = "LOSS"
                            /\ close.status = "WIN" => ReplayOutcome(exit) \in {"WIN", "LOSS"}
  OBVIOUS
<1>1. /\ position # None /\ position.at \in Nat /\ close.at \in Nat /\ close.at \in Moments
      /\ position.at <= close.at /\ close.at <= now /\ position.horizon \in Nat \ {0}
      /\ now \in Nat /\ (Polled \/ Expired)
      /\ DOMAIN tape \subseteq Nat
  BY MomentNat DEF ReplayInv, ClockInv, PositionInv, CloseInv
<1>2. /\ due \in SUBSET Nat /\ D \in due /\ \A d \in due : D <= d
  <2>1. due \in SUBSET Nat
    BY Limits DEF Sessions
  <2>2. QED
    BY <2>1, MinIs
<1>3. D \in Sessions /\ D \in Nat /\ D >= DayOf(close.at)
  BY <1>2
<1>4. DayOf(close.at) \in Nat /\ DayOf(position.at) \in Nat
  BY <1>1, Parts
<1> HIDE DEF D
<1>5. CASE Polled
  <2>1. DayOf(close.at) \in due
    <3>1. DayOf(close.at) \in Sessions
      BY <1>1, <1>5, MomentIs DEF Sessions, Polled, Regular
    <3>2. QED
      BY <1>4, <3>1
  <2>2. D = DayOf(close.at)
    BY <1>2, <1>3, <1>4, <2>1
  <2>3. D > DayOf(position.at)
    BY <1>5, <2>2 DEF Polled
  <2>4. D \in ReplaySessions
    BY <1>3, <1>4, <2>3 DEF ReplaySessions
  <2>5. Bar(D, close.at) \subseteq Bar(D, now)
    <3>1. ASSUME NEW v \in DOMAIN tape, v <= close.at PROVE v <= now
      <4>1. v \in Nat
        BY <1>1
      <4>2. close.at \in Nat /\ now \in Nat /\ close.at <= now
        BY <1>1
      <4>3. QED
        BY <3>1, <4>1, <4>2, Chain
    <3>2. QED
      BY <3>1 DEF Bar
  <2>6. HeldSince(close.at) => HeldOut(D)
    <3>1. HeldSince(close.at) => DayOf(close.at) - DayOf(position.at) >= position.horizon
      BY <1>1, HeldIsDays DEF HeldSince
    <3>2. QED
      BY <2>2, <3>1 DEF HeldOut
  <2>7. close.status = Verdict(Bar(D, close.at), HeldSince(close.at)) /\ close.status # "OPEN"
    BY <1>5, <2>2 DEF Polled
  <2>8. /\ ReplayOutcome(D) # "OPEN"
        /\ close.status = "LOSS" => ReplayOutcome(D) = "LOSS"
        /\ close.status = "WIN" => ReplayOutcome(D) \in {"WIN", "LOSS"}
    <3> DEFINE part == Bar(D, close.at)
               whole == Bar(D, now)
               late == HeldSince(close.at)
               out == HeldOut(D)
    <3>1. part \subseteq whole /\ (late => out) /\ late \in BOOLEAN /\ out \in BOOLEAN
      BY <2>5, <2>6 DEF HeldSince, HeldOut
    <3>2. close.status = Verdict(part, late) /\ ReplayOutcome(D) = Verdict(whole, out)
      BY <2>7 DEF ReplayOutcome
    <3> HIDE DEF part, whole, late, out
    <3>3. QED
      BY <2>7, <3>1, <3>2 DEF Verdict
  <2>9. D \in ReplayExits
    BY <2>4, <2>8 DEF ReplayExits
  <2>10. QED
    BY <1>3, <2>2, <2>8, <2>9
<1>6. CASE Expired
  <2>1. DayOf(close.at) - DayOf(position.at) >= position.horizon
    BY <1>1, <1>6, HeldIsDays DEF Expired, HeldSince
  <2>2. D \in ReplaySessions /\ D - DayOf(position.at) >= position.horizon
    BY <1>1, <1>3, <1>4, <2>1 DEF ReplaySessions
  <2>3. HeldOut(D)
    BY <2>2 DEF HeldOut
  <2>4. ReplayOutcome(D) # "OPEN"
    BY <2>3 DEF ReplayOutcome, Verdict
  <2>5. D \in ReplayExits /\ close.status = "TIMEOUT"
    BY <1>6, <2>2, <2>4 DEF ReplayExits, Expired
  <2>6. QED
    BY <1>3, <2>5
<1>7. QED
  BY <1>1, <1>5, <1>6

\* The replay of backtest.py against the journal: it ends a position no later
\* than the first session on or after the day the journal did, and ends it as a
\* loss where the journal did so in that session, for every tape of prices,
\* horizon and calendar.
THEOREM ReplayIsConservative == Spec => []ReplayConservative
<1>1. Init => ReplayInv
  BY DEF Init, ReplayInv, ClockInv, PositionInv, CloseInv
<1>2. ReplayInv /\ [Next]_vars => ReplayInv'
  <2> SUFFICES ASSUME ReplayInv, [Next]_vars PROVE ReplayInv'
    OBVIOUS
  <2>1. ClockInv /\ PositionInv /\ CloseInv
    BY DEF ReplayInv
  <2>2. ASSUME now' = now, tape' = tape, position' = position, close' = close PROVE ReplayInv'
    BY <2>1, <2>2 DEF ReplayInv, ClockInv, PositionInv, CloseInv, Polled, Expired, HeldSince,
       Verdict, Bar
  <2>3. ASSUME NEW side \in Sides, NEW horizon \in Horizons, PositionOpens(side, horizon)
        PROVE  ReplayInv'
    <3>1. /\ position = None /\ now' = now /\ close' = close
          /\ position' = [at |-> now, side |-> side, horizon |-> horizon]
          /\ tape' = [u \in {now} |-> Entry]
          /\ now \in Moments
      BY <2>1, <2>3, RegularMoment DEF PositionOpens
    <3>2. close = None
      BY <2>1, <3>1 DEF CloseInv
    <3>3. DOMAIN tape' = {now}
      BY <3>1
    <3>4. position'.at = now /\ position'.horizon \in Nat \ {0}
      BY <3>1, Limits
    <3>5. PositionInv'
      BY <2>1, <3>1, <3>3, <3>4, MomentNat DEF PositionInv, ClockInv
    <3>6. QED
      BY <2>1, <3>1, <3>2, <3>5 DEF ReplayInv, CloseInv, ClockInv
  <2>4. CASE JournalUpdates
    <3> DEFINE verdict == Verdict(Bar(DayOf(now), now), HeldSince(now))
    <3>1. /\ now' = now /\ tape' = tape /\ position' = position /\ position # None
          /\ Regular(now) /\ DayOf(now) > DayOf(position.at)
          /\ verdict # "OPEN" /\ close' = [at |-> now, status |-> verdict]
          /\ now \in Moments
      BY <2>1, <2>4, RegularMoment DEF JournalUpdates, Elapsed, HeldSince
    <3>2. close'.at = now /\ close'.status = verdict
      BY <3>1
    <3>3. verdict = Verdict(Bar(DayOf(now), now), HeldSince(now))'
      BY <3>1 DEF Verdict, Bar, HeldSince
    <3>4. Polled'
      BY <3>1, <3>2, <3>3 DEF Polled
    <3>5. position.at <= now /\ now <= now
      BY <2>1, <3>1 DEF PositionInv, ClockInv
    <3>6. CloseInv'
      BY <3>1, <3>2, <3>4, <3>5 DEF CloseInv
    <3>7. PositionInv'
      BY <2>1, <3>1 DEF PositionInv
    <3>8. QED
      BY <2>1, <3>1, <3>6, <3>7 DEF ReplayInv, ClockInv
  <2>5. CASE JournalExpires
    <3>1. /\ now' = now /\ tape' = tape /\ position' = position /\ position # None
          /\ HeldSince(now) /\ close' = [at |-> now, status |-> "TIMEOUT"]
      BY <2>5 DEF JournalExpires, Elapsed, HeldSince
    <3>2. close'.at = now /\ close'.status = "TIMEOUT"
      BY <3>1
    <3>3. position.at <= now /\ position.at \in Moments /\ position.horizon \in Nat \ {0}
          /\ now \in Nat
      BY <2>1, <3>1 DEF PositionInv, ClockInv
    <3>4. now \in Moments
      <4>1. (now - position.at) \div 4 >= position.horizon /\ position.at \in Nat
        BY <3>1, <3>3, MomentNat DEF HeldSince, PartsPerDay
      <4>2. now # 0
        BY <3>3, <4>1
      <4>3. QED
        BY <2>1, <4>2 DEF ClockInv
    <3>5. Expired'
      BY <3>1, <3>2 DEF Expired, HeldSince
    <3>6. CloseInv'
      BY <3>1, <3>2, <3>3, <3>4, <3>5 DEF CloseInv
    <3>7. PositionInv'
      BY <2>1, <3>1 DEF PositionInv
    <3>8. QED
      BY <2>1, <3>1, <3>6, <3>7 DEF ReplayInv, ClockInv
  <2> DEFINE Moved(price) == [u \in DOMAIN tape \cup {now'} |->
                               IF u = now' THEN price ELSE tape[u]]
  <2>6. ASSUME Continues, position' = position, close' = close,
               \/ tape' = tape
               \/ \E price \in Prices : tape' = Moved(price)
        PROVE  ReplayInv'
    <3>1. now' = now + 1 /\ now' \in Moments /\ now' \in Nat /\ now \in Nat /\ now <= now'
      BY <2>1, <2>6, MomentNat DEF Continues, ClockInv
    <3>2. ASSUME position # None
          PROVE  /\ DOMAIN tape' \subseteq Moments /\ \A u \in DOMAIN tape' : u <= now'
                 /\ {u \in DOMAIN tape' : u <= now} = DOMAIN tape
                 /\ \A u \in DOMAIN tape : tape'[u] = tape[u]
      <4>1. DOMAIN tape \subseteq Moments /\ \A u \in DOMAIN tape : u <= now
        BY <2>1, <3>2 DEF PositionInv
      <4>2. CASE tape' = tape
        <5>1. \A u \in DOMAIN tape : u \in Nat /\ u <= now'
          BY <3>1, <4>1, MomentNat, Chain
        <5>2. {u \in DOMAIN tape : u <= now} = DOMAIN tape
          BY <4>1
        <5>3. QED
          BY <4>1, <4>2, <5>1, <5>2
      <4>3. ASSUME NEW price \in Prices, tape' = Moved(price)
            PROVE  /\ DOMAIN tape' = DOMAIN tape \cup {now'}
                   /\ \A u \in DOMAIN tape : u # now' => tape'[u] = tape[u]
        BY <4>3
      <4>4. QED
        <5>1. \A u \in DOMAIN tape : u # now' /\ u \in Nat /\ u <= now'
          <6>1. \A u \in DOMAIN tape : u \in Nat /\ u <= now
            BY <4>1, MomentNat
          <6>2. now <= now' /\ ~(now' <= now)
            BY <3>1
          <6>3. QED
            BY <3>1, <6>1, <6>2, Chain
        <5>2. ~(now' <= now) /\ now' <= now'
          BY <3>1
        <5>3. CASE \E price \in Prices : tape' = Moved(price)
          <6>1. DOMAIN tape' = DOMAIN tape \cup {now'}
                /\ \A u \in DOMAIN tape : tape'[u] = tape[u]
            BY <4>3, <5>1, <5>3
          <6>2. QED
            BY <3>1, <4>1, <5>1, <5>2, <6>1
        <5>4. QED
          BY <2>6, <4>2, <5>3
    <3>3. PositionInv'
      <4>1. SUFFICES ASSUME position # None PROVE PositionInv'
        BY <2>6 DEF PositionInv
      <4>2. position.at \in Moments /\ position.at <= now /\ position.horizon \in Nat \ {0}
        BY <2>1, <4>1 DEF PositionInv
      <4>3. position.at <= now'
        BY <3>1, <4>2, MomentNat, Chain
      <4>4. QED
        BY <2>6, <3>2, <4>1, <4>2, <4>3 DEF PositionInv
    <3>4. CloseInv'
      <4>1. SUFFICES ASSUME close # None PROVE CloseInv'
        BY <2>6 DEF CloseInv
      <4>2. /\ position # None /\ close.at \in Moments /\ position.at <= close.at
            /\ close.at <= now /\ (Polled \/ Expired)
        BY <2>1, <4>1 DEF CloseInv
      <4>3. close.at <= now' /\ close.at \in Nat
        <5>1. close.at \in Nat /\ close.at <= now
          BY <4>2, MomentNat
        <5>2. QED
          BY <3>1, <5>1, Chain
      <4>4. Bar(DayOf(close.at), close.at)' = Bar(DayOf(close.at), close.at)
        <5> DEFINE c == close.at
                   V == {v \in DOMAIN tape : DayOf(v) = DayOf(c) /\ v <= c}
                   W == {v \in DOMAIN tape' : DayOf(v) = DayOf(c) /\ v <= c}
        <5>1. ASSUME NEW v \in DOMAIN tape' PROVE v \in Nat /\ (v <= c => v <= now)
          <6>1. v \in Nat /\ c \in Nat /\ c <= now
            BY <3>2, <4>2, <4>3, MomentNat
          <6>2. QED
            BY <3>1, <6>1, Chain
        <5>2. V = W
          BY <3>2, <4>2, <5>1
        <5>3. \A v \in V : tape'[v] = tape[v]
          BY <3>2, <4>2
        <5>4. {tape[u] : u \in V} = {tape'[u] : u \in W}
          BY <5>2, <5>3
        <5>5. close' = close
          BY <2>6
        <5>6. QED
          BY <5>4, <5>5 DEF Bar
      <4>5. Polled => Polled'
        BY <2>6, <4>4 DEF Polled, Verdict, HeldSince
      <4>6. Expired => Expired'
        BY <2>6 DEF Expired, HeldSince
      <4>7. QED
        BY <2>6, <4>2, <4>3, <4>5, <4>6 DEF CloseInv
    <3>5. QED
      BY <3>1, <3>3, <3>4 DEF ReplayInv, ClockInv
  <2>7. CASE TimePasses
    BY <2>6, <2>7 DEF TimePasses, replayVars
  <2>8. ASSUME NEW price \in Prices, PriceMoves(price) PROVE ReplayInv'
    BY <2>6, <2>8 DEF PriceMoves
  <2>9. ASSUME \/ QuoteTaken \/ MarksWritten
               \/ \E side \in Sides : Fires(side)
               \/ Relogs \/ DriftSkips \/ Expires \/ Opens \/ OpeningDecided
               \/ CloseLogged \/ CloseDone
               \/ UNCHANGED vars
        PROVE  ReplayInv'
    BY <2>2, <2>9 DEF QuoteTaken, MarksWritten, Fires, Relogs, DriftSkips, Expires, Opens,
       OpeningDecided, CloseLogged, CloseDone, replayVars, vars
  <2>10. QED
    BY <2>3, <2>4, <2>5, <2>7, <2>8, <2>9 DEF Next
<1>3. QED
  BY <1>1, <1>2, ReplayEnds, PTL DEF Spec

-----------------------------------------------------------------------------
(* Votes.                                                                   *)

\* The rows of trades.
Booked == log \cup snapshot

\* The rows of an episode agree on its side, and the current one's on the
\* engine's.
SignalsInv ==
  /\ \A r \in signals : r.episode \in Nat /\ r.episode <= episode.id /\ r.at \in Nat
  /\ \A r \in signals : r = [episode |-> r.episode, at |-> r.at, side |-> r.side]
  /\ \A r, q \in signals : r.episode = q.episode => r.side = q.side
  /\ \A r \in signals : r.episode = episode.id => r.side = episode.side
\* An episode has one trade, opened by it, and none while it waits.
BookedInv ==
  /\ \A r \in Booked : r.episode \in Nat /\ r.episode <= episode.id /\ r.at \in Nat
  /\ \A r, q \in Booked : r.episode = q.episode => r = q
  /\ episode.stage = "waiting" => \A r \in Booked : r.episode # episode.id
EpisodeType ==
  [id : Nat, side : Sides, stage : {"idle", "waiting", "opening", "open", "closing"}]
\* Inductive: an opened episode is over before the next one is fired.
VotesInv == now \in Nat /\ episode \in EpisodeType /\ SignalsInv /\ BookedInv

\* The two kinds of would-be trade.
Opening(v) == \E r \in Booked : v \in {Vote(r, "opened", TRUE), Vote(r, "opened", FALSE)}
Passing(v) == \E r \in Collapsed : Outcome(r.episode) \in {"drift_skip", "expired"}
                                   /\ v = Vote(r, Outcome(r.episode), FALSE)

\* There is no other kind.
LEMMA WouldBeKinds ==
  ASSUME NEW v \in WouldBeTrades
  PROVE  Opening(v) \/ Passing(v)
  BY DEF WouldBeTrades, Opening, Passing, Booked

\* A would-be trade, field by field: it is an opened one just when a trade's row
\* made it.
LEMMA VoteShapes ==
  ASSUME VotesInv, NEW v \in WouldBeTrades
  PROVE  /\ v.episode \in Nat /\ v.at \in Nat /\ v.resolved \in BOOLEAN
         /\ v.kind \in {"opened", "drift_skip", "expired"}
         /\ v = [episode |-> v.episode, at |-> v.at, side |-> v.side, kind |-> v.kind,
                 resolved |-> v.resolved]
         /\ v.kind = "opened" <=> Opening(v)
<1>1. ASSUME Opening(v)
      PROVE  /\ v.episode \in Nat /\ v.at \in Nat /\ v.resolved \in BOOLEAN /\ v.kind = "opened"
             /\ v = [episode |-> v.episode, at |-> v.at, side |-> v.side, kind |-> v.kind,
                     resolved |-> v.resolved]
  <2>1. PICK r \in Booked : v \in {Vote(r, "opened", TRUE), Vote(r, "opened", FALSE)}
    BY <1>1 DEF Opening
  <2>2. r.episode \in Nat /\ r.at \in Nat
    BY DEF VotesInv, BookedInv
  <2>3. ASSUME NEW f \in BOOLEAN, v = Vote(r, "opened", f)
        PROVE  /\ v.episode = r.episode /\ v.at = r.at /\ v.side = r.side
               /\ v.resolved = f /\ v.kind = "opened"
               /\ v = [episode |-> r.episode, at |-> r.at, side |-> r.side,
                       kind |-> "opened", resolved |-> f]
    BY <2>3 DEF Vote
  <2>4. CASE v = Vote(r, "opened", TRUE)
    BY <2>2, <2>3, <2>4
  <2>5. CASE v = Vote(r, "opened", FALSE)
    BY <2>2, <2>3, <2>5
  <2>6. QED
    BY <2>1, <2>4, <2>5
<1>2. ASSUME Passing(v)
      PROVE  /\ v.episode \in Nat /\ v.at \in Nat /\ v.resolved \in BOOLEAN
             /\ v.kind \in {"drift_skip", "expired"}
             /\ v = [episode |-> v.episode, at |-> v.at, side |-> v.side, kind |-> v.kind,
                     resolved |-> v.resolved]
  <2>1. PICK r \in Collapsed : Outcome(r.episode) \in {"drift_skip", "expired"}
                               /\ v = Vote(r, Outcome(r.episode), FALSE)
    BY <1>2 DEF Passing
  <2>2. r.episode \in Nat /\ r.at \in Nat
    BY DEF VotesInv, SignalsInv, Collapsed
  <2> DEFINE k == Outcome(r.episode)
  <2>3. k \in {"drift_skip", "expired"} /\ v = Vote(r, k, FALSE)
    BY <2>1
  <2> HIDE DEF k
  <2>4. QED
    BY <2>2, <2>3 DEF Vote
<1>3. CASE Opening(v)
  BY <1>1, <1>3
<1>4. CASE Passing(v)
  <2>1. v.kind # "opened"
    BY <1>2, <1>4
  <2>2. QED
    BY <1>1, <1>2, <1>4, <2>1
<1>5. QED
  BY <1>3, <1>4, WouldBeKinds

\* Would-be trades of one episode and kind differ at most in being resolved, as
\* of its rows the earliest alone stands; and it has two kinds only where the
\* opening is not recorded.
LEMMA SameEpisode ==
  ASSUME VotesInv, NEW v \in WouldBeTrades, NEW w \in WouldBeTrades, v.episode = w.episode
  PROVE  \/ /\ v.kind = w.kind /\ v.at = w.at /\ v.side = w.side
            /\ v.kind # "opened" => v = w
         \/ v.kind # w.kind /\ Unrecorded(v.episode)
<1>1. CASE Opening(v) /\ Opening(w)
  <2>1. PICK r \in Booked : v \in {Vote(r, "opened", TRUE), Vote(r, "opened", FALSE)}
    BY <1>1 DEF Opening
  <2>2. PICK q \in Booked : w \in {Vote(q, "opened", TRUE), Vote(q, "opened", FALSE)}
    BY <1>1 DEF Opening
  <2>3. r.episode = q.episode
    BY <2>1, <2>2 DEF Vote
  <2>4. r = q
    BY <2>3 DEF VotesInv, BookedInv
  <2>5. QED
    BY <2>1, <2>2, <2>4 DEF Vote
<1>2. CASE Passing(v) /\ Passing(w)
  <2>1. PICK r \in Collapsed : v = Vote(r, Outcome(r.episode), FALSE)
    BY <1>2 DEF Passing
  <2>2. PICK q \in Collapsed : w = Vote(q, Outcome(q.episode), FALSE)
    BY <1>2 DEF Passing
  <2>3. r.episode = q.episode /\ r \in signals /\ q \in signals
    BY <2>1, <2>2 DEF Vote, Collapsed
  <2>4. r.at <= q.at /\ q.at <= r.at
    BY <2>3 DEF Collapsed
  <2>5. r.side = q.side /\ r.at \in Nat /\ q.at \in Nat
        /\ r = [episode |-> r.episode, at |-> r.at, side |-> r.side]
        /\ q = [episode |-> q.episode, at |-> q.at, side |-> q.side]
    BY <2>3 DEF VotesInv, SignalsInv
  <2>6. r.at = q.at
    BY <2>4, <2>5
  <2>7. r = q
    BY <2>3, <2>5, <2>6
  <2>8. QED
    BY <2>1, <2>2, <2>7
<1>3. ASSUME NEW x \in WouldBeTrades, NEW y \in WouldBeTrades, x.episode = y.episode,
             Opening(x), Passing(y)
      PROVE  x.kind # y.kind /\ Unrecorded(x.episode)
  <2>1. PICK r \in Booked : x \in {Vote(r, "opened", TRUE), Vote(r, "opened", FALSE)}
    BY <1>3 DEF Opening
  <2>2. PICK q \in Collapsed : Outcome(q.episode) \in {"drift_skip", "expired"}
                               /\ y = Vote(q, Outcome(q.episode), FALSE)
    BY <1>3 DEF Passing
  <2>3. q.episode = r.episode
    BY <1>3, <2>1, <2>2 DEF Vote
  <2>4. [episode |-> q.episode, event |-> "trade_opened"] \notin decisions
    BY <2>2 DEF Outcome
  <2>5. r.episode = x.episode
    BY <2>1 DEF Vote
  <2>6. Unrecorded(x.episode)
    BY <2>3, <2>4, <2>5 DEF Unrecorded, Booked
  <2>7. x.kind = "opened" /\ y.kind \in {"drift_skip", "expired"}
    BY <2>1, <2>2 DEF Vote
  <2>8. QED
    BY <2>6, <2>7
<1>4. QED
  BY <1>1, <1>2, <1>3, WouldBeKinds

\* So one of the two outranks the other, and only it votes.
LEMMA VotedOnce ==
  ASSUME VotesInv, NEW v \in Votes, NEW w \in Votes, v.episode = w.episode
  PROVE  v = w \/ (Unrecorded(v.episode) /\ v.kind # w.kind)
<1> SUFFICES ASSUME v # w, ~(Unrecorded(v.episode) /\ v.kind # w.kind) PROVE FALSE
  OBVIOUS
<1>1. v \in WouldBeTrades /\ w \in WouldBeTrades
  BY DEF Votes
<1>2. /\ v.kind = w.kind /\ v.at = w.at /\ v.side = w.side /\ v.kind = "opened"
  BY <1>1, SameEpisode
<1>3. SameKey(v, w) /\ SameKey(w, v)
  BY <1>2 DEF SameKey
<1>4. Outranks(v, w) /\ Outranks(w, v)
  BY <1>1, <1>3 DEF Votes
<1>5. v.at \in Nat /\ v.episode \in Nat
  BY <1>1, VoteShapes
<1>6. ~ Earlier(v, w) /\ ~ Earlier(w, v) /\ KindRank(v) = 0 /\ KindRank(w) = 0
  BY <1>2, <1>5 DEF Earlier, KindRank
<1>7. QED
  BY <1>4, <1>6 DEF Outranks

\* Among would-be trades of different episodes one is the earliest.
LEMMA EarliestExists ==
  ASSUME VotesInv, NEW B \in SUBSET WouldBeTrades, B # {},
         \A v, w \in B : v.episode = w.episode => v = w
  PROVE  \E v \in B : \A w \in B \ {v} : Earlier(v, w)
<1> DEFINE ats == {v.at : v \in B}
<1>1. ats \in SUBSET Nat /\ ats # {}
  BY VoteShapes
<1>2. PICK a \in ats : \A b \in ats : a <= b
  <2> HIDE DEF ats
  <2> QED BY <1>1, LeastExists
<1> DEFINE ids == {v.episode : v \in {u \in B : u.at = a}}
<1>3. ids \in SUBSET Nat /\ ids # {}
  BY VoteShapes
<1>4. PICK e \in ids : \A f \in ids : e <= f
  <2> HIDE DEF ids
  <2> QED BY <1>3, LeastExists
<1>5. PICK v \in B : v.at = a /\ v.episode = e
  OBVIOUS
<1>6. ASSUME NEW w \in B \ {v} PROVE Earlier(v, w)
  <2>1. w.at \in ats /\ (w.at = a => w.episode \in ids)
    OBVIOUS
  <2>2. a <= w.at /\ (w.at = a => e <= w.episode) /\ w.episode # e
    BY <1>2, <1>4, <1>5, <2>1
  <2>3. a \in Nat /\ e \in Nat /\ w.at \in Nat /\ w.episode \in Nat
    BY <1>1, <1>3, VoteShapes
  <2> HIDE DEF ats, ids
  <2>4. QED
    BY <1>5, <2>2, <2>3 DEF Earlier
<1>7. QED
  BY <1>6

\* The vote of a trade's side and date is an opened one: a resolved one outranks
\* it, and an opened one whatever was not.
LEMMA TradeVoted ==
  ASSUME VotesInv, NEW r \in log \cup snapshot
  PROVE  \E v \in Votes : SameKey(v, r) /\ v.kind = "opened" /\ (r \in log => v.resolved)
<1> DEFINE A == {v \in WouldBeTrades : SameKey(v, r) /\ v.kind = "opened"}
           Sure == {v \in A : v.resolved}
           B == IF Sure # {} THEN Sure ELSE A
<1>1. ASSUME NEW f \in BOOLEAN, Vote(r, "opened", f) \in WouldBeTrades
      PROVE  Vote(r, "opened", f) \in A
  BY <1>1 DEF Vote, SameKey, ActionableDate
<1>2. r \in log => Vote(r, "opened", TRUE) \in Sure
  <2>1. r \in log => Vote(r, "opened", TRUE) \in WouldBeTrades
    BY DEF WouldBeTrades
  <2>2. Vote(r, "opened", TRUE).resolved = TRUE
    BY DEF Vote
  <2>3. QED
    BY <1>1, <2>1, <2>2
<1>3. A # {}
  <2>1. r \in snapshot => Vote(r, "opened", FALSE) \in WouldBeTrades
    BY DEF WouldBeTrades
  <2>2. QED
    BY <1>1, <1>2, <2>1
<1>4. B \in SUBSET WouldBeTrades /\ B # {} /\ B \subseteq A
  BY <1>3
<1>5. ASSUME NEW v \in B, NEW w \in B PROVE v.resolved = w.resolved
  <2>1. v \in WouldBeTrades /\ w \in WouldBeTrades
    BY <1>4
  <2>2. v.resolved \in BOOLEAN /\ w.resolved \in BOOLEAN
    BY <2>1, VoteShapes
  <2>3. QED
    BY <2>2
<1>6. ASSUME NEW v \in B, NEW w \in B, v.episode = w.episode PROVE v = w
  <2>1. v \in WouldBeTrades /\ w \in WouldBeTrades /\ v.resolved = w.resolved
    BY <1>4, <1>5
  <2>2. v.kind = w.kind /\ v.at = w.at /\ v.side = w.side
    <3>1. v.kind = "opened" /\ w.kind = "opened"
      BY <1>4
    <3>2. QED
      BY <1>6, <2>1, <3>1, SameEpisode
  <2>3. v = [episode |-> v.episode, at |-> v.at, side |-> v.side, kind |-> v.kind,
             resolved |-> v.resolved]
    BY <2>1, VoteShapes
  <2>4. w = [episode |-> w.episode, at |-> w.at, side |-> w.side, kind |-> w.kind,
             resolved |-> w.resolved]
    BY <2>1, VoteShapes
  <2>5. QED
    BY <1>6, <2>1, <2>2, <2>3, <2>4
<1>7. PICK v \in B : \A w \in B \ {v} : Earlier(v, w)
  <2> HIDE DEF B
  <2> QED BY <1>4, <1>6, EarliestExists
<1>8. v \in A /\ v \in WouldBeTrades
  BY <1>4
<1>9. ASSUME NEW w \in WouldBeTrades \ {v}, SameKey(v, w) PROVE Outranks(v, w)
  <2>1. KindRank(v) = 0 /\ v.resolved \in BOOLEAN /\ w.resolved \in BOOLEAN
    BY <1>8, VoteShapes DEF KindRank
  <2>2. CASE w.kind # "opened"
    <3>1. KindRank(w) \in {1, 2}
      BY <2>2 DEF KindRank
    <3>2. QED
      BY <2>1, <3>1 DEF Outranks
  <2>3. CASE w.kind = "opened"
    <3>1. SameKey(w, r)
      BY <1>8, <1>9 DEF SameKey
    <3>2. w \in A
      BY <2>3, <3>1
    <3>3. KindRank(w) = 0
      BY <2>3 DEF KindRank
    <3>4. CASE w \in B
      <4>1. Earlier(v, w) /\ v.resolved = w.resolved
        BY <1>5, <1>7, <3>4
      <4>2. QED
        BY <2>1, <3>3, <4>1 DEF Outranks
    <3>5. CASE w \notin B
      <4>1. v.resolved /\ ~w.resolved
        BY <3>2, <3>5
      <4>2. QED
        BY <2>1, <3>3, <4>1 DEF Outranks
    <3>6. QED
      BY <3>4, <3>5
  <2>4. QED
    BY <2>2, <2>3
<1>10. v \in Votes
  BY <1>8, <1>9 DEF Votes
<1>11. r \in log => v.resolved
  BY <1>2
<1>12. QED
  BY <1>8, <1>10, <1>11

\* backtest.py's votes: at any moment the reports may run, between the two
\* writes of an opening or a close as well, an episode has one vote at most, or
\* one more where its opening is not recorded, and every trade that was opened
\* is voted for, for every number of episodes and repeated rows.
THEOREM EpisodeVotedOnce == Spec => []EpisodeVotesOnce
<1>1. Init => VotesInv
  BY DEF Init, VotesInv, SignalsInv, BookedInv, Booked, EpisodeType, Sides
<1>2. VotesInv /\ [Next]_vars => VotesInv'
  <2> SUFFICES ASSUME VotesInv, [Next]_vars PROVE VotesInv'
    OBVIOUS
  <2>1. now \in Nat /\ episode \in EpisodeType /\ episode.id \in Nat /\ SignalsInv /\ BookedInv
    BY DEF VotesInv, EpisodeType
  <2>2. ASSUME now' \in Nat, UNCHANGED voteVars PROVE VotesInv'
    BY <2>1, <2>2 DEF VotesInv, SignalsInv, BookedInv, Booked, voteVars
  <2>3. ASSUME NEW side \in Sides, Fires(side) PROVE VotesInv'
    <3> DEFINE new == [episode |-> episode.id + 1, at |-> now, side |-> side]
    <3>1. /\ now' = now /\ UNCHANGED <<decisions, log, snapshot>>
          /\ episode' = [id |-> episode.id + 1, side |-> side, stage |-> "waiting"]
      BY <2>3 DEF Fires
    <3>2. episode'.id = episode.id + 1 /\ episode'.side = side /\ episode'.stage = "waiting"
      BY <3>1
    <3>3. signals' = signals \cup {new}
      BY <2>3, <3>2 DEF Fires, Row
    <3>4. \A r \in signals : r.episode \in Nat /\ r.episode <= episode'.id /\ r.episode # episode'.id
      BY <2>1, <3>2 DEF SignalsInv
    <3>5. new.episode = episode'.id /\ new.at = now /\ new.side = side
      BY <3>2
    <3>6. episode'.id \in Nat /\ episode'.id <= episode'.id /\ episode' \in EpisodeType
      BY <2>1, <3>1, <3>2 DEF EpisodeType
    <3>7. SignalsInv'
      <4>1. ASSUME NEW r \in signals'
            PROVE  /\ r.episode \in Nat /\ r.episode <= episode'.id /\ r.at \in Nat
                   /\ r = [episode |-> r.episode, at |-> r.at, side |-> r.side]
                   /\ r.episode = episode'.id => r.side = side /\ r = new
        <5>1. CASE r = new
          BY <2>1, <3>5, <3>6, <5>1
        <5>2. CASE r \in signals
          BY <2>1, <3>4, <5>2 DEF SignalsInv
        <5>3. QED
          BY <3>3, <5>1, <5>2
      <4>2. ASSUME NEW r \in signals', NEW q \in signals', r.episode = q.episode
            PROVE  r.side = q.side
        <5>1. CASE r.episode = episode'.id
          BY <4>1, <4>2, <5>1
        <5>2. CASE r.episode # episode'.id
          <6>1. r \in signals /\ q \in signals
            BY <3>3, <3>5, <4>2, <5>2
          <6>2. QED
            BY <2>1, <4>2, <6>1 DEF SignalsInv
        <5>3. QED
          BY <5>1, <5>2
      <4>3. QED
        BY <3>2, <4>1, <4>2 DEF SignalsInv
    <3>8. \A r \in Booked : r.episode \in Nat /\ r.episode <= episode'.id /\ r.episode # episode'.id
      BY <2>1, <3>2 DEF BookedInv
    <3>9. Booked' = Booked
      BY <3>1 DEF Booked
    <3>10. BookedInv'
      BY <2>1, <3>8, <3>9 DEF BookedInv
    <3>11. QED
      BY <2>1, <3>1, <3>6, <3>7, <3>10 DEF VotesInv
  <2>4. CASE Relogs
    <3> DEFINE new == [episode |-> episode.id, at |-> now, side |-> episode.side]
    <3>1. now' = now /\ UNCHANGED <<episode, decisions, log, snapshot>>
          /\ signals' = signals \cup {new}
      BY <2>4 DEF Relogs, Row
    <3>2. new.episode = episode.id /\ new.at = now /\ new.side = episode.side
          /\ episode.id <= episode.id
      BY <2>1
    <3>3. ASSUME NEW r \in signals'
          PROVE  /\ r.episode \in Nat /\ r.episode <= episode.id /\ r.at \in Nat
                 /\ r = [episode |-> r.episode, at |-> r.at, side |-> r.side]
                 /\ r.episode = episode.id => r.side = episode.side
      <4>1. CASE r = new
        BY <2>1, <3>2, <4>1
      <4>2. CASE r \in signals
        BY <2>1, <4>2 DEF SignalsInv
      <4>3. QED
        BY <3>1, <4>1, <4>2
    <3>4. ASSUME NEW r \in signals', NEW q \in signals', r.episode = q.episode
          PROVE  r.side = q.side
      <4>1. CASE r.episode = episode.id
        BY <3>3, <3>4, <4>1
      <4>2. CASE r.episode # episode.id
        <5>1. r \in signals /\ q \in signals
          BY <3>1, <3>2, <3>4, <4>2
        <5>2. QED
          BY <2>1, <3>4, <5>1 DEF SignalsInv
      <4>3. QED
        BY <4>1, <4>2
    <3>5. SignalsInv'
      BY <3>1, <3>3, <3>4 DEF SignalsInv
    <3>6. BookedInv'
      BY <2>1, <3>1 DEF BookedInv, Booked
    <3>7. QED
      BY <2>1, <3>1, <3>5, <3>6 DEF VotesInv
  <2>5. ASSUME now' = now, UNCHANGED <<signals, log, snapshot>>, episode' \in EpisodeType,
               episode'.id = episode.id, episode'.side = episode.side,
               episode'.stage = "waiting" => episode.stage = "waiting"
        PROVE  VotesInv'
    <3>1. Booked' = Booked
      BY <2>5 DEF Booked
    <3>2. SignalsInv'
      BY <2>1, <2>5 DEF SignalsInv
    <3>3. BookedInv'
      BY <2>1, <2>5, <3>1 DEF BookedInv
    <3>4. QED
      BY <2>1, <2>5, <3>2, <3>3 DEF VotesInv
  <2>6. CASE DriftSkips
    BY <2>1, <2>5, <2>6 DEF DriftSkips
  <2>7. ASSUME NEW s \in {"idle", "opening", "open", "closing"}, NEW e, e = [episode EXCEPT !.stage = s]
        PROVE  /\ e \in EpisodeType /\ e.id = episode.id /\ e.side = episode.side
               /\ e.stage = s /\ e.stage # "waiting"
    BY <2>1, <2>7 DEF EpisodeType
  <2>8. CASE Expires
    <3>1. episode' = [episode EXCEPT !.stage = "idle"] /\ episode.stage = "waiting"
      BY <2>8 DEF Expires
    <3>2. /\ episode' \in EpisodeType /\ episode'.id = episode.id
          /\ episode'.side = episode.side /\ episode'.stage # "waiting"
      BY <2>7, <3>1
    <3>3. QED
      BY <2>5, <2>8, <3>1, <3>2 DEF Expires
  <2>9. CASE Opens
    <3> DEFINE new == [episode |-> episode.id, at |-> now, side |-> episode.side]
    <3>1. /\ now' = now /\ UNCHANGED <<signals, log>> /\ snapshot' = {new}
          /\ episode' = [episode EXCEPT !.stage = "opening"] /\ episode.stage = "waiting"
      BY <2>9 DEF Opens, Row
    <3>2. /\ episode' \in EpisodeType /\ episode'.id = episode.id
          /\ episode'.side = episode.side /\ episode'.stage # "waiting"
      BY <2>7, <3>1
    <3>3. new.episode = episode.id /\ new.at = now /\ episode.id <= episode.id
      BY <2>1
    <3>4. Booked' \subseteq Booked \cup {new}
      BY <3>1 DEF Booked
    <3>5. \A r \in Booked : r.episode # episode.id
      BY <2>1, <3>1 DEF BookedInv
    <3>7. ASSUME NEW r \in Booked'
          PROVE  /\ r.episode \in Nat /\ r.episode <= episode.id /\ r.at \in Nat
                 /\ r.episode = episode.id => r = new
      <4>1. CASE r = new
        <5>1. episode.id \in Nat /\ now \in Nat
          BY <2>1
        <5>2. /\ r.episode = episode.id /\ r.at = now
          BY <4>1
        <5>3. QED
          BY <4>1, <5>1, <5>2
      <4>2. CASE r \in Booked
        BY <2>1, <3>5, <4>2 DEF BookedInv
      <4>3. QED
        BY <3>4, <4>1, <4>2
    <3>8. ASSUME NEW r \in Booked', NEW q \in Booked', r.episode = q.episode PROVE r = q
      <4>1. CASE r.episode = episode.id
        BY <3>7, <3>8, <4>1
      <4>2. CASE r.episode # episode.id
        <5>1. r \in Booked /\ q \in Booked
          BY <3>3, <3>4, <3>8, <4>2
        <5>2. QED
          BY <2>1, <3>8, <5>1 DEF BookedInv
      <4>3. QED
        BY <4>1, <4>2
    <3>9. BookedInv'
      BY <3>2, <3>7, <3>8 DEF BookedInv
    <3>10. SignalsInv'
      BY <2>1, <3>1, <3>2 DEF SignalsInv
    <3>11. QED
      BY <2>1, <3>1, <3>2, <3>9, <3>10 DEF VotesInv
  <2>10. ASSUME now' = now, UNCHANGED signals, Booked' \subseteq Booked,
                episode' \in EpisodeType, episode'.id = episode.id,
                episode'.side = episode.side, episode'.stage # "waiting"
         PROVE  VotesInv'
    <3>1. BookedInv'
      BY <2>1, <2>10 DEF BookedInv
    <3>2. SignalsInv'
      BY <2>1, <2>10 DEF SignalsInv
    <3>3. QED
      BY <2>1, <2>10, <3>1, <3>2 DEF VotesInv
  <2>11. CASE OpeningDecided \/ CloseLogged \/ CloseDone
    <3>1. PICK s \in {"open", "closing", "idle"} : episode' = [episode EXCEPT !.stage = s]
      BY <2>11 DEF OpeningDecided, CloseLogged, CloseDone
    <3>2. /\ episode' \in EpisodeType /\ episode'.id = episode.id
          /\ episode'.side = episode.side /\ episode'.stage # "waiting"
      BY <2>7, <3>1
    <3>3. Booked' \subseteq Booked
      BY <2>11 DEF OpeningDecided, CloseLogged, CloseDone, Booked
    <3>4. now' = now /\ UNCHANGED signals
      BY <2>11 DEF OpeningDecided, CloseLogged, CloseDone
    <3>5. QED
      BY <2>10, <3>2, <3>3, <3>4
  <2>12. ASSUME \/ QuoteTaken \/ MarksWritten
                \/ \E side \in Sides, horizon \in Horizons : PositionOpens(side, horizon)
                \/ JournalUpdates \/ JournalExpires
                \/ UNCHANGED vars
         PROVE  VotesInv'
    <3>1. now' = now /\ UNCHANGED voteVars
      BY <2>12 DEF QuoteTaken, MarksWritten, PositionOpens, JournalUpdates, JournalExpires, vars
    <3>2. QED
      BY <2>1, <2>2, <3>1
  <2>13. ASSUME TimePasses \/ \E price \in Prices : PriceMoves(price) PROVE VotesInv'
    <3>1. now' = now + 1 /\ UNCHANGED voteVars
      BY <2>13 DEF TimePasses, PriceMoves, Continues
    <3>2. QED
      BY <2>1, <2>2, <3>1
  <2>14. QED
    BY <2>3, <2>4, <2>6, <2>8, <2>9, <2>11, <2>12, <2>13 DEF Next
<1>3. VotesInv => EpisodeVotesOnce
  BY VotedOnce, TradeVoted DEF EpisodeVotesOnce
<1>4. QED
  BY <1>1, <1>2, <1>3, PTL DEF Spec

-----------------------------------------------------------------------------
(* Windows.                                                                 *)

\* Induction over the naturals, from least members: as the conclusion is
\* inclusion in a set, no operator is a parameter.
LEMMA Induction ==
  ASSUME NEW T, 0 \in T, \A n \in Nat : n \in T => n + 1 \in T
  PROVE  Nat \subseteq T
<1> DEFINE S == Nat \ T
<1>1. SUFFICES ASSUME S # {} PROVE FALSE
  OBVIOUS
<1>2. PICK m \in S : \A j \in S : m <= j
  <2>1. S \in SUBSET Nat
    OBVIOUS
  <2> HIDE DEF S
  <2>2. QED
    BY <1>1, <2>1, LeastExists
<1>3. m \in Nat /\ m # 0 /\ m - 1 \in Nat
  BY <1>2
<1>4. m - 1 \in T
  <2>1. ~(m <= m - 1)
    BY <1>3
  <2>2. m - 1 \notin S
    BY <1>2, <2>1
  <2>3. QED
    BY <1>3, <2>2
<1>5. (m - 1) + 1 \in T
  BY <1>3, <1>4
<1>6. (m - 1) + 1 = m
  BY <1>3
<1>7. QED
  BY <1>2, <1>5, <1>6

\* One unfolding of the greedy count, up to n.
UpTo(f, n, dates, h) ==
  [d \in -1 .. n - 1 |->
     IF d \in dates /\ \A e \in f[d - 1] : d - e >= h THEN f[d - 1] \cup {d}
     ELSE IF d = -1 THEN {} ELSE f[d - 1]]

\* The recursion of the count has a solution,
LEMMA GreedyExists ==
  ASSUME NEW dates \in SUBSET Nat, NEW h \in Nat, NEW N \in Nat
  PROVE  \E f : f = UpTo(f, N, dates, h)
<1> DEFINE T == {n \in Nat : \E f : f = UpTo(f, n, dates, h)}
<1>1. 0 \in T
  <2> DEFINE f == [d \in -1 .. 0 - 1 |-> {}]
  <2>1. \A d \in -1 .. 0 - 1 : d = -1 /\ d \notin dates
    OBVIOUS
  <2>2. f = UpTo(f, 0, dates, h)
    BY <2>1 DEF UpTo
  <2>3. QED
    BY <2>2
<1>2. ASSUME NEW n \in Nat, n \in T PROVE n + 1 \in T
  <2>1. PICK f : f = UpTo(f, n, dates, h)
    BY <1>2
  <2> DEFINE last == IF n \in dates /\ \A e \in f[n - 1] : n - e >= h THEN f[n - 1] \cup {n}
                     ELSE f[n - 1]
             g == [d \in -1 .. (n + 1) - 1 |-> IF d = n THEN last ELSE f[d]]
             r == UpTo(g, n + 1, dates, h)
  <2>2. \A d \in -1 .. n - 1 : g[d] = f[d]
    <3>1. \A d \in -1 .. n - 1 : d \in -1 .. (n + 1) - 1 /\ d # n
      OBVIOUS
    <3> HIDE DEF last
    <3>2. QED
      BY <3>1
  <2>3. g[n] = last /\ g[n - 1] = f[n - 1]
    <3>1. n \in -1 .. (n + 1) - 1 /\ n - 1 \in -1 .. n - 1
      OBVIOUS
    <3>2. g[n] = last
      BY <3>1
    <3> HIDE DEF g
    <3>3. QED
      BY <2>2, <3>1, <3>2
  <2>4. DOMAIN g = -1 .. (n + 1) - 1 /\ g = [d \in DOMAIN g |-> g[d]]
    OBVIOUS
  <2>5. DOMAIN r = -1 .. (n + 1) - 1 /\ r = [d \in DOMAIN r |-> r[d]]
    BY DEF UpTo
  <2>6. ASSUME NEW d \in -1 .. (n + 1) - 1
        PROVE  r[d] = IF d \in dates /\ \A e \in g[d - 1] : d - e >= h THEN g[d - 1] \cup {d}
                      ELSE IF d = -1 THEN {} ELSE g[d - 1]
    <3> HIDE DEF g
    <3>1. QED
      BY DEF UpTo
  <2>7. ASSUME NEW d \in -1 .. n - 1
        PROVE  f[d] = IF d \in dates /\ \A e \in f[d - 1] : d - e >= h THEN f[d - 1] \cup {d}
                      ELSE IF d = -1 THEN {} ELSE f[d - 1]
    BY <2>1 DEF UpTo
  <2> HIDE DEF g, r
  <2>8. ASSUME NEW d \in -1 .. (n + 1) - 1 PROVE g[d] = r[d]
    <3>1. CASE d = n
      <4>1. n \in -1 .. (n + 1) - 1 /\ n # -1
        OBVIOUS
      <4>2. r[n] = last
        BY <2>3, <2>6, <4>1
      <4>3. QED
        BY <2>3, <3>1, <4>2
    <3>2. CASE d = -1
      <4>1. d \notin dates /\ d \in -1 .. n - 1
        BY <3>2
      <4>2. r[d] = {} /\ f[d] = {}
        BY <2>6, <2>7, <3>2, <4>1
      <4>3. QED
        BY <2>2, <4>1, <4>2
    <3>3. CASE d \in 0 .. n - 1
      <4>1. d \in -1 .. n - 1 /\ d - 1 \in -1 .. n - 1 /\ d # -1
        BY <3>3
      <4>2. g[d] = f[d] /\ g[d - 1] = f[d - 1]
        BY <2>2, <4>1
      <4>3. QED
        BY <2>6, <2>7, <4>1, <4>2
    <3>4. d = n \/ d = -1 \/ d \in 0 .. n - 1
      OBVIOUS
    <3>5. QED
      BY <3>1, <3>2, <3>3, <3>4
  <2>9. g = r
    BY <2>4, <2>5, <2>8
  <2>10. QED
    BY <2>9 DEF r
<1> HIDE DEF T
<1>3. N \in T
  BY <1>1, <1>2, Induction
<1>4. QED
  BY <1>3 DEF T

\* so the function the model names is one.
LEMMA CountedIs ==
  ASSUME NEW dates \in SUBSET Nat, NEW h \in Nat
  PROVE  \E c : c = UpTo(c, Days, dates, h) /\ Counted(dates, h) = c[Days - 1]
<1> DEFINE c == CHOOSE f : f = UpTo(f, Days, dates, h)
<1>1. c = UpTo(c, Days, dates, h)
  BY GreedyExists, Limits
<1>2. Counted(dates, h) = c[Days - 1]
  BY DEF Counted, UpTo
<1>3. QED
  BY <1>1, <1>2

\* What is counted up to m: dates so far, all that was counted before each of
\* them, spaced, and as many as any spaced choice among them.
GreedyAt(c, m, dates, h) ==
  /\ c[m] \in SUBSET (dates \cap (0 .. m))
  /\ \A e \in c[m] : c[e - 1] \subseteq c[m]
  /\ Spaced(c[m], h)
  /\ \A other \in SUBSET (dates \cap (0 .. m)) :
       Spaced(other, h) => Cardinality(other) <= Cardinality(c[m])

\* The greedy choice stays ahead. A date is passed over for a counted one less
\* than a horizon before it; whatever else is chosen with it lies before that
\* one, and is no more than had been counted then.
LEMMA GreedyStep ==
  ASSUME NEW dates \in SUBSET Nat, NEW h \in Nat \ {0}, NEW d \in Nat, NEW c,
         \A m \in -1 .. d - 1 : GreedyAt(c, m, dates, h),
         c[d] = IF d \in dates /\ \A e \in c[d - 1] : d - e >= h THEN c[d - 1] \cup {d}
                ELSE c[d - 1]
  PROVE  GreedyAt(c, d, dates, h)
<1> DEFINE before == c[d - 1]
           taken == d \in dates /\ \A e \in before : d - e >= h
<1>1. d - 1 \in -1 .. d - 1
  OBVIOUS
<1>2. GreedyAt(c, d - 1, dates, h)
  BY <1>1
<1>3. /\ before \in SUBSET dates /\ before \in SUBSET (0 .. d - 1)
      /\ \A e \in before : c[e - 1] \subseteq before
      /\ \A e, x \in before : e < x => x - e >= h
  BY <1>2 DEF GreedyAt, Spaced
<1>4. ASSUME NEW other \in SUBSET dates, other \in SUBSET (0 .. d - 1), Spaced(other, h)
      PROVE  Cardinality(other) <= Cardinality(before)
  BY <1>2, <1>4 DEF GreedyAt
<1>5. c[d] = IF taken THEN before \cup {d} ELSE before
  OBVIOUS
<1>6. IsFiniteSet(before) /\ Cardinality(before) \in Nat /\ IsFiniteSet(before \cup {d})
      /\ d \notin before /\ Cardinality(before \cup {d}) = Cardinality(before) + 1
  <2>1. IsFiniteSet(0 .. d - 1)
    BY FS_Interval
  <2>2. IsFiniteSet(before)
    BY <1>3, <2>1, FS_Subset
  <2>3. d \notin 0 .. d - 1
    OBVIOUS
  <2>4. d \notin before
    BY <1>3, <2>3
  <2> HIDE DEF before
  <2>5. Cardinality(before) \in Nat
    BY <2>2, FS_CardinalityType
  <2>6. IsFiniteSet(before \cup {d}) /\ Cardinality(before \cup {d}) = Cardinality(before) + 1
    BY <2>2, <2>4, FS_AddElement
  <2>7. QED
    BY <2>2, <2>4, <2>5, <2>6
<1> HIDE DEF before, taken
<1>7. c[d] \in SUBSET dates /\ c[d] \in SUBSET (0 .. d)
  <2>1. taken => d \in dates
    BY DEF taken
  <2>2. before \in SUBSET (0 .. d) /\ {d} \in SUBSET (0 .. d)
    <3>1. \A e \in 0 .. d - 1 : e \in 0 .. d
      OBVIOUS
    <3>2. d \in 0 .. d
      OBVIOUS
    <3>3. QED
      BY <1>3, <3>1, <3>2
  <2>3. CASE taken
    BY <1>3, <1>5, <2>1, <2>2, <2>3
  <2>4. CASE ~taken
    BY <1>3, <1>5, <2>2, <2>4
  <2>5. QED
    BY <2>3, <2>4
<1>8. \A e \in c[d] : c[e - 1] \subseteq c[d]
  BY <1>3, <1>5 DEF before
<1>9. Spaced(c[d], h)
  <2>1. taken => \A e \in before : d - e >= h
    BY DEF taken
  <2>2. \A e \in before : e \in Nat /\ e < d
    BY <1>3
  <2>3. CASE taken
    <3>1. c[d] = before \cup {d}
      BY <1>5, <2>3
    <3>2. ASSUME NEW e \in before \cup {d}, NEW x \in before \cup {d}, e < x PROVE x - e >= h
      <4>1. CASE x = d
        <5>1. e # d
          BY <3>2, <4>1
        <5>2. QED
          BY <2>1, <2>3, <3>2, <4>1, <5>1
      <4>2. CASE x # d
        <5>1. x \in before /\ e # d
          BY <2>2, <3>2, <4>2
        <5>2. QED
          BY <1>3, <3>2, <5>1
      <4>3. QED
        BY <4>1, <4>2
    <3>3. QED
      BY <3>1, <3>2 DEF Spaced
  <2>4. CASE ~taken
    BY <1>3, <1>5, <2>4 DEF Spaced
  <2>5. QED
    BY <2>3, <2>4
<1>10. ASSUME NEW other \in SUBSET (dates \cap (0 .. d)), Spaced(other, h)
       PROVE  Cardinality(other) <= Cardinality(c[d])
  <2> DEFINE rest == other \ {d}
  <2>1. IsFiniteSet(other) /\ IsFiniteSet(rest) /\ Cardinality(rest) \in Nat
        /\ (d \in other => Cardinality(other) = Cardinality(rest) + 1)
    <3>1. IsFiniteSet(0 .. d) /\ other \subseteq 0 .. d
      BY FS_Interval
    <3>2. IsFiniteSet(other)
      BY <3>1, FS_Subset
    <3>3. IsFiniteSet(rest)
      BY <3>2, FS_RemoveElement
    <3>4. CASE d \in other
      <4>1. Cardinality(rest) = Cardinality(other) - 1
        BY <3>2, <3>4, FS_RemoveElement
      <4>2. Cardinality(other) \in Nat /\ Cardinality(rest) \in Nat
        BY <3>2, <3>3, FS_CardinalityType
      <4>3. QED
        BY <3>2, <3>3, <4>1, <4>2
    <3>5. QED
      BY <3>2, <3>3, <3>4, FS_CardinalityType
  <2>2. rest \in SUBSET dates /\ rest \in SUBSET (0 .. d - 1) /\ Spaced(rest, h)
    <3>1. \A x \in rest : x \in dates /\ x \in Nat /\ x <= d /\ x # d
      OBVIOUS
    <3>2. \A x \in rest : x \in 0 .. d - 1
      BY <3>1
    <3>3. Spaced(rest, h)
      BY <1>10 DEF Spaced
    <3>4. QED
      BY <3>1, <3>2, <3>3
  <2>3. \A x \in rest : d \in other => d - x >= h
    <3>1. ASSUME NEW x \in rest, d \in other PROVE d - x >= h
      <4>1. x \in other /\ x < d
        BY <2>2
      <4>2. QED
        BY <1>10, <3>1, <4>1 DEF Spaced
    <3>2. QED
      BY <3>1
  <2>4. Cardinality(rest) <= Cardinality(before)
    BY <1>4, <2>2
  <2>5. CASE d \notin other
    <3>1. rest = other
      BY <2>5
    <3>2. Cardinality(before) <= Cardinality(c[d])
      BY <1>5, <1>6
    <3>3. Cardinality(c[d]) \in Nat
      BY <1>5, <1>6
    <3> HIDE DEF rest
    <3>4. QED
      BY <1>6, <2>1, <2>4, <3>1, <3>2, <3>3
  <2>6. CASE d \in other /\ taken
    <3> HIDE DEF rest
    <3>1. Cardinality(other) = Cardinality(rest) + 1
      BY <2>1, <2>6
    <3>2. Cardinality(c[d]) = Cardinality(before) + 1
      BY <1>5, <1>6, <2>6
    <3>3. QED
      BY <1>6, <2>1, <2>4, <3>1, <3>2
  <2>7. CASE d \in other /\ ~taken
    <3>1. PICK e \in before : ~(d - e >= h)
      BY <2>7 DEF taken
    <3>2. e \in 0 .. d - 1 /\ e - 1 \in -1 .. d - 1 /\ e \in Nat
      BY <1>3, <3>1
    <3>3. GreedyAt(c, e - 1, dates, h)
      BY <3>2
    <3>4. rest \in SUBSET (0 .. e - 1)
      <4>1. ASSUME NEW x \in rest PROVE x \in 0 .. e - 1
        <5>1. x \in Nat /\ d - x >= h
          BY <2>2, <2>3, <2>7
        <5>2. QED
          BY <3>1, <3>2, <5>1
      <4>2. QED
        BY <4>1
    <3> HIDE DEF rest
    <3>5. Cardinality(rest) <= Cardinality(c[e - 1])
      BY <2>2, <3>3, <3>4 DEF GreedyAt
    <3>6. c[e - 1] \subseteq 0 .. e - 1 /\ c[e - 1] \subseteq before
      BY <1>3, <3>1, <3>3 DEF GreedyAt
    <3>7. e \notin c[e - 1]
      BY <3>2, <3>6
    <3>8. IsFiniteSet(c[e - 1]) /\ Cardinality(c[e - 1]) \in Nat
      BY <1>6, <3>6, FS_Subset, FS_CardinalityType
    <3>9. Cardinality(c[e - 1] \cup {e}) = Cardinality(c[e - 1]) + 1
      BY <3>7, <3>8, FS_AddElement
    <3>10. Cardinality(c[e - 1] \cup {e}) <= Cardinality(before)
      BY <1>6, <3>1, <3>6, FS_Subset
    <3>11. c[d] = before
      BY <1>5, <2>7
    <3>12. QED
      BY <1>6, <2>1, <2>7, <3>5, <3>8, <3>9, <3>10, <3>11
  <2>8. QED
    BY <2>5, <2>6, <2>7
<1>11. QED
  BY <1>7, <1>8, <1>9, <1>10 DEF GreedyAt

\* forward_returns.py's effective_sample_count: spaced dates, and the most there
\* are.
LEMMA GreedyIsMost ==
  ASSUME NEW dates \in SUBSET Sessions, NEW h \in Nat \ {0}
  PROVE  /\ Counted(dates, h) \subseteq dates
         /\ Spaced(Counted(dates, h), h)
         /\ \A other \in SUBSET dates :
              Spaced(other, h) => Cardinality(other) <= Cardinality(Counted(dates, h))
<1>1. dates \in SUBSET Nat /\ dates \in SUBSET (0 .. Days - 1)
  BY Limits DEF Sessions
<1>2. PICK c : c = UpTo(c, Days, dates, h) /\ Counted(dates, h) = c[Days - 1]
  BY <1>1, CountedIs
<1>3. ASSUME NEW d \in -1 .. Days - 1
      PROVE  c[d] = IF d \in dates /\ \A e \in c[d - 1] : d - e >= h THEN c[d - 1] \cup {d}
                    ELSE IF d = -1 THEN {} ELSE c[d - 1]
  BY <1>2 DEF UpTo
<1> DEFINE T == {n \in Nat : n <= Days => \A m \in -1 .. n - 1 : GreedyAt(c, m, dates, h)}
<1>4. 0 \in T
  <2>1. -1 \in -1 .. Days - 1 /\ -1 \notin dates
    BY <1>1, Limits
  <2>2. c[-1] = {}
    BY <1>3, <2>1
  <2>3. ASSUME NEW other \in SUBSET (dates \cap (0 .. -1))
        PROVE  Cardinality(other) <= Cardinality({})
    <3>1. other = {}
      OBVIOUS
    <3>2. Cardinality({}) = 0
      BY FS_EmptySet
    <3>3. QED
      BY <3>1, <3>2
  <2>4. GreedyAt(c, -1, dates, h)
    BY <2>2, <2>3 DEF GreedyAt, Spaced
  <2>5. \A m \in -1 .. 0 - 1 : m = -1
    OBVIOUS
  <2>6. QED
    BY <2>4, <2>5
<1>5. ASSUME NEW n \in Nat, n \in T PROVE n + 1 \in T
  <2>1. SUFFICES ASSUME n + 1 <= Days
                 PROVE  \A m \in -1 .. (n + 1) - 1 : GreedyAt(c, m, dates, h)
    OBVIOUS
  <2>2. \A m \in -1 .. n - 1 : GreedyAt(c, m, dates, h)
    BY <1>5, <2>1, Limits
  <2>3. n \in -1 .. Days - 1 /\ n # -1
    BY <2>1, Limits
  <2>4. c[n] = IF n \in dates /\ \A e \in c[n - 1] : n - e >= h THEN c[n - 1] \cup {n}
               ELSE c[n - 1]
    BY <1>3, <2>3
  <2>5. GreedyAt(c, n, dates, h)
    BY <1>1, <2>2, <2>4, GreedyStep
  <2>6. \A m \in -1 .. (n + 1) - 1 : m = n \/ m \in -1 .. n - 1
    OBVIOUS
  <2>7. QED
    BY <2>2, <2>5, <2>6
<1> HIDE DEF T
<1>6. Days \in T
  BY <1>4, <1>5, Induction, Limits
<1>7. Days - 1 \in -1 .. Days - 1
  BY Limits
<1>8. GreedyAt(c, Days - 1, dates, h)
  <2>1. \A m \in -1 .. Days - 1 : GreedyAt(c, m, dates, h)
    BY <1>6, Limits DEF T
  <2>2. QED
    BY <1>7, <2>1
<1>9. dates \cap (0 .. Days - 1) = dates
  BY <1>1
<1>10. QED
  BY <1>2, <1>8, <1>9 DEF GreedyAt

\* Entries a horizon apart have windows that meet at most in their ends,
\* whatever sessions have no mark: an exit waits for no later session than the
\* second entry.
LEMMA WindowsApart ==
  ASSUME NEW snapshots \in SUBSET Nat, NEW h \in Nat \ {0},
         NEW d \in Entries(snapshots, h), NEW e \in Entries(snapshots, h), e - d >= h
  PROVE  Exit(d, h) <= e
<1>1. \A n : Later(n) \subseteq Filed /\ Filed \subseteq Nat /\ Later(n) \in SUBSET Nat
  BY Limits DEF Later, Filed, Sessions
<1>2. PICK x \in Joined(snapshots, h) : d = Min(Later(x))
  BY DEF Entries
<1>3. d \in Nat /\ Later(d + h) # {}
  BY <1>1, <1>2, MinIs DEF Joined
<1>4. PICK y \in Joined(snapshots, h) : e = Min(Later(y))
  BY DEF Entries
<1>5. e \in Nat /\ e \in Filed
  BY <1>1, <1>4, MinIs DEF Joined
<1>6. /\ Exit(d, h) \in Later(d + h)
      /\ \A j \in Later(d + h) : Exit(d, h) <= j
  BY <1>1, <1>3, MinIs DEF Exit
<1>7. Exit(d, h) \in Nat /\ Exit(d, h) - (d + h) <= 5
  BY <1>1, <1>6 DEF Later, Lookahead
<1>8. CASE e - (d + h) <= 5
  <2>1. e >= d + h
    BY <1>3, <1>5
  <2>2. e \in Later(d + h)
    BY <1>5, <1>8, <2>1 DEF Later, Lookahead
  <2>3. QED
    BY <1>6, <2>2
<1>9. CASE ~(e - (d + h) <= 5)
  BY <1>3, <1>5, <1>7, <1>9
<1>10. QED
  BY <1>8, <1>9

\* It holds of whatever is filed, so it needs no invariant.
LEMMA WindowsAreApart == WindowsIndependent
<1> DEFINE days == 0 .. DayOf(now)
<1>1. SUFFICES ASSUME NEW h \in Horizons, NEW entries \in SUBSET Entries(days, h)
               PROVE  LET counted == Counted(entries, h)
                      IN /\ \A d, e \in counted : d < e => Exit(d, h) <= e
                         /\ \A other \in SUBSET entries :
                              Spaced(other, h) => Cardinality(other) <= Cardinality(counted)
  BY DEF WindowsIndependent
<1> DEFINE counted == Counted(entries, h)
<1>2. h \in Nat \ {0} /\ days \in SUBSET Nat
  BY Limits
<1> HIDE DEF days
<1>3. entries \in SUBSET Sessions
  <2>1. \A n : Later(n) \in SUBSET Nat /\ Later(n) \subseteq Sessions
    BY Limits DEF Later, Filed, Sessions
  <2>2. ASSUME NEW x \in Joined(days, h) PROVE Min(Later(x)) \in Sessions
    <3>1. Later(x) # {}
      BY DEF Joined
    <3>2. QED
      BY <2>1, <3>1, MinIs
  <2>3. QED
    BY <2>2 DEF Entries
<1>4. /\ counted \subseteq entries
      /\ Spaced(counted, h)
      /\ \A other \in SUBSET entries :
           Spaced(other, h) => Cardinality(other) <= Cardinality(counted)
  BY <1>2, <1>3, GreedyIsMost
<1> HIDE DEF counted
<1>5. ASSUME NEW d \in counted, NEW e \in counted, d < e PROVE Exit(d, h) <= e
  <2>1. e - d >= h
    BY <1>4, <1>5 DEF Spaced
  <2>2. d \in Entries(days, h) /\ e \in Entries(days, h)
    BY <1>4
  <2>3. QED
    BY <1>2, <2>1, <2>2, WindowsApart
<1>6. QED
  BY <1>4, <1>5 DEF counted

\* forward_returns.py's effective sample: whatever days were snapshot and
\* whatever sessions went without a mark, the windows counted share no session
\* but their ends, and no other choice among them would count more, for every
\* calendar and horizon.
THEOREM WindowsAreIndependent == Spec => []WindowsIndependent
  BY WindowsAreApart, PTL
=============================================================================
