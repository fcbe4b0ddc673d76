----------------------------- MODULE UniverseProofs -----------------------------
(* Machine-checked theorems about the universe, for every set of curated    *)
(* symbols and candidates, every disclosure, lead and screen, every cap and *)
(* whether or not the process may be killed between two awaits, which only  *)
(* ProbationKept excludes. The assumption that the constants are as the     *)
(* engine configures them is UniverseAssumption.                            *)
EXTENDS Universe, TLAPS

(* Where the pass accepts by itself, and where it grows connectors.         *)
AutoArm == {"auto", "auto name", "auto count", "auto alert"}
GrowArm == {"grow", "grow name", "grow record", "grow count", "grow alert"}
Uncounting == {"grow record", "grow count"}
Awaits == {"idle", "recheck", "auto name", "auto alert", "review alert", "grow name", "grow alert"}
WithSymbol == {"auto name", "grow name", "grow record", "review drop"}

Record == [days : 0..ProbationDays, anchors : SUBSET Symbols]

----------------------------------------------------------------------------
(* The inductive invariant.                                                 *)

(* The fields of the loops, and what they work on.                          *)
Shape ==
  /\ DOMAIN engine = {"at", "sym", "todo", "held", "drop", "inert", "taken", "open"}
  /\ DOMAIN tool = {"at", "todo", "held", "chosen"}
  /\ engine.todo \subseteq Candidates /\ engine.drop \subseteq Candidates
  /\ engine.inert \subseteq Symbols
  /\ engine.at \in WithSymbol => engine.sym \in Candidates
  /\ role \in [Candidates -> {"out", "anchor", "probation", "tradeable"}]
  /\ accepted \in [Candidates -> Acceptance \cup {Not}]
  /\ probation \in [Candidates -> Record \cup {Not}]

(* An arm, its counter and what it has accepted. A counter of today's date  *)
(* has all of it but what was lost to a kill and what is yet to be counted; *)
(* a pass at work counts on from the counter it found, whatever the date has*)
(* become.                                                                  *)
Tally == [taken : Nat, late : Nat, lost : Nat]
ArmInv(t, counter, cap, working, taken, uncounted) ==
  /\ t \in Tally /\ counter \in Counter /\ taken \in Nat
  /\ t.late <= cap /\ t.taken <= cap + t.lost
  /\ ~ counter.today => t.taken = 0
  /\ counter.today => t.taken <= counter.count + t.lost + (IF uncounted THEN 1 ELSE 0)
  /\ working /\ counter.today => taken = counter.count
  /\ working /\ ~ counter.today => t.late <= taken + (IF uncounted THEN 1 ELSE 0)
AutoInv ==
  /\ ArmInv(tally.auto, auto, MaxAuto, engine.at \in AutoArm, engine.taken,
            engine.at = "auto count")
  /\ engine.at \in {"auto name", "auto count"} => engine.taken < MaxAuto
GrowInv ==
  /\ ArmInv(tally.connector, connector, MaxConnect, engine.at \in GrowArm, engine.taken,
            engine.at \in Uncounting)
  /\ engine.at \in {"grow name"} \cup Uncounting => engine.taken < MaxConnect
CountInv == DOMAIN tally = {"auto", "connector"} /\ AutoInv /\ GrowInv

(* Between the two writes that end a probation, and the two that begin one. *)
Midway == {"review drop", "grow record"}
Reviewing == {"review", "review alert", "review drop"}

(* The graph joins the symbol to an anchor; the connector arm admitted it.  *)
Joined(c) == \E s \in Symbols \ Tradeables : {s, c} \in edges
ByConnector(c) == IsAccepted(c) /\ accepted[c].by = "connector"

(* A start of the process would give the symbol the role it has, or put a   *)
(* trade target on the probation of a record left over.                     *)
Agrees(c) ==
  \/ role[c] = Rebuilt(accepted, c)
  \/ role[c] = "tradeable" /\ Rebuilt(accepted, c) = "probation"

(* That fails only between the two writes, of their symbol.                 *)
AgreeInv ==
  \A c \in Candidates :
    \/ Agrees(c)
    \/ engine.at \in Midway /\ engine.sym = c
       /\ (engine.at = "grow record" =>
            role[c] = "probation" /\ IsAccepted(c) /\ accepted[c].as = "tradeable")

(* Maintenance applies only while the engine's task awaits.                 *)
ApplyInv == tool.at = "apply" => engine.at \in Awaits

(* What a record, and the pass that will write one, names are no trade      *)
(* targets, so what the review is about to promote is joined to an anchor.  *)
RecordInv ==
  /\ engine.inert \subseteq Symbols \ Tradeables
  /\ \A c \in Candidates : OnProbation(c) => probation[c].anchors \subseteq Symbols \ Tradeables
  /\ engine.at \in Reviewing => \A c \in engine.todo : Joined(c)

(* A symbol of the connector arm that is joined to no anchor has its record,*)
(* or is between the two writes; it may not trade.                          *)
Held(c) ==
  ByConnector(c) /\ ~ Joined(c) =>
    role[c] # "tradeable" /\ (accepted[c].as = "tradeable" => OnProbation(c))
TradeInv ==
  \A c \in Candidates :
    Held(c) \/ (engine.at \in Midway /\ engine.sym = c /\ role[c] # "tradeable")

(* Only where the process is not killed between the two writes.             *)
RolesInv == AgreeInv /\ (~ HardKill => TradeInv)

----------------------------------------------------------------------------
(* Shape.                                                                   *)

LEMMA Records ==
  /\ Not \notin Record /\ Not \notin Acceptance
  /\ \A a \in Acceptance : a.as \in {"anchor", "tradeable"}
BY DEF Not, Record, Acceptance

LEMMA ShapeInit == Init => Shape
<1>1. Candidates \subseteq Symbols
  BY DEF Symbols
<1>2. QED
  BY <1>1 DEF Init, Shape, Idle, NoRun, WithSymbol

LEMMA AcceptShape ==
  ASSUME Shape, NEW c \in Candidates, NEW as \in {"anchor", "tradeable"},
         NEW by \in {"manual", "auto", "connector", "connected"}, NEW onProbation \in BOOLEAN,
         Accept(c, as, by, onProbation)
  PROVE  /\ role' \in [Candidates -> {"out", "anchor", "probation", "tradeable"}]
         /\ accepted' \in [Candidates -> Acceptance \cup {Not}]
<1>1. [as |-> as, by |-> by] \in Acceptance
  BY DEF Acceptance
<1>2. (IF onProbation THEN "probation" ELSE as) \in {"out", "anchor", "probation", "tradeable"}
  OBVIOUS
<1>3. QED
  <2>1. CASE role[c] # "out"
    BY <2>1 DEF Shape, Accept
  <2>2. CASE role[c] = "out"
    <3>1. role' = [role EXCEPT ![c] = IF onProbation THEN "probation" ELSE as]
      BY <2>2 DEF Accept
    <3>2. accepted' = [accepted EXCEPT ![c] = [as |-> as, by |-> by]]
      BY <2>2 DEF Accept
    <3>3. role' \in [Candidates -> {"out", "anchor", "probation", "tradeable"}]
      BY <1>2, <3>1 DEF Shape
    <3>4. accepted' \in [Candidates -> Acceptance \cup {Not}]
      BY <1>1, <3>2 DEF Shape
    <3>5. QED
      BY <3>3, <3>4
  <2>3. QED
    BY <2>1, <2>2

LEMMA RebuildShape ==
  ASSUME Shape, NEW acc \in [Candidates -> Acceptance \cup {Not}], Rebuild(acc)
  PROVE  /\ role' \in [Candidates -> {"out", "anchor", "probation", "tradeable"}]
         /\ accepted' \in [Candidates -> Acceptance \cup {Not}]
BY Records DEF Shape, Rebuild, RebuiltRoles, Rebuilt

(* A night leaves a record of a probation the record it was, but for its    *)
(* days.                                                                    *)
LEMMA AgedKept ==
  ASSUME NEW record \in Record \cup {Not}
  PROVE  /\ Aged(record) \in Record \cup {Not}
         /\ Aged(record) = Not <=> record = Not
         /\ record # Not => Aged(record).anchors = record.anchors
<1>1. CASE record = Not
  BY <1>1 DEF Aged
<1>2. CASE record \in Record /\ record # Not
  <2> DEFINE days == IF record.days < ProbationDays THEN record.days + 1 ELSE record.days
  <2>1. days \in 0..ProbationDays
    BY <1>2, UniverseAssumption DEF Record
  <2>2. Aged(record) = [record EXCEPT !.days = days]
    BY <1>2 DEF Aged
  <2> HIDE DEF days
  <2>3. [record EXCEPT !.days = days] \in Record
        /\ [record EXCEPT !.days = days].anchors = record.anchors
    BY <1>2, <2>1 DEF Record
  <2>4. QED
    BY <1>2, <2>2, <2>3, Records
<1>3. QED
  BY <1>1, <1>2

LEMMA ShapeStep == Shape /\ [Next]_vars => Shape'
<1> SUFFICES ASSUME Shape, [Next]_vars PROVE Shape'
  OBVIOUS
<1> USE DEF WithSymbol
<1> DEFINE Loops == UNCHANGED <<engine, tool>>
           Stored == UNCHANGED <<role, accepted, probation>>
<1>1. CASE StartPass
  BY <1>1 DEF StartPass, ToScreen, Rows, store, Shape
<1>2. CASE EnterAuto
  BY <1>2, Records DEF EnterAuto, CorrectTypes, Corrected, IsAccepted, Rows, Shape, Acceptance
<1>3. CASE AlertSent
  BY <1>3 DEF AlertSent, store, Shape
<1>4. CASE NameMatches
  <2>1. engine.sym \in Candidates
    BY <1>4 DEF NameMatches, Shape
  <2>2. CASE AutoAccepts(engine.sym) /\ UNCHANGED tool
    <3>1. Accept(engine.sym, row[engine.sym].advice, "auto", FALSE)
      BY <2>2 DEF AutoAccepts
    <3>2. CASE role[engine.sym] # "out"
      BY <2>1, <2>2, <3>1, <3>2 DEF AutoAccepts, Accept, Shape
    <3>3. CASE role[engine.sym] = "out"
      <4>1. engine' # Idle
        BY <2>2 DEF AutoAccepts, Idle
      <4>2. row[engine.sym].advice = "tradeable"
        BY <1>4, <3>3, <4>1 DEF NameMatches, Refuses
      <4>3. QED
        BY <2>1, <2>2, <3>1, <4>2, AcceptShape DEF AutoAccepts, Shape
    <3>4. QED
      BY <3>2, <3>3
  <2>3. CASE engine' = Idle /\ UNCHANGED <<role, store, tool>>
    BY <2>3 DEF Idle, store, Shape
  <2>4. QED
    BY <1>4, <2>2, <2>3 DEF NameMatches
<1>5. CASE NameDiffers
  BY <1>5 DEF NameDiffers, Shape
<1>6. CASE EnterReview
  BY <1>6 DEF EnterReview, Idle, store, Shape
<1>7. CASE SymbolDropped
  BY <1>7 DEF SymbolDropped, Out, Shape
<1>8. CASE EnterGrow
  <2>1. InertAnchors \subseteq Symbols
    BY DEF InertAnchors, AnchorSide, InRole, Symbols, Curated
  <2>2. QED
    BY <1>8, <2>1 DEF EnterGrow, Idle, Rows, Shape
<1>9. CASE Admits
  <2>1. engine.sym \in Candidates /\ Accept(engine.sym, "tradeable", "connector", TRUE)
    BY <1>9 DEF Admits, Shape
  <2>2. QED
    BY <1>9, <2>1, AcceptShape DEF Admits, Shape
<1>10. CASE GrowNameDiffers
  BY <1>10 DEF GrowNameDiffers, store, Shape
<1>11. CASE Recorded
  <2>1. [days |-> 0, anchors |-> ConnectorTargets(engine.sym, engine.inert)] \in Record
    <3>1. ConnectorTargets(engine.sym, engine.inert) \in SUBSET Symbols
      BY DEF ConnectorTargets, Shape
    <3>2. 0 \in 0..ProbationDays
      BY UniverseAssumption
    <3>3. QED
      BY <3>1, <3>2 DEF Record
  <2>2. QED
    BY <1>11, <2>1 DEF Recorded, Shape
<1>12. CASE GrowDone \/ AutoCounts \/ GrowCounts
  <2>1. CASE GrowDone
    BY <2>1 DEF GrowDone, Idle, store, Shape
  <2>2. CASE AutoCounts
    BY <2>2 DEF AutoCounts, Shape
  <2>3. CASE GrowCounts
    BY <2>3 DEF GrowCounts, Shape
  <2>4. QED
    BY <1>12, <2>1, <2>2, <2>3
<1>13. ASSUME NEW c \in Candidates, NEW advice \in Screens[c], Screened(c, advice) PROVE Shape'
  BY <1>13 DEF Screened, Done, Shape
<1>14. ASSUME NEW c \in Candidates, AutoSkips(c) PROVE Shape'
  BY <1>14 DEF AutoSkips, store, Shape
<1>15. ASSUME NEW c \in Candidates, AutoTakesAnchor(c) PROVE Shape'
  <2>1. row[c].advice = "anchor" /\ AutoAccepts(c) /\ UNCHANGED tool
    BY <1>15 DEF AutoTakesAnchor, AutoAnchor
  <2>2. Accept(c, "anchor", "auto", FALSE)
    BY <2>1 DEF AutoAccepts
  <2>3. QED
    BY <2>1, <2>2, AcceptShape DEF AutoAccepts, Shape
<1>16. ASSUME NEW c \in Candidates, AutoAsksName(c) PROVE Shape'
  BY <1>16 DEF AutoAsksName, store, Shape
<1>17. ASSUME NEW c \in Candidates, Promotes(c) PROVE Shape'
  BY <1>17 DEF Promotes, Shape
<1>18. ASSUME NEW c \in Candidates, RecordDropped(c) PROVE Shape'
  BY <1>18 DEF RecordDropped, Shape
<1>19. ASSUME NEW c \in Candidates, GrowSkips(c) \/ GrowAsksName(c) PROVE Shape'
  <2>1. Stored /\ UNCHANGED tool
    BY <1>19 DEF GrowSkips, GrowAsksName, store
  <2>2. CASE GrowSkips(c)
    BY <2>1, <2>2 DEF GrowSkips, Shape
  <2>3. CASE GrowAsksName(c)
    BY <2>1, <2>3 DEF GrowAsksName, Shape
  <2>4. QED
    BY <1>19, <2>2, <2>3
<1>20. ASSUME NEW c \in Candidates, NEW as \in {"anchor", "tradeable"}, ConnectAccepts(c, as)
       PROVE Shape'
  <2>1. UNCHANGED <<probation, engine>> /\ DOMAIN tool' = DOMAIN tool
    BY <1>20 DEF ConnectAccepts, NoRun, Shape
  <2>2. CASE UNCHANGED <<role, accepted>>
    BY <2>1, <2>2 DEF Shape
  <2>3. CASE Accept(c, as, "connected", FALSE)
    BY <2>1, <2>3, AcceptShape DEF Shape
  <2>4. QED
    BY <1>20, <2>2, <2>3 DEF ConnectAccepts
<1>21. CASE ConnectPrunes
  <2>1. UNCHANGED <<probation, engine>> /\ tool' = NoRun
    BY <1>21 DEF ConnectPrunes
  <2>2. CASE UNCHANGED <<role, accepted>>
    BY <2>1, <2>2 DEF NoRun, Shape
  <2>3. ASSUME NEW inert, Rebuild([c \in Candidates |-> IF c \in inert THEN Not ELSE accepted[c]])
        PROVE  Shape'
    <3>1. [c \in Candidates |-> IF c \in inert THEN Not ELSE accepted[c]]
            \in [Candidates -> Acceptance \cup {Not}]
      BY DEF Shape
    <3>2. QED
      BY <2>1, <2>3, <3>1, RebuildShape DEF NoRun, Shape
  <2>4. QED
    BY <1>21, <2>2, <2>3 DEF ConnectPrunes
<1>22. ASSUME NEW s \in Symbols, NEW x \in Symbols, FilingRead(s, x) PROVE Shape'
  BY <1>22 DEF FilingRead, Shape
<1>23. ASSUME NEW s \in Symbols, NEW c \in Candidates, LeadFound(s, c) PROVE Shape'
  BY <1>23 DEF LeadFound, Detached, Shape
<1>24. ASSUME NEW c \in Candidates, MonthlyScreen(c) PROVE Shape'
  <2>1. UNCHANGED <<probation, engine, tool>>
    BY <1>24 DEF MonthlyScreen
  <2>2. CASE Out(c)
    BY <2>1, <2>2 DEF Out, Shape
  <2>3. CASE /\ accepted' = [accepted EXCEPT ![c].as = "anchor"]
             /\ role' = [role EXCEPT ![c] = "anchor"] /\ IsAccepted(c)
    <3>1. [accepted[c] EXCEPT !.as = "anchor"] \in Acceptance
      BY <2>3 DEF Shape, IsAccepted, Acceptance
    <3>2. accepted' = [accepted EXCEPT ![c] = [accepted[c] EXCEPT !.as = "anchor"]]
      BY <2>3
    <3>3. accepted' \in [Candidates -> Acceptance \cup {Not}]
      BY <3>1, <3>2 DEF Shape
    <3>4. role' \in [Candidates -> {"out", "anchor", "probation", "tradeable"}]
      BY <2>3 DEF Shape
    <3>5. QED
      BY <2>1, <3>3, <3>4 DEF Shape
  <2>4. QED
    BY <1>24, <2>2, <2>3 DEF MonthlyScreen
<1>25. ASSUME NEW c \in Candidates, ConnectLooksUp(c) PROVE Shape'
  BY <1>25 DEF ConnectLooksUp, store, Shape
<1>26. ASSUME NEW c \in Candidates, NEW as \in {"anchor", "tradeable"}, ManualAccept(c, as)
       PROVE Shape'
  <2>1. Accept(c, as, "manual", FALSE) /\ UNCHANGED <<probation, engine, tool>>
    BY <1>26 DEF ManualAccept
  <2>2. QED
    BY <2>1, AcceptShape DEF Shape
<1>27. CASE ResetAccepted
  <2>1. Rebuild([c \in Candidates |-> Not]) /\ UNCHANGED <<probation, engine, tool>>
    BY <1>27 DEF ResetAccepted
  <2>2. [c \in Candidates |-> Not] \in [Candidates -> Acceptance \cup {Not}]
    OBVIOUS
  <2>3. QED
    BY <2>1, <2>2, RebuildShape DEF Shape
<1>28. ASSUME NEW unfit \in SUBSET Candidates, Cleans(unfit) PROVE Shape'
  <2>1. UNCHANGED <<probation, engine>> /\ DOMAIN tool' = DOMAIN tool
    BY <1>28 DEF Cleans, Shape
  <2>2. CASE UNCHANGED <<role, accepted>>
    BY <2>1, <2>2 DEF Shape
  <2>3. CASE Rebuild([c \in Candidates |-> IF c \in unfit THEN Not ELSE accepted[c]])
    <3>1. [c \in Candidates |-> IF c \in unfit THEN Not ELSE accepted[c]]
            \in [Candidates -> Acceptance \cup {Not}]
      BY DEF Shape
    <3>2. QED
      BY <2>1, <2>3, <3>1, RebuildShape DEF Shape
  <2>4. QED
    BY <1>28, <2>2, <2>3 DEF Cleans
<1>29. ASSUME NEW c \in Candidates, NEW advice \in Screens[c], ScreenedAgain(c, advice) PROVE Shape'
  BY <1>29 DEF ScreenedAgain, Done, Shape
<1>30. CASE ConnectBegins \/ ConnectApplies
  BY <1>30 DEF ConnectBegins, ConnectApplies, NoRun, store, Shape
<1>31. CASE NewDay
  <2>1. \A c \in Candidates : Aged(probation[c]) \in Record \cup {Not}
    BY AgedKept DEF Shape
  <2>2. probation' \in [Candidates -> Record \cup {Not}]
    BY <1>31, <2>1 DEF NewDay
  <2>3. QED
    BY <1>31, <2>2 DEF NewDay, Shape
<1>32. CASE Restart
  <2>1. engine' = Idle /\ tool' = NoRun /\ role' = RebuiltRoles(accepted)
        /\ UNCHANGED <<accepted, probation>>
    BY <1>32 DEF Restart, store
  <2>2. role' \in [Candidates -> {"out", "anchor", "probation", "tradeable"}]
    BY <2>1, Records DEF RebuiltRoles, Rebuilt, Shape
  <2>3. QED
    BY <2>1, <2>2 DEF Idle, NoRun, Shape
<1>33. CASE UNCHANGED vars
  BY <1>33 DEF vars, store, Shape
<1>34. QED
  <2>1. CASE PassStep
    BY <1>1, <1>2, <1>3, <1>4, <1>5, <1>6, <1>7, <1>8, <1>9, <1>10, <1>11, <1>12, <1>13, <1>14,
       <1>15, <1>16, <1>17, <1>18, <1>19, <2>1 DEF PassStep
  <2>2. CASE ~PassStep
    BY <1>20, <1>21, <1>22, <1>23, <1>24, <1>25, <1>26, <1>27, <1>28, <1>29, <1>30, <1>31, <1>32,
       <1>33, <2>2 DEF Next, ApplyStep
  <2>3. QED
    BY <2>1, <2>2

----------------------------------------------------------------------------
(* The caps of the day.                                                     *)

LEMMA Limits == MaxAuto \in Nat /\ MaxConnect \in Nat
BY UniverseAssumption

LEMMA CountInit == Init => CountInv
<1> SUFFICES ASSUME Init PROVE CountInv
  OBVIOUS
<1>1. /\ tally.auto = NoneYet /\ tally.connector = NoneYet /\ DOMAIN tally = {"auto", "connector"}
      /\ auto = [today |-> FALSE, count |-> 0] /\ connector = [today |-> FALSE, count |-> 0]
      /\ engine.at = "idle" /\ engine.taken = 0
  BY DEF Init, Idle
<1>2. NoneYet \in Tally /\ NoneYet.taken = 0 /\ NoneYet.late = 0 /\ NoneYet.lost = 0
  BY DEF NoneYet, Tally
<1>3. [today |-> FALSE, count |-> 0] \in Counter
  BY DEF Counter
<1>4. QED
  BY <1>1, <1>2, <1>3, Limits DEF CountInv, AutoInv, GrowInv, ArmInv, AutoArm, GrowArm, Uncounting

(* What a step does with an arm: it leaves it alone, ...                    *)
LEMMA ArmLeft ==
  ASSUME NEW t, NEW counter, NEW cap, NEW working, NEW taken, NEW next \in Nat,
         ArmInv(t, counter, cap, working, taken, FALSE)
  PROVE  ArmInv(t, counter, cap, FALSE, next, FALSE)
BY DEF ArmInv

(* ... sets it to work, ...                                                 *)
LEMMA ArmBegun ==
  ASSUME NEW t, NEW counter, NEW cap \in Nat, NEW taken,
         ArmInv(t, counter, cap, FALSE, taken, FALSE)
  PROVE  ArmInv(t, [today |-> TRUE, count |-> CountToday(counter)], cap, TRUE,
                CountToday(counter), FALSE)
<1> DEFINE begun == [today |-> TRUE, count |-> CountToday(counter)]
<1>1. CountToday(counter) \in Nat /\ counter \in Counter /\ t \in Tally
  BY DEF ArmInv, CountToday, Counter
<1>2. begun \in Counter /\ begun.today = TRUE /\ begun.count = CountToday(counter)
  BY <1>1 DEF Counter
<1>3. t.taken <= CountToday(counter) + t.lost
  BY <1>1 DEF ArmInv, CountToday, Tally, Counter
<1> HIDE DEF begun
<1>4. ArmInv(t, begun, cap, TRUE, CountToday(counter), FALSE)
  BY <1>1, <1>2, <1>3 DEF ArmInv, Tally
<1>5. QED
  BY <1>4 DEF begun

(* ... accepts, ...                                                         *)
LEMMA ArmAccepts ==
  ASSUME NEW t, NEW counter, NEW cap \in Nat, NEW taken, NEW u,
         ArmInv(t, counter, cap, TRUE, taken, FALSE), taken < cap,
         u \in {t, OneMore(t, counter.today)}
  PROVE  ArmInv(u, counter, cap, TRUE, taken, TRUE)
<1>1. t \in Tally /\ counter \in Counter /\ taken \in Nat
  BY DEF ArmInv
<1>2. CASE u = t
  BY <1>1, <1>2 DEF ArmInv, Tally, Counter
<1>3. CASE u = OneMore(t, counter.today) /\ counter.today
  <2>1. u = [t EXCEPT !.taken = t.taken + 1]
    BY <1>3 DEF OneMore
  <2>2. u \in Tally /\ u.taken = t.taken + 1 /\ u.late = t.late /\ u.lost = t.lost
    BY <1>1, <2>1 DEF Tally
  <2>3. /\ taken = counter.count /\ t.taken <= counter.count + t.lost /\ t.late <= cap
        /\ t.taken \in Nat /\ t.lost \in Nat /\ counter.count \in Nat
    BY <1>1, <1>3 DEF ArmInv, Tally, Counter
  <2>4. u.taken <= cap + u.lost /\ u.taken <= counter.count + u.lost + 1
    BY <2>2, <2>3
  <2>5. QED
    BY <1>1, <1>3, <2>2, <2>3, <2>4 DEF ArmInv
<1>4. CASE u = OneMore(t, counter.today) /\ ~ counter.today
  <2>1. u = [t EXCEPT !.late = t.late + 1]
    BY <1>4 DEF OneMore
  <2>2. u \in Tally /\ u.taken = t.taken /\ u.late = t.late + 1 /\ u.lost = t.lost
    BY <1>1, <2>1 DEF Tally
  <2>3. QED
    BY <1>1, <1>4, <2>2 DEF ArmInv, Tally, Counter
<1>5. QED
  BY <1>2, <1>3, <1>4

(* ... counts, ...                                                          *)
LEMMA ArmCounts ==
  ASSUME NEW t, NEW counter, NEW cap \in Nat, NEW taken,
         ArmInv(t, counter, cap, TRUE, taken, TRUE)
  PROVE  ArmInv(t, [counter EXCEPT !.count = taken + 1], cap, TRUE, taken + 1, FALSE)
<1>1. t \in Tally /\ counter \in Counter /\ taken \in Nat
  BY DEF ArmInv
<1> DEFINE counted == [counter EXCEPT !.count = taken + 1]
<1>2. counted \in Counter /\ counted.today = counter.today /\ counted.count = taken + 1
  BY <1>1 DEF Counter
<1> HIDE DEF counted
<1>3. ArmInv(t, counted, cap, TRUE, taken + 1, FALSE)
  BY <1>1, <1>2 DEF ArmInv, Tally, Counter
<1>4. QED
  BY <1>3 DEF counted

(* ... is killed before it counts, ...                                      *)
LEMMA ArmKilled ==
  ASSUME NEW t, NEW counter, NEW cap \in Nat, NEW taken, NEW next \in Nat,
         ArmInv(t, counter, cap, TRUE, taken, TRUE)
  PROVE  ArmInv(OneLost(t), counter, cap, FALSE, next, FALSE)
<1>1. t \in Tally /\ counter \in Counter
  BY DEF ArmInv
<1> DEFINE u == OneLost(t)
<1>2. u \in Tally /\ u.taken = t.taken /\ u.late = t.late /\ u.lost = t.lost + 1
  BY <1>1 DEF OneLost, Tally
<1> HIDE DEF u
<1>3. ArmInv(u, counter, cap, FALSE, next, FALSE)
  BY <1>1, <1>2 DEF ArmInv, Tally, Counter
<1>4. QED
  BY <1>3 DEF u

(* ... or sees the day turn.                                                *)
LEMMA ArmNight ==
  ASSUME NEW t, NEW counter, NEW cap \in Nat, NEW working, NEW taken,
         ArmInv(t, counter, cap, working, taken, FALSE)
  PROVE  ArmInv(NoneYet, [counter EXCEPT !.today = FALSE], cap, working, taken, FALSE)
<1>1. counter \in Counter /\ taken \in Nat
  BY DEF ArmInv
<1> DEFINE turned == [counter EXCEPT !.today = FALSE]
<1>2. turned \in Counter /\ turned.today = FALSE
  BY <1>1 DEF Counter
<1>3. NoneYet \in Tally /\ NoneYet.taken = 0 /\ NoneYet.late = 0 /\ NoneYet.lost = 0
  BY DEF NoneYet, Tally
<1> HIDE DEF turned
<1>4. ArmInv(NoneYet, turned, cap, working, taken, FALSE)
  BY <1>1, <1>2, <1>3 DEF ArmInv
<1>5. QED
  BY <1>4 DEF turned

(* Whatever leaves the counters, the tally and where the pass is as they    *)
(* are.                                                                     *)
LEMMA CountKept ==
  ASSUME CountInv, UNCHANGED <<auto, connector, tally, engine.at, engine.taken>>
  PROVE  CountInv'
BY DEF CountInv, AutoInv, GrowInv, ArmInv, AutoArm, GrowArm, Uncounting

(* ... what moves it inside the accepting arm, with nothing to count, ...   *)
LEMMA AutoMoves ==
  ASSUME CountInv, UNCHANGED <<auto, connector, tally, engine.taken>>,
         engine.at \in {"auto", "auto name", "auto alert"},
         engine'.at \in {"auto", "auto name", "auto alert"},
         engine'.at = "auto name" => engine.taken < MaxAuto
  PROVE  CountInv'
BY DEF CountInv, AutoInv, GrowInv, ArmInv, AutoArm, GrowArm, Uncounting

(* ... inside the growing one, up to the acceptance and after the count, ...*)
LEMMA GrowMoves ==
  ASSUME CountInv, UNCHANGED <<auto, connector, tally, engine.taken>>,
         engine.at \in {"grow", "grow name", "grow alert"},
         engine'.at \in {"grow", "grow name", "grow alert"},
         engine'.at = "grow name" => engine.taken < MaxConnect
  PROVE  CountInv'
BY DEF CountInv, AutoInv, GrowInv, ArmInv, AutoArm, GrowArm, Uncounting

(* ... and whatever sends it out of both, with nothing to count.            *)
LEMMA CountLeft ==
  ASSUME CountInv, UNCHANGED <<auto, connector, tally>>,
         engine.at \notin {"auto count"} \cup Uncounting,
         engine'.at \notin AutoArm \cup GrowArm, engine'.taken \in Nat
  PROVE  CountInv'
<1>1. ArmInv(tally.auto, auto, MaxAuto, engine.at \in AutoArm, engine.taken, FALSE)
  BY DEF CountInv, AutoInv, ArmInv
<1>2. ArmInv(tally.connector, connector, MaxConnect, engine.at \in GrowArm, engine.taken, FALSE)
  BY DEF CountInv, GrowInv, ArmInv
<1>3. ArmInv(tally.auto, auto, MaxAuto, FALSE, engine'.taken, FALSE)
  BY <1>1, ArmLeft
<1>4. ArmInv(tally.connector, connector, MaxConnect, FALSE, engine'.taken, FALSE)
  BY <1>2, ArmLeft
<1>5. AutoInv' /\ GrowInv'
  BY <1>3, <1>4 DEF AutoInv, GrowInv, ArmInv, AutoArm, GrowArm, Uncounting
<1>6. QED
  BY <1>5 DEF CountInv

(* An acceptance below the limit, on its way to the count.                  *)
LEMMA AutoAccepted ==
  ASSUME Shape, CountInv, NEW c \in Candidates, engine.at \in {"auto", "auto name"},
         engine.taken < MaxAuto, AutoAccepts(c)
  PROVE  CountInv'
<1>1. /\ engine'.at = "auto count" /\ engine'.taken = engine.taken
      /\ UNCHANGED <<auto, connector>>
  BY DEF AutoAccepts, Shape
<1>2. /\ tally'.connector = tally.connector /\ DOMAIN tally' = DOMAIN tally
      /\ tally'.auto \in {tally.auto, OneMore(tally.auto, auto.today)}
  BY DEF AutoAccepts, CountInv
<1>3. ArmInv(tally.auto, auto, MaxAuto, TRUE, engine.taken, FALSE)
  BY DEF CountInv, AutoInv, ArmInv, AutoArm
<1>4. ArmInv(tally'.auto, auto, MaxAuto, TRUE, engine.taken, TRUE)
  BY <1>2, <1>3, ArmAccepts, Limits
<1>5. AutoInv'
  BY <1>1, <1>4 DEF AutoInv, ArmInv, AutoArm
<1>6. ArmInv(tally.connector, connector, MaxConnect, FALSE, engine.taken, FALSE)
  BY DEF CountInv, GrowInv, ArmInv, GrowArm, Uncounting
<1>7. GrowInv'
  BY <1>1, <1>2, <1>6 DEF GrowInv, ArmInv, GrowArm, Uncounting
<1>8. QED
  BY <1>2, <1>5, <1>7 DEF CountInv

LEMMA CountStep == Shape /\ CountInv /\ [Next]_vars => CountInv'
<1> SUFFICES ASSUME Shape, CountInv, [Next]_vars PROVE CountInv'
  OBVIOUS
<1> DEFINE Counts == UNCHANGED <<auto, connector, tally>>
           Place == UNCHANGED <<engine.at, engine.taken>>
           Elsewhere == engine.at \notin AutoArm \cup GrowArm
<1>0. engine.taken \in Nat /\ DOMAIN tally = {"auto", "connector"}
  BY DEF CountInv, AutoInv, ArmInv
(* The arm a step has nothing to do with.                                   *)
<1>a. ASSUME engine.at \notin AutoArm, engine'.at \notin AutoArm, engine'.taken \in Nat,
             auto' = auto, tally'.auto = tally.auto
      PROVE  AutoInv'
  BY <1>a DEF CountInv, AutoInv, ArmInv, AutoArm
<1>g. ASSUME engine.at \notin GrowArm, engine'.at \notin GrowArm, engine'.taken \in Nat,
             connector' = connector, tally'.connector = tally.connector
      PROVE  GrowInv'
  BY <1>g DEF CountInv, GrowInv, ArmInv, GrowArm, Uncounting
<1>1. CASE StartPass
  <2>1. Counts /\ engine.at = "idle" /\ engine'.at = "recheck" /\ engine'.taken = engine.taken
    BY <1>1 DEF StartPass, store, Shape
  <2>2. QED
    BY <1>0, <2>1, CountLeft DEF AutoArm, GrowArm, Uncounting
<1>2. CASE EnterAuto
  <2>1. /\ auto' = [today |-> TRUE, count |-> CountToday(auto)] /\ UNCHANGED <<connector, tally>>
        /\ engine.at = "recheck" /\ engine'.at = "auto" /\ engine'.taken = CountToday(auto)
    BY <1>2 DEF EnterAuto, Shape
  <2>2. ArmInv(tally.auto, auto, MaxAuto, FALSE, engine.taken, FALSE)
    BY <2>1 DEF CountInv, AutoInv, ArmInv, AutoArm
  <2>3. ArmInv(tally.auto, auto', MaxAuto, TRUE, engine'.taken, FALSE)
    BY <2>1, <2>2, ArmBegun, Limits
  <2>4. AutoInv' /\ engine'.taken \in Nat
    BY <2>1, <2>3 DEF AutoInv, ArmInv, AutoArm
  <2>5. GrowInv'
    BY <1>g, <2>1, <2>4 DEF GrowArm
  <2>6. QED
    BY <2>1, <2>4, <2>5 DEF CountInv
<1>3. CASE AlertSent
  <2>1. engine'.taken = engine.taken /\ Counts
    BY <1>3 DEF AlertSent, store, Shape
  <2>2. CASE engine.at = "auto alert" /\ engine'.at = "auto"
    BY <2>1, <2>2, AutoMoves
  <2>3. CASE engine.at = "review alert" /\ engine'.at = "review"
    BY <1>0, <2>1, <2>3, CountLeft DEF AutoArm, GrowArm, Uncounting
  <2>4. CASE engine.at = "grow alert" /\ engine'.at = "grow"
    BY <2>1, <2>4, GrowMoves
  <2>5. QED
    BY <1>3, <2>2, <2>3, <2>4 DEF AlertSent, Shape
<1>4. CASE NameMatches
  <2>1. engine.at = "auto name"
    BY <1>4 DEF NameMatches
  <2>2. CASE AutoAccepts(engine.sym)
    <3>1. engine.sym \in Candidates
      BY <2>1 DEF Shape, WithSymbol
    <3>2. engine.taken < MaxAuto
      BY <2>1 DEF CountInv, AutoInv
    <3>3. QED
      BY <2>1, <2>2, <3>1, <3>2, AutoAccepted
  <2>3. CASE engine' = Idle /\ UNCHANGED <<store, tally>>
    <3>1. engine'.at = "idle" /\ engine'.taken \in Nat
      BY <2>3 DEF Idle
    <3>2. Counts
      BY <2>3 DEF store
    <3>3. QED
      BY <2>1, <3>1, <3>2, CountLeft DEF AutoArm, GrowArm, Uncounting
  <2>4. QED
    BY <1>4, <2>2, <2>3 DEF NameMatches
<1>5. CASE NameDiffers
  <2>1. Counts /\ engine'.at = "auto" /\ engine'.taken = engine.taken /\ engine.at = "auto name"
    BY <1>5 DEF NameDiffers, Shape
  <2>2. QED
    BY <2>1, AutoMoves
<1>6. CASE EnterReview
  <2>1. Counts /\ engine.at = "auto" /\ engine'.at = "review" /\ engine'.taken = 0
    BY <1>6 DEF EnterReview, Idle, store
  <2>2. QED
    BY <2>1, CountLeft DEF AutoArm, GrowArm, Uncounting
<1>7. CASE SymbolDropped
  <2>1. Counts /\ engine.at = "review drop" /\ engine'.at = "review" /\ engine'.taken = engine.taken
    BY <1>7 DEF SymbolDropped, Shape
  <2>2. QED
    BY <1>0, <2>1, CountLeft DEF AutoArm, GrowArm, Uncounting
<1>8. CASE EnterGrow
  <2>1. /\ connector' = [today |-> TRUE, count |-> CountToday(connector)]
        /\ UNCHANGED <<auto, tally>> /\ engine.at = "review" /\ engine'.at = "grow"
        /\ engine'.taken = CountToday(connector)
    BY <1>8 DEF EnterGrow, Idle
  <2>2. ArmInv(tally.connector, connector, MaxConnect, FALSE, engine.taken, FALSE)
    BY <2>1 DEF CountInv, GrowInv, ArmInv, GrowArm, Uncounting
  <2>3. ArmInv(tally.connector, connector', MaxConnect, TRUE, engine'.taken, FALSE)
    BY <2>1, <2>2, ArmBegun, Limits
  <2>4. GrowInv' /\ engine'.taken \in Nat
    BY <2>1, <2>3 DEF GrowInv, ArmInv, GrowArm, Uncounting
  <2>5. AutoInv'
    BY <1>a, <2>1, <2>4 DEF AutoArm
  <2>6. QED
    BY <2>1, <2>4, <2>5 DEF CountInv
<1>9. CASE Admits
  <2>1. /\ UNCHANGED <<auto, connector>> /\ engine.at = "grow name"
        /\ engine'.at = "grow record" /\ engine'.taken = engine.taken
    BY <1>9 DEF Admits, Shape
  <2>2. /\ tally'.auto = tally.auto /\ DOMAIN tally' = DOMAIN tally
        /\ tally'.connector \in {tally.connector, OneMore(tally.connector, connector.today)}
    BY <1>0, <1>9 DEF Admits
  <2>3. ArmInv(tally.connector, connector, MaxConnect, TRUE, engine.taken, FALSE)
        /\ engine.taken < MaxConnect
    BY <2>1 DEF CountInv, GrowInv, ArmInv, GrowArm, Uncounting
  <2>4. ArmInv(tally'.connector, connector, MaxConnect, TRUE, engine.taken, TRUE)
    BY <2>2, <2>3, ArmAccepts, Limits
  <2>5. GrowInv'
    BY <2>1, <2>3, <2>4 DEF GrowInv, ArmInv, GrowArm, Uncounting
  <2>6. AutoInv'
    BY <1>0, <1>a, <2>1, <2>2 DEF AutoArm
  <2>7. QED
    BY <1>0, <2>2, <2>5, <2>6 DEF CountInv
<1>10. CASE GrowNameDiffers
  <2>1. Counts /\ engine.at = "grow name" /\ engine'.at = "grow" /\ engine'.taken = engine.taken
    BY <1>10 DEF GrowNameDiffers, store, Shape
  <2>2. QED
    BY <2>1, GrowMoves
<1>11. CASE Recorded
  <2>1. Counts /\ engine.at = "grow record" /\ engine'.at = "grow count"
        /\ engine'.taken = engine.taken
    BY <1>11 DEF Recorded, Shape
  <2>2. QED
    BY <2>1 DEF CountInv, AutoInv, GrowInv, ArmInv, AutoArm, GrowArm, Uncounting
<1>12. CASE GrowDone
  <2>1. Counts /\ engine.at = "grow" /\ engine'.at = "idle" /\ engine'.taken = 0
    BY <1>12 DEF GrowDone, Idle, store
  <2>2. QED
    BY <1>0, <2>1, CountLeft DEF AutoArm, GrowArm, Uncounting
<1>13. CASE AutoCounts
  <2>1. /\ engine.at = "auto count" /\ engine'.at = "auto alert"
        /\ engine'.taken = engine.taken + 1
        /\ auto' = [auto EXCEPT !.count = engine.taken + 1] /\ UNCHANGED <<connector, tally>>
    BY <1>13 DEF AutoCounts, Shape
  <2>2. ArmInv(tally.auto, auto, MaxAuto, TRUE, engine.taken, TRUE)
    BY <2>1 DEF CountInv, AutoInv, ArmInv, AutoArm
  <2>3. ArmInv(tally.auto, auto', MaxAuto, TRUE, engine'.taken, FALSE)
    BY <2>1, <2>2, ArmCounts, Limits
  <2>4. AutoInv' /\ engine'.taken \in Nat
    BY <2>1, <2>3 DEF AutoInv, ArmInv, AutoArm
  <2>5. GrowInv'
    BY <1>g, <2>1, <2>4 DEF GrowArm
  <2>6. QED
    BY <2>1, <2>4, <2>5 DEF CountInv
<1>14. CASE GrowCounts
  <2>1. /\ engine.at = "grow count" /\ engine'.at = "grow alert"
        /\ engine'.taken = engine.taken + 1
        /\ connector' = [connector EXCEPT !.count = engine.taken + 1] /\ UNCHANGED <<auto, tally>>
    BY <1>14 DEF GrowCounts, Shape
  <2>2. ArmInv(tally.connector, connector, MaxConnect, TRUE, engine.taken, TRUE)
    BY <2>1 DEF CountInv, GrowInv, ArmInv, GrowArm, Uncounting
  <2>3. ArmInv(tally.connector, connector', MaxConnect, TRUE, engine'.taken, FALSE)
    BY <2>1, <2>2, ArmCounts, Limits
  <2>4. GrowInv' /\ engine'.taken \in Nat
    BY <2>1, <2>3 DEF GrowInv, ArmInv, GrowArm, Uncounting
  <2>5. AutoInv'
    BY <1>a, <2>1, <2>4 DEF AutoArm
  <2>6. QED
    BY <2>1, <2>4, <2>5 DEF CountInv
<1>15. ASSUME NEW c \in Candidates, NEW advice \in Screens[c], Screened(c, advice) PROVE CountInv'
  <2>1. Counts /\ Place
    BY <1>15 DEF Screened, Done, Shape
  <2>2. QED
    BY <2>1, CountKept
<1>16. ASSUME NEW c \in Candidates, AutoSkips(c) \/ GrowSkips(c) PROVE CountInv'
  <2>1. Counts /\ Place
    BY <1>16 DEF AutoSkips, GrowSkips, store, Shape
  <2>2. QED
    BY <2>1, CountKept
<1>17. ASSUME NEW c \in Candidates, AutoTakesAnchor(c) PROVE CountInv'
  BY <1>17, AutoAccepted DEF AutoTakesAnchor
<1>18. ASSUME NEW c \in Candidates, AutoAsksName(c) PROVE CountInv'
  <2>1. Counts /\ engine.at = "auto" /\ engine'.at = "auto name" /\ engine'.taken = engine.taken
        /\ engine.taken < MaxAuto
    BY <1>18 DEF AutoAsksName, store, Shape
  <2>2. QED
    BY <2>1, AutoMoves
<1>19. ASSUME NEW c \in Candidates, Promotes(c) \/ RecordDropped(c) PROVE CountInv'
  <2>1. Counts /\ engine.at = "review" /\ engine'.at \in {"review alert", "review drop"}
        /\ engine'.taken = engine.taken
    BY <1>19 DEF Promotes, RecordDropped, Shape
  <2>2. QED
    BY <1>0, <2>1, CountLeft DEF AutoArm, GrowArm, Uncounting
<1>20. ASSUME NEW c \in Candidates, GrowAsksName(c) PROVE CountInv'
  <2>1. Counts /\ engine.at = "grow" /\ engine'.at = "grow name" /\ engine'.taken = engine.taken
        /\ ~ (engine.taken >= MaxConnect)
    BY <1>20 DEF GrowAsksName, GrowLimit, store, Shape
  <2>2. engine.taken < MaxConnect
    <3>1. engine.taken \in Nat /\ MaxConnect \in Nat /\ ~ (engine.taken >= MaxConnect)
      BY <1>0, <2>1, Limits
    <3>2. \A n, m \in Nat : ~ (n >= m) => n < m
      OBVIOUS
    <3>3. QED
      BY <3>1, <3>2
  <2>3. QED
    BY <2>1, <2>2, GrowMoves
<1>21. CASE ApplyStep
  BY <1>21, CountKept DEF ApplyStep, ConnectPrunes, ConnectAccepts
<1>22. ASSUME NEW s \in Symbols, NEW x \in Symbols, FilingRead(s, x) PROVE CountInv'
  BY <1>22, CountKept DEF FilingRead
<1>23. ASSUME NEW s \in Symbols, NEW c \in Candidates, LeadFound(s, c) PROVE CountInv'
  <2>1. Counts /\ Place
    BY <1>23 DEF LeadFound, Detached, Shape
  <2>2. QED
    BY <2>1, CountKept
<1>24. ASSUME NEW c \in Candidates, MonthlyScreen(c) \/ ConnectLooksUp(c) PROVE CountInv'
  BY <1>24, CountKept DEF MonthlyScreen, ConnectLooksUp, store
<1>25. ASSUME NEW c \in Candidates, NEW as \in {"anchor", "tradeable"}, ManualAccept(c, as)
       PROVE CountInv'
  BY <1>25, CountKept DEF ManualAccept
<1>26. CASE ResetAccepted
  BY <1>26, CountKept DEF ResetAccepted
<1>27. ASSUME NEW unfit \in SUBSET Candidates, Cleans(unfit) PROVE CountInv'
  BY <1>27, CountKept DEF Cleans
<1>28. ASSUME NEW c \in Candidates, NEW advice \in Screens[c], ScreenedAgain(c, advice)
       PROVE CountInv'
  BY <1>28, CountKept DEF ScreenedAgain
<1>29. CASE ConnectBegins \/ ConnectApplies
  BY <1>29, CountKept DEF ConnectBegins, ConnectApplies, store
<1>30. CASE NewDay
  <2>1. /\ auto' = [auto EXCEPT !.today = FALSE] /\ connector' = [connector EXCEPT !.today = FALSE]
        /\ tally'.auto = NoneYet /\ tally'.connector = NoneYet /\ engine' = engine
        /\ DOMAIN tally' = {"auto", "connector"}
        /\ engine.at \notin {"auto count"} \cup Uncounting
    BY <1>30 DEF NewDay, AtAwait, Uncounting
  <2>2. ArmInv(tally.auto, auto, MaxAuto, engine.at \in AutoArm, engine.taken, FALSE)
    BY <2>1 DEF CountInv, AutoInv, ArmInv
  <2>3. ArmInv(NoneYet, auto', MaxAuto, engine.at \in AutoArm, engine.taken, FALSE)
    BY <2>1, <2>2, ArmNight, Limits
  <2>4. ArmInv(tally.connector, connector, MaxConnect, engine.at \in GrowArm, engine.taken, FALSE)
    BY <2>1 DEF CountInv, GrowInv, ArmInv
  <2>5. ArmInv(NoneYet, connector', MaxConnect, engine.at \in GrowArm, engine.taken, FALSE)
    BY <2>1, <2>4, ArmNight, Limits
  <2>6. AutoInv'
    BY <2>1, <2>3 DEF CountInv, AutoInv, ArmInv
  <2>7. GrowInv'
    BY <2>1, <2>5 DEF CountInv, GrowInv, ArmInv
  <2>8. QED
    BY <2>1, <2>6, <2>7 DEF CountInv
<1>31. CASE Restart
  <2>0. engine'.at = "idle" /\ engine'.taken \in Nat
    BY <1>31 DEF Restart, Idle
  <2>1. auto' = auto /\ connector' = connector /\ tally' = Uncounted
    BY <1>31 DEF Restart, store
  <2>2. CASE engine.at = "auto count"
    <3>1. /\ tally'.auto = OneLost(tally.auto) /\ tally'.connector = tally.connector
          /\ DOMAIN tally' = DOMAIN tally
      BY <1>0, <2>1, <2>2 DEF Uncounted
    <3>2. ArmInv(tally.auto, auto, MaxAuto, TRUE, engine.taken, TRUE)
      BY <2>2 DEF CountInv, AutoInv, ArmInv, AutoArm
    <3>3. ArmInv(tally'.auto, auto, MaxAuto, FALSE, engine'.taken, FALSE)
      BY <2>0, <3>1, <3>2, ArmKilled, Limits
    <3>4. AutoInv'
      BY <2>0, <2>1, <3>3 DEF AutoInv, ArmInv, AutoArm
    <3>5. GrowInv'
      BY <1>g, <2>0, <2>1, <2>2, <3>1 DEF GrowArm
    <3>6. QED
      BY <1>0, <3>1, <3>4, <3>5 DEF CountInv
  <2>3. CASE engine.at \in Uncounting
    <3>1. /\ tally'.connector = OneLost(tally.connector) /\ tally'.auto = tally.auto
          /\ DOMAIN tally' = DOMAIN tally
      BY <1>0, <2>1, <2>3 DEF Uncounted, Uncounting
    <3>2. ArmInv(tally.connector, connector, MaxConnect, TRUE, engine.taken, TRUE)
      BY <2>3 DEF CountInv, GrowInv, ArmInv, GrowArm, Uncounting
    <3>3. ArmInv(tally'.connector, connector, MaxConnect, FALSE, engine'.taken, FALSE)
      BY <2>0, <3>1, <3>2, ArmKilled, Limits
    <3>4. GrowInv'
      BY <2>0, <2>1, <3>3 DEF GrowInv, ArmInv, GrowArm, Uncounting
    <3>5. AutoInv'
      BY <1>a, <2>0, <2>1, <2>3, <3>1 DEF AutoArm, Uncounting
    <3>6. QED
      BY <1>0, <3>1, <3>4, <3>5 DEF CountInv
  <2>4. CASE engine.at \notin {"auto count"} \cup Uncounting
    <3>1. tally' = tally
      BY <2>1, <2>4 DEF Uncounted, Uncounting
    <3>2. QED
      BY <2>0, <2>1, <2>4, <3>1, CountLeft DEF AutoArm, GrowArm, Uncounting
  <2>5. QED
    BY <2>2, <2>3, <2>4
<1>32. CASE UNCHANGED vars
  BY <1>32, CountKept DEF vars, store
<1>33. QED
  <2>1. CASE PassStep
    BY <1>1, <1>2, <1>3, <1>4, <1>5, <1>6, <1>7, <1>8, <1>9, <1>10, <1>11, <1>12, <1>13, <1>14,
       <1>15, <1>16, <1>17, <1>18, <1>19, <1>20, <2>1 DEF PassStep
  <2>2. CASE ~PassStep
    BY <1>21, <1>22, <1>23, <1>24, <1>25, <1>26, <1>27, <1>28, <1>29, <1>30, <1>31, <1>32,
       <2>2 DEF Next
  <2>3. QED
    BY <2>1, <2>2

----------------------------------------------------------------------------
(* Where the tasks are.                                                     *)

LEMMA ApplyKept == Shape /\ ApplyInv /\ [Next]_vars => ApplyInv'
<1> SUFFICES ASSUME Shape, ApplyInv, [Next]_vars, tool'.at = "apply" PROVE engine'.at \in Awaits
  BY DEF ApplyInv
<1>1. CASE PassStep
  <2>1. tool.at # "apply" /\ tool' = tool
    BY <1>1 DEF PassStep, StartPass, EnterAuto, AlertSent, NameMatches, NameDiffers, EnterReview,
       SymbolDropped, EnterGrow, Admits, GrowNameDiffers, Recorded, GrowDone, AutoCounts, GrowCounts,
       Screened, AutoSkips, AutoTakesAnchor, AutoAsksName, Promotes, RecordDropped, GrowSkips, GrowAsksName
  <2>2. QED
    BY <2>1
<1>2. CASE tool.at = "apply" /\ engine'.at = engine.at
  BY <1>2 DEF ApplyInv
<1>3. CASE Restart
  BY <1>3 DEF Restart, Idle, Awaits
<1>4. CASE ApplyStep
  <2>1. tool.at = "apply" /\ engine' = engine
    BY <1>4 DEF ApplyStep, ConnectPrunes, ConnectAccepts
  <2>2. QED
    BY <2>1 DEF ApplyInv
<1>5. ASSUME NEW s \in Symbols, NEW c \in Candidates, LeadFound(s, c) PROVE engine'.at \in Awaits
  BY <1>5 DEF LeadFound, AtAwait, Detached, Awaits, Shape
<1>6. CASE NewDay
  BY <1>6 DEF NewDay, AtAwait, Awaits
<1>7. ASSUME NEW s \in Symbols, NEW x \in Symbols, FilingRead(s, x) PROVE engine'.at \in Awaits
  BY <1>7 DEF FilingRead, Awaits
<1>8. ASSUME NEW c \in Candidates, MonthlyScreen(c) \/ ConnectLooksUp(c) PROVE engine'.at \in Awaits
  BY <1>8 DEF MonthlyScreen, ConnectLooksUp, AtAwait, Awaits
<1>9. ASSUME NEW c \in Candidates, NEW as \in {"anchor", "tradeable"}, ManualAccept(c, as)
      PROVE engine'.at \in Awaits
  BY <1>9 DEF ManualAccept, AtAwait, Awaits
<1>10. CASE ResetAccepted
  BY <1>10 DEF ResetAccepted, AtAwait, Awaits
<1>11. ASSUME NEW unfit \in SUBSET Candidates, Cleans(unfit) PROVE engine'.at \in Awaits
  BY <1>11 DEF Cleans, AtAwait, Awaits
<1>12. ASSUME NEW c \in Candidates, NEW advice \in Screens[c], ScreenedAgain(c, advice)
       PROVE engine'.at \in Awaits
  BY <1>12 DEF ScreenedAgain, AtAwait, Awaits
<1>13. CASE ConnectBegins \/ ConnectApplies
  BY <1>13 DEF ConnectBegins, ConnectApplies, AtAwait, Awaits
<1>14. CASE UNCHANGED vars
  BY <1>14 DEF vars, ApplyInv
<1>15. QED
  BY <1>1, <1>3, <1>4, <1>5, <1>6, <1>7, <1>8, <1>9, <1>10, <1>11, <1>12, <1>13, <1>14 DEF Next

----------------------------------------------------------------------------
(* The roles, the acceptances and the records.                              *)

(* What leaves them alone.                                                  *)
LEMMA RolesKept ==
  ASSUME AgreeInv, UNCHANGED <<role, accepted, probation>>, edges \subseteq edges',
         engine.at \notin Midway
  PROVE  AgreeInv' /\ (TradeInv => TradeInv')
<1> SUFFICES ASSUME NEW c \in Candidates
             PROVE  Agrees(c)' /\ (Held(c) => Held(c)')
  BY DEF AgreeInv, TradeInv
<1>1. Agrees(c)'
  BY DEF AgreeInv, Agrees, Rebuilt, OnProbation
<1>2. Joined(c) => Joined(c)'
  BY DEF Joined
<1>3. QED
  BY <1>1, <1>2 DEF Held, ByConnector, IsAccepted, OnProbation

(* An acceptance that is not the connector arm's.                           *)
LEMMA RolesAccept ==
  ASSUME Shape, AgreeInv, engine.at \notin Midway,
         NEW c \in Candidates, NEW as \in {"anchor", "tradeable"},
         NEW by \in {"manual", "auto", "connected"}, Accept(c, as, by, FALSE),
         UNCHANGED probation
  PROVE  AgreeInv' /\ (TradeInv => TradeInv')
<1>1. CASE role[c] # "out"
  <2>1. UNCHANGED <<role, accepted, edges>>
    BY <1>1 DEF Accept
  <2>2. QED
    BY <2>1, RolesKept
<1>2. CASE role[c] = "out"
  <2>1. /\ role' = [role EXCEPT ![c] = as]
        /\ accepted' = [accepted EXCEPT ![c] = [as |-> as, by |-> by]]
        /\ edges \subseteq edges'
    BY <1>2 DEF Accept
  <2> SUFFICES ASSUME NEW d \in Candidates
               PROVE  Agrees(d)' /\ (Held(d) => Held(d)')
    BY DEF AgreeInv, TradeInv
  <2>2. CASE d = c
    <3>1. role'[d] = as /\ accepted'[d] = [as |-> as, by |-> by]
      BY <2>1, <2>2 DEF Shape
    <3>2. [as |-> as, by |-> by] # Not
      BY DEF Not
    <3>3. accepted'[d] # Not /\ accepted'[d].as = as /\ accepted'[d].by # "connector"
      <4>1. accepted'[d] # Not
        BY <3>1, <3>2
      <4>2. accepted'[d].as = as /\ accepted'[d].by = by
        BY <3>1
      <4>3. QED
        BY <4>1, <4>2
    <3>4. Agrees(d)'
      BY <3>1, <3>3 DEF Agrees, Rebuilt
    <3>5. Held(d)'
      BY <3>3 DEF Held, ByConnector
    <3>6. QED
      BY <3>4, <3>5
  <2>3. CASE d # c
    <3>1. role'[d] = role[d] /\ accepted'[d] = accepted[d] /\ OnProbation(d)' = OnProbation(d)
      BY <2>1, <2>3 DEF Shape, OnProbation
    <3>2. Joined(d) => Joined(d)'
      BY <2>1 DEF Joined
    <3>3. Agrees(d)'
      BY <3>1 DEF AgreeInv, Agrees, Rebuilt
    <3>4. QED
      BY <3>1, <3>2, <3>3 DEF Held, ByConnector, IsAccepted
  <2>4. QED
    BY <2>2, <2>3
<1>3. QED
  BY <1>1, <1>2

(* The roles rebuilt from the disk.                                         *)
LEMMA AgreeRebuilt ==
  ASSUME NEW acc, Rebuild(acc), UNCHANGED probation
  PROVE  AgreeInv'
BY DEF Rebuild, RebuiltRoles, Rebuilt, AgreeInv, Agrees, OnProbation

LEMMA TradeRebuilt ==
  ASSUME Shape, TradeInv, engine.at \notin Midway, NEW acc \in [Candidates -> Acceptance \cup {Not}],
         \A c \in Candidates : acc[c] \in {accepted[c], Not},
         Rebuild(acc), UNCHANGED <<probation, edges>>
  PROVE  TradeInv'
<1> SUFFICES ASSUME NEW c \in Candidates PROVE Held(c)'
  BY DEF TradeInv
<1>1. accepted'[c] = acc[c] /\ role'[c] = Rebuilt(acc, c) /\ acc[c] \in {accepted[c], Not}
  BY DEF Rebuild, RebuiltRoles
<1>2. Joined(c)' = Joined(c) /\ OnProbation(c)' = OnProbation(c) /\ Held(c)
  BY DEF Joined, OnProbation, TradeInv
<1>3. CASE acc[c] = Not
  BY <1>1, <1>3 DEF Held, ByConnector, IsAccepted
<1>4. CASE acc[c] = accepted[c] /\ acc[c] # Not
  BY <1>1, <1>2, <1>4 DEF Held, Rebuilt, ByConnector, IsAccepted
<1>5. QED
  BY <1>1, <1>3, <1>4

(* A record names no trade target, and the review promotes what is joined.  *)
LEMMA RecordStep == Shape /\ RecordInv /\ [Next]_vars => RecordInv'
<1> SUFFICES ASSUME Shape, RecordInv, [Next]_vars PROVE RecordInv'
  OBVIOUS
<1> USE DEF Reviewing
<1> DEFINE Edged == edges \subseteq edges'
           Anch == engine'.inert \subseteq Symbols \ Tradeables
           Recd == \A c \in Candidates :
                     OnProbation(c)' => probation'[c].anchors \subseteq Symbols \ Tradeables
           Todo == engine'.at \in Reviewing => \A c \in engine'.todo : Joined(c)'
<1>1. Anch /\ Recd /\ Todo => RecordInv'
  BY DEF RecordInv
<1>2. ASSUME UNCHANGED probation PROVE Recd
  BY <1>2 DEF RecordInv, OnProbation
<1>3. ASSUME NEW c, Edged, Joined(c) PROVE Joined(c)'
  BY <1>3 DEF Joined
<1>4. CASE UNCHANGED probation /\ Edged /\ engine'.inert = engine.inert
           /\ engine'.at \notin Reviewing
  BY <1>2, <1>4 DEF RecordInv
<1>5. CASE UNCHANGED probation /\ Edged /\ engine'.inert = engine.inert
           /\ engine.at \in Reviewing /\ engine'.todo \subseteq engine.todo
  BY <1>2, <1>3, <1>5 DEF RecordInv
<1>6. CASE UNCHANGED probation /\ engine' = Idle
  BY <1>2, <1>6 DEF RecordInv, Idle
<1>7. CASE UNCHANGED <<probation, engine>> /\ Edged
  BY <1>2, <1>3, <1>7 DEF RecordInv
<1> HIDE DEF Edged, Anch, Recd, Todo
<1>8. Next \/ UNCHANGED vars
  OBVIOUS
<1>9. ASSUME NEW c \in Candidates, NEW as, NEW by, NEW onProbation, Accept(c, as, by, onProbation) PROVE Edged
  BY <1>9 DEF Accept, Edged
<1>10. CASE StartPass \/ EnterAuto \/ NameDiffers \/ GrowNameDiffers
  <2>1. UNCHANGED <<probation, edges>> /\ engine'.inert = engine.inert
    BY <1>10 DEF StartPass, EnterAuto, NameDiffers, GrowNameDiffers, store, Shape
  <2>2. engine'.at \notin Reviewing
    BY <1>10 DEF StartPass, EnterAuto, NameDiffers, GrowNameDiffers, Shape
  <2>3. QED
    BY <1>4, <2>1, <2>2 DEF Edged
<1>11. CASE AlertSent
  <2>1. /\ UNCHANGED <<probation, edges>> /\ engine'.inert = engine.inert
        /\ engine'.todo = engine.todo
    BY <1>11 DEF AlertSent, store, Shape
  <2>2. CASE engine.at = "review alert"
    BY <1>5, <2>1, <2>2 DEF Edged
  <2>3. CASE engine'.at \in {"auto", "grow"}
    BY <1>4, <2>1, <2>3 DEF Edged
  <2>4. QED
    BY <1>11, <2>2, <2>3 DEF AlertSent, Shape
<1>12. CASE NameMatches
  <2>1. CASE AutoAccepts(engine.sym)
    <3>1. UNCHANGED probation /\ engine'.inert = engine.inert /\ engine'.at = "auto count"
      BY <2>1 DEF AutoAccepts, Shape
    <3>2. engine.sym \in Candidates /\ Accept(engine.sym, row[engine.sym].advice, "auto", FALSE)
      BY <1>12, <2>1 DEF NameMatches, AutoAccepts, Shape, WithSymbol
    <3>3. QED
      BY <1>4, <1>9, <3>1, <3>2
  <2>2. CASE engine' = Idle /\ UNCHANGED store
    BY <1>6, <2>2 DEF store
  <2>3. QED
    BY <1>12, <2>1, <2>2 DEF NameMatches
<1>13. CASE EnterReview
  <2>1. /\ UNCHANGED <<probation, edges>> /\ engine'.inert = {}
        /\ engine'.todo = {c \in Candidates : Confirmed(c)}
    BY <1>13 DEF EnterReview, Idle, store
  <2>2. ASSUME NEW c \in Candidates, Confirmed(c) PROVE Joined(c)
    <3>1. PICK s \in Symbols : {c, s} \in edges /\ s \in probation[c].anchors
      BY <2>2 DEF Confirmed, Neighbours
    <3>2. s \in Symbols \ Tradeables
      BY <2>2, <3>1 DEF Confirmed, RecordInv
    <3>3. {s, c} = {c, s}
      OBVIOUS
    <3>4. QED
      BY <3>1, <3>2, <3>3 DEF Joined
  <2>3. Todo
    BY <1>3, <2>1, <2>2 DEF Todo, Edged
  <2>4. QED
    BY <1>1, <1>2, <2>1, <2>3 DEF Anch
<1>14. CASE SymbolDropped
  <2>1. UNCHANGED <<probation, edges>> /\ engine'.inert = engine.inert /\ engine'.todo = engine.todo
    BY <1>14 DEF SymbolDropped, Shape
  <2>2. engine.at = "review drop" /\ engine'.at = "review"
    BY <1>14 DEF SymbolDropped, Shape
  <2>3. QED
    BY <1>5, <2>1, <2>2 DEF Edged
<1>15. CASE EnterGrow
  <2>1. /\ UNCHANGED <<probation, edges>> /\ engine'.inert = InertAnchors /\ engine'.at = "grow"
    BY <1>15 DEF EnterGrow, Idle
  <2>2. InertAnchors \subseteq Symbols \ Tradeables
    BY UniverseAssumption DEF InertAnchors, AnchorSide, InRole, Symbols, Curated
  <2>3. QED
    BY <1>1, <1>2, <2>1, <2>2 DEF Anch, Todo
<1>16. CASE Admits
  <2>1. UNCHANGED probation /\ engine'.inert = engine.inert /\ engine'.at = "grow record"
    BY <1>16 DEF Admits, Shape
  <2>2. engine.sym \in Candidates /\ Accept(engine.sym, "tradeable", "connector", TRUE)
    BY <1>16 DEF Admits, Shape, WithSymbol
  <2>3. QED
    BY <1>4, <1>9, <2>1, <2>2
<1>17. CASE Recorded
  <2>1. /\ engine'.inert = engine.inert /\ engine'.at = "grow count"
        /\ probation' = [probation EXCEPT ![engine.sym] =
              [days |-> 0, anchors |-> ConnectorTargets(engine.sym, engine.inert)]]
    BY <1>17 DEF Recorded, Shape
  <2>2. ConnectorTargets(engine.sym, engine.inert) \subseteq Symbols \ Tradeables
    BY DEF ConnectorTargets, RecordInv
  <2>3. Recd
    BY <2>1, <2>2 DEF Recd, RecordInv, OnProbation, Shape
  <2>4. QED
    BY <1>1, <2>1, <2>3 DEF Anch, Todo, RecordInv
<1>18. CASE GrowDone \/ AutoCounts \/ GrowCounts
  <2>1. CASE GrowDone
    BY <1>6, <2>1 DEF GrowDone, store
  <2>2. CASE AutoCounts \/ GrowCounts
    <3>1. UNCHANGED <<probation, edges>> /\ engine'.inert = engine.inert
          /\ engine'.at \in {"auto alert", "grow alert"}
      BY <2>2 DEF AutoCounts, GrowCounts, Shape
    <3>2. QED
      BY <1>4, <3>1 DEF Edged
  <2>3. QED
    BY <1>18, <2>1, <2>2
<1>19. ASSUME NEW c \in Candidates, NEW advice \in Screens[c], Screened(c, advice) PROVE RecordInv'
  <2>1. UNCHANGED <<probation, edges>> /\ engine'.inert = engine.inert /\ engine'.at = "recheck"
    BY <1>19 DEF Screened, Done, Shape
  <2>2. QED
    BY <1>4, <2>1 DEF Edged
<1>20. ASSUME NEW c \in Candidates, AutoSkips(c) \/ AutoAsksName(c) PROVE RecordInv'
  <2>1. UNCHANGED <<probation, edges>>
    BY <1>20 DEF AutoSkips, AutoAsksName, store
  <2>2. engine'.inert = engine.inert /\ engine'.at \in {"auto", "auto name"}
    BY <1>20 DEF AutoSkips, AutoAsksName, Shape
  <2>3. QED
    BY <1>4, <2>1, <2>2 DEF Edged
<1>21. ASSUME NEW c \in Candidates, AutoTakesAnchor(c) PROVE RecordInv'
  <2>1. AutoAccepts(c)
    BY <1>21 DEF AutoTakesAnchor
  <2>2. UNCHANGED probation /\ engine'.inert = engine.inert /\ engine'.at = "auto count"
    BY <2>1 DEF AutoAccepts, Shape
  <2>3. QED
    BY <1>4, <1>9, <2>1, <2>2 DEF AutoAccepts
<1>22. ASSUME NEW c \in Candidates, Promotes(c) \/ RecordDropped(c) PROVE RecordInv'
  <2>1. /\ probation' = [probation EXCEPT ![c] = Not] /\ edges' = edges
        /\ engine.at = "review"
    BY <1>22 DEF Promotes, RecordDropped
  <2>2. engine'.inert = engine.inert /\ engine'.todo \subseteq engine.todo
    <3>1. CASE Promotes(c)
      BY <3>1 DEF Promotes, Shape
    <3>2. CASE RecordDropped(c)
      BY <3>2 DEF RecordDropped, Shape
    <3>3. QED
      BY <1>22, <3>1, <3>2
  <2>3. Recd
    BY <2>1 DEF Recd, RecordInv, OnProbation, Shape
  <2>4. \A d \in engine'.todo : Joined(d)'
    BY <1>3, <2>1, <2>2 DEF RecordInv, Edged
  <2>5. QED
    BY <1>1, <2>2, <2>3, <2>4 DEF Anch, Todo, RecordInv
<1>23. ASSUME NEW c \in Candidates, GrowSkips(c) \/ GrowAsksName(c) PROVE RecordInv'
  <2>1. UNCHANGED <<probation, edges>>
    BY <1>23 DEF GrowSkips, GrowAsksName, store
  <2>2. engine'.inert = engine.inert /\ engine'.at \in {"grow", "grow name"}
    BY <1>23 DEF GrowSkips, GrowAsksName, Shape
  <2>3. QED
    BY <1>4, <2>1, <2>2 DEF Edged
<1>24. CASE ApplyStep
  <2>1. UNCHANGED <<probation, engine>>
    BY <1>24 DEF ApplyStep, ConnectPrunes, ConnectAccepts
  <2>2. CASE ConnectPrunes
    BY <1>7, <2>1, <2>2 DEF ConnectPrunes, Edged
  <2>3. ASSUME NEW c \in Candidates, NEW as \in {"anchor", "tradeable"}, ConnectAccepts(c, as) PROVE Edged
    BY <1>9, <2>3 DEF ConnectAccepts, Edged
  <2>4. QED
    BY <1>7, <1>24, <2>1, <2>2, <2>3 DEF ApplyStep
<1>25. ASSUME NEW s \in Symbols, NEW x \in Symbols, FilingRead(s, x) PROVE RecordInv'
  BY <1>7, <1>25 DEF FilingRead, Edged
<1>26. ASSUME NEW s \in Symbols, NEW c \in Candidates, LeadFound(s, c) PROVE RecordInv'
  <2>1. /\ UNCHANGED <<probation, edges>> /\ engine'.inert = engine.inert
        /\ engine'.todo = engine.todo /\ engine'.at = engine.at
    BY <1>26 DEF LeadFound, Detached, Shape
  <2>2. QED
    BY <1>4, <1>5, <2>1 DEF Edged
<1>27. ASSUME NEW c \in Candidates, MonthlyScreen(c) \/ ConnectLooksUp(c) PROVE RecordInv'
  BY <1>7, <1>27 DEF MonthlyScreen, ConnectLooksUp, store, Edged
<1>28. ASSUME NEW c \in Candidates, NEW as \in {"anchor", "tradeable"}, ManualAccept(c, as)
       PROVE RecordInv'
  BY <1>7, <1>9, <1>28 DEF ManualAccept
<1>29. CASE ResetAccepted
  BY <1>7, <1>29 DEF ResetAccepted, Edged
<1>30. ASSUME NEW unfit \in SUBSET Candidates, Cleans(unfit) PROVE RecordInv'
  BY <1>7, <1>30 DEF Cleans, Edged
<1>31. ASSUME NEW c \in Candidates, NEW advice \in Screens[c], ScreenedAgain(c, advice)
       PROVE RecordInv'
  BY <1>7, <1>31 DEF ScreenedAgain, Edged
<1>32. CASE ConnectBegins \/ ConnectApplies
  BY <1>7, <1>32 DEF ConnectBegins, ConnectApplies, store, Edged
<1>33. CASE NewDay
  <2>1. probation' = [c \in Candidates |-> Aged(probation[c])] /\ UNCHANGED <<edges, engine>>
    BY <1>33 DEF NewDay
  <2>2. Recd
    <3> SUFFICES ASSUME NEW c \in Candidates, OnProbation(c)'
                 PROVE  probation'[c].anchors \subseteq Symbols \ Tradeables
      BY DEF Recd
    <3>1. /\ Aged(probation[c]) = Not <=> probation[c] = Not
          /\ probation[c] # Not => Aged(probation[c]).anchors = probation[c].anchors
      BY AgedKept DEF Shape
    <3>2. QED
      BY <2>1, <3>1 DEF OnProbation, RecordInv
  <2>3. Todo
    BY <1>3, <2>1 DEF Todo, RecordInv, Edged
  <2>4. QED
    BY <1>1, <2>1, <2>2, <2>3 DEF Anch, RecordInv
<1>34. CASE Restart
  BY <1>6, <1>34 DEF Restart, store
<1>35. CASE UNCHANGED vars
  BY <1>7, <1>35 DEF vars, store, Edged
<1>36. QED
  <2>1. CASE PassStep
    BY <1>10, <1>11, <1>12, <1>13, <1>14, <1>15, <1>16, <1>17, <1>18, <1>19, <1>20, <1>21,
       <1>22, <1>23, <2>1 DEF PassStep
  <2>2. CASE ~PassStep
    BY <1>24, <1>25, <1>26, <1>27, <1>28, <1>29, <1>30, <1>31, <1>32, <1>33, <1>34, <1>35,
       <2>2 DEF Next
  <2>3. QED
    BY <2>1, <2>2

(* The roles and the disk agree, and nothing of the connector arm trades on *)
(* the lead that admitted it.                                               *)
LEMMA RolesStep ==
  Shape /\ ApplyInv /\ RecordInv /\ RolesInv /\ [Next]_vars => RolesInv'
<1> SUFFICES ASSUME Shape, ApplyInv, RecordInv, RolesInv, [Next]_vars PROVE RolesInv'
  OBVIOUS
<1> USE DEF Midway, Awaits, WithSymbol
<1>1. AgreeInv /\ (~ HardKill => TradeInv)
  BY DEF RolesInv
<1>2. ASSUME UNCHANGED <<role, accepted, probation>>, edges \subseteq edges', engine.at \notin Midway
      PROVE  RolesInv'
  BY <1>1, <1>2, RolesKept DEF RolesInv
<1>3. ASSUME engine.at \notin Midway, NEW c \in Candidates, NEW as \in {"anchor", "tradeable"},
             NEW by \in {"manual", "auto", "connected"}, Accept(c, as, by, FALSE),
             UNCHANGED probation
      PROVE  RolesInv'
  BY <1>1, <1>3, RolesAccept DEF RolesInv
<1>4. ASSUME engine.at \notin Midway, NEW acc \in [Candidates -> Acceptance \cup {Not}],
             \A c \in Candidates : acc[c] \in {accepted[c], Not},
             Rebuild(acc), UNCHANGED <<probation, edges>>
      PROVE  RolesInv'
  <2>1. AgreeInv'
    BY <1>4, AgreeRebuilt
  <2>2. TradeInv => TradeInv'
    BY <1>4, TradeRebuilt
  <2>3. QED
    BY <1>1, <2>1, <2>2 DEF RolesInv
<1>5. CASE StartPass \/ AlertSent \/ NameDiffers \/ EnterReview \/ EnterGrow \/ GrowNameDiffers
           \/ GrowDone \/ AutoCounts \/ GrowCounts
  <2>1. UNCHANGED <<role, accepted, probation, edges>>
    BY <1>5 DEF StartPass, AlertSent, NameDiffers, EnterReview, EnterGrow, GrowNameDiffers,
       GrowDone, AutoCounts, GrowCounts, store
  <2>2. engine.at \notin Midway
    BY <1>5 DEF StartPass, AlertSent, NameDiffers, EnterReview, EnterGrow, GrowNameDiffers,
       GrowDone, AutoCounts, GrowCounts
  <2>3. QED
    BY <1>2, <2>1, <2>2
<1>6. CASE EnterAuto
  <2>1. engine.at \notin Midway /\ UNCHANGED <<probation, edges>> /\ CorrectTypes
    BY <1>6 DEF EnterAuto
  <2> SUFFICES ASSUME NEW c \in Candidates PROVE Agrees(c)' /\ (Held(c) => Held(c)')
    BY <1>1, <2>1 DEF RolesInv, AgreeInv, TradeInv
  <2>2. OnProbation(c)' = OnProbation(c) /\ Joined(c)' = Joined(c)
    BY <2>1 DEF OnProbation, Joined
  <2>3. Agrees(c)
    BY <1>1, <2>1 DEF AgreeInv
  <2>4. CASE Corrected(c)
    <3>1. accepted'[c] = [accepted[c] EXCEPT !.as = "anchor"] /\ accepted[c] \in Acceptance
          /\ role'[c] = IF role[c] # "out" THEN "anchor" ELSE role[c]
      BY <2>1, <2>4 DEF CorrectTypes, Shape, Corrected, IsAccepted
    <3>2. accepted'[c] \in Acceptance /\ accepted'[c].as = "anchor"
      BY <3>1 DEF Acceptance
    <3>3. role[c] # "out"
      BY <2>3, <2>4 DEF Agrees, Rebuilt, Corrected, IsAccepted
    <3>4. accepted'[c] # Not
      BY <3>2, Records
    <3>5. QED
      BY <3>1, <3>2, <3>3, <3>4 DEF Agrees, Rebuilt, Held
  <2>5. CASE ~ Corrected(c)
    <3>1. accepted'[c] = accepted[c] /\ role'[c] = role[c]
      BY <2>1, <2>5 DEF CorrectTypes
    <3>2. QED
      BY <2>2, <2>3, <3>1 DEF Agrees, Rebuilt, Held, ByConnector, IsAccepted
  <2>6. QED
    BY <2>4, <2>5
<1>7. CASE NameMatches
  <2>1. engine.sym \in Candidates /\ engine.at \notin Midway
    BY <1>7 DEF NameMatches, Shape
  <2>2. CASE AutoAccepts(engine.sym)
    <3>1. Accept(engine.sym, row[engine.sym].advice, "auto", FALSE) /\ UNCHANGED probation
      BY <2>2 DEF AutoAccepts
    <3>2. CASE role[engine.sym] # "out"
      BY <1>2, <2>1, <3>1, <3>2 DEF Accept
    <3>3. CASE role[engine.sym] = "out"
      <4>1. engine' # Idle
        BY <2>2 DEF AutoAccepts, Idle, Shape
      <4>2. row[engine.sym].advice = "tradeable"
        BY <1>7, <3>3, <4>1 DEF NameMatches, Refuses
      <4>3. QED
        BY <1>3, <2>1, <3>1, <4>2
    <3>4. QED
      BY <3>2, <3>3
  <2>3. CASE UNCHANGED <<role, store>>
    BY <1>2, <2>1, <2>3 DEF store
  <2>4. QED
    BY <1>7, <2>2, <2>3 DEF NameMatches
<1>8. CASE SymbolDropped
  <2>1. /\ engine.at = "review drop" /\ engine.sym \in Candidates
        /\ role' = [role EXCEPT ![engine.sym] = "out"]
        /\ accepted' = [accepted EXCEPT ![engine.sym] = Not]
        /\ UNCHANGED <<probation, edges>>
    BY <1>8 DEF SymbolDropped, Out, Shape
  <2> SUFFICES ASSUME NEW c \in Candidates PROVE Agrees(c)' /\ (~ HardKill => Held(c)')
    BY DEF RolesInv, AgreeInv, TradeInv
  <2>2. CASE c = engine.sym
    <3>1. role'[c] = "out" /\ accepted'[c] = Not
      BY <2>1, <2>2 DEF Shape
    <3>2. QED
      BY <3>1 DEF Agrees, Rebuilt, Held, ByConnector, IsAccepted
  <2>3. CASE c # engine.sym
    <3>1. role'[c] = role[c] /\ accepted'[c] = accepted[c]
      BY <2>1, <2>3 DEF Shape
    <3>2. OnProbation(c)' = OnProbation(c) /\ Joined(c)' = Joined(c)
      BY <2>1 DEF OnProbation, Joined
    <3>3. Agrees(c) /\ (~ HardKill => Held(c))
      BY <1>1, <2>3 DEF AgreeInv, TradeInv
    <3>4. QED
      BY <3>1, <3>2, <3>3 DEF Agrees, Rebuilt, Held, ByConnector, IsAccepted
  <2>4. QED
    BY <2>2, <2>3
<1>9. CASE Admits
  <2>1. /\ engine.at = "grow name" /\ engine'.at = "grow record" /\ engine'.sym = engine.sym
        /\ engine.sym \in Candidates /\ probation' = probation
        /\ Accept(engine.sym, "tradeable", "connector", TRUE)
    BY <1>9 DEF Admits, Shape
  <2>2. CASE role[engine.sym] # "out"
    BY <1>2, <2>1, <2>2 DEF Accept
  <2>3. CASE role[engine.sym] = "out"
    <3>1. /\ role' = [role EXCEPT ![engine.sym] = "probation"]
          /\ accepted' = [accepted EXCEPT ![engine.sym] = [as |-> "tradeable", by |-> "connector"]]
          /\ edges \subseteq edges'
      BY <2>1, <2>3 DEF Accept
    <3> DEFINE Half(c) == engine'.at \in Midway /\ engine'.sym = c /\ role'[c] = "probation"
                          /\ IsAccepted(c)' /\ accepted'[c].as = "tradeable"
    <3> SUFFICES ASSUME NEW c \in Candidates
                 PROVE  Half(c) \/ (Agrees(c)' /\ (Held(c) => Held(c)'))
      BY <1>1, <2>1 DEF RolesInv, AgreeInv, TradeInv
    <3>2. CASE c = engine.sym
      <4>1. role'[c] = "probation" /\ accepted'[c] = [as |-> "tradeable", by |-> "connector"]
        BY <2>1, <3>1, <3>2 DEF Shape
      <4>2. [as |-> "tradeable", by |-> "connector"] # Not
        BY DEF Not
      <4>3. IsAccepted(c)' /\ accepted'[c].as = "tradeable"
        BY <4>1, <4>2 DEF IsAccepted
      <4>4. QED
        BY <2>1, <3>2, <4>1, <4>3
    <3>3. CASE c # engine.sym
      <4>1. role'[c] = role[c] /\ accepted'[c] = accepted[c]
        BY <3>1, <3>3 DEF Shape
      <4>2. OnProbation(c)' = OnProbation(c) /\ (Joined(c) => Joined(c)')
        BY <2>1, <3>1 DEF OnProbation, Joined
      <4>3. Agrees(c)
        BY <1>1, <2>1 DEF AgreeInv
      <4>4. QED
        BY <4>1, <4>2, <4>3 DEF Agrees, Rebuilt, Held, ByConnector, IsAccepted
    <3>4. QED
      BY <3>2, <3>3
  <2>4. QED
    BY <2>2, <2>3
<1>10. CASE Recorded
  <2> DEFINE record == [days |-> 0, anchors |-> ConnectorTargets(engine.sym, engine.inert)]
  <2>1. /\ engine.at = "grow record" /\ engine.sym \in Candidates
        /\ probation' = [probation EXCEPT ![engine.sym] = record]
        /\ UNCHANGED <<role, accepted, edges>>
    BY <1>10 DEF Recorded, Shape
  <2>2. record # Not
    BY DEF Not
  <2> HIDE DEF record
  <2> SUFFICES ASSUME NEW c \in Candidates PROVE Agrees(c)' /\ (~ HardKill => Held(c)')
    BY DEF RolesInv, AgreeInv, TradeInv
  <2>3. CASE c = engine.sym
    <3>1. OnProbation(c)' /\ role'[c] = role[c] /\ accepted'[c] = accepted[c]
      BY <2>1, <2>2, <2>3 DEF OnProbation, Shape
    <3>2. accepted[c] # Not => accepted[c].as \in {"anchor", "tradeable"}
      BY Records DEF Shape
    <3>3. \/ Agrees(c)
          \/ role[c] = "probation" /\ IsAccepted(c) /\ accepted[c].as = "tradeable"
      BY <1>1, <2>1 DEF AgreeInv
    <3>4. Agrees(c)'
      BY <3>1, <3>2, <3>3 DEF Agrees, Rebuilt, IsAccepted
    <3>5. Joined(c)' = Joined(c)
      BY <2>1 DEF Joined
    <3>6. ~ HardKill => Held(c) \/ role[c] # "tradeable"
      BY <1>1 DEF TradeInv
    <3>7. QED
      BY <3>1, <3>4, <3>5, <3>6 DEF Held, ByConnector, IsAccepted
  <2>4. CASE c # engine.sym
    <3>1. role'[c] = role[c] /\ accepted'[c] = accepted[c]
      BY <2>1
    <3>2. OnProbation(c)' = OnProbation(c) /\ Joined(c)' = Joined(c)
      BY <2>1, <2>4 DEF OnProbation, Joined, Shape
    <3>3. Agrees(c) /\ (~ HardKill => Held(c))
      BY <1>1, <2>4 DEF AgreeInv, TradeInv
    <3>4. QED
      BY <3>1, <3>2, <3>3 DEF Agrees, Rebuilt, Held, ByConnector, IsAccepted
  <2>5. QED
    BY <2>3, <2>4
<1>11. ASSUME NEW c \in Candidates, NEW advice \in Screens[c], Screened(c, advice) PROVE RolesInv'
  BY <1>2, <1>11 DEF Screened
<1>12. ASSUME NEW c \in Candidates, AutoSkips(c) \/ AutoAsksName(c) PROVE RolesInv'
  BY <1>2, <1>12 DEF AutoSkips, AutoAsksName, store
<1>13. ASSUME NEW c \in Candidates, AutoTakesAnchor(c) PROVE RolesInv'
  <2>1. engine.at \notin Midway /\ row[c].advice = "anchor" /\ AutoAccepts(c)
    BY <1>13 DEF AutoTakesAnchor, AutoAnchor
  <2>2. Accept(c, "anchor", "auto", FALSE) /\ UNCHANGED probation
    BY <2>1 DEF AutoAccepts
  <2>3. QED
    BY <1>3, <2>1, <2>2
<1>14. ASSUME NEW c \in Candidates, GrowSkips(c) \/ GrowAsksName(c) PROVE RolesInv'
  BY <1>2, <1>14 DEF GrowSkips, GrowAsksName, store
<1>15. ASSUME NEW c \in Candidates, Promotes(c) PROVE RolesInv'
  <2>1. /\ engine.at = "review" /\ c \in engine.todo /\ UNCHANGED <<accepted, edges>>
        /\ probation' = [probation EXCEPT ![c] = Not]
        /\ role' = [role EXCEPT ![c] = IF role[c] = "probation" THEN "tradeable" ELSE role[c]]
    BY <1>15 DEF Promotes
  <2>2. Joined(c)'
    BY <2>1 DEF RecordInv, Reviewing, Joined
  <2> SUFFICES ASSUME NEW d \in Candidates PROVE Agrees(d)' /\ (Held(d) => Held(d)')
    BY <1>1, <2>1 DEF RolesInv, AgreeInv, TradeInv
  <2>3. Agrees(d)
    BY <1>1, <2>1 DEF AgreeInv
  <2>4. CASE d = c
    <3>1. /\ ~ OnProbation(d)' /\ accepted'[d] = accepted[d]
          /\ role'[d] = IF role[d] = "probation" THEN "tradeable" ELSE role[d]
      BY <2>1, <2>4 DEF OnProbation, Shape
    <3>2. accepted[d] # Not => accepted[d].as \in {"anchor", "tradeable"}
      BY Records DEF Shape
    <3>3. Agrees(d)'
      BY <2>3, <3>1, <3>2 DEF Agrees, Rebuilt
    <3>4. QED
      BY <2>2, <2>4, <3>3 DEF Held
  <2>5. CASE d # c
    <3>1. role'[d] = role[d] /\ accepted'[d] = accepted[d]
      BY <2>1, <2>5 DEF Shape
    <3>2. OnProbation(d)' = OnProbation(d) /\ Joined(d)' = Joined(d)
      BY <2>1, <2>5 DEF OnProbation, Joined, Shape
    <3>3. QED
      BY <2>3, <3>1, <3>2 DEF Agrees, Rebuilt, Held, ByConnector, IsAccepted
  <2>6. QED
    BY <2>4, <2>5
<1>16. ASSUME NEW c \in Candidates, RecordDropped(c) PROVE RolesInv'
  <2>1. /\ engine.at = "review" /\ engine'.at = "review drop" /\ engine'.sym = c
        /\ UNCHANGED <<role, accepted, edges>>
        /\ probation' = [probation EXCEPT ![c] = Not] /\ c \in engine.drop
    BY <1>16 DEF RecordDropped, Shape
  <2>2. ASSUME NEW d \in Candidates, d # c PROVE Agrees(d)' /\ (Held(d) => Held(d)')
    <3>1. OnProbation(d)' = OnProbation(d) /\ Joined(d)' = Joined(d)
      BY <2>1, <2>2 DEF OnProbation, Joined, Shape
    <3>2. Agrees(d)
      BY <1>1, <2>1 DEF AgreeInv
    <3>3. QED
      BY <2>1, <3>1, <3>2 DEF Agrees, Rebuilt, Held, ByConnector, IsAccepted
  <2>3. AgreeInv'
    BY <2>1, <2>2 DEF AgreeInv
  <2>4. Held(c) => Held(c)' \/ role'[c] # "tradeable"
    BY <2>1 DEF Held, ByConnector, IsAccepted, Joined
  <2>5. TradeInv => TradeInv'
    BY <2>1, <2>2, <2>4 DEF TradeInv
  <2>6. QED
    BY <1>1, <2>3, <2>5 DEF RolesInv
<1>17. ASSUME NEW c \in Candidates, NEW as \in {"anchor", "tradeable"}, ConnectAccepts(c, as)
       PROVE RolesInv'
  <2>1. engine.at \notin Midway /\ UNCHANGED probation
    BY <1>17 DEF ConnectAccepts, ApplyInv
  <2>2. CASE UNCHANGED <<role, accepted, edges>>
    BY <1>2, <2>1, <2>2
  <2>3. CASE Accept(c, as, "connected", FALSE)
    BY <1>3, <2>1, <2>3
  <2>4. QED
    BY <1>17, <2>2, <2>3 DEF ConnectAccepts
<1>18. CASE ConnectPrunes
  <2>1. engine.at \notin Midway /\ UNCHANGED <<probation, edges>>
    BY <1>18 DEF ConnectPrunes, ApplyInv
  <2>2. CASE UNCHANGED <<role, accepted>>
    BY <1>2, <2>1, <2>2
  <2>3. ASSUME NEW inert, Rebuild([c \in Candidates |-> IF c \in inert THEN Not ELSE accepted[c]])
        PROVE  RolesInv'
    <3> DEFINE acc == [c \in Candidates |-> IF c \in inert THEN Not ELSE accepted[c]]
    <3>1. /\ acc \in [Candidates -> Acceptance \cup {Not}]
          /\ \A c \in Candidates : acc[c] \in {accepted[c], Not}
      BY DEF Shape
    <3>2. Rebuild(acc)
      BY <2>3
    <3> HIDE DEF acc
    <3>3. QED
      BY <1>4, <2>1, <3>1, <3>2
  <2>4. QED
    BY <1>18, <2>2, <2>3 DEF ConnectPrunes
<1>19. ASSUME NEW s \in Symbols, NEW x \in Symbols, FilingRead(s, x) PROVE RolesInv'
  BY <1>2, <1>19 DEF FilingRead
<1>20. ASSUME NEW s \in Symbols, NEW c \in Candidates, LeadFound(s, c) PROVE RolesInv'
  BY <1>2, <1>20 DEF LeadFound, AtAwait
<1>21. ASSUME NEW c \in Candidates, MonthlyScreen(c) PROVE RolesInv'
  <2>1. engine.at \notin Midway /\ UNCHANGED <<probation, edges>> /\ IsAccepted(c)
    BY <1>21 DEF MonthlyScreen
  <2> SUFFICES ASSUME NEW d \in Candidates PROVE Agrees(d)' /\ (Held(d) => Held(d)')
    BY <1>1, <2>1 DEF RolesInv, AgreeInv, TradeInv
  <2>2. Agrees(d) /\ OnProbation(d)' = OnProbation(d) /\ Joined(d)' = Joined(d)
    BY <1>1, <2>1 DEF AgreeInv, OnProbation, Joined
  <2>3. CASE d = c /\ Out(c)
    <3>1. role'[d] = "out" /\ accepted'[d] = Not
      BY <2>3 DEF Out, Shape
    <3>2. QED
      BY <3>1 DEF Agrees, Rebuilt, Held, ByConnector, IsAccepted
  <2>4. CASE /\ d = c /\ accepted' = [accepted EXCEPT ![c].as = "anchor"]
             /\ role' = [role EXCEPT ![c] = "anchor"]
    <3>1. accepted[c] \in Acceptance
      BY <2>1 DEF IsAccepted, Shape
    <3>2. accepted'[d] = [accepted[c] EXCEPT !.as = "anchor"] /\ role'[d] = "anchor"
      BY <2>4 DEF Shape
    <3>3. accepted'[d] \in Acceptance /\ accepted'[d].as = "anchor"
      BY <3>1, <3>2 DEF Acceptance
    <3>4. accepted'[d] # Not
      BY <3>3, Records
    <3>5. QED
      BY <3>2, <3>3, <3>4 DEF Agrees, Rebuilt, Held
  <2>5. CASE d # c
    <3>1. role'[d] = role[d] /\ accepted'[d] = accepted[d]
      BY <1>21, <2>5 DEF MonthlyScreen, Out, Shape
    <3>2. QED
      BY <2>2, <3>1 DEF Agrees, Rebuilt, Held, ByConnector, IsAccepted
  <2>6. QED
    BY <1>21, <2>3, <2>4, <2>5 DEF MonthlyScreen
<1>22. ASSUME NEW c \in Candidates, ConnectLooksUp(c) PROVE RolesInv'
  BY <1>2, <1>22 DEF ConnectLooksUp, AtAwait, store
<1>23. ASSUME NEW c \in Candidates, NEW as \in {"anchor", "tradeable"}, ManualAccept(c, as)
       PROVE RolesInv'
  BY <1>3, <1>23 DEF ManualAccept, AtAwait
<1>24. CASE ResetAccepted
  <2> DEFINE none == [c \in Candidates |-> Not]
  <2>1. none \in [Candidates -> Acceptance \cup {Not}] /\ \A c \in Candidates : none[c] = Not
    OBVIOUS
  <2>2. engine.at \notin Midway /\ UNCHANGED <<probation, edges>> /\ Rebuild(none)
    BY <1>24 DEF ResetAccepted, AtAwait
  <2> HIDE DEF none
  <2>3. QED
    BY <1>4, <2>1, <2>2
<1>25. ASSUME NEW unfit \in SUBSET Candidates, Cleans(unfit) PROVE RolesInv'
  <2>1. engine.at \notin Midway /\ UNCHANGED <<probation, edges>>
    BY <1>25 DEF Cleans, AtAwait
  <2>2. CASE UNCHANGED <<role, accepted>>
    BY <1>2, <2>1, <2>2
  <2>3. CASE Rebuild([c \in Candidates |-> IF c \in unfit THEN Not ELSE accepted[c]])
    <3> DEFINE acc == [c \in Candidates |-> IF c \in unfit THEN Not ELSE accepted[c]]
    <3>1. /\ acc \in [Candidates -> Acceptance \cup {Not}]
          /\ \A c \in Candidates : acc[c] \in {accepted[c], Not}
      BY DEF Shape
    <3>2. Rebuild(acc)
      BY <2>3
    <3> HIDE DEF acc
    <3>3. QED
      BY <1>4, <2>1, <3>1, <3>2
  <2>4. QED
    BY <1>25, <2>2, <2>3 DEF Cleans
<1>26. ASSUME NEW c \in Candidates, NEW advice \in Screens[c], ScreenedAgain(c, advice)
       PROVE RolesInv'
  BY <1>2, <1>26 DEF ScreenedAgain, AtAwait
<1>27. CASE ConnectBegins \/ ConnectApplies
  BY <1>2, <1>27 DEF ConnectBegins, ConnectApplies, AtAwait, store
<1>28. CASE NewDay
  <2>1. /\ engine.at \notin Midway /\ UNCHANGED <<role, accepted, edges>>
        /\ probation' = [c \in Candidates |-> Aged(probation[c])]
    BY <1>28 DEF NewDay, AtAwait
  <2> SUFFICES ASSUME NEW c \in Candidates PROVE Agrees(c)' /\ (Held(c) => Held(c)')
    BY <1>1, <2>1 DEF RolesInv, AgreeInv, TradeInv
  <2>2. OnProbation(c)' <=> OnProbation(c)
    <3>1. Aged(probation[c]) = Not <=> probation[c] = Not
      BY AgedKept DEF Shape
    <3>2. QED
      BY <2>1, <3>1 DEF OnProbation
  <2>3. Agrees(c) /\ Joined(c)' = Joined(c)
    BY <1>1, <2>1 DEF AgreeInv, Joined
  <2>4. QED
    BY <2>1, <2>2, <2>3 DEF Agrees, Rebuilt, Held, ByConnector, IsAccepted
<1>29. CASE Restart
  <2>1. Rebuild(accepted) /\ UNCHANGED <<probation, edges>>
    BY <1>29 DEF Restart, Rebuild, store
  <2>2. CASE HardKill
    BY <2>1, <2>2, AgreeRebuilt DEF RolesInv
  <2>3. CASE ~ HardKill
    <3>1. engine.at \notin Midway
      BY <1>29, <2>3 DEF Restart, AtAwait
    <3>2. accepted \in [Candidates -> Acceptance \cup {Not}]
      BY DEF Shape
    <3>3. QED
      BY <1>4, <2>1, <3>1, <3>2
  <2>4. QED
    BY <2>2, <2>3
<1>30. CASE UNCHANGED vars
  <2>1. UNCHANGED <<role, accepted, probation, edges, engine>>
    BY <1>30 DEF vars, store
  <2>2. QED
    BY <1>1, <2>1 DEF RolesInv, AgreeInv, TradeInv, Agrees, Rebuilt, OnProbation, Held, ByConnector,
       IsAccepted, Joined
<1>31. QED
  <2>1. CASE PassStep
    BY <1>5, <1>6, <1>7, <1>8, <1>9, <1>10, <1>11, <1>12, <1>13, <1>14, <1>15, <1>16, <2>1
       DEF PassStep
  <2>2. CASE ApplyStep
    BY <1>17, <1>18, <2>2 DEF ApplyStep
  <2>3. CASE ~ PassStep /\ ~ ApplyStep
    BY <1>19, <1>20, <1>21, <1>22, <1>23, <1>24, <1>25, <1>26, <1>27, <1>28, <1>29, <1>30, <2>3
       DEF Next
  <2>4. QED
    BY <2>1, <2>2, <2>3

----------------------------------------------------------------------------
(* The theorems.                                                            *)

Inv == Shape /\ CountInv /\ ApplyInv /\ RecordInv /\ RolesInv

LEMMA InvInit == Init => Inv
<1> SUFFICES ASSUME Init PROVE Inv
  OBVIOUS
<1>1. Shape /\ CountInv
  BY ShapeInit, CountInit
<1>2. /\ engine = Idle /\ tool = NoRun
      /\ \A c \in Candidates : role[c] = "out" /\ accepted[c] = Not /\ probation[c] = Not
  BY DEF Init
<1>3. ApplyInv /\ RecordInv
  BY <1>2 DEF ApplyInv, RecordInv, Idle, NoRun, Reviewing, OnProbation
<1>4. AgreeInv /\ TradeInv
  BY <1>2 DEF AgreeInv, TradeInv, Agrees, Rebuilt, Held, ByConnector, IsAccepted
<1>5. QED
  BY <1>1, <1>3, <1>4 DEF Inv, RolesInv

LEMMA InvStep == Inv /\ [Next]_vars => Inv'
BY ShapeStep, CountStep, ApplyKept, RecordStep, RolesStep DEF Inv

(* The conjunction of the parts is an invariant of the specification.       *)
THEOREM Invariance == Spec => []Inv
<1>1. QED
  BY InvInit, InvStep, PTL DEF Spec

(* For every pair of caps, over restarts, kills and midnight inside a pass: *)
(* in a day an arm accepts at most its cap and one for each kill between an *)
(* acceptance and its count, and in a pass that midnight found at work at   *)
(* most once more the cap (_auto_accept_candidates, _grow_connectors).      *)
THEOREM WithinCaps == Spec => []CapsHold
<1>1. Inv => CapsHold
  BY DEF Inv, CountInv, AutoInv, GrowInv, ArmInv, CapsHold, Within
<1>2. QED
  BY <1>1, Invariance, PTL

(* However many symbols there are, and wherever the process was killed, its *)
(* next start in good order gives each the role it has, or less: the        *)
(* in-memory universe is the one on disk (reconcile_universe_connectivity). *)
THEOREM RolesAsOnDisk == Spec => []RestartKeepsRoles
<1>1. Inv => RestartKeepsRoles
  BY DEF Inv, RolesInv, AgreeInv, Agrees, RestartKeepsRoles, AtAwait, Midway
<1>2. QED
  BY <1>1, Invariance, PTL

(* Where the process is not killed between the two writes of a probation, a *)
(* symbol the connector arm admitted trades only when the graph joins it to *)
(* an anchor (_is_tradeable).                                               *)
THEOREM ProbationKept ==
  ASSUME ~ HardKill
  PROVE  Spec => []ProbationHolds
<1>1. Inv => ProbationHolds
  BY DEF Inv, RolesInv, TradeInv, Held, ByConnector, Joined, ProbationHolds
<1>2. QED
  BY <1>1, Invariance, PTL

----------------------------------------------------------------------------
(* The quarantine.                                                          *)

QuarantineInv == quarantine \subseteq Candidates

LEMMA QuarantineTyped == Spec => []QuarantineInv
<1>1. Init => QuarantineInv
  BY DEF Init, QuarantineInv
<1>2. QuarantineInv /\ [Next]_vars => QuarantineInv'
  <2> SUFFICES ASSUME [Next]_vars, QuarantineInv PROVE QuarantineInv'
    OBVIOUS
  <2>1. CASE PassStep
    BY <2>1 DEF PassStep, StartPass, EnterAuto, AlertSent, NameMatches, NameDiffers, EnterReview,
       SymbolDropped, EnterGrow, Admits, GrowNameDiffers, Recorded, GrowDone, AutoCounts, GrowCounts,
       Screened, AutoSkips, AutoTakesAnchor, AutoAsksName, AutoAccepts, Promotes, RecordDropped, GrowSkips,
       GrowAsksName, store, QuarantineInv
  <2>2. ASSUME NEW unfit \in SUBSET Candidates, Cleans(unfit) PROVE QuarantineInv'
    BY <2>2 DEF Cleans, QuarantineInv
  <2>3. CASE ~ PassStep /\ UNCHANGED quarantine
    BY <2>3 DEF QuarantineInv
  <2>4. QED
    BY <2>1, <2>2, <2>3 DEF Next, ApplyStep, FilingRead, LeadFound, MonthlyScreen, ConnectLooksUp,
       ManualAccept, ResetAccepted, ScreenedAgain, ConnectBegins, ConnectApplies, ConnectAccepts,
       ConnectPrunes, NewDay, Restart, vars, store
<1>3. QED
  BY <1>1, <1>2, PTL DEF Spec

(* What a step may do to a quarantined symbol no lookup is under way for.   *)
Sticks(c) ==
  /\ ~ LookupUnderWay(c)'
  /\ ~ IsAccepted(c) /\ accepted'[c] # Not => accepted'[c].by = "manual"

(* The lookups of both loops stay where they are ...                        *)
LEMMA LookupKept ==
  ASSUME NEW c, ~ LookupUnderWay(c), engine'.at = engine.at, engine'.sym = engine.sym,
         tool'.chosen = tool.chosen
  PROVE  ~ LookupUnderWay(c)'
BY DEF LookupUnderWay

(* ... or the engine's is of another symbol, or it has none.                *)
LEMMA LookupElsewhere ==
  ASSUME NEW c, ~ LookupUnderWay(c), tool' = tool,
         engine'.at \in {"auto name", "grow name"} => engine'.sym # c
  PROVE  ~ LookupUnderWay(c)'
BY DEF LookupUnderWay

(* An acceptance of another symbol, and a withdrawal, restores none.        *)
LEMMA AcceptElsewhere ==
  ASSUME Shape, NEW c \in Candidates, NEW d \in Candidates, d # c, NEW as, NEW by,
         NEW onProbation, Accept(d, as, by, onProbation)
  PROVE  accepted'[c] = accepted[c]
BY DEF Accept, Shape

LEMMA SticksStep ==
  ASSUME Shape, [Next]_vars, NEW c \in quarantine, c \in Candidates, ~ LookupUnderWay(c)
  PROVE  Sticks(c)
<1> DEFINE NoneFound == ~ LookupUnderWay(c)'
<1>1. ASSUME NoneFound, accepted'[c] \in {accepted[c], Not} PROVE Sticks(c)
  BY <1>1 DEF Sticks, IsAccepted
<1>2. ASSUME NoneFound, IsAccepted(c) PROVE Sticks(c)
  BY <1>2 DEF Sticks
<1> HIDE DEF NoneFound
<1>3. ASSUME UNCHANGED tool, engine'.at \notin {"auto name", "grow name"} PROVE NoneFound
  BY <1>3, LookupElsewhere DEF NoneFound
<1>4. ASSUME UNCHANGED <<engine, tool>> PROVE NoneFound
  BY <1>4, LookupKept DEF NoneFound
<1>5. CASE StartPass \/ AlertSent \/ NameDiffers \/ EnterReview \/ EnterGrow \/ GrowNameDiffers
           \/ GrowDone \/ Recorded \/ AutoCounts \/ GrowCounts
  <2>1. UNCHANGED <<accepted, tool>>
    BY <1>5 DEF StartPass, AlertSent, NameDiffers, EnterReview, EnterGrow, GrowNameDiffers,
       GrowDone, Recorded, AutoCounts, GrowCounts, store
  <2>2. engine'.at \notin {"auto name", "grow name"}
    <3>1. CASE StartPass \/ NameDiffers \/ GrowNameDiffers \/ Recorded \/ AutoCounts \/ GrowCounts
      BY <3>1 DEF StartPass, NameDiffers, GrowNameDiffers, Recorded, AutoCounts, GrowCounts, Shape
    <3>2. CASE EnterReview \/ EnterGrow \/ GrowDone
      <4>1. engine' = Idle \/ engine'.at \in {"review", "grow"}
        <5>1. EnterReview => engine'.at = "review"
          BY DEF EnterReview, Idle
        <5>2. EnterGrow => engine'.at = "grow"
          BY DEF EnterGrow, Idle
        <5>3. QED
          BY <3>2, <5>1, <5>2 DEF GrowDone
      <4>2. Idle.at = "idle"
        BY DEF Idle
      <4>3. QED
        BY <4>1, <4>2
    <3>3. CASE AlertSent
      BY <3>3 DEF AlertSent, Shape
    <3>4. QED
      BY <1>5, <3>1, <3>2, <3>3
  <2>3. QED
    BY <1>1, <1>3, <2>1, <2>2
<1>6. CASE EnterAuto
  <2>1. UNCHANGED tool /\ engine'.at = "auto" /\ CorrectTypes
    BY <1>6 DEF EnterAuto, Shape
  <2>2. IsAccepted(c) \/ accepted'[c] = accepted[c]
    BY <2>1 DEF CorrectTypes, Corrected
  <2>3. QED
    BY <1>1, <1>2, <1>3, <2>1, <2>2
<1>7. CASE NameMatches
  <2>1. UNCHANGED tool /\ engine'.at \notin {"auto name", "grow name"}
    <3>1. AutoAccepts(engine.sym) => engine'.at = "auto count"
      BY DEF AutoAccepts, Shape
    <3>2. Idle.at = "idle"
      BY DEF Idle
    <3>3. QED
      BY <1>7, <3>1, <3>2 DEF NameMatches
  <2>2. engine.sym # c /\ engine.sym \in Candidates
    BY <1>7 DEF NameMatches, LookupUnderWay, Shape, WithSymbol
  <2>3. accepted'[c] = accepted[c]
    BY <1>7, <2>2, AcceptElsewhere DEF NameMatches, AutoAccepts, store
  <2>4. QED
    BY <1>1, <1>3, <2>1, <2>3
<1>8. CASE SymbolDropped
  <2>1. UNCHANGED tool /\ engine'.at = "review" /\ Out(engine.sym)
    BY <1>8 DEF SymbolDropped, Shape
  <2>2. accepted'[c] \in {accepted[c], Not}
    BY <2>1 DEF Out, Shape
  <2>3. QED
    BY <1>1, <1>3, <2>1, <2>2
<1>9. CASE Admits
  <2>1. UNCHANGED tool /\ engine'.at = "grow record"
    BY <1>9 DEF Admits, Shape
  <2>2. engine.sym # c /\ engine.sym \in Candidates
        /\ Accept(engine.sym, "tradeable", "connector", TRUE)
    BY <1>9 DEF Admits, LookupUnderWay, Shape, WithSymbol
  <2>3. accepted'[c] = accepted[c]
    BY <2>2, AcceptElsewhere
  <2>4. QED
    BY <1>1, <1>3, <2>1, <2>3
<1>10. ASSUME NEW d \in Candidates, NEW advice \in Screens[d], Screened(d, advice) PROVE Sticks(c)
  <2>1. UNCHANGED <<accepted, tool>> /\ engine'.at = "recheck"
    BY <1>10 DEF Screened, Done, Shape
  <2>2. QED
    BY <1>1, <1>3, <2>1
<1>11. ASSUME NEW d \in Candidates, AutoSkips(d) PROVE Sticks(c)
  <2>1. UNCHANGED <<accepted, tool>> /\ engine'.at = "auto"
    BY <1>11 DEF AutoSkips, Shape, store
  <2>2. QED
    BY <1>1, <1>3, <2>1
<1>12. ASSUME NEW d \in Candidates, AutoTakesAnchor(d) PROVE Sticks(c)
  <2>1. AutoAccepts(d) /\ UNCHANGED tool /\ d # c
    BY <1>12 DEF AutoTakesAnchor, AutoAnchor, Free
  <2>2. engine'.at = "auto count" /\ accepted'[c] = accepted[c]
    BY <2>1, AcceptElsewhere DEF AutoAccepts, Shape
  <2>3. QED
    BY <1>1, <1>3, <2>1, <2>2
<1>13. ASSUME NEW d \in Candidates, AutoAsksName(d) PROVE Sticks(c)
  <2>1. UNCHANGED <<accepted, tool>> /\ engine'.sym = d /\ d # c
    BY <1>13 DEF AutoAsksName, AutoTradeable, Free, Shape, store
  <2>2. QED
    BY <1>1, <2>1, LookupElsewhere DEF NoneFound
<1>14. ASSUME NEW d \in Candidates, Promotes(d) \/ RecordDropped(d) PROVE Sticks(c)
  <2>1. UNCHANGED <<accepted, tool>> /\ engine'.at \in {"review alert", "review drop"}
    BY <1>14 DEF Promotes, RecordDropped, Shape
  <2>2. QED
    BY <1>1, <1>3, <2>1
<1>15. ASSUME NEW d \in Candidates, GrowSkips(d) PROVE Sticks(c)
  <2>1. UNCHANGED <<accepted, tool>> /\ engine'.at = "grow"
    BY <1>15 DEF GrowSkips, Shape, store
  <2>2. QED
    BY <1>1, <1>3, <2>1
<1>16. ASSUME NEW d \in Candidates, GrowAsksName(d) PROVE Sticks(c)
  <2>1. UNCHANGED <<accepted, tool>> /\ engine'.sym = d /\ d # c
    BY <1>16 DEF GrowAsksName, Connects, Shape, store
  <2>2. QED
    BY <1>1, <2>1, LookupElsewhere DEF NoneFound
<1>17. ASSUME NEW d \in Candidates, NEW as \in {"anchor", "tradeable"}, ConnectAccepts(d, as)
       PROVE Sticks(c)
  <2>1. d # c
    BY <1>17 DEF ConnectAccepts, LookupUnderWay
  <2>2. accepted'[c] = accepted[c] /\ engine' = engine /\ tool'.chosen \subseteq tool.chosen
    <3>1. engine' = engine
      BY <1>17 DEF ConnectAccepts
    <3>2. CASE accepted' = accepted /\ tool' = NoRun
      BY <3>1, <3>2 DEF NoRun
    <3>3. CASE /\ Accept(d, as, "connected", FALSE)
               /\ tool' = [tool EXCEPT !.chosen = tool.chosen \ {<<d, as>>}]
      <4>1. tool'.chosen \subseteq tool.chosen
        BY <3>3 DEF Shape
      <4>2. accepted'[c] = accepted[c]
        BY <2>1, <3>3, AcceptElsewhere
      <4>3. QED
        BY <3>1, <4>1, <4>2
    <3>4. QED
      BY <1>17, <3>2, <3>3 DEF ConnectAccepts
  <2>3. NoneFound
    BY <2>2 DEF NoneFound, LookupUnderWay
  <2>4. QED
    BY <1>1, <2>2, <2>3
<1>18. CASE ConnectPrunes
  <2>1. accepted'[c] \in {accepted[c], Not} /\ engine' = engine /\ tool'.chosen = {}
    BY <1>18 DEF ConnectPrunes, Rebuild, NoRun
  <2>2. NoneFound
    BY <2>1 DEF NoneFound, LookupUnderWay
  <2>3. QED
    BY <1>1, <2>1, <2>2
<1>19. ASSUME NEW s \in Symbols, NEW x \in Symbols, FilingRead(s, x) PROVE Sticks(c)
  BY <1>1, <1>4, <1>19 DEF FilingRead
<1>20. ASSUME NEW s \in Symbols, NEW d \in Candidates, LeadFound(s, d) PROVE Sticks(c)
  <2>1. engine'.at = engine.at /\ engine'.sym = engine.sym /\ tool'.chosen = tool.chosen
    BY <1>20 DEF LeadFound, Detached, Shape
  <2>2. QED
    BY <1>1, <1>20, <2>1, LookupKept DEF LeadFound, NoneFound
<1>21. ASSUME NEW d \in Candidates, MonthlyScreen(d) PROVE Sticks(c)
  <2>1. UNCHANGED <<engine, tool>> /\ IsAccepted(d)
    BY <1>21 DEF MonthlyScreen
  <2>2. d # c => accepted'[c] = accepted[c]
    BY <1>21 DEF MonthlyScreen, Out, Shape
  <2>3. QED
    BY <1>1, <1>2, <1>4, <2>1, <2>2
<1>22. ASSUME NEW d \in Candidates, ConnectLooksUp(d) PROVE Sticks(c)
  <2>1. accepted' = accepted /\ engine' = engine
    BY <1>22 DEF ConnectLooksUp, store
  <2>2. \/ tool'.chosen = tool.chosen
        \/ d # c /\ tool'.chosen = tool.chosen \cup {<<d, ConnectAs(d)>>}
    BY <1>22 DEF ConnectLooksUp, Lands, Shape
  <2>3. NoneFound
    <3>1. ASSUME NEW as \in {"anchor", "tradeable"} PROVE <<c, as>> \notin tool'.chosen
      <4>1. <<c, as>> \notin tool.chosen
        BY DEF LookupUnderWay
      <4>2. d # c => <<c, as>> # <<d, ConnectAs(d)>>
        OBVIOUS
      <4>3. QED
        BY <2>2, <4>1, <4>2
    <3>2. QED
      BY <2>1, <3>1 DEF NoneFound, LookupUnderWay
  <2>4. QED
    BY <1>1, <2>1, <2>3
<1>23. ASSUME NEW d \in Candidates, NEW as \in {"anchor", "tradeable"}, ManualAccept(d, as)
       PROVE Sticks(c)
  <2>1. UNCHANGED <<engine, tool>> /\ Accept(d, as, "manual", FALSE) /\ role[d] = "out"
    BY <1>23 DEF ManualAccept
  <2>2. accepted' = [accepted EXCEPT ![d] = [as |-> as, by |-> "manual"]]
    BY <2>1 DEF Accept
  <2>3. accepted'[c] = accepted[c] \/ accepted'[c].by = "manual"
    BY <2>2 DEF Shape
  <2>4. NoneFound
    BY <1>4, <2>1
  <2>5. QED
    BY <1>1, <2>3, <2>4 DEF Sticks, NoneFound
<1>24. CASE ResetAccepted
  <2>1. accepted'[c] = Not /\ UNCHANGED <<engine, tool>>
    BY <1>24 DEF ResetAccepted, Rebuild
  <2>2. QED
    BY <1>1, <1>4, <2>1
<1>25. ASSUME NEW unfit \in SUBSET Candidates, Cleans(unfit) PROVE Sticks(c)
  <2>1. accepted'[c] \in {accepted[c], Not} /\ engine' = engine /\ tool'.chosen = tool.chosen
    BY <1>25 DEF Cleans, Rebuild, Shape
  <2>2. QED
    BY <1>1, <2>1, LookupKept DEF NoneFound
<1>26. ASSUME NEW d \in Candidates, NEW advice \in Screens[d], ScreenedAgain(d, advice)
       PROVE Sticks(c)
  <2>1. accepted' = accepted /\ engine' = engine /\ tool'.chosen = tool.chosen
    BY <1>26 DEF ScreenedAgain, Done, Shape
  <2>2. QED
    BY <1>1, <2>1, LookupKept DEF NoneFound
<1>27. CASE ConnectBegins \/ ConnectApplies
  <2>1. accepted' = accepted /\ engine' = engine /\ tool'.chosen \subseteq tool.chosen
    BY <1>27 DEF ConnectBegins, ConnectApplies, NoRun, Shape, store
  <2>2. NoneFound
    BY <2>1 DEF NoneFound, LookupUnderWay
  <2>3. QED
    BY <1>1, <2>1, <2>2
<1>28. CASE NewDay
  BY <1>1, <1>4, <1>28 DEF NewDay
<1>29. CASE Restart
  <2>1. accepted' = accepted /\ engine'.at = "idle" /\ tool'.chosen = {}
    BY <1>29 DEF Restart, Idle, NoRun, store
  <2>2. NoneFound
    BY <2>1 DEF NoneFound, LookupUnderWay
  <2>3. QED
    BY <1>1, <2>1, <2>2
<1>30. CASE UNCHANGED vars
  BY <1>1, <1>4, <1>30 DEF vars, store
<1>31. QED
  <2>1. CASE PassStep
    BY <1>5, <1>6, <1>7, <1>8, <1>9, <1>10, <1>11, <1>12, <1>13, <1>14, <1>15, <1>16, <2>1
       DEF PassStep
  <2>2. CASE ApplyStep
    BY <1>17, <1>18, <2>2 DEF ApplyStep
  <2>3. CASE ~ PassStep /\ ~ ApplyStep
    BY <1>19, <1>20, <1>21, <1>22, <1>23, <1>24, <1>25, <1>26, <1>27, <1>28, <1>29, <1>30, <2>3
       DEF Next
  <2>4. QED
    BY <2>1, <2>2, <2>3

(* No lookup is begun for a quarantined symbol, and none restores it that   *)
(* had not begun before; by hand it may come back. A clean is not undone by *)
(* the pass or by maintenance (__init__, _auto_accept_candidates).          *)
THEOREM QuarantineKept == Spec => QuarantineSticks
<1>1. Shape /\ QuarantineInv /\ [Next]_vars =>
        [\A c \in quarantine : ~ LookupUnderWay(c) =>
           /\ ~ LookupUnderWay(c)'
           /\ ~ IsAccepted(c) /\ accepted'[c] # Not => accepted'[c].by = "manual"]_vars
  BY SticksStep DEF QuarantineInv, Sticks
<1>2. Inv => Shape
  BY DEF Inv
<1>3. QED
  BY <1>1, <1>2, Invariance, QuarantineTyped, PTL DEF Spec, QuarantineSticks

----------------------------------------------------------------------------
(* Types. What a loop keeps of the rows is rows, the graph is of symbols,   *)
(* and a count is a number; the roles are Shape's and AgreeInv's.           *)

HeldRows(loop) == \A c \in DOMAIN loop.held : loop.held[c] \in Row
RowInv == row \in [Candidates -> Row] /\ HeldRows(engine) /\ HeldRows(tool)
EdgeInv == edges \subseteq SUBSET Symbols
MeterInv ==
  /\ auto \in Counter /\ connector \in Counter /\ engine.taken \in Nat
  /\ {stale, checked} \subseteq BOOLEAN
TypedInv == RowInv /\ EdgeInv /\ MeterInv

(* A step that leaves the rows, the graph and the counts, and with which a  *)
(* loop goes on or begins anew.                                             *)
LEMMA Quiet ==
  ASSUME TypedInv, UNCHANGED <<row, edges, auto, connector>>,
         engine'.held \in {engine.held, <<>>}, tool'.held \in {tool.held, <<>>},
         engine'.taken \in {engine.taken, 0}, stale' \in {stale, TRUE},
         checked' \in {checked, TRUE, FALSE}
  PROVE  TypedInv'
<1>1. HeldRows(engine)' /\ HeldRows(tool)'
  BY DEF TypedInv, RowInv, HeldRows
<1>2. MeterInv'
  <2>1. auto' \in Counter /\ connector' \in Counter
    BY DEF TypedInv, MeterInv
  <2>2. engine'.taken \in Nat
    BY DEF TypedInv, MeterInv
  <2>3. stale' \in BOOLEAN
    <3>1. stale \in BOOLEAN
      BY DEF TypedInv, MeterInv
    <3>2. QED
      BY <3>1
  <2>4. checked' \in BOOLEAN
    <3>1. checked \in BOOLEAN
      BY DEF TypedInv, MeterInv
    <3>2. QED
      BY <3>1
  <2>5. QED
    BY <2>1, <2>2, <2>3, <2>4 DEF MeterInv
<1>3. QED
  BY <1>1, <1>2 DEF TypedInv, RowInv, EdgeInv

(* The fields of a row.                                                     *)
LEMMA RowIs ==
  ASSUME NEW r
  PROVE  r \in Row <=>
         /\ r = [from |-> r.from, lead |-> r.lead, seen |-> r.seen,
                 researched |-> r.researched, advice |-> r.advice, blocked |-> r.blocked]
         /\ r.from \subseteq Symbols /\ r.lead \subseteq Symbols /\ r.seen \in 0..MinSeen
         /\ r.researched \in BOOLEAN /\ r.advice \in Advice \cup {"none"} /\ r.blocked \in BOOLEAN
BY DEF Row

(* A screened row, out of the loop's hand, is a row; so is what it keeps.   *)
LEMMA ScreenedRows ==
  ASSUME row \in [Candidates -> Row], NEW loop, HeldRows(loop), NEW c \in Candidates,
         NEW advice \in Advice, {"held", "todo"} \subseteq DOMAIN loop
  PROVE  ScreenedBy(loop, c, advice) \in [Candidates -> Row] /\ HeldRows(Done(loop, c))
<1>1. InHand(loop, c) \in Row
  BY DEF InHand, HeldRows
<1>2. [InHand(loop, c) EXCEPT !.advice = advice] \in Row
  BY <1>1 DEF Row
<1>3. ScreenedBy(loop, c, advice) \in [Candidates -> Row]
  BY <1>2 DEF ScreenedBy
<1>4. Done(loop, c).held = [d \in DOMAIN loop.held \ {c} |-> loop.held[d]]
  BY DEF Done
<1>5. HeldRows(Done(loop, c))
  BY <1>4 DEF HeldRows
<1>6. QED
  BY <1>3, <1>5

(* The copy a lead leaves in a recheck's hand is a row.                     *)
LEMMA DetachedRows ==
  ASSUME row \in [Candidates -> Row], NEW loop, HeldRows(loop), NEW c \in Candidates,
         "held" \in DOMAIN loop
  PROVE  HeldRows(Detached(loop, c))
<1>1. CASE Detached(loop, c) = loop
  BY <1>1
<1>2. CASE Detached(loop, c)
             = [loop EXCEPT !.held = [d \in {c} \cup DOMAIN @ |-> IF d = c THEN row[c] ELSE @[d]]]
  <2>1. Detached(loop, c).held
        = [d \in {c} \cup DOMAIN loop.held |-> IF d = c THEN row[c] ELSE loop.held[d]]
    BY <1>2
  <2>2. row[c] \in Row
    OBVIOUS
  <2>3. QED
    BY <2>1, <2>2 DEF HeldRows
<1>3. QED
  BY <1>1, <1>2 DEF Detached

(* An acceptance puts disclosures by symbols into the graph.                *)
LEMMA AcceptEdges ==
  ASSUME row \in [Candidates -> Row], EdgeInv, NEW c \in Candidates, NEW as, NEW by,
         NEW onProbation, Accept(c, as, by, onProbation)
  PROVE  EdgeInv'
<1>1. row[c].from \subseteq Symbols /\ c \in Symbols
  BY DEF Row, Symbols
<1>2. PendingEdges(c, Members) \subseteq SUBSET Symbols
  BY <1>1 DEF PendingEdges
<1>3. QED
  BY <1>2 DEF Accept, EdgeInv

LEMMA TypedInit == Init => TypedInv
<1> SUFFICES ASSUME Init PROVE TypedInv
  OBVIOUS
<1>1. NoRow \in Row
  BY UniverseAssumption DEF NoRow, Row
<1>2. engine.held = <<>> /\ tool.held = <<>> /\ engine.taken = 0
  BY DEF Init, Idle, NoRun
<1>3. RowInv
  BY <1>1, <1>2 DEF Init, RowInv, HeldRows
<1>4. EdgeInv
  BY DEF Init, EdgeInv
<1>5. MeterInv
  <2>1. [today |-> FALSE, count |-> 0] \in Counter
    BY DEF Counter
  <2>2. stale \in BOOLEAN /\ checked \in BOOLEAN
    BY DEF Init
  <2>3. auto = [today |-> FALSE, count |-> 0] /\ connector = [today |-> FALSE, count |-> 0]
    BY DEF Init
  <2>4. QED
    BY <1>2, <2>1, <2>2, <2>3 DEF MeterInv
<1>6. QED
  BY <1>3, <1>4, <1>5 DEF TypedInv

(* An acceptance by the pass adds edges.                                    *)
LEMMA AutoTyped ==
  ASSUME Shape, TypedInv, NEW c \in Candidates, AutoAccepts(c),
         UNCHANGED <<row, stale, checked, tool>>
  PROVE  TypedInv'
<1>1. EdgeInv'
  BY AcceptEdges DEF TypedInv, RowInv, AutoAccepts
<1>2. engine'.held = engine.held /\ engine'.taken = engine.taken /\ UNCHANGED <<auto, connector>>
  BY DEF AutoAccepts, Shape
<1>3. RowInv'
  BY <1>2 DEF TypedInv, RowInv, HeldRows
<1>4. MeterInv'
  BY <1>2 DEF TypedInv, MeterInv
<1>5. QED
  BY <1>1, <1>3, <1>4 DEF TypedInv

(* The alternatives of the daily pass, and of the rest, that write neither  *)
(* rows, graph nor counts.                                                  *)
LEMMA QuietPass ==
  ASSUME Shape, TypedInv,
         \/ StartPass \/ AlertSent \/ EnterReview \/ SymbolDropped \/ GrowNameDiffers \/ GrowDone
         \/ Recorded
         \/ \E c \in Candidates :
              \/ AutoSkips(c) \/ AutoAsksName(c) \/ Promotes(c) \/ RecordDropped(c)
              \/ GrowSkips(c) \/ GrowAsksName(c)
  PROVE  TypedInv'
<1>1. CASE StartPass \/ AlertSent \/ SymbolDropped \/ GrowNameDiffers \/ Recorded
  <2>1. /\ UNCHANGED <<row, edges, auto, connector, stale, tool>>
        /\ checked' \in {checked, TRUE}
        /\ engine'.held = engine.held /\ engine'.taken = engine.taken
    BY <1>1 DEF StartPass, AlertSent, SymbolDropped, GrowNameDiffers, Recorded, store, Shape
  <2>2. QED
    BY <2>1, Quiet
<1>2. CASE EnterReview \/ GrowDone
  <2>1. /\ UNCHANGED <<row, edges, auto, connector, stale, checked, tool>>
        /\ engine'.held = <<>> /\ engine'.taken = 0
    <3>1. /\ Idle.held = <<>> /\ Idle.taken = 0
          /\ DOMAIN Idle = {"at", "sym", "todo", "held", "drop", "inert", "taken", "open"}
      BY DEF Idle
    <3>2. CASE EnterReview
      BY <3>1, <3>2 DEF EnterReview, store
    <3>3. CASE GrowDone
      BY <3>1, <3>3 DEF GrowDone, store
    <3>4. QED
      BY <1>2, <3>2, <3>3
  <2>2. QED
    BY <2>1, Quiet
<1>3. ASSUME NEW c \in Candidates,
             \/ AutoSkips(c) \/ AutoAsksName(c) \/ Promotes(c) \/ RecordDropped(c)
             \/ GrowSkips(c) \/ GrowAsksName(c)
      PROVE  TypedInv'
  <2>1. /\ UNCHANGED <<row, edges, auto, connector, stale, checked, tool>>
        /\ engine'.held = engine.held /\ engine'.taken = engine.taken
    BY <1>3 DEF AutoSkips, AutoAsksName, Promotes, RecordDropped, GrowSkips, GrowAsksName, store,
       Shape
  <2>2. QED
    BY <2>1, Quiet
<1>4. QED
  BY <1>1, <1>2, <1>3

LEMMA QuietRest ==
  ASSUME Shape, TypedInv,
         \/ ConnectPrunes \/ ResetAccepted \/ ConnectBegins \/ ConnectApplies \/ Restart
         \/ UNCHANGED vars
         \/ \E c \in Candidates : MonthlyScreen(c) \/ ConnectLooksUp(c)
         \/ \E unfit \in SUBSET Candidates : Cleans(unfit)
  PROVE  TypedInv'
<1>1. CASE Restart
  <2>1. /\ UNCHANGED <<row, edges, auto, connector>> /\ stale' \in {stale, TRUE}
        /\ checked' = FALSE /\ engine'.held = <<>> /\ engine'.taken = 0 /\ tool'.held = <<>>
    BY <1>1 DEF Restart, Idle, NoRun, store
  <2>2. QED
    BY <2>1, Quiet
<1>2. CASE ~ Restart
  <2>1. UNCHANGED <<row, edges, auto, connector, stale, checked, engine>>
    BY <1>2 DEF ConnectPrunes, ResetAccepted, ConnectBegins, ConnectApplies, MonthlyScreen,
       ConnectLooksUp, Cleans, vars, store
  <2>2. tool'.held \in {tool.held, <<>>}
    <3>1. CASE ConnectPrunes \/ ConnectBegins
      <4>1. NoRun.held = <<>> /\ DOMAIN NoRun = {"at", "todo", "held", "chosen"}
        BY DEF NoRun
      <4>2. CASE ConnectPrunes
        BY <4>1, <4>2 DEF ConnectPrunes
      <4>3. CASE ConnectBegins
        BY <4>1, <4>3 DEF ConnectBegins
      <4>4. QED
        BY <3>1, <4>2, <4>3
    <3>2. CASE ~ ConnectPrunes /\ ~ ConnectBegins
      BY <1>2, <3>2 DEF ResetAccepted, ConnectApplies, MonthlyScreen, ConnectLooksUp, Cleans, vars,
         Shape
    <3>3. QED
      BY <3>1, <3>2
  <2>3. QED
    BY <2>1, <2>2, Quiet
<1>3. QED
  BY <1>1, <1>2

(* The rest of the pass: what is screened, barred, accepted and counted.    *)
LEMMA PassTyped == Shape /\ TypedInv /\ PassStep => TypedInv'
<1> SUFFICES ASSUME Shape, TypedInv, PassStep PROVE TypedInv'
  OBVIOUS
<1>0. /\ row \in [Candidates -> Row] /\ HeldRows(engine) /\ HeldRows(tool) /\ EdgeInv
      /\ auto \in Counter /\ connector \in Counter /\ engine.taken \in Nat
      /\ stale \in BOOLEAN /\ checked \in BOOLEAN
  BY DEF TypedInv, RowInv, MeterInv
<1>1. ASSUME NEW counter \in Counter
      PROVE  /\ CountToday(counter) \in Nat
             /\ [today |-> TRUE, count |-> CountToday(counter)] \in Counter
  BY DEF CountToday, Counter
<1>2. CASE EnterAuto
  <2>1. PICK junk \in SUBSET {c \in Rows : accepted'[c] = Not} :
          row' = [c \in Candidates |-> IF c \in junk THEN [row[c] EXCEPT !.blocked = TRUE]
                                       ELSE row[c]]
    BY <1>2 DEF EnterAuto
  <2>2. \A c \in Candidates : [row[c] EXCEPT !.blocked = TRUE] \in Row
    BY <1>0 DEF Row
  <2>3. row' \in [Candidates -> Row]
    BY <1>0, <2>1, <2>2
  <2>4. /\ UNCHANGED <<edges, connector, checked, tool>> /\ stale' = FALSE
        /\ auto' = [today |-> TRUE, count |-> CountToday(auto)]
        /\ engine'.held = engine.held /\ engine'.taken = CountToday(auto)
    BY <1>2 DEF EnterAuto, Shape
  <2>5. RowInv' /\ EdgeInv'
    BY <1>0, <2>3, <2>4 DEF RowInv, HeldRows, EdgeInv
  <2>6. MeterInv'
    BY <1>0, <1>1, <2>4 DEF MeterInv
  <2>7. QED
    BY <2>5, <2>6 DEF TypedInv
<1>3. CASE NameMatches
  <2>1. engine.sym \in Candidates
    BY <1>3 DEF NameMatches, Shape, WithSymbol
  <2>2. CASE AutoAccepts(engine.sym) /\ UNCHANGED row
    BY <1>3, <2>1, <2>2, AutoTyped DEF NameMatches
  <2>3. CASE engine' = Idle /\ UNCHANGED store
    <3>1. /\ UNCHANGED <<row, edges, auto, connector, stale, checked, tool>>
          /\ engine'.held = <<>> /\ engine'.taken = 0
      BY <1>3, <2>3 DEF NameMatches, Idle, store
    <3>2. QED
      BY <3>1, Quiet
  <2>4. QED
    BY <1>3, <2>2, <2>3 DEF NameMatches
<1>4. CASE NameDiffers
  <2>1. engine.sym \in Candidates
    BY <1>4 DEF NameDiffers, Shape, WithSymbol
  <2>2. [row[engine.sym] EXCEPT !.blocked = TRUE] \in Row
    BY <1>0, <2>1 DEF Row
  <2>3. row' = [row EXCEPT ![engine.sym] = [row[engine.sym] EXCEPT !.blocked = TRUE]]
    BY <1>4 DEF NameDiffers
  <2>4. row' \in [Candidates -> Row]
    BY <1>0, <2>2, <2>3
  <2>5. /\ UNCHANGED <<edges, auto, connector, stale, checked, tool>>
        /\ engine'.held = engine.held /\ engine'.taken = engine.taken
    BY <1>4 DEF NameDiffers, Shape
  <2>6. RowInv' /\ EdgeInv' /\ MeterInv'
    BY <1>0, <2>4, <2>5 DEF RowInv, HeldRows, EdgeInv, MeterInv
  <2>7. QED
    BY <2>6 DEF TypedInv
<1>5. CASE EnterGrow
  <2>1. /\ UNCHANGED <<row, edges, auto, stale, checked, tool>>
        /\ connector' = [today |-> TRUE, count |-> CountToday(connector)]
        /\ engine'.held = <<>> /\ engine'.taken = CountToday(connector)
    BY <1>5 DEF EnterGrow, Idle
  <2>2. RowInv' /\ EdgeInv'
    BY <1>0, <2>1 DEF RowInv, HeldRows, EdgeInv
  <2>3. MeterInv'
    BY <1>0, <1>1, <2>1 DEF MeterInv
  <2>4. QED
    BY <2>2, <2>3 DEF TypedInv
<1>6. CASE Admits
  <2>1. engine.sym \in Candidates /\ Accept(engine.sym, "tradeable", "connector", TRUE)
    BY <1>6 DEF Admits, Shape, WithSymbol
  <2>2. EdgeInv'
    BY <1>0, <2>1, AcceptEdges
  <2>3. /\ UNCHANGED <<row, auto, connector, stale, checked, tool>>
        /\ engine'.held = engine.held /\ engine'.taken = engine.taken
    BY <1>6 DEF Admits, Shape
  <2>4. RowInv' /\ MeterInv'
    BY <1>0, <2>3 DEF RowInv, HeldRows, MeterInv
  <2>5. QED
    BY <2>2, <2>4 DEF TypedInv
<1>7. CASE AutoCounts \/ GrowCounts
  <2>1. /\ UNCHANGED <<row, edges, stale, checked, tool>>
        /\ engine'.held = engine.held /\ engine'.taken = engine.taken + 1
        /\ auto' \in {auto, [auto EXCEPT !.count = engine.taken + 1]}
        /\ connector' \in {connector, [connector EXCEPT !.count = engine.taken + 1]}
    BY <1>7 DEF AutoCounts, GrowCounts, Shape
  <2>2. auto' \in Counter /\ connector' \in Counter /\ engine'.taken \in Nat
    <3>1. engine.taken + 1 \in Nat
      BY <1>0
    <3>2. QED
      BY <1>0, <2>1, <3>1 DEF Counter
  <2>3. RowInv' /\ EdgeInv' /\ MeterInv'
    BY <1>0, <2>1, <2>2 DEF RowInv, HeldRows, EdgeInv, MeterInv
  <2>4. QED
    BY <2>3 DEF TypedInv
<1>8. ASSUME NEW c \in Candidates, NEW advice \in Screens[c], Screened(c, advice) PROVE TypedInv'
  <2>1. advice \in Advice
    BY UniverseAssumption
  <2>2. /\ UNCHANGED <<edges, auto, connector, stale, checked, tool>>
        /\ row' = ScreenedBy(engine, c, advice) /\ engine' = Done(engine, c)
        /\ engine'.taken = engine.taken
    BY <1>8 DEF Screened, Done, Shape
  <2>3. row' \in [Candidates -> Row] /\ HeldRows(engine)'
    BY <1>0, <2>1, <2>2, ScreenedRows DEF Shape, HeldRows
  <2>4. RowInv' /\ EdgeInv' /\ MeterInv'
    BY <1>0, <2>2, <2>3 DEF RowInv, HeldRows, EdgeInv, MeterInv
  <2>5. QED
    BY <2>4 DEF TypedInv
<1>9. ASSUME NEW c \in Candidates, AutoTakesAnchor(c) PROVE TypedInv'
  BY <1>9, AutoTyped DEF AutoTakesAnchor
<1>10. QED
  BY <1>2, <1>3, <1>4, <1>5, <1>6, <1>7, <1>8, <1>9, QuietPass DEF PassStep

LEMMA TypedStep == Shape /\ TypedInv /\ [Next]_vars => TypedInv'
<1> SUFFICES ASSUME Shape, TypedInv, [Next]_vars PROVE TypedInv'
  OBVIOUS
<1>0. /\ row \in [Candidates -> Row] /\ HeldRows(engine) /\ HeldRows(tool) /\ EdgeInv
      /\ auto \in Counter /\ connector \in Counter /\ engine.taken \in Nat
      /\ stale \in BOOLEAN /\ checked \in BOOLEAN
  BY DEF TypedInv, RowInv, MeterInv
<1>1. CASE PassStep
  BY <1>1, PassTyped
<1>2. ASSUME NEW s \in Symbols, NEW d \in Symbols, FilingRead(s, d) PROVE TypedInv'
  <2>1. UNCHANGED <<auto, connector, stale, checked, engine, tool>>
    BY <1>2 DEF FilingRead
  <2>2. CASE edges' = edges \cup {{s, d}} /\ UNCHANGED row
    <3>1. EdgeInv'
      BY <1>0, <2>2 DEF EdgeInv
    <3>2. RowInv' /\ MeterInv'
      BY <1>0, <2>1, <2>2 DEF RowInv, HeldRows, MeterInv
    <3>3. QED
      BY <3>1, <3>2 DEF TypedInv
  <2>3. CASE d \in Candidates /\ row' = Disclosed(s, d) /\ UNCHANGED edges
    <3> DEFINE seen == IF row[d].seen < MinSeen THEN row[d].seen + 1 ELSE row[d].seen
               r == [row[d] EXCEPT !.from = row[d].from \cup {s}, !.seen = seen]
    <3>1. row[d] \in Row /\ MinSeen \in Nat
      BY <1>0, <2>3, UniverseAssumption
    <3>2. seen \in 0..MinSeen
      BY <3>1 DEF Row
    <3>3. r \in Row
      <4> HIDE DEF seen
      <4> QED BY <3>1, <3>2 DEF Row
    <3>4. Disclosed(s, d) = [row EXCEPT ![d] = r]
      BY <1>0, <2>3, <3>1 DEF Disclosed, Row
    <3> HIDE DEF r
    <3>5. row' \in [Candidates -> Row]
      BY <1>0, <2>3, <3>3, <3>4
    <3>6. RowInv' /\ EdgeInv' /\ MeterInv'
      BY <1>0, <2>1, <2>3, <3>5 DEF RowInv, HeldRows, EdgeInv, MeterInv
    <3>7. QED
      BY <3>6 DEF TypedInv
  <2>4. QED
    BY <1>2, <2>2, <2>3 DEF FilingRead
<1>3. ASSUME NEW s \in Symbols, NEW c \in Candidates, LeadFound(s, c) PROVE TypedInv'
  <2> DEFINE seen == IF row[c].seen = 0 THEN 1 ELSE row[c].seen
             found == row[c].from = {}
             r == [row[c] EXCEPT !.lead = row[c].lead \cup {s}, !.seen = seen,
                                 !.researched = found]
  <2>1. row[c] \in Row /\ MinSeen \in Nat \ {0}
    BY <1>0, UniverseAssumption
  <2>2. seen \in 0..MinSeen
    BY <2>1 DEF Row
  <2>3. r \in Row
    <3>1. found \in BOOLEAN
      OBVIOUS
    <3> HIDE DEF seen, found
    <3>2. QED
      BY <2>1, <2>2, <3>1 DEF Row
  <2>4. Researched(s, c) = [row EXCEPT ![c] = r]
    BY <1>0, <2>1 DEF Researched, Row
  <2> HIDE DEF r
  <2>5. row' \in [Candidates -> Row]
    BY <1>0, <1>3, <2>3, <2>4 DEF LeadFound
  <2>6. HeldRows(Detached(engine, c)) /\ HeldRows(Detached(tool, c))
    BY <1>0, DetachedRows DEF Shape
  <2>7. /\ engine' = Detached(engine, c) /\ tool' = Detached(tool, c)
        /\ UNCHANGED <<edges, auto, connector, stale, checked>>
        /\ engine'.taken = engine.taken
    BY <1>3 DEF LeadFound, Detached, Shape
  <2>8. RowInv' /\ EdgeInv' /\ MeterInv'
    BY <1>0, <2>5, <2>6, <2>7 DEF RowInv, HeldRows, EdgeInv, MeterInv
  <2>9. QED
    BY <2>8 DEF TypedInv
<1>4. ASSUME NEW c \in Candidates, NEW as \in {"anchor", "tradeable"},
             ManualAccept(c, as) \/ ConnectAccepts(c, as)
      PROVE  TypedInv'
  <2>1. /\ UNCHANGED <<row, auto, connector, stale, checked, engine>>
        /\ tool'.held \in {tool.held, <<>>}
    <3>1. NoRun.held = <<>> /\ DOMAIN NoRun = {"at", "todo", "held", "chosen"}
      BY DEF NoRun
    <3>2. CASE ManualAccept(c, as)
      BY <3>2 DEF ManualAccept
    <3>3. CASE ConnectAccepts(c, as)
      BY <3>1, <3>3 DEF ConnectAccepts, Shape
    <3>4. QED
      BY <1>4, <3>2, <3>3
  <2>2. EdgeInv'
    <3>1. CASE \E by \in {"manual", "connected"} : Accept(c, as, by, FALSE)
      BY <1>0, <3>1, AcceptEdges
    <3>2. CASE UNCHANGED edges
      BY <1>0, <3>2 DEF EdgeInv
    <3>3. QED
      BY <1>4, <3>1, <3>2 DEF ManualAccept, ConnectAccepts
  <2>3. HeldRows(tool)'
    BY <1>0, <2>1 DEF HeldRows
  <2>4. RowInv' /\ MeterInv'
    BY <1>0, <2>1, <2>3 DEF RowInv, HeldRows, MeterInv
  <2>5. QED
    BY <2>2, <2>4 DEF TypedInv
<1>5. ASSUME NEW c \in Candidates, NEW advice \in Screens[c], ScreenedAgain(c, advice)
      PROVE  TypedInv'
  <2>1. advice \in Advice
    BY UniverseAssumption
  <2>2. /\ UNCHANGED <<edges, auto, connector, stale, checked, engine>>
        /\ row' = ScreenedBy(tool, c, advice) /\ tool' = Done(tool, c)
    BY <1>5 DEF ScreenedAgain
  <2>3. row' \in [Candidates -> Row] /\ HeldRows(tool)'
    BY <1>0, <2>1, <2>2, ScreenedRows DEF Shape, HeldRows
  <2>4. RowInv' /\ EdgeInv' /\ MeterInv'
    BY <1>0, <2>2, <2>3 DEF RowInv, HeldRows, EdgeInv, MeterInv
  <2>5. QED
    BY <2>4 DEF TypedInv
<1>6. CASE NewDay
  <2>1. /\ UNCHANGED <<row, edges, stale, engine, tool>> /\ checked' = FALSE
        /\ auto' = [auto EXCEPT !.today = FALSE] /\ connector' = [connector EXCEPT !.today = FALSE]
    BY <1>6 DEF NewDay
  <2>2. auto' \in Counter /\ connector' \in Counter
    BY <1>0, <2>1 DEF Counter
  <2>3. RowInv' /\ EdgeInv' /\ MeterInv'
    BY <1>0, <2>1, <2>2 DEF RowInv, HeldRows, EdgeInv, MeterInv
  <2>4. QED
    BY <2>3 DEF TypedInv
<1>7. QED
  BY <1>1, <1>2, <1>3, <1>4, <1>5, <1>6, QuietRest DEF Next, ApplyStep

(* Every variable has its type, and between two awaits a symbol is a member *)
(* exactly when it is accepted, for every set of symbols and however often  *)
(* the process was killed between two writes.                               *)
THEOREM TypeCorrect == Spec => []TypeOK
<1>1. Inv /\ QuarantineInv /\ TypedInv => TypeOK
  <2> SUFFICES ASSUME Inv, QuarantineInv, TypedInv PROVE TypeOK
    OBVIOUS
  <2>1. /\ role \in [Candidates -> {"out", "anchor", "probation", "tradeable"}]
        /\ accepted \in [Candidates -> Acceptance \cup {Not}]
        /\ probation \in [Candidates -> Record \cup {Not}]
    BY DEF Inv, Shape
  <2>2. \A c \in Candidates : OnProbation(c) =>
          probation[c].days \in 0..ProbationDays /\ probation[c].anchors \subseteq Symbols
    BY <2>1 DEF OnProbation, Record
  <2>3. ASSUME AtAwait, NEW c \in Candidates PROVE (role[c] = "out") = ~ IsAccepted(c)
    <3>1. Agrees(c)
      BY <2>3 DEF Inv, RolesInv, AgreeInv, AtAwait, Midway
    <3>2. Rebuilt(accepted, c) = "out" <=> accepted[c] = Not
      <4>1. accepted[c] # Not => accepted[c].as \in {"anchor", "tradeable"}
        BY <2>1, Records
      <4>2. QED
        BY <4>1 DEF Rebuilt
    <3>3. role[c] = "out" <=> ~ IsAccepted(c)
      BY <3>1, <3>2 DEF Agrees, IsAccepted
    <3>4. (role[c] = "out") \in BOOLEAN /\ (~ IsAccepted(c)) \in BOOLEAN
      OBVIOUS
    <3>5. QED
      BY <3>3, <3>4
  <2>4. /\ quarantine \subseteq Candidates /\ row \in [Candidates -> Row]
        /\ edges \subseteq SUBSET Symbols /\ auto \in Counter /\ connector \in Counter
        /\ {stale, checked} \subseteq BOOLEAN
    BY DEF QuarantineInv, TypedInv, RowInv, EdgeInv, MeterInv
  <2>5. QED
    BY <2>1, <2>2, <2>3, <2>4 DEF TypeOK
<1>2. Inv => Shape
  BY DEF Inv
<1>3. QED
  BY <1>1, <1>2, Invariance, QuarantineTyped, TypedInit, TypedStep, PTL DEF Spec
============================================================================
