------------------------------ MODULE Universe ------------------------------
(* The symbols the engine works on: the curated ones, and the candidates    *)
(* that filings and research bring up and that are accepted by hand, by the *)
(* daily pass, by graph maintenance, or on probation (engine.py 655-934,    *)
(* 2067-2723, 4977-5363, 5491-5592; tools.py; research.py).                 *)
(*                                                                          *)
(* What the engine works with (role) is memory; accepted_candidates.json,   *)
(* probation_state.json, quarantined_symbols.json, universe_candidates.json,*)
(* the graph and the two daily counters are on disk, and each set() is      *)
(* durable. The engine's task, the requests of the dashboard and one        *)
(* maintenance run interleave at awaits. A candidate here has a ticker; one *)
(* without is never accepted. Confidence floors and the kinds of            *)
(* relationship are left out: a disclosure counts or is no disclosure. So   *)
(* are the dossiers that leave with a symbol: nothing here reads them.      *)
EXTENDS Naturals, FiniteSets

CONSTANTS
  Anchors, Tradeables,  \* the curated symbols
  Candidates,           \* what discovery may bring up
  NonCommon,            \* candidates whose ticker is not common equity
  Discloses,            \* symbol -> symbols its filings name
  Leads,                \* symbol -> candidates research finds for it
  Screens,              \* candidate -> recommendations its market data may give
  MinSeen,              \* auto_accept_min_seen_count
  AcceptAnchors,        \* auto_accept_anchors
  MaxAuto,              \* auto_accept_max_per_day
  MaxConnect,           \* connector_max_per_day
  MaxProbationary,      \* connector_max_probationary
  ProbationDays,        \* connector_probation_days
  HardKill,             \* whether the process may die between two awaits
  MaxRequests,          \* bound: requests of the operator
  MaxRestarts           \* bound: restarts

Curated == Anchors \cup Tradeables
Symbols == Curated \cup Candidates
Advice == {"unknown", "anchor", "tradeable"}

ASSUME UniverseAssumption ==
  /\ Anchors \cap Tradeables = {} /\ Curated \cap Candidates = {}
  /\ NonCommon \subseteq Candidates /\ IsFiniteSet(Candidates)
  /\ Discloses \in [Symbols -> SUBSET Symbols]
  /\ Leads \in [Symbols -> SUBSET Candidates]
  /\ Screens \in [Candidates -> SUBSET Advice]
  /\ MinSeen \in Nat \ {0} /\ MaxAuto \in Nat /\ MaxConnect \in Nat
  /\ MaxProbationary \in Nat /\ ProbationDays \in Nat
  /\ MaxRequests \in Nat /\ MaxRestarts \in Nat
  /\ AcceptAnchors \in BOOLEAN /\ HardKill \in BOOLEAN

VARIABLES
  role,        \* memory: candidate -> "out", "anchor", "probation" or "tradeable"
  accepted,    \* accepted_candidates.json: candidate -> how and by whom, or Not
  probation,   \* probation_state.json: candidate -> days and anchors, or Not
  quarantine,  \* quarantined_symbols.json
  row,         \* universe_candidates.json
  edges,       \* the relationship graph, without directions
  auto,        \* auto_accept_state.json: whether it bears today's date, and its count
  connector,   \* connector_state.json, likewise
  stale,       \* the bounds of the screen changed since it last ran
  checked,     \* the daily pass has run today, in this process
  engine,      \* where the engine's task is in the daily pass
  tool,        \* where graph maintenance is
  tally,       \* history: what each arm has accepted since midnight
  requests,    \* requests so far
  restarts     \* restarts so far

store == <<accepted, probation, quarantine, row, edges, auto, connector>>
vars == <<role, store, stale, checked, engine, tool, tally, requests, restarts>>

Not == [as |-> "none"]
NoRow == [from |-> {}, lead |-> {}, seen |-> 0, researched |-> FALSE,
          advice |-> "none", blocked |-> FALSE]
Rows == {c \in Candidates : row[c].from \cup row[c].lead # {}}
IsAccepted(c) == accepted[c] # Not
OnProbation(c) == probation[c] # Not

InRole(r) == {c \in Candidates : role[c] \in r}
Members == Curated \cup InRole({"anchor", "probation", "tradeable"})
TradeSide == Tradeables \cup InRole({"probation", "tradeable"})
FullTradeables == Tradeables \cup InRole({"tradeable"})
AnchorSide == Anchors \cup InRole({"anchor"})

(* inert_anchors: no edge to a trade target that is not on probation.       *)
Neighbours(s) == {d \in Symbols : d # s /\ {s, d} \in edges}
InertAnchors == {s \in AnchorSide : Neighbours(s) \cap FullTradeables = {}}

(* Who disclosed the candidate, among the trade targets; which inert anchors*)
(* it would connect: by the filings that name it, and by research only      *)
(* where there are none.                                                    *)
TradeableLinks(c) == row[c].from \cap TradeSide
ConnectorTargets(c, inert) ==
  inert \cap (IF row[c].from # {} THEN row[c].from ELSE row[c].lead)

FilingSeenCount(c) == IF row[c].researched THEN 0 ELSE row[c].seen

(* The role a start of the process gives to what is on disk.                *)
Rebuilt(acc, c) ==
  IF acc[c] = Not THEN "out"
  ELSE IF acc[c].as = "tradeable" /\ OnProbation(c) THEN "probation"
  ELSE acc[c].as
RebuiltRoles(acc) == [c \in Candidates |-> Rebuilt(acc, c)]

(* accept_candidate: what it refuses, and what it does with a symbol that is*)
(* no member yet. The disclosures by members become edges.                  *)
Refuses(c, as) ==
  /\ role[c] = "out"
  /\ as = "tradeable"
  /\ c \in NonCommon \/ row[c].advice # "tradeable"
PendingEdges(c, members) == {{s, c} : s \in row[c].from \cap members}
Accept(c, as, by, onProbation) ==
  IF role[c] # "out" THEN UNCHANGED <<role, accepted, edges>>
  ELSE /\ role' = [role EXCEPT ![c] = IF onProbation THEN "probation" ELSE as]
       /\ accepted' = [accepted EXCEPT ![c] = [as |-> as, by |-> by]]
       /\ edges' = edges \cup PendingEdges(c, Members)
----------------------------------------------------------------------------
NoSymbol == "no symbol"
Idle == [at |-> "idle", sym |-> NoSymbol, todo |-> {}, held |-> <<>>, drop |-> {},
         inert |-> {}, taken |-> 0, open |-> 0]
NoRun == [at |-> "idle", todo |-> {}, held |-> <<>>, chosen |-> {}]

(* What an arm has accepted since midnight: taken under a counter that bears*)
(* the day's date, late in a pass that midnight found at work, and lost to a*)
(* kill before the counter had it.                                          *)
NoneYet == [taken |-> 0, late |-> 0, lost |-> 0]
OneMore(t, today) ==
  IF today THEN [t EXCEPT !.taken = @ + 1] ELSE [t EXCEPT !.late = @ + 1]
OneLost(t) == [t EXCEPT !.lost = @ + 1]

Init ==
  /\ role = [c \in Candidates |-> "out"]
  /\ accepted = [c \in Candidates |-> Not]
  /\ probation = [c \in Candidates |-> Not]
  /\ quarantine = {} /\ edges = {}
  /\ row = [c \in Candidates |-> NoRow]
  /\ auto = [today |-> FALSE, count |-> 0]
  /\ connector = [today |-> FALSE, count |-> 0]
  /\ stale = FALSE /\ checked = FALSE
  /\ engine = Idle /\ tool = NoRun
  /\ tally = [auto |-> NoneYet, connector |-> NoneYet] /\ requests = 0 /\ restarts = 0

(* Where the engine's task and maintenance await and others may run.        *)
AtAwait ==
  /\ engine.at \in {"idle", "recheck", "auto name", "auto alert", "review alert",
                    "grow name", "grow alert"}
  /\ tool.at # "apply"

----------------------------------------------------------------------------
(* Discovery.                                                               *)

(* A filing of a member names another symbol: a member becomes an edge, any *)
(* other symbol a candidate, with the disclosure kept for the day it is     *)
(* accepted.                                                                *)
Disclosed(s, c) == [row EXCEPT ![c].from = @ \cup {s},
                               ![c].seen = IF @ < MinSeen THEN @ + 1 ELSE @]
FilingRead(s, d) ==
  /\ engine.at = "idle"
  /\ s \in Members /\ d \in Discloses[s]
  /\ IF d \in Members
     THEN edges' = edges \cup {{s, d}} /\ UNCHANGED row
     ELSE d \in Candidates /\ row' = Disclosed(s, d) /\ UNCHANGED edges
  /\ UNCHANGED <<role, accepted, probation, quarantine, auto, connector,
                 stale, checked, engine, tool, tally, requests, restarts>>

(* Research for an anchor leaves a lead, and marks a row that no filing     *)
(* disclosed. It stores a copy of the row: a recheck that has yet to save   *)
(* this one goes on with the row of before.                                 *)
Researched(s, c) ==
  [row EXCEPT ![c].lead = @ \cup {s}, ![c].seen = IF @ = 0 THEN 1 ELSE @,
              ![c].researched = row[c].from = {}]
Detached(loop, c) ==
  IF loop.at = "recheck" /\ c \in loop.todo /\ c \notin DOMAIN loop.held
  THEN [loop EXCEPT !.held = [d \in {c} \cup DOMAIN @ |-> IF d = c THEN row[c] ELSE @[d]]]
  ELSE loop
LeadFound(s, c) ==
  /\ AtAwait
  /\ s \in AnchorSide /\ c \in Leads[s]
  /\ row' = Researched(s, c)
  /\ engine' = Detached(engine, c) /\ tool' = Detached(tool, c)
  /\ UNCHANGED <<role, accepted, probation, quarantine, edges, auto, connector,
                 stale, checked, tally, requests, restarts>>

(* _run_candidate_ticker_recheck: the candidates are screened again where   *)
(* nothing is known of them or the bounds have changed, each after a lookup.*)
ToScreen == {c \in Rows : stale \/ row[c].advice = "none"}
InHand(loop, c) == IF c \in DOMAIN loop.held THEN loop.held[c] ELSE row[c]
Done(loop, c) ==
  [loop EXCEPT !.todo = @ \ {c}, !.held = [d \in DOMAIN @ \ {c} |-> @[d]]]
ScreenedBy(loop, c, advice) == [row EXCEPT ![c] = [InHand(loop, c) EXCEPT !.advice = advice]]
----------------------------------------------------------------------------
(* The engine's daily pass: recheck, correct, accept, review, grow.         *)

StartPass ==
  /\ engine.at = "idle" /\ ~ checked
  /\ engine' = [engine EXCEPT !.at = "recheck",
                  !.todo = ToScreen]
  /\ checked' = TRUE
  /\ UNCHANGED <<role, store, stale, tool, tally, requests, restarts>>

Screened(c, advice) ==
  /\ engine.at = "recheck" /\ c \in engine.todo /\ advice \in Screens[c]
  /\ row' = ScreenedBy(engine, c, advice)
  /\ engine' = Done(engine, c)
  /\ UNCHANGED <<role, accepted, probation, quarantine, edges, auto, connector,
                 stale, checked, tool, tally, requests, restarts>>

(* _reconcile_accepted_types: whatever screens as an anchor becomes one.    *)
Corrected(c) == IsAccepted(c) /\ accepted[c].as = "tradeable" /\ row[c].advice = "anchor"
(* Mutant: only the file is corrected.                                      *)
CorrectTypesOnDisk ==
  /\ accepted' = [c \in Candidates |->
                    IF Corrected(c) THEN [accepted[c] EXCEPT !.as = "anchor"] ELSE accepted[c]]
  /\ role' = role
CorrectTypes ==
  /\ accepted' = [c \in Candidates |->
                    IF Corrected(c) THEN [accepted[c] EXCEPT !.as = "anchor"] ELSE accepted[c]]
  /\ role' = [c \in Candidates |->
                IF Corrected(c) /\ role[c] # "out" THEN "anchor" ELSE role[c]]

(* The daily counter of an arm, and what a restart leaves of it. Its date   *)
(* and its zero are written one after the other; here they are one step, as *)
(* are an acceptance and its edges.                                         *)
(* Mutant: the count of the day is forgotten with the process.              *)
CountForgotten(counter) == 0
CountToday(counter) == IF counter.today THEN counter.count ELSE 0

(* Both before the first candidate is looked at; rows whose disclosure reads*)
(* as no business relationship are barred from then on.                     *)
EnterAuto ==
  /\ engine.at = "recheck" /\ engine.todo = {}
  /\ CorrectTypes
  /\ \E junk \in SUBSET {c \in Rows : accepted'[c] = Not} :
       row' = [c \in Candidates |-> IF c \in junk THEN [row[c] EXCEPT !.blocked = TRUE]
                                    ELSE row[c]]
  /\ auto' = [today |-> TRUE, count |-> CountToday(auto)]
  /\ stale' = FALSE
  /\ engine' = [engine EXCEPT !.at = "auto", !.todo = Rows, !.taken = CountToday(auto)]
  /\ UNCHANGED <<probation, quarantine, edges, connector, checked, tool, tally, requests, restarts>>

(* _auto_accept_candidates, in any order of the candidates.                 *)
(* Mutant: the quarantine is not asked.                                     *)
FreeOfAcceptance(c) == role[c] = "out" /\ ~ IsAccepted(c)
Free(c) == role[c] = "out" /\ ~ IsAccepted(c) /\ c \notin quarantine
AutoAnchor(c) ==
  /\ Free(c) /\ ~ row[c].blocked /\ row[c].advice = "anchor"
  /\ AcceptAnchors /\ TradeableLinks(c) # {}
AutoTradeable(c) ==
  /\ Free(c) /\ ~ row[c].blocked /\ row[c].advice = "tradeable"
  /\ FilingSeenCount(c) >= MinSeen

(* First the acceptance, then the day's count of it.                        *)
AutoAccepts(c) ==
  /\ Accept(c, row[c].advice, "auto", FALSE)
  /\ tally' = IF role[c] # "out" THEN tally
              ELSE [tally EXCEPT !.auto = OneMore(@, auto.today)]
  /\ engine' = [engine EXCEPT !.at = "auto count", !.sym = NoSymbol, !.todo = @ \ {c}]
  /\ UNCHANGED <<probation, quarantine, auto, connector>>

AutoCounts ==
  /\ engine.at = "auto count"
  /\ auto' = [auto EXCEPT !.count = engine.taken + 1]
  /\ engine' = [engine EXCEPT !.at = "auto alert", !.taken = @ + 1]
  /\ UNCHANGED <<role, accepted, probation, quarantine, row, edges, connector,
                 stale, checked, tool, tally, requests, restarts>>

AutoSkips(c) ==
  /\ engine.at = "auto" /\ c \in engine.todo
  /\ ~ AutoAnchor(c) /\ ~ AutoTradeable(c)
  /\ engine' = [engine EXCEPT !.todo = @ \ {c}]
  /\ UNCHANGED <<role, store, stale, checked, tool, tally, requests, restarts>>

AutoTakesAnchor(c) ==
  /\ engine.at = "auto" /\ c \in engine.todo /\ engine.taken < MaxAuto
  /\ AutoAnchor(c)
  /\ AutoAccepts(c)
  /\ UNCHANGED <<row, stale, checked, tool, requests, restarts>>

AutoAsksName(c) ==
  /\ engine.at = "auto" /\ c \in engine.todo /\ engine.taken < MaxAuto
  /\ AutoTradeable(c)
  /\ engine' = [engine EXCEPT !.at = "auto name", !.sym = c]
  /\ UNCHANGED <<role, store, stale, checked, tool, tally, requests, restarts>>

(* The name is the one SEC has for the ticker: accepted as a trade target.  *)
(* Where accept_candidate refuses it raises, and nothing below the engine's *)
(* tick catches that: the rest of the pass is not run today.                *)
NameMatches ==
  /\ engine.at = "auto name"
  /\ IF Refuses(engine.sym, "tradeable")
     THEN engine' = Idle /\ UNCHANGED <<role, store, tally>>
     ELSE AutoAccepts(engine.sym) /\ UNCHANGED row
  /\ UNCHANGED <<stale, checked, tool, requests, restarts>>

NameDiffers ==
  /\ engine.at = "auto name"
  /\ row' = [row EXCEPT ![engine.sym].blocked = TRUE]
  /\ engine' = [engine EXCEPT !.at = "auto", !.sym = NoSymbol, !.todo = @ \ {engine.sym}]
  /\ UNCHANGED <<role, accepted, probation, quarantine, edges, auto, connector,
                 stale, checked, tool, tally, requests, restarts>>

AlertSent ==
  /\ engine.at \in {"auto alert", "review alert", "grow alert"}
  /\ engine' = [engine EXCEPT !.at =
                  CASE @ = "auto alert" -> "auto" [] @ = "review alert" -> "review"
                    [] @ = "grow alert" -> "grow"]
  /\ UNCHANGED <<role, store, stale, checked, tool, tally, requests, restarts>>

(* _review_probation decides from the records and the graph as they are when*)
(* it starts: an edge to an anchor of the record promotes, age alone drops. *)
(* Mutant: a probation that has lasted its days is one that has been earned.*)
ConfirmedByAge(c) == OnProbation(c) /\ probation[c].days >= ProbationDays
Confirmed(c) == OnProbation(c) /\ Neighbours(c) \cap probation[c].anchors # {}
(* Mutant: the record of a symbol that has left is not looked at.           *)
ExpiredMember(c) ==
  role[c] # "out" /\ OnProbation(c) /\ ~ Confirmed(c) /\ probation[c].days >= ProbationDays
Expired(c) == OnProbation(c) /\ ~ Confirmed(c) /\ probation[c].days >= ProbationDays

EnterReview ==
  /\ engine.at = "auto" /\ (engine.todo = {} \/ engine.taken >= MaxAuto)
  /\ engine' = [Idle EXCEPT !.at = "review", !.todo = {c \in Candidates : Confirmed(c)},
                              !.drop = {c \in Candidates : Expired(c)}]
  /\ UNCHANGED <<role, store, stale, checked, tool, tally, requests, restarts>>

Promotes(c) ==
  /\ engine.at = "review" /\ c \in engine.todo
  /\ probation' = [probation EXCEPT ![c] = Not]
  /\ role' = [role EXCEPT ![c] = IF @ = "probation" THEN "tradeable" ELSE @]
  /\ engine' = [engine EXCEPT !.at = "review alert", !.todo = @ \ {c}]
  /\ UNCHANGED <<accepted, quarantine, row, edges, auto, connector,
                 stale, checked, tool, tally, requests, restarts>>

(* A probation that ran out: first its record, then the symbol.             *)
RecordDropped(c) ==
  /\ engine.at = "review" /\ c \in engine.drop
  /\ probation' = [probation EXCEPT ![c] = Not]
  /\ engine' = [engine EXCEPT !.at = "review drop", !.drop = @ \ {c}, !.sym = c]
  /\ UNCHANGED <<role, accepted, quarantine, row, edges, auto, connector,
                 stale, checked, tool, tally, requests, restarts>>

Out(c) == /\ role' = [role EXCEPT ![c] = "out"]
          /\ accepted' = [accepted EXCEPT ![c] = Not]
SymbolDropped ==
  /\ engine.at = "review drop"
  /\ Out(engine.sym)
  /\ engine' = [engine EXCEPT !.at = "review", !.sym = NoSymbol]
  /\ UNCHANGED <<probation, quarantine, row, edges, auto, connector,
                 stale, checked, tool, tally, requests, restarts>>

(* _grow_connectors: closed while the day's admissions or the probations    *)
(* are at their limit; the inert anchors are those of this moment.          *)
OpenProbations == Cardinality({c \in Candidates : OnProbation(c)})
EnterGrow ==
  /\ engine.at = "review" /\ engine.todo = {} /\ engine.drop = {}
  /\ connector' = [today |-> TRUE, count |-> CountToday(connector)]
  /\ engine' = [Idle EXCEPT !.at = "grow", !.todo = {c \in Rows : role[c] = "out"},
                  !.inert = InertAnchors, !.taken = CountToday(connector),
                  !.open = OpenProbations]
  /\ UNCHANGED <<role, accepted, probation, quarantine, row, edges, auto,
                 stale, checked, tool, tally, requests, restarts>>

GrowLimit == engine.taken >= MaxConnect \/ engine.open >= MaxProbationary
Connects(c) ==
  /\ ~ IsAccepted(c) /\ c \notin quarantine
  /\ row[c].advice = "tradeable" /\ c \notin NonCommon
  /\ ConnectorTargets(c, engine.inert) # {}

GrowSkips(c) ==
  /\ engine.at = "grow" /\ c \in engine.todo /\ ~ Connects(c)
  /\ engine' = [engine EXCEPT !.todo = @ \ {c}]
  /\ UNCHANGED <<role, store, stale, checked, tool, tally, requests, restarts>>

GrowAsksName(c) ==
  /\ engine.at = "grow" /\ c \in engine.todo /\ ~ GrowLimit /\ Connects(c)
  /\ engine' = [engine EXCEPT !.at = "grow name", !.sym = c, !.todo = @ \ {c}]
  /\ UNCHANGED <<role, store, stale, checked, tool, tally, requests, restarts>>

GrowNameDiffers ==
  /\ engine.at = "grow name"
  /\ engine' = [engine EXCEPT !.at = "grow", !.sym = NoSymbol]
  /\ UNCHANGED <<role, store, stale, checked, tool, tally, requests, restarts>>

(* First the acceptance, then the record that makes it a probation, then    *)
(* the count. A symbol accepted by hand during the lookup keeps its role    *)
(* and is given the record all the same.                                    *)
Admits ==
  /\ engine.at = "grow name" /\ ~ Refuses(engine.sym, "tradeable")
  /\ Accept(engine.sym, "tradeable", "connector", TRUE)
  /\ tally' = IF role[engine.sym] # "out" THEN tally
              ELSE [tally EXCEPT !.connector = OneMore(@, connector.today)]
  /\ engine' = [engine EXCEPT !.at = "grow record"]
  /\ UNCHANGED <<probation, quarantine, row, auto, connector,
                 stale, checked, tool, requests, restarts>>

Recorded ==
  /\ engine.at = "grow record"
  /\ probation' = [probation EXCEPT ![engine.sym] =
       [days |-> 0, anchors |-> ConnectorTargets(engine.sym, engine.inert)]]
  /\ engine' = [engine EXCEPT !.at = "grow count", !.sym = NoSymbol]
  /\ UNCHANGED <<role, accepted, quarantine, row, edges, auto, connector,
                 stale, checked, tool, tally, requests, restarts>>

GrowCounts ==
  /\ engine.at = "grow count"
  /\ connector' = [connector EXCEPT !.count = engine.taken + 1]
  /\ engine' = [engine EXCEPT !.at = "grow alert", !.taken = @ + 1, !.open = @ + 1]
  /\ UNCHANGED <<role, accepted, probation, quarantine, row, edges, auto,
                 stale, checked, tool, tally, requests, restarts>>

GrowDone ==
  /\ engine.at = "grow" /\ (engine.todo = {} \/ GrowLimit)
  /\ engine' = Idle
  /\ UNCHANGED <<role, store, stale, checked, tool, tally, requests, restarts>>

(* The monthly screen: what has no market data any more is removed, what    *)
(* has outgrown the bounds becomes an anchor.                               *)
MonthlyScreen(c) ==
  /\ engine.at = "idle"
  /\ IsAccepted(c) /\ role[c] # "out"
  /\ \/ Out(c)
     \/ /\ accepted[c].as = "tradeable"
        /\ accepted' = [accepted EXCEPT ![c].as = "anchor"]
        /\ role' = [role EXCEPT ![c] = "anchor"]
  /\ UNCHANGED <<probation, quarantine, row, edges, auto, connector,
                 stale, checked, engine, tool, tally, requests, restarts>>
----------------------------------------------------------------------------
(* The dashboard.                                                           *)

Requested == requests < MaxRequests /\ requests' = requests + 1

ManualAccept(c, as) ==
  /\ AtAwait /\ Requested
  /\ c \in Rows /\ role[c] = "out" /\ ~ Refuses(c, as)
  /\ Accept(c, as, "manual", FALSE)
  /\ UNCHANGED <<probation, quarantine, row, auto, connector,
                 stale, checked, engine, tool, tally, restarts>>

Rebuild(acc) == accepted' = acc /\ role' = RebuiltRoles(acc)

(* Every acceptance is withdrawn. The records of probations stay.           *)
ResetAccepted ==
  /\ AtAwait /\ Requested
  /\ Rebuild([c \in Candidates |-> Not])
  /\ UNCHANGED <<probation, quarantine, row, edges, auto, connector,
                 stale, checked, engine, tool, tally, restarts>>

(* Graph maintenance. Clean: what the audit finds unfit is quarantined; the *)
(* symbols with an open trade, which it spares, are among those not chosen. *)
Cleans(unfit) ==
  /\ AtAwait /\ Requested /\ tool.at = "idle"
  /\ \A c \in unfit : IsAccepted(c)
  /\ quarantine' = quarantine \cup unfit
  /\ IF unfit = {} THEN UNCHANGED <<role, accepted>>
     ELSE Rebuild([c \in Candidates |-> IF c \in unfit THEN Not ELSE accepted[c]])
  /\ tool' = [tool EXCEPT !.at = "recheck", !.todo = ToScreen]
  /\ UNCHANGED <<probation, row, edges, auto, connector,
                 stale, checked, engine, tally, restarts>>

(* Resolve: the recheck of the daily pass, on the operator's time.          *)
ScreenedAgain(c, advice) ==
  /\ AtAwait /\ tool.at = "recheck" /\ c \in tool.todo /\ advice \in Screens[c]
  /\ row' = ScreenedBy(tool, c, advice)
  /\ tool' = Done(tool, c)
  /\ UNCHANGED <<role, accepted, probation, quarantine, edges, auto, connector,
                 stale, checked, engine, tally, requests, restarts>>

(* Connect, whether or not that and the search before it came to their end: *)
(* candidates that a trade target disclosed are collected, one lookup each, *)
(* from those that were no members when it began.                           *)
ConnectBegins ==
  /\ AtAwait /\ tool.at = "recheck"
  /\ tool' = [NoRun EXCEPT !.at = "connect", !.todo = {c \in Rows : role[c] = "out"}]
  /\ UNCHANGED <<role, store, stale, checked, engine, tally, requests, restarts>>

Lands(c) == ~ IsAccepted(c) /\ c \notin quarantine /\ TradeableLinks(c) # {}
ConnectAs(c) ==
  IF row[c].advice = "tradeable" /\ c \notin NonCommon THEN "tradeable" ELSE "anchor"
ConnectLooksUp(c) ==
  /\ AtAwait /\ tool.at = "connect" /\ c \in tool.todo
  /\ \/ tool' = [tool EXCEPT !.todo = @ \ {c}]
     \/ /\ Lands(c)
        /\ tool' = [tool EXCEPT !.todo = @ \ {c}, !.chosen = @ \cup {<<c, ConnectAs(c)>>}]
  /\ UNCHANGED <<role, store, stale, checked, engine, tally, requests, restarts>>

(* Then, without an await, they are accepted one by one, and the accepted   *)
(* anchors that reach no trade target are removed. A refusal ends the run.  *)
ConnectApplies ==
  /\ AtAwait /\ tool.at = "connect" /\ tool.todo = {}
  /\ tool' = [tool EXCEPT !.at = "apply"]
  /\ UNCHANGED <<role, store, stale, checked, engine, tally, requests, restarts>>

ConnectAccepts(c, as) ==
  /\ tool.at = "apply" /\ <<c, as>> \in tool.chosen
  /\ IF Refuses(c, as) THEN UNCHANGED <<role, accepted, edges>> /\ tool' = NoRun
     ELSE /\ Accept(c, as, "connected", FALSE)
          /\ tool' = [tool EXCEPT !.chosen = @ \ {<<c, as>>}]
  /\ UNCHANGED <<probation, quarantine, row, auto, connector,
                 stale, checked, engine, tally, requests, restarts>>

ConnectPrunes ==
  /\ tool.at = "apply" /\ tool.chosen = {}
  /\ LET inert == {c \in InRole({"anchor"}) : IsAccepted(c) /\ Neighbours(c) \cap TradeSide = {}}
     IN IF inert = {} THEN UNCHANGED <<role, accepted>>
        ELSE Rebuild([c \in Candidates |-> IF c \in inert THEN Not ELSE accepted[c]])
  /\ tool' = NoRun
  /\ UNCHANGED <<probation, quarantine, row, edges, auto, connector,
                 stale, checked, engine, tally, requests, restarts>>

ApplyStep ==
  \/ ConnectPrunes
  \/ \E c \in Candidates, as \in {"anchor", "tradeable"} : ConnectAccepts(c, as)
----------------------------------------------------------------------------
(* The day turns; and the process stops, at an await or anywhere, and starts*)
(* on what is on disk, perhaps with other bounds.                           *)
Aged(record) ==
  IF record = Not THEN Not
  ELSE [record EXCEPT !.days = IF @ < ProbationDays THEN @ + 1 ELSE @]
NewDay ==
  /\ AtAwait
  /\ probation' = [c \in Candidates |-> Aged(probation[c])]
  /\ auto' = [auto EXCEPT !.today = FALSE]
  /\ connector' = [connector EXCEPT !.today = FALSE]
  /\ checked' = FALSE
  /\ tally' = [auto |-> NoneYet, connector |-> NoneYet]
  /\ UNCHANGED <<role, accepted, quarantine, row, edges, stale, engine, tool, requests, restarts>>

(* The acceptance of today that the counter on disk will never have.        *)
Uncounted ==
  CASE engine.at = "auto count" -> [tally EXCEPT !.auto = OneLost(@)]
    [] engine.at \in {"grow record", "grow count"} -> [tally EXCEPT !.connector = OneLost(@)]
    [] OTHER -> tally

Restart ==
  /\ restarts < MaxRestarts
  /\ AtAwait \/ HardKill
  /\ restarts' = restarts + 1
  /\ role' = RebuiltRoles(accepted)
  /\ stale' \in {stale, TRUE}
  /\ checked' = FALSE /\ engine' = Idle /\ tool' = NoRun
  /\ tally' = Uncounted
  /\ UNCHANGED <<store, requests>>

PassStep ==
  /\ tool.at # "apply"
  /\ \/ StartPass \/ EnterAuto \/ AlertSent \/ NameMatches \/ NameDiffers
     \/ AutoCounts \/ EnterReview \/ SymbolDropped
     \/ EnterGrow \/ Admits \/ GrowNameDiffers \/ Recorded \/ GrowCounts \/ GrowDone
     \/ \E c \in Candidates :
          \/ \E advice \in Screens[c] : Screened(c, advice)
          \/ AutoSkips(c) \/ AutoTakesAnchor(c) \/ AutoAsksName(c)
          \/ Promotes(c) \/ RecordDropped(c)
          \/ GrowSkips(c) \/ GrowAsksName(c)

Next ==
  \/ PassStep \/ ApplyStep
  \/ \E s \in Symbols, d \in Symbols : FilingRead(s, d)
  \/ \E s \in Symbols, c \in Candidates : LeadFound(s, c)
  \/ \E c \in Candidates : MonthlyScreen(c) \/ ConnectLooksUp(c)
  \/ \E c \in Candidates, as \in {"anchor", "tradeable"} : ManualAccept(c, as)
  \/ ResetAccepted
  \/ \E unfit \in SUBSET Candidates : Cleans(unfit)
  \/ \E c \in Candidates : \E advice \in Screens[c] : ScreenedAgain(c, advice)
  \/ ConnectBegins \/ ConnectApplies
  \/ NewDay \/ Restart

(* The engine's loop goes on, a run of maintenance does not stop half-way   *)
(* through a step, and days pass.                                           *)
Spec == Init /\ [][Next]_vars /\ WF_vars(PassStep) /\ WF_vars(ApplyStep) /\ WF_vars(NewDay)
----------------------------------------------------------------------------
(* Properties.                                                              *)

Acceptance == [as : {"anchor", "tradeable"}, by : {"manual", "auto", "connector", "connected"}]
Counter == [today : BOOLEAN, count : Nat]
Row == [from : SUBSET Symbols, lead : SUBSET Symbols, seen : 0..MinSeen,
        researched : BOOLEAN, advice : Advice \cup {"none"}, blocked : BOOLEAN]

(* Every variable has its type; between two awaits a symbol is a member     *)
(* exactly when it is accepted.                                             *)
TypeOK ==
  /\ role \in [Candidates -> {"out", "anchor", "probation", "tradeable"}]
  /\ accepted \in [Candidates -> Acceptance \cup {Not}]
  /\ \A c \in Candidates : OnProbation(c) =>
       probation[c].days \in 0..ProbationDays /\ probation[c].anchors \subseteq Symbols
  /\ quarantine \subseteq Candidates
  /\ row \in [Candidates -> Row]
  /\ edges \subseteq SUBSET Symbols
  /\ auto \in Counter /\ connector \in Counter
  /\ {stale, checked} \subseteq BOOLEAN
  /\ AtAwait => \A c \in Candidates : (role[c] = "out") = ~ IsAccepted(c)

(* "It just cannot be traded on the strength of the web-sourced lead that   *)
(* admitted it" (_is_tradeable): a symbol the connector arm admitted may    *)
(* open positions only when the graph joins it to an anchor, through every  *)
(* reset, correction and restart that rebuilds the roles.                   *)
ProbationHolds ==
  \A c \in Candidates :
    IsAccepted(c) /\ accepted[c].by = "connector" /\ role[c] = "tradeable"
      => \E s \in Symbols \ Tradeables : {s, c} \in edges

(* "So the in-memory universe and spec index match what the next restart    *)
(* would load" (reconcile_universe_connectivity): whenever the process may  *)
(* stop in good order, its next start gives each symbol the role it has,    *)
(* but that a record left over may put a trade target on probation; no      *)
(* start grants trading rights.                                             *)
RestartKeepsRoles ==
  AtAwait =>
    \A c \in Candidates :
      \/ role[c] = Rebuilt(accepted, c)
      \/ role[c] = "tradeable" /\ Rebuilt(accepted, c) = "probation"

(* What an arm accepts in a day, over its restarts and whatever else accepts*)
(* symbols meanwhile: its cap and one for each kill between an acceptance   *)
(* and its count; and before that, in a pass that midnight found at work and*)
(* that goes on under the count of the day before, once more the cap.       *)
Within(t, cap) == t.taken <= cap + t.lost /\ t.late <= cap
CapsHold == Within(tally.auto, MaxAuto) /\ Within(tally.connector, MaxConnect)

(* "At most auto_accept_max_per_day per UTC day" (_auto_accept_candidates), *)
(* and "admissions per UTC day" (connector_max_per_day).                    *)
AcceptedPerDay ==
  /\ tally.auto.taken + tally.auto.late <= MaxAuto
  /\ tally.connector.taken + tally.connector.late <= MaxConnect

(* "Auto-accept or connectivity reconcile would re-add the symbol from the  *)
(* same candidate row that produced it, and the clean would undo itself on  *)
(* a schedule" (__init__): no lookup begins for a quarantined symbol, and it*)
(* comes back by hand, or by a lookup that had begun before, not otherwise. *)
LookupUnderWay(c) ==
  \/ engine.at \in {"auto name", "grow name"} /\ engine.sym = c
  \/ \E as \in {"anchor", "tradeable"} : <<c, as>> \in tool.chosen
QuarantineSticks ==
  [][\A c \in quarantine : ~ LookupUnderWay(c) =>
       /\ ~ LookupUnderWay(c)'
       /\ ~ IsAccepted(c) /\ accepted'[c] # Not => accepted'[c].by = "manual"]_vars

(* A candidate that screens as tradeable and whose acceptance raises: the   *)
(* pass stops there on every day.                                           *)
Starving(c) ==
  /\ c \in NonCommon /\ AutoTradeable(c)
PassStarved == \E c \in Candidates : Starving(c)

(* "They resolve on their own" (_grow_connectors): every probation ends,    *)
(* promoted or dropped, unless the pass that ends it is starved.            *)
ProbationResolved ==
  \A c \in Candidates : OnProbation(c) ~> ~ OnProbation(c) \/ PassStarved

(* The same without the exception.                                          *)
ProbationAlwaysResolved == \A c \in Candidates : OnProbation(c) ~> ~ OnProbation(c)
============================================================================
