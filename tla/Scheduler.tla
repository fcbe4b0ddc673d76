------------------------------ MODULE Scheduler ------------------------------
(* The engine's tick: which passes run, in which order, when each is due    *)
(* and when it is marked done; the price poll and the read-only price feed  *)
(* with its circuit breaker (engine.py 1177-1562, 4869-4975; prices.py).    *)
(*                                                                          *)
(* A daily pass is due a day after its mark in periodic_state.json, a poll  *)
(* an interval (a slot here) after a clock in memory. Some are marked before*)
(* they run, some after, some only when they wrote something; an exception  *)
(* ends the tick there, and the next one begins at the top. What a pass does*)
(* is left out but for the prices it asks for. The passes of one kind that  *)
(* follow each other in the tick are one pass here: ingest is EDGAR and     *)
(* news, and supplier_research stands for the four marked before they run.  *)
(*                                                                          *)
(* Time is a slot of the day; a quarter of an hour passes within a slot.    *)
EXTENDS Naturals, Sequences, FiniteSets

CONSTANTS
  SlotsPerDay,       \* a day, in slots
  Week,              \* for each day of the week, whether the market trades
  Quotes,            \* whether Finnhub is configured
  Gateway,           \* whether the IB feed is configured
  Threshold,         \* _IB_BREAKER_THRESHOLD
  MaxPriced,         \* bound: symbols priced in one pass
  MaxFaults,         \* bound: passes that raise or find nothing, and outages of Finnhub
  MaxCrashes         \* bound: crashes

ASSUME SchedulerAssumption ==
  /\ SlotsPerDay \in Nat \ {0}
  /\ Week \in Seq(BOOLEAN) /\ Week # <<>>
  /\ Quotes \in BOOLEAN /\ Gateway \in BOOLEAN
  /\ {Threshold, MaxPriced} \subseteq Nat \ {0}
  /\ {MaxFaults, MaxCrashes} \subseteq Nat

Order == <<"decay_pass", "poll", "ingest", "poll", "dossier_snapshot", "price_marks",
           "candidates", "supplier_research">>
MarkedAfter == {"decay_pass", "dossier_snapshot", "price_marks"}
MarkedBefore == {"supplier_research"}
Daily == MarkedAfter \cup MarkedBefore
Polls == {"ingest", "candidates"}
Passes == Daily \cup Polls \cup {"poll"}

Short == 1   \* signal_entry_poll_interval_sec, in quarters of an hour
Long == 2    \* price_poll_interval_sec, the same
Gap == 1     \* IB_RETRY_GAP_SEC, the same

VARIABLES
  day, slot,   \* the calendar
  age,         \* periodic_state.json and the clocks of the polls: slots since the mark
  polled,      \* quarters of an hour since the last price poll
  pending,     \* a signal waits for its entry, or a trade is open
  held,        \* the retry of the price marks is held off
  streak,      \* _consecutive_failures of the feed
  open,        \* the breaker is open
  tick,        \* where the tick is, and what it has in hand
  ran,         \* history: slots since the pass began (marked before) or came to its end
  stalls,      \* history: timeouts since the feed answered or the breaker opened, and which it was
  faults, crashes

feed == <<streak, open, stalls>>
vars == <<day, slot, age, polled, pending, held, feed, tick, ran, faults, crashes>>

TradingDay == Week[day]
At(where) == tick.at = where
Pass == Order[tick.pass]
Asleep(slow) == [at |-> "asleep", pass |-> 1, left |-> 0, got |-> FALSE, slow |-> slow]

HasPriceSource == Gateway \/ Quotes
PollInterval == IF pending THEN Short ELSE Long

Interval(p) == IF p \in Polls THEN 1 ELSE SlotsPerDay
Due(p) ==
  CASE p = "poll" -> HasPriceSource /\ polled >= PollInterval
    [] p = "dossier_snapshot" -> TradingDay /\ age[p] = Interval(p)
    [] p = "price_marks" -> HasPriceSource /\ ~ held /\ TradingDay /\ age[p] = Interval(p)
    [] OTHER -> age[p] = Interval(p)
----------------------------------------------------------------------------
Init ==
  /\ day = 1 /\ slot = 0
  /\ age = [p \in Daily \cup Polls |-> Interval(p)] /\ ran = [p \in Daily |-> Interval(p)]
  /\ polled = Long /\ pending = TRUE /\ held = FALSE
  /\ streak = 0 /\ open = FALSE /\ stalls = [count |-> 0, again |-> FALSE]
  /\ tick = Asleep(FALSE) /\ faults = 0 /\ crashes = 0

(* The pass is over, or was not due: the next one, or the end of the tick.  *)
Onward ==
  IF tick.pass = Len(Order) THEN Asleep(tick.slow)
  ELSE [tick EXCEPT !.at = "pass", !.pass = @ + 1, !.left = 0, !.got = FALSE]

StartTick ==
  /\ At("asleep")
  /\ tick' = [Asleep(FALSE) EXCEPT !.at = "pass"]
  /\ UNCHANGED <<day, slot, age, polled, pending, held, feed, ran, faults, crashes>>

(* Mutant: what is not due ends the tick.                                   *)
NotDueEndsTick ==
  /\ At("pass") /\ ~ Due(Pass)
  /\ tick' = Asleep(tick.slow)
  /\ UNCHANGED <<day, slot, age, polled, pending, held, feed, ran, faults, crashes>>
NotDue ==
  /\ At("pass") /\ ~ Due(Pass)
  /\ tick' = Onward
  /\ UNCHANGED <<day, slot, age, polled, pending, held, feed, ran, faults, crashes>>

(* What is marked before it runs is marked here.                            *)
(* Mutants: the mark is left to the end; the mark comes first everywhere.   *)
MarkNothing(p) == UNCHANGED age
MarkAtOnce(p) == IF p = "poll" THEN UNCHANGED age ELSE age' = [age EXCEPT ![p] = 0]
MarkedAtStart(p) ==
  IF p \in MarkedBefore \cup Polls THEN age' = [age EXCEPT ![p] = 0] ELSE UNCHANGED age
Begun(p) == IF p \in MarkedBefore THEN [ran EXCEPT ![p] = 0] ELSE ran

BeginPass ==
  /\ At("pass") /\ Due(Pass) /\ Pass \notin {"poll", "price_marks"}
  /\ MarkedAtStart(Pass) /\ ran' = Begun(Pass)
  /\ tick' = [tick EXCEPT !.at = "run"]
  /\ UNCHANGED <<day, slot, polled, pending, held, feed, faults, crashes>>

(* _run_entry_and_marking_poll: with neither source the poll is not made,   *)
(* and comes again after the retry gap.                                     *)
BeginPoll ==
  /\ At("pass") /\ Pass = "poll" /\ Due(Pass)
  /\ \E connected \in {FALSE, Gateway} :
       IF connected \/ Quotes
       THEN \E n \in 0..MaxPriced :
              /\ polled' = 0
              /\ tick' = [tick EXCEPT !.at = "run", !.left = IF Gateway THEN n ELSE 0]
       ELSE polled' = PollInterval - Gap /\ tick' = Onward
  /\ UNCHANGED <<day, slot, age, pending, held, feed, ran, faults, crashes>>

(* _run_daily_price_marks: Finnhub first, IB for what it does not give.     *)
Faulty == faults < MaxFaults /\ faults' = faults + 1
BeginMarks ==
  /\ At("pass") /\ Pass = "price_marks" /\ Due(Pass)
  /\ \E quoted \in {FALSE, Quotes}, connected \in {FALSE, Gateway}, n \in 0..MaxPriced :
       /\ IF Quotes /\ ~ quoted THEN Faulty ELSE UNCHANGED faults
       /\ ~ quoted => n = MaxPriced
       /\ tick' = [tick EXCEPT !.at = "run", !.got = quoted,
                               !.left = IF connected THEN n ELSE 0]
  /\ UNCHANGED <<day, slot, age, polled, pending, held, feed, ran, crashes>>

(* last_bars: one call per symbol, none while the breaker is open.          *)
Answered ==
  /\ streak' = 0 /\ stalls' = [count |-> 0, again |-> FALSE] /\ UNCHANGED open
  /\ \E bar \in BOOLEAN : tick' = [tick EXCEPT !.left = @ - 1, !.got = @ \/ bar]

(* Mutant: the streak begins anew when the breaker opens.                   *)
StreakAnew == IF streak + 1 >= Threshold THEN 0 ELSE streak + 1
StreakOn == IF streak < Threshold THEN streak + 1 ELSE streak
TimedOut ==
  /\ streak' = StreakOn
  /\ open' = (streak + 1 >= Threshold)
  /\ stalls' = [stalls EXCEPT !.count = @ + 1]
  /\ tick' = [tick EXCEPT !.left = IF streak + 1 >= Threshold THEN 0 ELSE @ - 1]

Errored == tick' = [tick EXCEPT !.left = @ - 1] /\ UNCHANGED feed

AskGateway ==
  /\ At("run") /\ tick.left > 0 /\ ~ open
  /\ Answered \/ TimedOut \/ Errored
  /\ UNCHANGED <<day, slot, age, polled, pending, held, ran, faults, crashes>>

BreakerSkips ==
  /\ At("run") /\ tick.left > 0 /\ open
  /\ tick' = [tick EXCEPT !.left = 0]
  /\ UNCHANGED <<day, slot, age, polled, pending, held, feed, ran, faults, crashes>>

(* The pass comes to its end. The daily search and the audit swallow what   *)
(* goes wrong in them; decay and ingestion may fire a signal, the price poll*)
(* counts anew what waits. A capture is in its file before it is marked.    *)
Ended(p) == IF p \in MarkedAfter THEN [ran EXCEPT ![p] = 0] ELSE ran
EndPass ==
  /\ At("run") /\ tick.left = 0
  /\ Pass = "price_marks" => tick.got
  /\ ran' = Ended(Pass)
  /\ CASE Pass \in {"decay_pass", "ingest"} -> pending' \in {pending, TRUE}
       [] Pass = "poll" -> pending' \in BOOLEAN
       [] OTHER -> UNCHANGED pending
  /\ tick' = IF Pass \in MarkedAfter THEN [tick EXCEPT !.at = "mark"] ELSE Onward
  /\ UNCHANGED <<day, slot, age, polled, held, feed, faults, crashes>>

Mark ==
  /\ At("mark")
  /\ age' = [age EXCEPT ![Pass] = 0]
  /\ tick' = Onward
  /\ UNCHANGED <<day, slot, polled, pending, held, feed, ran, faults, crashes>>

(* Nothing was written: the pass stays due, the price marks after a gap.    *)
NothingWritten ==
  /\ At("run") /\ tick.left = 0
  /\ \/ Pass = "dossier_snapshot" /\ Faulty /\ UNCHANGED held
     \/ Pass = "price_marks" /\ ~ tick.got /\ held' = TRUE /\ UNCHANGED faults
  /\ tick' = Onward
  /\ UNCHANGED <<day, slot, age, polled, pending, feed, ran, crashes>>

(* An exception: the tick ends, and the passes after this one wait.         *)
PassRaises ==
  /\ At("run") /\ Pass \notin MarkedBefore /\ Faulty
  /\ tick' = Asleep(tick.slow)
  /\ UNCHANGED <<day, slot, age, polled, pending, held, feed, ran, crashes>>

TickStep ==
  \/ StartTick \/ NotDue \/ BeginPass \/ BeginPoll \/ BeginMarks
  \/ AskGateway \/ BreakerSkips \/ EndPass \/ Mark
  \/ NothingWritten \/ PassRaises
----------------------------------------------------------------------------
(* Time passes while the engine sleeps, and while it ingests: there the     *)
(* model's awaits are long enough for a second poll to be due.              *)
TimePasses == At("asleep") \/ (At("run") /\ Pass = "ingest")

(* A quarter of an hour: the hold-off is over. Half an hour: the breaker    *)
(* closes, and the streak is what it was.                                   *)
QuarterPasses ==
  /\ TimePasses
  /\ polled < Long \/ held
  /\ polled' = IF polled < Long THEN polled + 1 ELSE Long
  /\ held' = FALSE
  /\ UNCHANGED <<day, slot, age, pending, feed, tick, ran, faults, crashes>>

BreakerCloses ==
  /\ TimePasses
  /\ open /\ open' = FALSE
  /\ stalls' = [count |-> 0, again |-> TRUE]
  /\ UNCHANGED <<day, slot, age, polled, pending, held, streak, tick, ran, faults, crashes>>

(* A slot passes; no tick takes longer.                                     *)
Older(a) == [p \in DOMAIN a |-> IF a[p] < Interval(p) THEN a[p] + 1 ELSE a[p]]
SlotPasses ==
  /\ TimePasses
  /\ ~ tick.slow /\ tick' = [tick EXCEPT !.slow = TRUE]
  /\ slot' = (slot + 1) % SlotsPerDay
  /\ day' = IF slot' # 0 THEN day ELSE IF day = Len(Week) THEN 1 ELSE day + 1
  /\ age' = Older(age) /\ ran' = Older(ran)
  /\ polled' = Long /\ held' = FALSE
  /\ UNCHANGED <<pending, feed, faults, crashes>>

(* The process stops anywhere and starts: the marks are kept, the clocks of *)
(* the polls are not.                                                       *)
Crash ==
  /\ crashes < MaxCrashes /\ crashes' = crashes + 1
  /\ age' = [p \in DOMAIN age |-> IF p \in Polls THEN Interval(p) ELSE age[p]]
  /\ polled' = Long /\ pending' = TRUE /\ held' = FALSE
  /\ streak' = 0 /\ open' = FALSE /\ stalls' = [count |-> 0, again |-> FALSE]
  /\ tick' = Asleep(tick.slow)
  /\ UNCHANGED <<day, slot, ran, faults>>

Next == TickStep \/ QuarterPasses \/ BreakerCloses \/ SlotPasses \/ Crash

(* The loop goes on, and time passes between its ticks.                     *)
Spec == Init /\ [][Next]_vars /\ WF_vars(TickStep) /\ SF_vars(SlotPasses)
             /\ SF_vars(QuarterPasses)
----------------------------------------------------------------------------
(* Properties.                                                              *)

Ticks == [at : {"asleep", "pass", "run", "mark"}, pass : 1..Len(Order),
          left : 0..MaxPriced, got : BOOLEAN, slow : BOOLEAN]
TypeOK ==
  /\ day \in 1..Len(Week) /\ slot \in 0..(SlotsPerDay - 1)
  /\ age \in [Daily \cup Polls -> 0..SlotsPerDay] /\ ran \in [Daily -> 0..SlotsPerDay]
  /\ polled \in 0..Long /\ pending \in BOOLEAN /\ held \in BOOLEAN /\ open \in BOOLEAN
  /\ streak \in 0..Threshold
  /\ stalls \in [count : Nat, again : BOOLEAN]
  /\ tick \in Ticks
  /\ faults \in 0..MaxFaults /\ crashes \in 0..MaxCrashes

(* "Retrying an expensive extraction/web-search pass every 30-second tick   *)
(* until it succeeds is far worse than waiting a day" (_tick): however the  *)
(* process crashes, and whatever goes wrong in it or in the passes before,  *)
(* a marked search begins at most once in a day.                            *)
PaidOncePerDay ==
  [][\A p \in MarkedBefore :
       At("pass") /\ Pass = p /\ tick'.at = "run" => ran[p] = SlotsPerDay]_vars

(* "A pass that raised must stay due and be retried on the next tick instead*)
(* of silently losing the day's capture" (_tick): no mark is younger than   *)
(* the last run that came to its end and wrote something.                   *)
CaptureKept == \A p \in MarkedAfter : age[p] < SlotsPerDay => ran[p] <= age[p]

(* "A per-symbol timeout would otherwise stall the whole single-task engine *)
(* every poll" (_record_ib_failure): a Gateway that hangs costs the engine  *)
(* Threshold timeouts, and after that one for each time the breaker closes, *)
(* whichever passes ask it.                                                 *)
StallsBounded == stalls.count <= IF stalls.again THEN 1 ELSE Threshold

(* Every pass comes to run again and again, although it is due only on some *)
(* days, is held off after a failure, and waits behind passes that raise.   *)
EveryPassRuns == \A p \in Passes : []<><<EndPass /\ Pass = p>>_vars
=============================================================================
