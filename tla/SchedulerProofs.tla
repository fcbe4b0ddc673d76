--------------------------- MODULE SchedulerProofs ---------------------------
(***************************************************************************)
(* Machine-checked theorems about the tick, for every length of the day,   *)
(* every week of trading days, every threshold and either price source.    *)
(*                                                                         *)
(* None of the three properties is inductive.  MarksInv ties a mark to the *)
(* run it stands for, over the step in between at which the capture is     *)
(* written and not yet marked; BreakerInv ties what the breaker remembers  *)
(* to the timeouts it was to bound.                                        *)
(***************************************************************************)
EXTENDS Scheduler, TLAPS

\* What is marked first is as old as its mark; what is marked last is at most
\* as old; and only the latter is ever on the way from its end to its mark.
MarksInv ==
  /\ \A p \in MarkedBefore : ran[p] = age[p]
  /\ CaptureKept
  /\ At("mark") => Pass \in MarkedAfter /\ ran[Pass] = 0

\* Before it has closed again the streak counts the timeouts, and the breaker
\* is open when it has reached the threshold; after that it stays there, and
\* the one timeout it allows opens the breaker.
BreakerInv ==
  /\ ~ stalls.again => stalls.count = streak /\ (open <=> streak = Threshold)
  /\ stalls.again => streak = Threshold /\ stalls.count = IF open THEN 1 ELSE 0

IInv == TypeOK /\ MarksInv /\ BreakerInv

-----------------------------------------------------------------------------
(* Lemmas.                                                                 *)

LEMMA Constants ==
  /\ SlotsPerDay \in Nat /\ SlotsPerDay > 0
  /\ Threshold \in Nat /\ Threshold > 0
  /\ MaxPriced \in Nat /\ MaxPriced > 0
  /\ MaxFaults \in Nat /\ MaxCrashes \in Nat
  /\ Quotes \in BOOLEAN /\ Gateway \in BOOLEAN
BY SchedulerAssumption

LEMMA WeekHasDays == Len(Week) \in Nat /\ Len(Week) >= 1
<1>1. Week \in Seq(BOOLEAN) /\ Week # <<>>
  BY SchedulerAssumption
<1>2. QED
  BY <1>1

LEMMA OrderLength == Len(Order) = 8
BY DEF Order

\* The pass in hand is one of those there are.
LEMMA PassTyped ==
  ASSUME TypeOK
  PROVE  Pass \in Passes
<1>1. tick.pass \in 1..8
  BY OrderLength DEF TypeOK, Ticks
<1>2. \A i \in 1..8 : Order[i] \in Passes
  BY DEF Order, Passes, Daily, MarkedAfter, MarkedBefore, Polls
<1>3. QED
  BY <1>1, <1>2 DEF Pass

\* A new tick is a tick.
LEMMA AsleepTyped ==
  ASSUME NEW b \in BOOLEAN
  PROVE  Asleep(b) \in Ticks /\ Asleep(b).at = "asleep"
BY OrderLength, Constants DEF Asleep, Ticks

\* The tick that goes on, with its next pass or to its end, is a tick, and at
\* no mark.
LEMMA OnwardTyped ==
  ASSUME TypeOK
  PROVE  Onward \in Ticks /\ Onward.at \notin {"mark", "run"}
<1>1. tick \in Ticks /\ tick.pass \in 1..8 /\ 0 \in 0..MaxPriced
  BY OrderLength, Constants DEF TypeOK, Ticks
<1>2. CASE tick.pass = Len(Order)
  BY <1>1, <1>2, AsleepTyped DEF Onward, Ticks
<1>3. CASE tick.pass # Len(Order)
  <2>1. tick.pass + 1 \in 1..Len(Order)
    BY <1>1, <1>3, OrderLength
  <2>2. Onward = [tick EXCEPT !.at = "pass", !.pass = tick.pass + 1, !.left = 0, !.got = FALSE]
    BY <1>3 DEF Onward
  <2>3. QED
    BY <1>1, <2>1, <2>2 DEF Ticks
<1>4. QED
  BY <1>2, <1>3

\* Growing older keeps an age within a day, and in step.
LEMMA OlderTyped ==
  ASSUME NEW a, NEW S, S \subseteq Daily \cup Polls, a \in [S -> 0..SlotsPerDay]
  PROVE  Older(a) \in [S -> 0..SlotsPerDay]
<1>1. SUFFICES ASSUME NEW p \in S
               PROVE  (IF a[p] < Interval(p) THEN a[p] + 1 ELSE a[p]) \in 0..SlotsPerDay
  BY DEF Older
<1>2. a[p] \in 0..SlotsPerDay /\ Interval(p) \in 1..SlotsPerDay
  BY Constants DEF Interval
<1>3. QED
  BY <1>2, Constants

LEMMA LongInRange == Long \in 0..Long
BY DEF Long

\* A fault more is within the bound.
LEMMA FaultyTyped == ASSUME TypeOK, Faulty PROVE faults' \in 0..MaxFaults
BY Constants DEF TypeOK, Faulty

-----------------------------------------------------------------------------
(* The inductive invariant.                                                *)

LEMMA InitInv == Init => IInv
<1>1. SUFFICES ASSUME Init PROVE IInv
  OBVIOUS
<1>2. TypeOK
  <2>1. age \in [Daily \cup Polls -> 0..SlotsPerDay] /\ ran \in [Daily -> 0..SlotsPerDay]
    BY <1>1, Constants DEF Init, Interval
  <2>2. tick \in Ticks
    BY <1>1, AsleepTyped DEF Init
  <2>3. stalls \in [count : Nat, again : BOOLEAN]
    BY <1>1 DEF Init
  <2>4. QED
    <3>1. day \in 1..Len(Week) /\ slot \in 0..(SlotsPerDay - 1)
      BY <1>1, Constants, WeekHasDays DEF Init
    <3>2. polled \in 0..Long /\ streak \in 0..Threshold
      BY <1>1, Constants DEF Init, Long
    <3>3. faults \in 0..MaxFaults /\ crashes \in 0..MaxCrashes
      BY <1>1, Constants DEF Init
    <3>4. pending \in BOOLEAN /\ held \in BOOLEAN /\ open \in BOOLEAN
      BY <1>1 DEF Init
    <3>5. QED
      BY <2>1, <2>2, <2>3, <3>1, <3>2, <3>3, <3>4 DEF TypeOK
<1>3. MarksInv
  <2>1. tick.at # "mark"
    BY <1>1, AsleepTyped DEF Init
  <2>2. \A p \in MarkedBefore \cup MarkedAfter : age[p] = SlotsPerDay /\ ran[p] = SlotsPerDay
    BY <1>1 DEF Init, Interval, Daily, Polls, MarkedBefore, MarkedAfter
  <2>3. QED
    BY <2>1, <2>2, Constants DEF MarksInv, CaptureKept, At
<1>4. BreakerInv
  BY <1>1, Constants DEF Init, BreakerInv
<1>5. QED
  BY <1>2, <1>3, <1>4 DEF IInv

LEMMA StepType ==
  ASSUME TypeOK, [Next]_vars
  PROVE  TypeOK'
<1>1. CASE StartTick
  <2>1. tick' \in Ticks
    BY <1>1, AsleepTyped DEF StartTick, Ticks
  <2>2. QED
    BY <1>1, <2>1 DEF StartTick, TypeOK, feed
<1>2. CASE NotDue
  BY <1>2, OnwardTyped DEF NotDue, TypeOK, feed
<1>3. CASE BeginPass
  <2>1. tick' \in Ticks
    BY <1>3 DEF BeginPass, TypeOK, Ticks
  <2>2. age' \in [Daily \cup Polls -> 0..SlotsPerDay]
    <3>1. age' = age \/ age' = [age EXCEPT ![Pass] = 0]
      BY <1>3 DEF BeginPass, MarkedAtStart
    <3>2. QED
      BY <3>1, Constants DEF TypeOK
  <2>3. ran' \in [Daily -> 0..SlotsPerDay]
    <3>1. ran' = ran \/ ran' = [ran EXCEPT ![Pass] = 0]
      BY <1>3 DEF BeginPass, Begun
    <3>2. QED
      BY <3>1, Constants DEF TypeOK
  <2>4. QED
    BY <1>3, <2>1, <2>2, <2>3 DEF BeginPass, TypeOK, feed
<1>4. CASE BeginPoll
  <2>1. \/ \E n \in 0..MaxPriced :
            polled' = 0 /\ tick' = [tick EXCEPT !.at = "run", !.left = IF Gateway THEN n ELSE 0]
        \/ polled' = PollInterval - Gap /\ tick' = Onward
    BY <1>4 DEF BeginPoll
  <2>2. tick' \in Ticks
    <3>1. CASE tick' = Onward
      BY <3>1, OnwardTyped
    <3>2. ASSUME NEW n \in 0..MaxPriced,
                 tick' = [tick EXCEPT !.at = "run", !.left = IF Gateway THEN n ELSE 0]
          PROVE  tick' \in Ticks
      <4>1. (IF Gateway THEN n ELSE 0) \in 0..MaxPriced
        BY Constants
      <4>2. QED
        BY <3>2, <4>1 DEF TypeOK, Ticks
    <3>3. QED
      BY <2>1, <3>1, <3>2
  <2>3. polled' \in 0..Long
    <3>1. PollInterval - Gap \in 0..Long
      <4>1. CASE pending
        BY <4>1 DEF PollInterval, Short, Long, Gap
      <4>2. CASE ~ pending
        BY <4>2 DEF PollInterval, Short, Long, Gap
      <4>3. QED
        BY <4>1, <4>2
    <3>2. 0 \in 0..Long
      BY DEF Long
    <3>3. QED
      BY <2>1, <3>1, <3>2
  <2>4. QED
    BY <1>4, <2>2, <2>3 DEF BeginPoll, TypeOK, feed
<1>5. CASE BeginMarks
  <2>1. PICK quoted \in {FALSE, Quotes}, connected \in {FALSE, Gateway}, n \in 0..MaxPriced :
          tick' = [tick EXCEPT !.at = "run", !.got = quoted, !.left = IF connected THEN n ELSE 0]
    BY <1>5 DEF BeginMarks
  <2>2. tick' \in Ticks
    <3>1. quoted \in BOOLEAN
      BY Constants
    <3>2. (IF connected THEN n ELSE 0) \in 0..MaxPriced
      <4>1. CASE connected
        BY <4>1
      <4>2. CASE ~ connected
        BY <4>2, Constants
      <4>3. QED
        BY <4>1, <4>2
    <3>3. QED
      BY <2>1, <3>1, <3>2 DEF TypeOK, Ticks
  <2>3. faults' \in 0..MaxFaults
    BY <1>5, FaultyTyped DEF BeginMarks, TypeOK
  <2>4. QED
    BY <1>5, <2>2, <2>3 DEF BeginMarks, TypeOK, feed
<1>6. CASE AskGateway
  <2>1. CASE Answered
    <3>1. tick' \in Ticks
      <4>1. PICK bar \in BOOLEAN :
              tick' = [tick EXCEPT !.left = tick.left - 1, !.got = tick.got \/ bar]
        BY <2>1 DEF Answered
      <4>2. tick.left - 1 \in 0..MaxPriced /\ (tick.got \/ bar) \in BOOLEAN
        BY <1>6, Constants DEF AskGateway, TypeOK, Ticks
      <4>3. QED
        BY <4>1, <4>2 DEF TypeOK, Ticks
    <3>2. streak' \in 0..Threshold /\ stalls' \in [count : Nat, again : BOOLEAN]
      BY <2>1, Constants DEF Answered
    <3>3. QED
      BY <1>6, <2>1, <3>1, <3>2 DEF AskGateway, Answered, TypeOK
  <2>2. CASE TimedOut
    <3>1. tick' \in Ticks
      <4>1. \E n \in {0, tick.left - 1} : tick' = [tick EXCEPT !.left = n]
        BY <2>2 DEF TimedOut
      <4>2. {0, tick.left - 1} \subseteq 0..MaxPriced
        BY <1>6, Constants DEF AskGateway, TypeOK, Ticks
      <4>3. QED
        BY <4>1, <4>2 DEF TypeOK, Ticks
    <3>2. streak' \in 0..Threshold
      BY <2>2, Constants DEF TimedOut, StreakOn, TypeOK
    <3>3. open' \in BOOLEAN
      BY <2>2 DEF TimedOut
    <3>4. stalls' \in [count : Nat, again : BOOLEAN]
      BY <2>2 DEF TimedOut, TypeOK
    <3>5. QED
      BY <1>6, <3>1, <3>2, <3>3, <3>4 DEF AskGateway, TypeOK
  <2>3. CASE Errored
    <3>1. tick' \in Ticks
      <4>1. tick.left - 1 \in 0..MaxPriced
        BY <1>6, Constants DEF AskGateway, TypeOK, Ticks
      <4>2. QED
        BY <2>3, <4>1 DEF Errored, TypeOK, Ticks
    <3>2. QED
      BY <1>6, <2>3, <3>1 DEF AskGateway, Errored, TypeOK, feed
  <2>4. QED
    BY <1>6, <2>1, <2>2, <2>3 DEF AskGateway
<1>7. CASE BreakerSkips
  <2>1. tick' \in Ticks
    <3>1. 0 \in 0..MaxPriced /\ tick' = [tick EXCEPT !.left = 0]
      BY <1>7, Constants DEF BreakerSkips
    <3>2. QED
      BY <3>1 DEF TypeOK, Ticks
  <2>2. QED
    BY <1>7, <2>1 DEF BreakerSkips, TypeOK, feed
<1>8. CASE EndPass
  <2>1. tick' \in Ticks
    BY <1>8, OnwardTyped DEF EndPass, TypeOK, Ticks
  <2>2. ran' \in [Daily -> 0..SlotsPerDay]
    <3>1. ran' = ran \/ ran' = [ran EXCEPT ![Pass] = 0]
      BY <1>8 DEF EndPass, Ended
    <3>2. QED
      BY <3>1, Constants DEF TypeOK
  <2>3. pending' \in BOOLEAN
    <3>1. pending' \in {pending, TRUE} \/ pending' \in BOOLEAN \/ pending' = pending
      BY <1>8 DEF EndPass
    <3>2. QED
      BY <3>1 DEF TypeOK
  <2>4. QED
    BY <1>8, <2>1, <2>2, <2>3 DEF EndPass, TypeOK, feed
<1>9. CASE Mark
  <2>1. age' \in [Daily \cup Polls -> 0..SlotsPerDay]
    <3>1. age' = [age EXCEPT ![Pass] = 0] /\ 0 \in 0..SlotsPerDay
      BY <1>9, Constants DEF Mark
    <3>2. QED
      BY <3>1 DEF TypeOK
  <2>2. QED
    BY <1>9, <2>1, OnwardTyped DEF Mark, TypeOK, feed
<1>10. CASE NothingWritten
  <2>1. tick' \in Ticks
    BY <1>10, OnwardTyped DEF NothingWritten
  <2>2. held' \in BOOLEAN
    BY <1>10 DEF NothingWritten, TypeOK
  <2>3. faults' \in 0..MaxFaults
    BY <1>10, FaultyTyped DEF NothingWritten, TypeOK
  <2>4. QED
    BY <1>10, <2>1, <2>2, <2>3 DEF NothingWritten, TypeOK, feed
<1>11. CASE PassRaises
  <2>1. tick' \in Ticks
    BY <1>11, AsleepTyped DEF PassRaises, TypeOK, Ticks
  <2>2. faults' \in 0..MaxFaults
    BY <1>11, FaultyTyped DEF PassRaises
  <2>3. QED
    BY <1>11, <2>1, <2>2 DEF PassRaises, TypeOK, feed
<1>12. CASE QuarterPasses
  <2>1. polled' \in 0..Long
    <3>1. polled \in 0..2 /\ polled' = IF polled < 2 THEN polled + 1 ELSE 2
      BY <1>12 DEF QuarterPasses, TypeOK, Long
    <3>2. QED
      BY <3>1 DEF Long
  <2>2. held' \in BOOLEAN
    BY <1>12 DEF QuarterPasses
  <2>3. QED
    BY <1>12, <2>1, <2>2 DEF QuarterPasses, TypeOK, feed
<1>13. CASE BreakerCloses
  <2>1. stalls' \in [count : Nat, again : BOOLEAN] /\ open' \in BOOLEAN
    BY <1>13 DEF BreakerCloses
  <2>2. QED
    BY <1>13, <2>1 DEF BreakerCloses, TypeOK
<1>14. CASE SlotPasses
  <2>1. tick' \in Ticks
    BY <1>14 DEF SlotPasses, TypeOK, Ticks
  <2>2. age' \in [Daily \cup Polls -> 0..SlotsPerDay] /\ ran' \in [Daily -> 0..SlotsPerDay]
    BY <1>14, OlderTyped DEF SlotPasses, TypeOK
  <2>3. slot' \in 0..(SlotsPerDay - 1)
    BY <1>14, Constants DEF SlotPasses, TypeOK
  <2>4. day' \in 1..Len(Week)
    BY <1>14, WeekHasDays DEF SlotPasses, TypeOK
  <2>5. polled' \in 0..Long
    BY <1>14, LongInRange DEF SlotPasses
  <2>6. held' \in BOOLEAN
    BY <1>14 DEF SlotPasses
  <2>7. QED
    BY <1>14, <2>1, <2>2, <2>3, <2>4, <2>5, <2>6 DEF SlotPasses, TypeOK, feed
<1>15. CASE Crash
  <2>1. tick' \in Ticks
    BY <1>15, AsleepTyped DEF Crash, TypeOK, Ticks
  <2>2. age' \in [Daily \cup Polls -> 0..SlotsPerDay]
    BY <1>15, Constants DEF Crash, TypeOK, Interval
  <2>3. pending' \in BOOLEAN /\ held' \in BOOLEAN /\ open' \in BOOLEAN
    BY <1>15 DEF Crash
  <2>4. polled' \in 0..Long /\ streak' \in 0..Threshold /\ stalls' \in [count : Nat, again : BOOLEAN]
    BY <1>15, Constants, LongInRange DEF Crash
  <2>5. crashes' \in 0..MaxCrashes
    BY <1>15, Constants DEF Crash, TypeOK
  <2>6. QED
    BY <1>15, <2>1, <2>2, <2>3, <2>4, <2>5 DEF Crash, TypeOK
<1>16. CASE UNCHANGED vars
  BY <1>16 DEF vars, feed, TypeOK
<1>17. QED
  BY <1>1, <1>2, <1>3, <1>4, <1>5, <1>6, <1>7, <1>8, <1>9, <1>10, <1>11, <1>12, <1>13, <1>14,
     <1>15, <1>16 DEF Next, TickStep

\* No pass of the one kind is of another.
LEMMA Kinds ==
  /\ MarkedAfter \subseteq Daily /\ MarkedBefore \subseteq Daily
  /\ MarkedAfter \cap MarkedBefore = {} /\ Daily \cap Polls = {}
  /\ "poll" \notin Daily \cup Polls /\ "price_marks" \in MarkedAfter
  /\ \A p \in Daily : Interval(p) = SlotsPerDay
BY DEF Daily, MarkedAfter, MarkedBefore, Polls, Interval

\* Growing older keeps the two kinds of marks in step with their runs.
LEMMA OlderInStep ==
  ASSUME TypeOK, MarksInv, age' = Older(age), ran' = Older(ran)
  PROVE  /\ \A p \in MarkedBefore : ran'[p] = age'[p]
         /\ CaptureKept'
<1>1. \A p \in Daily :
        /\ age[p] \in 0..SlotsPerDay /\ ran[p] \in 0..SlotsPerDay
        /\ age'[p] = IF age[p] < SlotsPerDay THEN age[p] + 1 ELSE age[p]
        /\ ran'[p] = IF ran[p] < SlotsPerDay THEN ran[p] + 1 ELSE ran[p]
  BY Kinds DEF Older, TypeOK
<1>2. ASSUME NEW p \in MarkedBefore PROVE ran'[p] = age'[p]
  BY <1>1, <1>2, Kinds DEF MarksInv
<1>3. ASSUME NEW p \in MarkedAfter, age'[p] < SlotsPerDay PROVE ran'[p] <= age'[p]
  <2>1. age[p] < SlotsPerDay /\ age'[p] = age[p] + 1
    BY <1>1, <1>3, Kinds, Constants
  <2>2. ran[p] <= age[p]
    BY <2>1 DEF MarksInv, CaptureKept
  <2>3. QED
    BY <1>1, <2>1, <2>2, Kinds, Constants
<1>4. QED
  BY <1>2, <1>3 DEF CaptureKept

LEMMA StepMarks ==
  ASSUME TypeOK, MarksInv, [Next]_vars
  PROVE  MarksInv'
<1>1. ASSUME UNCHANGED <<age, ran>>, tick'.at # "mark" PROVE MarksInv'
  BY <1>1 DEF MarksInv, CaptureKept, At
<1>2. CASE StartTick
  BY <1>1, <1>2, AsleepTyped DEF StartTick, Ticks
<1>3. CASE NotDue
  BY <1>1, <1>3, OnwardTyped DEF NotDue
<1>4. CASE BeginPass
  <2>1. tick'.at # "mark"
    BY <1>4 DEF BeginPass, TypeOK, Ticks
  <2>2. \A p \in MarkedBefore : ran'[p] = age'[p]
    BY <1>4, Kinds DEF BeginPass, MarkedAtStart, Begun, MarksInv, TypeOK
  <2>3. \A p \in MarkedAfter : age'[p] = age[p] /\ ran'[p] = ran[p]
    BY <1>4, Kinds DEF BeginPass, MarkedAtStart, Begun, TypeOK
  <2>4. QED
    BY <2>1, <2>2, <2>3 DEF MarksInv, CaptureKept, At
<1>5. CASE BeginPoll
  <2>1. \/ tick' = Onward
        \/ \E n \in 0..MaxPriced :
             tick' = [tick EXCEPT !.at = "run", !.left = IF Gateway THEN n ELSE 0]
    BY <1>5 DEF BeginPoll
  <2>2. tick'.at # "mark"
    BY <2>1, OnwardTyped DEF TypeOK, Ticks
  <2>3. QED
    BY <1>1, <1>5, <2>2 DEF BeginPoll
<1>6. CASE BeginMarks
  <2>1. PICK quoted \in {FALSE, Quotes}, connected \in {FALSE, Gateway}, n \in 0..MaxPriced :
          tick' = [tick EXCEPT !.at = "run", !.got = quoted, !.left = IF connected THEN n ELSE 0]
    BY <1>6 DEF BeginMarks
  <2>2. tick'.at # "mark"
    BY <2>1 DEF TypeOK, Ticks
  <2>3. QED
    BY <1>1, <1>6, <2>2 DEF BeginMarks
<1>7. CASE AskGateway
  <2>1. tick'.at = tick.at
    BY <1>7 DEF AskGateway, Answered, TimedOut, Errored, TypeOK, Ticks
  <2>2. QED
    BY <1>1, <1>7, <2>1 DEF AskGateway, At
<1>8. CASE BreakerSkips
  BY <1>1, <1>8 DEF BreakerSkips, At, TypeOK, Ticks
<1>9. CASE EndPass
  <2>1. CASE Pass \in MarkedAfter
    <3>1. tick'.at = "mark" /\ Pass' = Pass
      BY <1>9, <2>1 DEF EndPass, Pass, TypeOK, Ticks
    <3>2. age' = age /\ ran' = [ran EXCEPT ![Pass] = 0]
      BY <1>9, <2>1 DEF EndPass, Ended
    <3>3. ran'[Pass] = 0 /\ \A p \in Daily : p # Pass => ran'[p] = ran[p]
      BY <2>1, <3>2, Kinds DEF TypeOK
    <3>4. \A p \in MarkedBefore : ran'[p] = age'[p]
      BY <2>1, <3>2, <3>3, Kinds DEF MarksInv
    <3>5. \A p \in Daily : age[p] \in 0..SlotsPerDay
      BY DEF TypeOK
    <3>6. CaptureKept'
      BY <3>2, <3>3, <3>5, Kinds DEF MarksInv, CaptureKept
    <3>7. QED
      BY <2>1, <3>1, <3>3, <3>4, <3>6 DEF MarksInv
  <2>2. CASE Pass \notin MarkedAfter
    BY <1>1, <1>9, <2>2, OnwardTyped DEF EndPass, Ended
  <2>3. QED
    BY <2>1, <2>2
<1>10. CASE Mark
  <2>1. Pass \in MarkedAfter /\ ran[Pass] = 0 /\ tick'.at # "mark" /\ ran' = ran
    BY <1>10, OnwardTyped DEF Mark, MarksInv
  <2>2. age'[Pass] = 0 /\ \A p \in Daily : p # Pass => age'[p] = age[p]
    BY <1>10, <2>1, Kinds DEF Mark, TypeOK
  <2>3. \A p \in MarkedBefore : ran'[p] = age'[p]
    BY <2>1, <2>2, Kinds DEF MarksInv
  <2>4. CaptureKept'
    BY <2>1, <2>2, Kinds DEF MarksInv, CaptureKept
  <2>5. QED
    BY <2>1, <2>3, <2>4 DEF MarksInv, At
<1>11. CASE NothingWritten
  BY <1>1, <1>11, OnwardTyped DEF NothingWritten
<1>12. CASE PassRaises
  BY <1>1, <1>12, AsleepTyped DEF PassRaises, TypeOK, Ticks
<1>13. CASE QuarterPasses
  BY <1>1, <1>13 DEF QuarterPasses, TimePasses, At
<1>14. CASE BreakerCloses
  BY <1>1, <1>14 DEF BreakerCloses, TimePasses, At
<1>15. CASE SlotPasses
  <2>1. tick'.at # "mark"
    BY <1>15 DEF SlotPasses, TimePasses, At, TypeOK, Ticks
  <2>2. age' = Older(age) /\ ran' = Older(ran)
    BY <1>15 DEF SlotPasses
  <2>3. QED
    BY <2>1, <2>2, OlderInStep DEF MarksInv, At
<1>16. CASE Crash
  <2>1. tick'.at # "mark" /\ ran' = ran
    BY <1>16, AsleepTyped DEF Crash, TypeOK, Ticks
  <2>2. \A p \in Daily : age'[p] = age[p]
    BY <1>16, Kinds DEF Crash, TypeOK
  <2>3. QED
    BY <2>1, <2>2, Kinds DEF MarksInv, CaptureKept, At
<1>17. CASE UNCHANGED vars
  BY <1>17 DEF vars, MarksInv, CaptureKept, At, Pass
<1>18. QED
  BY <1>2, <1>3, <1>4, <1>5, <1>6, <1>7, <1>8, <1>9, <1>10, <1>11, <1>12, <1>13, <1>14, <1>15,
     <1>16, <1>17 DEF Next, TickStep

LEMMA StepBreaker ==
  ASSUME TypeOK, BreakerInv, [Next]_vars
  PROVE  BreakerInv'
<1>1. ASSUME UNCHANGED feed PROVE BreakerInv'
  BY <1>1 DEF feed, BreakerInv
<1>2. CASE AskGateway
  <2>1. ~ open /\ streak \in 0..Threshold /\ stalls \in [count : Nat, again : BOOLEAN]
    BY <1>2 DEF AskGateway, TypeOK
  <2>2. CASE Answered
    BY <2>1, <2>2, Constants DEF Answered, BreakerInv
  <2>3. CASE TimedOut
    <3>1. stalls'.again = stalls.again /\ stalls'.count = stalls.count + 1
      BY <2>1, <2>3 DEF TimedOut
    <3>2. CASE stalls.again
      <4>1. streak = Threshold /\ stalls.count = 0
        BY <2>1, <3>2 DEF BreakerInv
      <4>2. streak' = Threshold
        <5>1. StreakOn = Threshold
          BY <4>1, Constants DEF StreakOn
        <5>2. QED
          BY <2>3, <5>1 DEF TimedOut
      <4>3. open' <=> streak + 1 >= Threshold
        BY <2>3 DEF TimedOut
      <4>4. streak + 1 >= Threshold
        BY <4>1, Constants
      <4>5. QED
        BY <3>1, <3>2, <4>1, <4>2, <4>3, <4>4 DEF BreakerInv
    <3>3. CASE ~ stalls.again
      <4>1. stalls.count = streak /\ streak < Threshold
        BY <2>1, <3>3, Constants DEF BreakerInv
      <4>2. streak' = streak + 1 /\ (open' <=> streak + 1 >= Threshold)
        BY <2>3, <4>1 DEF TimedOut, StreakOn
      <4>3. open' <=> streak' = Threshold
        BY <2>1, <4>1, <4>2, Constants
      <4>4. QED
        BY <3>1, <3>3, <4>1, <4>2, <4>3 DEF BreakerInv
    <3>4. QED
      BY <3>2, <3>3
  <2>4. CASE Errored
    BY <1>1, <2>4 DEF Errored
  <2>5. QED
    BY <1>2, <2>2, <2>3, <2>4 DEF AskGateway
<1>3. CASE BreakerCloses
  <2>1. open /\ ~ open' /\ streak' = streak /\ stalls' = [count |-> 0, again |-> TRUE]
    BY <1>3 DEF BreakerCloses
  <2>2. streak = Threshold
    BY <2>1 DEF BreakerInv, TypeOK
  <2>3. QED
    BY <2>1, <2>2 DEF BreakerInv
<1>4. CASE Crash
  BY <1>4, Constants DEF Crash, BreakerInv
<1>5. CASE \/ StartTick \/ NotDue \/ BeginPass \/ BeginPoll \/ BeginMarks \/ BreakerSkips
           \/ EndPass \/ Mark \/ NothingWritten \/ PassRaises \/ QuarterPasses \/ SlotPasses
  BY <1>1, <1>5 DEF StartTick, NotDue, BeginPass, BeginPoll, BeginMarks, BreakerSkips, EndPass,
     Mark, NothingWritten, PassRaises, QuarterPasses, SlotPasses
<1>6. CASE UNCHANGED vars
  BY <1>1, <1>6 DEF vars
<1>7. QED
  BY <1>2, <1>3, <1>4, <1>5, <1>6 DEF Next, TickStep

-----------------------------------------------------------------------------
(* The theorems.                                                           *)

\* The inductive invariant of the tick holds in every behaviour.
THEOREM Invariance == Spec => []IInv
<1>1. IInv /\ [Next]_vars => IInv'
  BY StepType, StepMarks, StepBreaker DEF IInv
<1>2. QED
  BY InitInv, <1>1, PTL DEF Spec

\* Marks, clocks, the streak and the tick keep their types: an age stops at a
\* day and the streak at the threshold.
THEOREM TypeCorrect == Spec => []TypeOK
<1>1. IInv => TypeOK
  BY DEF IInv
<1>2. QED
  BY <1>1, Invariance, PTL

\* However the process crashes and passes raise, no capture of the day is
\* marked that was not written.
THEOREM NoCaptureLost == Spec => []CaptureKept
<1>1. IInv => CaptureKept
  BY DEF IInv, MarksInv
<1>2. QED
  BY <1>1, Invariance, PTL

\* Whatever the threshold and whichever passes share the feed, a hanging
\* Gateway costs the threshold's timeouts and then one per half hour.
THEOREM BreakerHolds == Spec => []StallsBounded
<1>1. IInv => StallsBounded
  <2>1. SUFFICES ASSUME IInv PROVE StallsBounded
    OBVIOUS
  <2>2. streak \in 0..Threshold /\ stalls.again \in BOOLEAN
    BY <2>1 DEF IInv, TypeOK
  <2>3. CASE stalls.again
    BY <2>1, <2>3 DEF IInv, BreakerInv, StallsBounded
  <2>4. CASE ~ stalls.again
    BY <2>1, <2>2, <2>4, Constants DEF IInv, BreakerInv, StallsBounded
  <2>5. QED
    BY <2>2, <2>3, <2>4
<1>2. QED
  BY <1>1, Invariance, PTL

\* A search that is marked before it runs is not begun a second time within a
\* day, by any sequence of crashes and failures.
THEOREM SearchPaidOnce == Spec => PaidOncePerDay
<1>1. IInv /\ [Next]_vars =>
        [\A p \in MarkedBefore :
           At("pass") /\ Pass = p /\ tick'.at = "run" => ran[p] = SlotsPerDay]_vars
  <2>1. SUFFICES ASSUME IInv, Next, NEW p \in MarkedBefore,
                        At("pass"), Pass = p, tick'.at = "run"
                 PROVE  ran[p] = SlotsPerDay
    OBVIOUS
  <2>2. ran[p] = age[p]
    BY <2>1 DEF IInv, MarksInv
  <2>3. CASE BeginPass
    BY <2>1, <2>2, <2>3 DEF BeginPass, Due, Interval, MarkedBefore, Polls
  <2>4. p = "supplier_research"
    BY DEF MarkedBefore
  <2>5. CASE NotDue
    BY <2>1, <2>5, OnwardTyped DEF NotDue, IInv
  <2>6. CASE \/ StartTick \/ BeginPoll \/ BeginMarks \/ AskGateway \/ BreakerSkips \/ EndPass
             \/ Mark \/ NothingWritten \/ PassRaises
    BY <2>1, <2>4, <2>6 DEF StartTick, BeginPoll, BeginMarks, AskGateway, BreakerSkips, EndPass,
       Mark, NothingWritten, PassRaises, At
  <2>7. CASE QuarterPasses \/ BreakerCloses \/ SlotPasses
    BY <2>1, <2>7 DEF QuarterPasses, BreakerCloses, SlotPasses, TimePasses, At
  <2>8. CASE Crash
    BY <2>1, <2>8, AsleepTyped DEF Crash, IInv, TypeOK, Ticks
  <2>9. QED
    BY <2>1, <2>3, <2>5, <2>6, <2>7, <2>8 DEF Next, TickStep
<1>2. QED
  BY <1>1, Invariance, PTL DEF Spec, PaidOncePerDay
=============================================================================
