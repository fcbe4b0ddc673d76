------------------------- MODULE PaperJournalProofs -------------------------
(***************************************************************************)
(* Machine-checked theorems about the journal, for every set of symbols,   *)
(* horizon, weekend and bound.                                             *)
(*                                                                         *)
(* None of the journal's properties is inductive.  IInv adds the facts     *)
(* they rest on: trades are numbered in the order they were opened, a row  *)
(* still to be written belongs to a trade that is in the book and not in   *)
(* the log, only the trade being closed can be in both, and outside of a   *)
(* close the snapshot and the book differ at most by logged trades.        *)
(***************************************************************************)
EXTENDS PaperJournal, TLAPS

AllOpened == {opened[i] : i \in DOMAIN opened}

\* The bar in hand is never of a later day than today, and in a session it
\* is today's.
ClockInv ==
    /\ session <= Day(now)
    /\ RegularHours(now) => session = Day(now)

\* Trades are distinct, were opened in the past, and are the only ones around.
BooksInv ==
    /\ \A i \in DOMAIN opened : opened[i].nth = i /\ opened[i].at <= now
    /\ openTrades \subseteq AllOpened
    /\ openFile \subseteq AllOpened
    /\ Logged \subseteq AllOpened

\* The call in progress.
CallInv ==
    /\ closing \subseteq openTrades
    /\ \A t, u \in closing : t = u
    /\ \A r \in todo : r.trade \in openTrades \ closing
    /\ \A r, q \in todo : r.trade = q.trade => r = q
    /\ ~up => openTrades = {} /\ todo = {} /\ closing = {}

\* Memory and disk.
DiskInv ==
    /\ openTrades \cap Logged \subseteq closing
    /\ up => openFile \ Logged = openTrades \ Logged

IInv == TypeOK /\ ClockInv /\ BooksInv /\ CallInv /\ DiskInv /\ RowsUnique

-----------------------------------------------------------------------------
(* Lemmas.                                                                 *)

\* What one more line does to the set of logged trades.
LEMMA LoggedAppend ==
    ASSUME closedLog \in Seq(Row), NEW r \in Row,
           closedLog' = Append(closedLog, r)
    PROVE  Logged' = Logged \cup {r.trade}
<1>1. /\ Len(closedLog') = Len(closedLog) + 1
      /\ closedLog'[Len(closedLog) + 1] = r
      /\ \A i \in 1..Len(closedLog) : closedLog'[i] = closedLog[i]
  OBVIOUS
<1>2. DOMAIN closedLog = 1..Len(closedLog) /\ DOMAIN closedLog' = 1..(Len(closedLog) + 1)
  BY <1>1
<1>3. Len(closedLog) \in Nat
  OBVIOUS
<1>4. Logged' \subseteq Logged \cup {r.trade}
  <2>1. SUFFICES ASSUME NEW i \in DOMAIN closedLog'
                 PROVE  closedLog'[i].trade \in Logged \cup {r.trade}
    BY DEF Logged
  <2>2. CASE i = Len(closedLog) + 1
    BY <2>2, <1>1
  <2>3. CASE i \in 1..Len(closedLog)
    BY <2>3, <1>1, <1>2 DEF Logged
  <2>4. QED
    BY <2>1, <2>2, <2>3, <1>2, <1>3
<1>5. Logged \subseteq Logged'
  <2>1. SUFFICES ASSUME NEW i \in DOMAIN closedLog
                 PROVE  closedLog[i].trade \in Logged'
    BY DEF Logged
  <2>2. i \in DOMAIN closedLog' /\ closedLog'[i] = closedLog[i]
    BY <2>1, <1>1, <1>2, <1>3
  <2>3. QED
    BY <2>2 DEF Logged
<1>6. r.trade \in Logged'
  BY <1>1, <1>2, <1>3 DEF Logged
<1>7. QED
  BY <1>4, <1>5, <1>6

\* A row of a trade that has none yet keeps the rows unique.
LEMMA UniqueAppend ==
    ASSUME closedLog \in Seq(Row), NEW r \in Row, r.trade \notin Logged,
           closedLog' = Append(closedLog, r), RowsUnique
    PROVE  RowsUnique'
<1>1. /\ closedLog'[Len(closedLog) + 1] = r
      /\ \A i \in 1..Len(closedLog) : closedLog'[i] = closedLog[i]
      /\ DOMAIN closedLog = 1..Len(closedLog)
      /\ DOMAIN closedLog' = 1..(Len(closedLog) + 1)
      /\ Len(closedLog) \in Nat
  OBVIOUS
<1>2. SUFFICES ASSUME NEW i \in DOMAIN closedLog', NEW j \in DOMAIN closedLog',
                      closedLog'[i].trade = closedLog'[j].trade
               PROVE  i = j
  BY DEF RowsUnique
<1>3. \A k \in 1..Len(closedLog) : closedLog[k].trade # r.trade
  BY <1>1 DEF Logged
<1>4. CASE i \in 1..Len(closedLog) /\ j \in 1..Len(closedLog)
  BY <1>4, <1>1, <1>2 DEF RowsUnique
<1>5. CASE i = Len(closedLog) + 1 \/ j = Len(closedLog) + 1
  BY <1>5, <1>1, <1>2, <1>3
<1>6. QED
  BY <1>1, <1>4, <1>5

-----------------------------------------------------------------------------
(* The inductive invariant.                                                *)

LEMMA InitInv == Init => IInv
<1> SUFFICES ASSUME Init PROVE IInv
  OBVIOUS
<1>1. TypeOK
  <2>1. closedLog \in Seq(Row)
    BY DEF Init
  <2>2. opened \in Seq(Trade)
    BY DEF Init
  <2>3. now \in 0..MaxTime
    BY JournalAssumption DEF Init
  <2>4. QED
    BY <2>1, <2>2, <2>3 DEF Init, TypeOK
<1>2. Logged = {} /\ AllOpened = {} /\ RowsUnique
  BY DEF Init, Logged, AllOpened, RowsUnique
<1>3. ClockInv
  BY DEF Init, ClockInv, Day, RegularHours, Phase, OpeningMinutes, Session
<1>4. BooksInv /\ CallInv /\ DiskInv
  BY <1>2 DEF Init, BooksInv, CallInv, DiskInv
<1>5. QED
  BY <1>1, <1>2, <1>3, <1>4 DEF IInv

\* Time only passes between calls, and only it moves the clock.
LEMMA ClockStep == IInv /\ [Next]_vars => ClockInv'
<1> SUFFICES ASSUME IInv, [Next]_vars
             PROVE  ClockInv'
  OBVIOUS
<1> USE DEF IInv, TypeOK, ClockInv, Day, RegularHours, Phase, Opens, OpeningMinutes, Session
<1>1. CASE Tick
  <2>1. now' = now + 1 /\ now \in Nat /\ session \in Nat
    BY <1>1, JournalAssumption DEF Tick
  <2>2. session' <= Day(now')
    BY <1>1, <2>1 DEF Tick
  <2>3. ASSUME RegularHours(now') PROVE session' = Day(now')
    <3>1. CASE Opens(now')
      BY <3>1, <1>1 DEF Tick
    <3>2. CASE ~Opens(now')
      <4>1. now' % 4 = 2
        BY <3>2, <2>3
      <4>2. now % 4 = 1 /\ now \div 4 = now' \div 4
        BY <4>1, <2>1
      <4>3. QED
        BY <4>2, <3>2, <2>3, <1>1 DEF Tick
    <3>3. QED
      BY <3>1, <3>2
  <2>4. QED
    BY <2>2, <2>3
<1>2. CASE UNCHANGED clock
  BY <1>2 DEF clock
<1>3. QED
  BY <1>1, <1>2
  DEF Next, vars, Open, Update, Mark, Abandon, ExpirePastHorizon, ArchiveOpenTrades,
      AppendToLog, FinishClose, Crash, Restart

\* A call that only decides rows: what todo must satisfy is all there is to show.
LEMMA DecideStep ==
    ASSUME IInv, Idle, up, NEW S \in SUBSET Row,
           todo' = S,
           \A r \in S : r.trade \in openTrades,
           \A r, q \in S : r.trade = q.trade => r = q,
           UNCHANGED <<clock, up, openTrades, openFile, closedLog, tornLine, closing, opened>>
    PROVE  IInv'
<1>1. Logged' = Logged /\ AllOpened' = AllOpened /\ RowsUnique'
  BY DEF Logged, AllOpened, IInv, RowsUnique
<1>2. TypeOK'
  BY DEF IInv, TypeOK, clock
<1>3. ClockInv'
  BY DEF IInv, ClockInv, clock, RegularHours
<1>4. BooksInv' /\ DiskInv'
  BY <1>1 DEF IInv, BooksInv, DiskInv, clock
<1>5. CallInv'
  BY DEF IInv, CallInv, Idle
<1>6. QED
  BY <1>1, <1>2, <1>3, <1>4, <1>5 DEF IInv

LEMMA OpenStep == ASSUME IInv, NEW s \in Symbols, Open(s) PROVE IInv'
<1> DEFINE t == [symbol |-> s, at |-> now, nth |-> Len(opened) + 1]
<1>1. t \in Trade /\ Len(opened) \in Nat
  BY JournalAssumption DEF IInv, TypeOK, Open, Trade
<1>2. /\ openTrades' = openTrades \cup {t}
      /\ openFile' = openTrades'
      /\ opened' = Append(opened, t)
      /\ UNCHANGED <<clock, up, closedLog, tornLine, todo, closing>>
      /\ up /\ todo = {} /\ closing = {}
  BY DEF Open, HasOpen, WriteOpenState, Idle
<1> HIDE DEF t
<1>3. TypeOK'
  BY <1>1, <1>2 DEF IInv, TypeOK, clock
<1>4. AllOpened' = AllOpened \cup {t}
  BY <1>1, <1>2 DEF IInv, TypeOK, AllOpened
<1>5. Logged' = Logged /\ RowsUnique'
  BY <1>2 DEF IInv, Logged, RowsUnique
<1>6. t \notin AllOpened
  <2>1. \A u \in AllOpened : u.nth <= Len(opened)
    BY <1>1 DEF IInv, BooksInv, AllOpened, TypeOK
  <2>2. t.nth = Len(opened) + 1
    BY DEF t
  <2>3. QED
    BY <2>1, <2>2, <1>1
<1>7. BooksInv'
  <2>1. \A i \in DOMAIN opened' : opened'[i].nth = i /\ opened'[i].at <= now'
    <3>1. SUFFICES ASSUME NEW i \in DOMAIN opened'
                   PROVE  opened'[i].nth = i /\ opened'[i].at <= now'
      OBVIOUS
    <3>2. CASE i = Len(opened) + 1
      <4>1. opened'[i] = t
        BY <3>2, <1>1, <1>2 DEF IInv, TypeOK
      <4>2. now' = now /\ now \in Nat
        BY <1>2, JournalAssumption DEF clock, IInv, TypeOK
      <4>3. QED
        BY <4>1, <4>2, <3>2 DEF t
    <3>3. CASE i \in DOMAIN opened
      <4>1. opened'[i] = opened[i]
        BY <3>3, <1>1, <1>2 DEF IInv, TypeOK
      <4>2. QED
        BY <4>1, <3>3, <1>2 DEF IInv, BooksInv, clock
    <3>4. QED
      BY <3>1, <3>2, <3>3, <1>1, <1>2 DEF IInv, TypeOK
  <2>2. QED
    BY <2>1, <1>2, <1>4, <1>5 DEF IInv, BooksInv
<1>8. CallInv'
  BY <1>2 DEF IInv, CallInv
<1>9. DiskInv'
  BY <1>2, <1>5, <1>6 DEF IInv, DiskInv, BooksInv
<1>10. ClockInv'
  BY <1>2 DEF IInv, ClockInv, clock, RegularHours
<1>11. QED
  BY <1>3, <1>5, <1>7, <1>8, <1>9, <1>10 DEF IInv

LEMMA MarkStep == ASSUME IInv, NEW t \in openTrades, Idle, Mark(t) PROVE IInv'
<1>1. /\ openFile' = openTrades
      /\ UNCHANGED <<clock, up, openTrades, closedLog, tornLine, todo, closing, opened>>
  BY DEF Mark, WriteOpenState
<1>2. Logged' = Logged /\ AllOpened' = AllOpened /\ RowsUnique'
  BY <1>1 DEF IInv, Logged, AllOpened, RowsUnique
<1>3. TypeOK' /\ ClockInv'
  BY <1>1 DEF IInv, TypeOK, ClockInv, clock, RegularHours
<1>4. BooksInv' /\ CallInv' /\ DiskInv'
  BY <1>1, <1>2 DEF IInv, BooksInv, CallInv, DiskInv, clock, Idle
<1>5. QED
  BY <1>2, <1>3, <1>4 DEF IInv

LEMMA BarIsNat == ASSUME TypeOK PROVE BarsInHand \subseteq Nat
BY DEF TypeOK, BarsInHand

LEMMA NewRowType ==
    ASSUME TypeOK, NEW t \in Trade, NEW st \in Resolved \cup Unscored, NEW b \in Nat
    PROVE  NewRow(t, st, b) \in Row /\ NewRow(t, st, b).trade = t
BY DEF NewRow, Row, TypeOK

LEMMA UpdateStep == ASSUME IInv, NEW t \in openTrades, Update(t) PROVE IInv'
<1>1. PICK hit \in SUBSET Levels, b \in BarsInHand :
        LET result == IF EntrySession(t) THEN {} ELSE Outcome(t, hit)
        IN  \/ result = {} /\ Mark(t)
            \/ /\ result # {}
               /\ todo' = {NewRow(t, st, b) : st \in result}
               /\ UNCHANGED <<clock, up, openTrades, openFile, closedLog,
                              tornLine, closing, opened>>
  BY DEF Update
<1> DEFINE result == IF EntrySession(t) THEN {} ELSE Outcome(t, hit)
<1>2. Idle /\ up /\ t \in Trade /\ b \in Nat
  BY BarIsNat DEF Update, Idle, IInv, TypeOK
<1>3. result \subseteq Resolved /\ \A st, su \in result : st = su
  BY DEF Outcome, Resolved
<1> HIDE DEF result
<1>4. CASE Mark(t)
  BY <1>4, <1>2, MarkStep
<1>5. CASE /\ todo' = {NewRow(t, st, b) : st \in result}
           /\ UNCHANGED <<clock, up, openTrades, openFile, closedLog,
                          tornLine, closing, opened>>
  <2> DEFINE S == {NewRow(t, st, b) : st \in result}
  <2>1. S \in SUBSET Row /\ \A r \in S : r.trade = t
    BY <1>2, <1>3, NewRowType DEF IInv
  <2>2. \A r, q \in S : r = q
    BY <1>3
  <2> HIDE DEF S
  <2>3. todo' = S
    BY <1>5 DEF S
  <2>4. QED
    BY <1>2, <1>5, <2>1, <2>2, <2>3, DecideStep
<1>6. QED
  BY <1>1, <1>4, <1>5 DEF result

LEMMA AbandonStep ==
    ASSUME IInv, NEW t \in openTrades, NEW st \in {"THESIS_FLIPPED", "THESIS_VETOED"},
           Abandon(t, st)
    PROVE  IInv'
<1>1. Idle /\ up /\ t \in Trade /\ session \in Nat /\ st \in Unscored
  BY DEF Abandon, Idle, IInv, TypeOK, Unscored
<1>2. /\ todo' = {NewRow(t, st, session)}
      /\ UNCHANGED <<clock, up, openTrades, openFile, closedLog, tornLine, closing, opened>>
  BY DEF Abandon
<1>3. NewRow(t, st, session) \in Row /\ NewRow(t, st, session).trade = t
  BY <1>1, NewRowType DEF IInv
<1>4. QED
  BY <1>1, <1>2, <1>3, DecideStep

\* expire_past_horizon and archive_open_trades decide one row for each trade of
\* a part of the book.
LEMMA DecideEachStep ==
    ASSUME IInv, Idle, NEW T \in SUBSET openTrades, NEW st \in Resolved \cup Unscored,
           todo' = {NewRow(t, st, session) : t \in T},
           UNCHANGED <<clock, up, openTrades, openFile, closedLog, tornLine, closing, opened>>
    PROVE  IInv'
<1> DEFINE S == {NewRow(t, st, session) : t \in T}
<1>1. T \subseteq Trade /\ session \in Nat /\ up
  BY DEF IInv, TypeOK, Idle
<1>2. \A t \in T : NewRow(t, st, session) \in Row /\ NewRow(t, st, session).trade = t
  BY <1>1, NewRowType DEF IInv
<1>3. S \in SUBSET Row /\ \A r \in S : r.trade \in openTrades
  BY <1>2
<1>4. \A r, q \in S : r.trade = q.trade => r = q
  BY <1>2
<1> HIDE DEF S
<1>5. todo' = S
  BY DEF S
<1>6. QED
  BY <1>1, <1>3, <1>4, <1>5, DecideStep

LEMMA AppendStep == ASSUME IInv, NEW r \in todo, AppendToLog(r) PROVE IInv'
<1>1. /\ r \in Row /\ r.trade \in openTrades /\ r.trade \in Trade
      /\ closedLog \in Seq(Row) /\ closing = {} /\ up
  BY DEF AppendToLog, IInv, TypeOK, CallInv
<1>2. r.trade \notin Logged
  BY <1>1 DEF IInv, DiskInv
<1>3. /\ todo' = todo \ {r}
      /\ closing' = {r.trade}
      /\ tornLine' = FALSE
      /\ UNCHANGED <<clock, up, openTrades, openFile, opened>>
  BY DEF AppendToLog
<1>4. CASE tornLine
  <2>1. closedLog' = closedLog
    BY <1>4 DEF AppendToLog
  <2>2. Logged' = Logged /\ AllOpened' = AllOpened /\ RowsUnique'
    BY <2>1, <1>3 DEF Logged, AllOpened, IInv, RowsUnique
  <2>3. TypeOK' /\ ClockInv'
    BY <1>1, <1>3, <2>1 DEF IInv, TypeOK, ClockInv, clock, RegularHours
  <2>4. BooksInv' /\ CallInv' /\ DiskInv'
    BY <1>1, <1>2, <1>3, <2>2 DEF IInv, BooksInv, CallInv, DiskInv, clock
  <2>5. QED
    BY <2>2, <2>3, <2>4 DEF IInv
<1>5. CASE ~tornLine
  <2>1. closedLog' = Append(closedLog, r)
    BY <1>5 DEF AppendToLog
  <2>2. Logged' = Logged \cup {r.trade}
    BY <1>1, <2>1, LoggedAppend
  <2>3. RowsUnique'
    BY <1>1, <1>2, <2>1, UniqueAppend DEF IInv
  <2>4. AllOpened' = AllOpened
    BY <1>3 DEF AllOpened
  <2>5. closedLog' \in Seq(Row)
    BY <1>1, <2>1
  <2>6. TypeOK' /\ ClockInv'
    BY <1>1, <1>3, <2>5 DEF IInv, TypeOK, ClockInv, clock, RegularHours
  <2>7. BooksInv' /\ CallInv' /\ DiskInv'
    BY <1>1, <1>2, <1>3, <2>2, <2>4 DEF IInv, BooksInv, CallInv, DiskInv, clock
  <2>8. QED
    BY <2>3, <2>6, <2>7 DEF IInv
<1>6. QED
  BY <1>4, <1>5

LEMMA FinishStep == ASSUME IInv, FinishClose PROVE IInv'
<1>1. /\ up
      /\ openTrades' = openTrades \ closing
      /\ openFile' = openTrades'
      /\ closing' = {}
      /\ UNCHANGED <<clock, up, closedLog, tornLine, todo, opened>>
  BY DEF FinishClose, WriteOpenState
<1>2. Logged' = Logged /\ AllOpened' = AllOpened /\ RowsUnique'
  BY <1>1 DEF IInv, Logged, AllOpened, RowsUnique
<1>3. TypeOK' /\ ClockInv'
  BY <1>1 DEF IInv, TypeOK, ClockInv, clock, RegularHours
<1>4. BooksInv' /\ CallInv' /\ DiskInv'
  BY <1>1, <1>2 DEF IInv, BooksInv, CallInv, DiskInv, clock
<1>5. QED
  BY <1>2, <1>3, <1>4 DEF IInv

LEMMA CrashStep == ASSUME IInv, Crash PROVE IInv'
<1>1. /\ up' = FALSE
      /\ openTrades' = {} /\ todo' = {} /\ closing' = {}
      /\ tornLine' \in BOOLEAN
      /\ UNCHANGED <<clock, openFile, closedLog, opened>>
  BY DEF Crash, IInv, TypeOK
<1>2. Logged' = Logged /\ AllOpened' = AllOpened /\ RowsUnique'
  BY <1>1 DEF IInv, Logged, AllOpened, RowsUnique
<1>3. TypeOK' /\ ClockInv'
  BY <1>1 DEF IInv, TypeOK, ClockInv, clock, RegularHours
<1>4. BooksInv' /\ CallInv' /\ DiskInv'
  BY <1>1, <1>2 DEF IInv, BooksInv, CallInv, DiskInv, clock
<1>5. QED
  BY <1>2, <1>3, <1>4 DEF IInv

LEMMA RestartStep == ASSUME IInv, Restart PROVE IInv'
<1>1. /\ ~up /\ up' = TRUE
      /\ openTrades' = openFile \ Logged
      /\ UNCHANGED <<clock, openFile, closedLog, tornLine, todo, closing, opened>>
  BY DEF Restart, Recovered
<1>2. Logged' = Logged /\ AllOpened' = AllOpened /\ RowsUnique'
  BY <1>1 DEF IInv, Logged, AllOpened, RowsUnique
<1>3. TypeOK' /\ ClockInv'
  BY <1>1 DEF IInv, TypeOK, ClockInv, clock, RegularHours
<1>4. BooksInv' /\ CallInv' /\ DiskInv'
  BY <1>1, <1>2 DEF IInv, BooksInv, CallInv, DiskInv, clock
<1>5. QED
  BY <1>2, <1>3, <1>4 DEF IInv

LEMMA TickStep == ASSUME IInv, Tick PROVE IInv'
<1>1. /\ now' = now + 1 /\ now < MaxTime /\ now \in 0..MaxTime
      /\ session' \in Nat /\ previous' \in Nat
      /\ UNCHANGED <<up, openTrades, openFile, closedLog, tornLine, todo, closing, opened>>
  BY JournalAssumption DEF Tick, IInv, TypeOK, Day
<1>2. Logged' = Logged /\ AllOpened' = AllOpened /\ RowsUnique'
  BY <1>1 DEF IInv, Logged, AllOpened, RowsUnique
<1>3. TypeOK'
  BY <1>1, JournalAssumption DEF IInv, TypeOK
<1>4. ClockInv'
  BY ClockStep DEF Next
<1>5. BooksInv'
  <2>1. ASSUME NEW i \in DOMAIN opened
        PROVE  opened[i].at \in Nat /\ opened[i].at <= now
    <3>1. opened[i] \in Trade
      BY DEF IInv, TypeOK
    <3>2. QED
      BY <3>1, JournalAssumption DEF IInv, BooksInv, Trade
  <2>2. \A i \in DOMAIN opened' : opened'[i].at <= now'
    BY <2>1, <1>1
  <2>3. QED
    BY <2>2, <1>1, <1>2 DEF IInv, BooksInv
<1>6. CallInv' /\ DiskInv'
  BY <1>1, <1>2 DEF IInv, CallInv, DiskInv
<1>7. QED
  BY <1>2, <1>3, <1>4, <1>5, <1>6 DEF IInv

LEMMA StutterStep == ASSUME IInv, UNCHANGED vars PROVE IInv'
<1>1. Logged' = Logged /\ AllOpened' = AllOpened /\ RowsUnique'
  BY DEF vars, IInv, Logged, AllOpened, RowsUnique
<1>2. QED
  BY <1>1 DEF vars, clock, IInv, TypeOK, ClockInv, RegularHours, BooksInv, CallInv, DiskInv

\* Every step of the journal keeps the invariant.
LEMMA NextInv == IInv /\ [Next]_vars => IInv'
<1> SUFFICES ASSUME IInv, [Next]_vars PROVE IInv'
  OBVIOUS
<1>1. ASSUME NEW s \in Symbols, Open(s) PROVE IInv'
  BY <1>1, OpenStep
<1>2. ASSUME NEW t \in openTrades, Update(t) PROVE IInv'
  BY <1>2, UpdateStep
<1>3. ASSUME NEW t \in openTrades, NEW st \in {"THESIS_FLIPPED", "THESIS_VETOED"},
             Abandon(t, st)
      PROVE  IInv'
  BY <1>3, AbandonStep
<1>4. CASE ExpirePastHorizon
  <2> DEFINE T == {u \in openTrades : PastHorizon(u)}
  <2>1. T \in SUBSET openTrades /\ "TIMEOUT" \in Resolved \cup Unscored
    BY DEF Resolved
  <2>2. /\ Idle
        /\ todo' = {NewRow(t, "TIMEOUT", session) : t \in T}
        /\ UNCHANGED <<clock, up, openTrades, openFile, closedLog, tornLine, closing, opened>>
    BY <1>4 DEF ExpirePastHorizon
  <2> HIDE DEF T
  <2>3. QED
    BY <2>1, <2>2, DecideEachStep
<1>5. CASE ArchiveOpenTrades
  <2>1. "ARCHIVED" \in Resolved \cup Unscored
    BY DEF Unscored
  <2>2. QED
    BY <1>5, <2>1, DecideEachStep DEF ArchiveOpenTrades
<1>6. ASSUME NEW r \in todo, AppendToLog(r) PROVE IInv'
  BY <1>6, AppendStep
<1>7. CASE FinishClose
  BY <1>7, FinishStep
<1>8. CASE Crash
  BY <1>8, CrashStep
<1>9. CASE Restart
  BY <1>9, RestartStep
<1>10. CASE Tick
  BY <1>10, TickStep
<1>11. CASE UNCHANGED vars
  BY <1>11, StutterStep
<1>12. QED
  BY <1>1, <1>2, <1>3, <1>4, <1>5, <1>6, <1>7, <1>8, <1>9, <1>10, <1>11 DEF Next

\* The invariant the theorems are read off holds in every reachable state.
LEMMA Invariance == Spec => []IInv
BY InitInv, NextInv, PTL DEF Spec

-----------------------------------------------------------------------------
(* The theorems.                                                           *)

\* The journal's variables have their types in every reachable state.
THEOREM TypeCorrect == Spec => []TypeOK
<1>1. IInv => TypeOK
  BY DEF IInv
<1>2. QED
  BY <1>1, Invariance, PTL

\* No crash or restart, torn line or not, makes the closed log count a
\* position twice (_close and _load_open_state).
THEOREM NoDoubleCount == Spec => []RowsUnique
<1>1. IInv => RowsUnique
  BY DEF IInv
<1>2. QED
  BY <1>1, Invariance, PTL

\* Between two calls a restart would find exactly the open trades
\* (_write_open_state at the end of every method, and _load_open_state).
THEOREM BookSurvivesCrash == Spec => []DurableBook
<1>1. IInv => DurableBook
  BY DEF IInv, DiskInv, CallInv, DurableBook, Idle, Recovered
<1>2. QED
  BY <1>1, Invariance, PTL

-----------------------------------------------------------------------------
(* When appends are whole, nothing drops out of the record.                *)

AccountInv == ~tornLine /\ closing \subseteq Logged /\ PositionsAccounted

\* Steps that neither open nor close a trade keep what is live.
LEMMA SameLive ==
    ASSUME IInv, IInv', UNCHANGED <<closedLog, opened>>,
           (IF up THEN openTrades ELSE openFile) \ Logged
             = (IF up' THEN openTrades' ELSE openFile') \ Logged,
           AccountInv, ~tornLine', closing' \subseteq Logged
    PROVE  AccountInv'
<1>1. Logged' = Logged
  BY DEF Logged
<1>2. Live' = Live
  BY <1>1 DEF Live, Recovered
<1>3. QED
  BY <1>1, <1>2 DEF AccountInv, PositionsAccounted

LEMMA AccountStep ==
    ASSUME ~TornAppends, IInv, IInv', AccountInv, [Next]_vars
    PROVE  AccountInv'
<1>1. ASSUME NEW s \in Symbols, Open(s) PROVE AccountInv'
  <2> DEFINE t == [symbol |-> s, at |-> now, nth |-> Len(opened) + 1]
  <2>1. /\ openTrades' = openTrades \cup {t}
        /\ opened' = Append(opened, t)
        /\ UNCHANGED <<up, closedLog, tornLine, closing>> /\ up
    BY <1>1 DEF Open, HasOpen, Idle
  <2>2. opened \in Seq(Trade) /\ t \in Trade
    BY <1>1, JournalAssumption DEF IInv, TypeOK, Open, Trade
  <2> HIDE DEF t
  <2>3. Logged' = Logged
    BY <2>1 DEF Logged
  <2>4. Live' \cup Logged' = Live \cup Logged \cup {t}
    BY <2>1, <2>3 DEF Live
  <2>5. \A i \in DOMAIN opened' : opened'[i] = t \/ \E j \in DOMAIN opened : opened'[i] = opened[j]
    BY <2>1, <2>2
  <2>6. PositionsAccounted'
    BY <2>4, <2>5 DEF AccountInv, PositionsAccounted
  <2>7. QED
    BY <2>1, <2>3, <2>6 DEF AccountInv
<1>2. ASSUME NEW r \in todo, AppendToLog(r) PROVE AccountInv'
  <2>1. /\ closedLog' = Append(closedLog, r) /\ r \in Row /\ closedLog \in Seq(Row)
        /\ UNCHANGED <<up, openTrades, openFile, opened>> /\ up /\ ~tornLine'
        /\ closing' = {r.trade}
    BY <1>2 DEF AppendToLog, AccountInv, IInv, TypeOK
  <2>2. Logged' = Logged \cup {r.trade}
    BY <2>1, LoggedAppend
  <2>3. Live \cup Logged \subseteq Live' \cup Logged'
    BY <2>1, <2>2 DEF Live
  <2>4. PositionsAccounted'
    BY <2>1, <2>3 DEF AccountInv, PositionsAccounted
  <2>5. QED
    BY <2>1, <2>2, <2>4 DEF AccountInv
<1>3. CASE FinishClose
  <2>1. /\ openTrades' \ Logged = openTrades \ Logged
        /\ up' = up /\ up
        /\ UNCHANGED <<closedLog, opened>>
        /\ ~tornLine' /\ closing' \subseteq Logged
    BY <1>3 DEF FinishClose, AccountInv
  <2>2. (IF up THEN openTrades ELSE openFile) \ Logged
          = (IF up' THEN openTrades' ELSE openFile') \ Logged
    BY <2>1
  <2>3. QED
    BY <2>1, <2>2, SameLive
<1>4. CASE Crash
  <2>1. /\ up /\ ~up' /\ openFile' = openFile
        /\ UNCHANGED <<closedLog, opened>>
        /\ ~tornLine' /\ closing' \subseteq Logged
    BY <1>4 DEF Crash, AccountInv
  <2>2. openFile \ Logged = openTrades \ Logged
    BY <2>1 DEF IInv, DiskInv
  <2>3. (IF up THEN openTrades ELSE openFile) \ Logged
          = (IF up' THEN openTrades' ELSE openFile') \ Logged
    BY <2>1, <2>2
  <2>4. QED
    BY <2>1, <2>3, SameLive
<1>5. CASE Restart
  <2>1. /\ ~up /\ up' /\ openTrades' = openFile \ Logged
        /\ UNCHANGED <<closedLog, opened, closing, tornLine>>
    BY <1>5 DEF Restart, Recovered
  <2>2. (openFile \ Logged) \ Logged = openFile \ Logged
    OBVIOUS
  <2>3. QED
    BY <2>1, <2>2, SameLive DEF AccountInv
<1>6. ASSUME NEW t \in openTrades, Update(t) PROVE AccountInv'
  <2>1. /\ up /\ UNCHANGED <<up, openTrades, closedLog, opened, closing, tornLine>>
    BY <1>6 DEF Update, Mark, Idle
  <2>2. QED
    BY <2>1, SameLive DEF AccountInv
<1>7. ASSUME UNCHANGED <<up, openTrades, openFile, closedLog, opened, closing, tornLine>>
      PROVE  AccountInv'
  BY <1>7, SameLive DEF AccountInv
<1>8. QED
  BY <1>1, <1>2, <1>3, <1>4, <1>5, <1>6, <1>7
  DEF Next, vars, clock, Abandon, ExpirePastHorizon, ArchiveOpenTrades, Tick

\* With whole appends, every position ever opened is live or has its row:
\* whatever crashes come between the writes of open and _close.
THEOREM NothingDropsOut ==
    ASSUME ~TornAppends
    PROVE  Spec => []PositionsAccounted
<1>1. Init => AccountInv
  BY DEF Init, AccountInv, PositionsAccounted
<1>2. IInv /\ IInv' /\ AccountInv /\ [Next]_vars => AccountInv'
  BY AccountStep
<1>3. AccountInv => PositionsAccounted
  BY DEF AccountInv
<1>4. QED
  BY <1>1, <1>2, <1>3, Invariance, PTL DEF Spec

-----------------------------------------------------------------------------
(* Which bar decided a row: the calendar of the last two sessions, and     *)
(* what the guard at the top of update makes of it.                        *)

\* Between the last two sessions, and between the last one and now, there was
\* no other.
CalendarInv ==
    /\ \A d \in Nat : previous < d /\ d < session => d \in Weekend
    /\ \A d \in Nat : session < d /\ d <= Day(now) =>
            d \in Weekend \/ (d = Day(now) /\ Phase(now) = PreOpen)

\* The book is entered in sessions.
EntryInv == \A t \in openTrades \cup openFile : RegularHours(t.at)

\* The bar of a row in the log, or still to be written.
AfterEntry(row) ==
    row.status \in {"WIN", "LOSS"} =>
        /\ RegularHours(row.closed)
        /\ Day(row.trade.at) < Day(row.closed)
        /\ Day(row.trade.at) <= row.bar
        /\ Day(row.trade.at) = row.bar =>
                /\ Phase(row.closed) = OpeningMinutes
                /\ \A d \in (Day(row.trade.at) + 1)..(Day(row.closed) - 1) : d \in Weekend

RowsInv ==
    /\ \A r \in todo : AfterEntry(r)
    /\ \A i \in DOMAIN closedLog : AfterEntry(closedLog[i])

BarInv == CalendarInv /\ EntryInv /\ RowsInv

\* Only a session's opening moves the calendar, and none is passed over.
LEMMA CalendarStep == ASSUME IInv, CalendarInv, [Next]_vars PROVE CalendarInv'
<1>1. CASE Tick
  <2>1. now' = now + 1 /\ now \in Nat /\ session \in Nat /\ previous \in Nat
    BY <1>1, JournalAssumption DEF Tick, IInv, TypeOK
  <2>2. Day(now') \in Nat /\ Day(now) \in Nat /\ session <= Day(now)
    BY <2>1 DEF Day, IInv, ClockInv
  <2>3. CASE Opens(now')
    <3>1. session' = Day(now') /\ previous' = session /\ Phase(now') = 1
      BY <2>3, <1>1 DEF Tick, Opens, OpeningMinutes
    <3>2. Day(now') = Day(now) /\ Phase(now) = 0
      BY <3>1, <2>1 DEF Day, Phase
    <3>3. \A d \in Nat : session < d /\ d < Day(now') => d \in Weekend
      BY <3>2, <2>2 DEF CalendarInv
    <3>4. QED
      BY <3>1, <3>3, <2>2 DEF CalendarInv
  <2>4. CASE ~Opens(now')
    <3>1. session' = session /\ previous' = previous
      BY <2>4, <1>1 DEF Tick
    <3>2. ASSUME NEW d \in Nat, session < d, d <= Day(now')
          PROVE  d \in Weekend \/ (d = Day(now') /\ Phase(now') = PreOpen)
      <4>1. CASE Day(now') = Day(now)
        <5>1. Phase(now') = Phase(now) + 1
          BY <4>1, <2>1 DEF Day, Phase
        <5>2. CASE d < Day(now)
          BY <5>2, <3>2, <2>2 DEF CalendarInv
        <5>3. CASE d = Day(now)
          <6>1. d \in Weekend \/ Phase(now) = PreOpen
            BY <5>3, <3>2, <2>2 DEF CalendarInv
          <6>2. Phase(now) = PreOpen => Phase(now') = OpeningMinutes
            BY <5>1 DEF PreOpen, OpeningMinutes
          <6>3. QED
            BY <6>1, <6>2, <2>4, <5>3, <4>1 DEF Opens, RegularHours
        <5>4. QED
          BY <5>2, <5>3, <4>1, <3>2, <2>2
      <4>2. CASE Day(now') # Day(now)
        <5>1. Day(now') = Day(now) + 1 /\ Phase(now') = 0 /\ Phase(now) = 3
          BY <4>2, <2>1 DEF Day, Phase
        <5>2. CASE d = Day(now')
          BY <5>1, <5>2 DEF PreOpen
        <5>3. CASE d <= Day(now)
          BY <5>3, <5>1, <3>2 DEF CalendarInv, PreOpen
        <5>4. QED
          BY <5>1, <5>2, <5>3, <3>2, <2>2
      <4>3. QED
        BY <4>1, <4>2
    <3>3. QED
      BY <3>1, <3>2 DEF CalendarInv
  <2>5. QED
    BY <2>3, <2>4
<1>2. CASE UNCHANGED clock
  BY <1>2 DEF clock, CalendarInv
<1>3. QED
  BY <1>1, <1>2
  DEF Next, vars, Open, Update, Mark, Abandon, ExpirePastHorizon, ArchiveOpenTrades,
      AppendToLog, FinishClose, Crash, Restart

\* open is called in sessions only, and nothing else adds to the book.
LEMMA EntryStep == ASSUME IInv, EntryInv, [Next]_vars PROVE EntryInv'
<1>1. ASSUME NEW s \in Symbols, Open(s) PROVE EntryInv'
  <2>1. RegularHours(now) /\ openFile' = openTrades'
    BY <1>1 DEF Open, WriteOpenState
  <2>2. ASSUME NEW u \in openTrades' PROVE u \in openTrades \/ u.at = now
    BY <1>1, <2>2 DEF Open
  <2>3. QED
    BY <2>1, <2>2 DEF EntryInv
<1>2. CASE /\ openTrades' \subseteq openTrades \cup openFile
           /\ openFile' \subseteq openTrades \cup openFile
  BY <1>2 DEF EntryInv
<1>3. QED
  BY <1>1, <1>2
  DEF Next, vars, Update, Mark, Abandon, ExpirePastHorizon, ArchiveOpenTrades,
      AppendToLog, FinishClose, Crash, Restart, Tick, WriteOpenState, Recovered

\* Whatever bar the feed answers with, update resolves no trade on one older
\* than its entry, and on the entry session's own only as long as the feed lags
\* in the next session.
LEMMA UpdateAfterEntry ==
    ASSUME IInv, CalendarInv, EntryInv,
           NEW t \in openTrades, ~EntrySession(t), NEW b \in BarsInHand, NEW st
    PROVE  AfterEntry(NewRow(t, st, b))
<1> DEFINE entry == Day(t.at)
<1>1. /\ session = Day(now) /\ RegularHours(now)
      /\ now \in Nat /\ previous \in Nat /\ session \in Nat
  BY JournalAssumption DEF EntrySession, IInv, ClockInv, TypeOK
<1>2. t.at \in Nat /\ t.at <= now
  <2>1. PICK i \in DOMAIN opened : t = opened[i]
    BY DEF IInv, BooksInv, AllOpened
  <2>2. opened[i] \in Trade
    BY DEF IInv, TypeOK
  <2>3. QED
    BY <2>1, <2>2, JournalAssumption DEF IInv, BooksInv, Trade
<1>3. entry \in Nat /\ entry < session /\ entry \notin Weekend
  BY <1>1, <1>2 DEF EntrySession, Day, EntryInv, RegularHours
<1> HIDE DEF entry
<1>4. entry <= previous
  BY <1>1, <1>3 DEF CalendarInv
<1>5. b = session \/ (b = previous /\ Phase(now) = OpeningMinutes)
  BY DEF BarsInHand
<1>6. entry <= b
  BY <1>1, <1>3, <1>4, <1>5
<1>7. ASSUME entry = b PROVE /\ Phase(now) = OpeningMinutes
                             /\ \A d \in (entry + 1)..(session - 1) : d \in Weekend
  <2>1. b = previous /\ Phase(now) = OpeningMinutes
    BY <1>7, <1>3, <1>5
  <2>2. session \in Nat
    BY <1>1 DEF Day
  <2>3. \A d \in (entry + 1)..(session - 1) : d \in Nat /\ previous < d /\ d < session
    BY <1>3, <1>7, <2>1, <2>2, <1>1
  <2>4. QED
    BY <2>1, <2>3 DEF CalendarInv
<1>8. /\ NewRow(t, st, b).trade = t /\ NewRow(t, st, b).closed = now
      /\ NewRow(t, st, b).bar = b
  BY DEF NewRow
<1>9. QED
  BY <1>1, <1>3, <1>6, <1>7, <1>8 DEF AfterEntry, entry

\* Rows are decided by update as the calendar allows, by the other calls with
\* an outcome that is no level, and copied to the log unchanged.
LEMMA BarStep ==
    ASSUME IInv, BarInv, [Next]_vars
    PROVE  BarInv'
<1>0. CalendarInv' /\ EntryInv'
  BY CalendarStep, EntryStep DEF BarInv, RowsInv
<1>1. ASSUME NEW t \in openTrades, Update(t) PROVE RowsInv'
  <2>1. closedLog' = closedLog
    BY <1>1 DEF Update, Mark
  <2>2. ASSUME NEW r \in todo' PROVE AfterEntry(r)
    <3>1. CASE todo' = todo
      BY <3>1, <2>2 DEF BarInv, RowsInv
    <3>2. CASE todo' # todo
      <4>1. PICK b \in BarsInHand, st \in Resolved : r = NewRow(t, st, b) /\ ~EntrySession(t)
        BY <1>1, <2>2, <3>2 DEF Update, Mark, Outcome, Resolved
      <4>2. QED
        BY <4>1, UpdateAfterEntry DEF BarInv, RowsInv
    <3>3. QED
      BY <3>1, <3>2
  <2>3. QED
    BY <2>1, <2>2 DEF BarInv, RowsInv
<1>2. ASSUME NEW t \in openTrades, NEW st \in {"THESIS_FLIPPED", "THESIS_VETOED"},
             Abandon(t, st)
      PROVE  RowsInv'
  BY <1>2 DEF Abandon, BarInv, RowsInv, AfterEntry, NewRow
<1>3. ASSUME ExpirePastHorizon PROVE RowsInv'
  <2>1. \A r \in todo' : r.status = "TIMEOUT"
    BY <1>3 DEF ExpirePastHorizon, NewRow
  <2>2. \A r \in todo' : AfterEntry(r)
    BY <2>1 DEF AfterEntry
  <2>3. QED
    BY <1>3, <2>2 DEF ExpirePastHorizon, BarInv, RowsInv
<1>4. ASSUME ArchiveOpenTrades PROVE RowsInv'
  <2>1. \A r \in todo' : r.status = "ARCHIVED"
    BY <1>4 DEF ArchiveOpenTrades, NewRow
  <2>2. \A r \in todo' : AfterEntry(r)
    BY <2>1 DEF AfterEntry
  <2>3. QED
    BY <1>4, <2>2 DEF ArchiveOpenTrades, BarInv, RowsInv
<1>5. ASSUME NEW r \in todo, AppendToLog(r) PROVE RowsInv'
  <2>1. closedLog \in Seq(Row) /\ r \in Row
    BY DEF IInv, TypeOK
  <2>2. \A i \in DOMAIN closedLog' :
            closedLog'[i] = r \/ \E j \in DOMAIN closedLog : closedLog'[i] = closedLog[j]
    BY <1>5, <2>1 DEF AppendToLog
  <2>3. todo' \subseteq todo
    BY <1>5 DEF AppendToLog
  <2>4. QED
    BY <2>2, <2>3 DEF BarInv, RowsInv
<1>6. ASSUME todo' \subseteq todo, closedLog' = closedLog PROVE RowsInv'
  BY <1>6 DEF BarInv, RowsInv
<1>7. RowsInv'
  BY <1>1, <1>2, <1>3, <1>4, <1>5, <1>6
  DEF Next, vars, Open, FinishClose, Crash, Restart, Tick
<1>8. QED
  BY <1>0, <1>7 DEF BarInv

\* However late the feed is, a stop or a target is decided in a later session
\* than the entry's, on no older a bar, and on the entry session's own bar only
\* in the opening minutes of the very next session: that is what the guard at
\* the top of update secures.
THEOREM LevelsNotBeforeEntry == Spec => []LevelBarNotBeforeEntry
<1>1. Init => BarInv
  BY DEF Init, BarInv, RowsInv, CalendarInv, EntryInv, Day, Phase, PreOpen
<1>2. IInv /\ BarInv /\ [Next]_vars => BarInv'
  BY BarStep
<1>3. BarInv => LevelBarNotBeforeEntry
  BY DEF BarInv, RowsInv, AfterEntry, LevelBarNotBeforeEntry
<1>4. QED
  BY <1>1, <1>2, <1>3, Invariance, PTL DEF Spec

-----------------------------------------------------------------------------
(* With whole appends the journal implements the ledger.                   *)

LEMMA LedgerRecorded == Ledger!Recorded = Logged
BY DEF Ledger!Recorded, Logged

\* A step that keeps what is live and the log is a step the ledger does not see.
LEMMA LedgerStutter ==
    ASSUME closedLog' = closedLog,
           (IF up THEN openTrades ELSE openFile) \ Logged
             = (IF up' THEN openTrades' ELSE openFile') \ Logged
    PROVE  UNCHANGED Ledger!ledgerVars
<1>1. Logged' = Logged
  BY DEF Logged
<1>2. Live' = Live
  BY <1>1 DEF Live, Recovered
<1>3. QED
  BY <1>2 DEF Ledger!ledgerVars

LEMMA LedgerOpen ==
    ASSUME IInv, NEW s \in Symbols, Open(s)
    PROVE  Ledger!LedgerNext
<1> DEFINE t == [symbol |-> s, at |-> now, nth |-> Len(opened) + 1]
<1>1. /\ openTrades' = openTrades \cup {t}
      /\ UNCHANGED <<up, closedLog>> /\ up
      /\ \A u \in openTrades : u.symbol # s
  BY DEF Open, HasOpen, Idle
<1>2. t \in Trade /\ t.symbol = s
  BY JournalAssumption DEF IInv, TypeOK, Open, Trade
<1>3. t \notin AllOpened
  <2>1. \A u \in AllOpened : u.nth <= Len(opened)
    BY DEF IInv, BooksInv, AllOpened, TypeOK
  <2>2. t.nth = Len(opened) + 1 /\ Len(opened) \in Nat
    BY DEF t, IInv, TypeOK
  <2>3. QED
    BY <2>1, <2>2
<1> HIDE DEF t
<1>4. t \notin openTrades \cup Logged
  BY <1>3 DEF IInv, BooksInv
<1>5. Logged' = Logged
  BY <1>1 DEF Logged
<1>6. Live = openTrades \ Logged /\ Live' = Live \cup {t}
  BY <1>1, <1>4, <1>5 DEF Live
<1>7. Ledger!OpenPosition(t)
  BY <1>1, <1>2, <1>4, <1>6, LedgerRecorded DEF Ledger!OpenPosition
<1>8. QED
  BY <1>2, <1>7 DEF Ledger!LedgerNext

LEMMA LedgerClose ==
    ASSUME IInv, ~tornLine, NEW r \in todo, AppendToLog(r)
    PROVE  Ledger!LedgerNext
<1> DEFINE record == [i \in DOMAIN closedLog |-> closedLog[i].trade]
<1>1. /\ closedLog' = Append(closedLog, r) /\ r \in Row /\ closedLog \in Seq(Row)
      /\ UNCHANGED <<up, openTrades, openFile>> /\ up /\ closing = {}
  BY DEF AppendToLog, IInv, TypeOK
<1>2. r.trade \in Trade /\ r.trade \in openTrades \ Logged
  BY <1>1 DEF IInv, CallInv, DiskInv, Row
<1>3. Logged' = Logged \cup {r.trade}
  BY <1>1, LoggedAppend
<1>4. r.trade \in Live /\ Live' = Live \ {r.trade}
  BY <1>1, <1>2, <1>3 DEF Live
<1>5. record' = Append(record, r.trade)
  <2>1. \A i \in DOMAIN closedLog : closedLog[i] \in Row
    BY <1>1
  <2>2. record \in Seq(Trade)
    <3>1. \A i \in DOMAIN closedLog : closedLog[i].trade \in Trade
      BY <2>1 DEF Row
    <3>2. QED
      BY <1>1, <3>1
  <2>3. Len(record) = Len(closedLog) /\ Len(closedLog) \in Nat
    BY <1>1, <2>2
  <2>4. DOMAIN closedLog' = 1..(Len(closedLog) + 1)
    BY <1>1
  <2>5. \A i \in 1..Len(closedLog) : closedLog'[i] = closedLog[i]
    BY <1>1
  <2>6. closedLog'[Len(closedLog) + 1] = r
    BY <1>1
  <2>7. DOMAIN closedLog = 1..Len(closedLog)
    BY <1>1
  <2>8. Append(record, r.trade) =
          [i \in 1..(Len(record) + 1) |-> IF i <= Len(record) THEN record[i] ELSE r.trade]
    BY <2>2, <2>3, <2>7, <1>2
  <2>9. \A i \in 1..(Len(closedLog) + 1) :
            closedLog'[i].trade = IF i <= Len(closedLog) THEN closedLog[i].trade ELSE r.trade
    BY <2>3, <2>5, <2>6
  <2>10. QED
    BY <2>3, <2>4, <2>7, <2>8, <2>9
<1>6. Ledger!ClosePosition(r.trade)
  BY <1>4, <1>5 DEF Ledger!ClosePosition
<1>7. QED
  BY <1>2, <1>6 DEF Ledger!LedgerNext

LEMMA LedgerStep ==
    ASSUME ~TornAppends, IInv, IInv', AccountInv, [Next]_vars
    PROVE  [Ledger!LedgerNext]_(Ledger!ledgerVars)
<1>1. ASSUME NEW s \in Symbols, Open(s) PROVE Ledger!LedgerNext
  BY <1>1, LedgerOpen
<1>2. ASSUME NEW r \in todo, AppendToLog(r) PROVE Ledger!LedgerNext
  BY <1>2, LedgerClose DEF AccountInv
<1>3. CASE FinishClose
  <2>1. /\ openTrades' \ Logged = openTrades \ Logged
        /\ up' = up /\ up /\ closedLog' = closedLog
    BY <1>3 DEF FinishClose, AccountInv
  <2>2. QED
    BY <2>1, LedgerStutter
<1>4. CASE Crash
  <2>1. up /\ ~up' /\ openFile' = openFile /\ closedLog' = closedLog
    BY <1>4 DEF Crash
  <2>2. openFile \ Logged = openTrades \ Logged
    BY <2>1 DEF IInv, DiskInv
  <2>3. QED
    BY <2>1, <2>2, LedgerStutter
<1>5. CASE Restart
  <2>1. /\ ~up /\ up' /\ openTrades' = openFile \ Logged
        /\ closedLog' = closedLog
    BY <1>5 DEF Restart, Recovered
  <2>2. QED
    BY <2>1, LedgerStutter
<1>6. ASSUME NEW t \in openTrades, Update(t) PROVE UNCHANGED Ledger!ledgerVars
  <2>1. up /\ UNCHANGED <<up, openTrades, closedLog>>
    BY <1>6 DEF Update, Mark, Idle
  <2>2. QED
    BY <2>1, LedgerStutter
<1>7. ASSUME UNCHANGED <<up, openTrades, openFile, closedLog>>
      PROVE  UNCHANGED Ledger!ledgerVars
  BY <1>7, LedgerStutter
<1>8. QED
  BY <1>1, <1>2, <1>3, <1>4, <1>5, <1>6, <1>7
  DEF Next, vars, clock, Abandon, ExpirePastHorizon, ArchiveOpenTrades, Tick

\* The journal with its files, its crashes and its restarts behaves as the
\* ledger: a position goes live once and is closed by exactly one record.
THEOREM RefinesLedger ==
    ASSUME ~TornAppends
    PROVE  Spec => ImplementsLedger
<1>1. Init => AccountInv
  BY DEF Init, AccountInv, PositionsAccounted
<1>2. Init => Ledger!LedgerInit
  BY DEF Init, Ledger!LedgerInit, Live
<1>3. IInv /\ IInv' /\ AccountInv /\ [Next]_vars => AccountInv'
  BY AccountStep
<1>4. IInv /\ IInv' /\ AccountInv /\ [Next]_vars => [Ledger!LedgerNext]_(Ledger!ledgerVars)
  BY LedgerStep
<1>5. QED
  BY <1>1, <1>2, <1>3, <1>4, Invariance, PTL DEF Spec, ImplementsLedger, Ledger!LedgerSpec
=============================================================================
