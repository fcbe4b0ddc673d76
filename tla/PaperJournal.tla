---------------------------- MODULE PaperJournal ----------------------------
(***************************************************************************)
(* The paper-trade journal (src/smartboi/paper_journal.py): an in-memory   *)
(* book of open trades, a snapshot of it on disk, and an append-only log   *)
(* of closed trades.                                                       *)
(*                                                                         *)
(* Every method is synchronous, so methods do not interleave; the process  *)
(* may die between any two writes.  A call that closes trades is therefore *)
(* modelled write by write: it leaves the rows it has decided in todo,     *)
(* AppendToLog writes one row to the closed log, and FinishClose drops the *)
(* trade and rewrites the snapshot.  No other call starts while todo or    *)
(* closing is not empty; Crash may come at every point.                    *)
(*                                                                         *)
(* The snapshot is replaced atomically (write to .tmp, then rename), so it *)
(* is either the old book or the new one.  The log is appended in place:   *)
(* with TornAppends a crash may leave part of a line, and the next row is  *)
(* then written onto that same line, which no reader can decode.           *)
(*                                                                         *)
(* Prices and marks are abstracted to which levels a bar traded through.   *)
(***************************************************************************)
EXTENDS Naturals, Sequences

CONSTANTS
    Symbols,          \* the tradeable symbols
    HorizonDays,      \* PaperTrade.horizon_days
    Weekend,          \* the days on which there is no session
    TornAppends,      \* whether a crash may tear the line being appended
    BarLags,          \* whether the feed still answers with the previous
                      \*   session's bar in the first minutes of a session
    MaxTrades,        \* bound: positions ever opened
    MaxTime           \* bound: ticks of the clock

ASSUME JournalAssumption ==
    /\ HorizonDays \in Nat \ {0}
    /\ Weekend \subseteq Nat
    /\ TornAppends \in BOOLEAN
    /\ BarLags \in BOOLEAN
    /\ MaxTrades \in Nat
    /\ MaxTime \in Nat

-----------------------------------------------------------------------------
(* The exchange calendar.  The clock counts four phases a UTC day.         *)

PreOpen == 0            \* 00:00 UTC to the open: the date has rolled, the bar has not
OpeningMinutes == 1     \* the first minutes of the session
Session == 2            \* the rest of the regular session
AfterClose == 3         \* the close to 24:00 UTC

Phase(t) == t % 4
Day(t) == t \div 4      \* datetime.date() of a UTC timestamp

\* is_regular_trading_hours
RegularHours(t) == Day(t) \notin Weekend /\ Phase(t) \in {OpeningMinutes, Session}

-----------------------------------------------------------------------------
Levels == {"stop", "target"}
Resolved == {"WIN", "LOSS", "TIMEOUT"}
Unscored == {"THESIS_FLIPPED", "THESIS_VETOED", "ARCHIVED"}

\* opened_at is a microsecond timestamp; it is modelled by the tick and an
\* ordinal that keeps two openings in one tick apart.
Trade == [symbol : Symbols, at : 0..MaxTime, nth : 1..MaxTrades]

\* A line of the closed log: closed is its closed_at, and bar the session
\* whose bar decided it, which the line does not say.
Row == [trade : Trade, status : Resolved \cup Unscored, closed : 0..MaxTime, bar : Nat]

VARIABLES
    now,            \* the clock
    session,        \* the day of the latest session to have opened
    previous,       \* the day of the session before it
    up,             \* whether the process runs
    openTrades,     \* the in-memory book, PaperTradeJournal.open_trades
    openFile,       \* the snapshot, open_paper_trades.json
    closedLog,      \* the rows a reader of paper_trades.jsonl can decode
    tornLine,       \* whether the log ends in part of a line
    todo,           \* rows the call in progress has yet to write
    closing,        \* the trade whose row is logged and snapshot is not yet rewritten
    opened          \* history: every trade open() has returned, in order

clock == <<now, session, previous>>
vars == <<clock, up, openTrades, openFile, closedLog, tornLine, todo, closing, opened>>

TypeOK ==
    /\ now \in 0..MaxTime
    /\ session \in Nat
    /\ previous \in Nat
    /\ up \in BOOLEAN
    /\ openTrades \subseteq Trade
    /\ openFile \subseteq Trade
    /\ closedLog \in Seq(Row)
    /\ tornLine \in BOOLEAN
    /\ todo \subseteq Row
    /\ closing \subseteq Trade
    /\ opened \in Seq(Trade)

-----------------------------------------------------------------------------
\* _closed_trade_keys: the (symbol, opened_at) pairs of the decodable lines.
Logged == {closedLog[i].trade : i \in DOMAIN closedLog}

\* mutated HasOpen: open() called without looking
NeverOpen(s) == FALSE

HasOpen(s) == \E t \in openTrades : t.symbol = s

\* The sessions whose bar the price feed may answer with.
BarsInHand ==
    {session} \cup (IF BarLags /\ Phase(now) = OpeningMinutes THEN {previous} ELSE {})

DaysOpen(t) == (now - t.at) \div 4
PastHorizon(t) == DaysOpen(t) >= HorizonDays

\* No method of the journal is running.
Idle == up /\ todo = {} /\ closing = {}

NewRow(t, st, b) == [trade |-> t, status |-> st, closed |-> now, bar |-> b]

\* mutated WriteOpenState: the snapshot is not written
SkipOpenState(book) == UNCHANGED openFile

\* _write_open_state: the snapshot becomes the given book, in one rename.
WriteOpenState(book) == openFile' = book

\* mutated Recovered: every snapshot entry is trusted
RecoveredAll == openFile

\* mutated Recovered: matched on the symbol alone
RecoveredBySymbol ==
    {t \in openFile : \A u \in Logged : u.symbol # t.symbol}

\* _load_open_state: the snapshot less the entries whose row is in the log.
Recovered == openFile \ Logged

Init ==
    /\ now = 0
    /\ session = 0
    /\ previous = 0
    /\ up = TRUE
    /\ openTrades = {}
    /\ openFile = {}
    /\ closedLog = << >>
    /\ tornLine = FALSE
    /\ todo = {}
    /\ closing = {}
    /\ opened = << >>

\* open: a dict assignment, so an entry already there for s is overwritten.
\* The engine calls it only for a symbol without an open trade, and only
\* inside a session and past its opening minutes (_try_open_from_signal).
Open(s) ==
    /\ Idle
    /\ ~HasOpen(s)
    /\ RegularHours(now) /\ Phase(now) = Session
    /\ Len(opened) < MaxTrades
    /\ LET t == [symbol |-> s, at |-> now, nth |-> Len(opened) + 1]
       IN  /\ openTrades' = {u \in openTrades : u.symbol # s} \cup {t}
           /\ WriteOpenState(openTrades')
           /\ opened' = Append(opened, t)
    /\ UNCHANGED <<clock, up, closedLog, tornLine, todo, closing>>

\* update, when the trade is not to be resolved on this bar: it is in its
\* entry session, the market is shut, or nothing was reached.
Mark(t) ==
    /\ WriteOpenState(openTrades)
    /\ UNCHANGED <<clock, up, openTrades, closedLog, tornLine, todo, closing, opened>>

\* mutated EntrySession: the date alone, as an earlier version had it
EntryDate(t) == Day(t.at) = Day(now)

EntrySession(t) == Day(t.at) = Day(now) \/ ~RegularHours(now)

\* The verdict of update on a bar that traded through the levels in hit; the
\* stop wins when both did.
Outcome(t, hit) ==
    IF "stop" \in hit THEN {"LOSS"}
    ELSE IF "target" \in hit THEN {"WIN"}
    ELSE IF PastHorizon(t) THEN {"TIMEOUT"}
    ELSE {}

Update(t) ==
    /\ Idle
    /\ t \in openTrades
    /\ \E hit \in SUBSET Levels, b \in BarsInHand :
        LET result == IF EntrySession(t) THEN {} ELSE Outcome(t, hit)
        IN  \/ result = {} /\ Mark(t)
            \/ /\ result # {}
               /\ todo' = {NewRow(t, st, b) : st \in result}
               /\ UNCHANGED <<clock, up, openTrades, openFile, closedLog,
                              tornLine, closing, opened>>

\* close_on_thesis_flip and close_on_thesis_vetoed
Abandon(t, st) ==
    /\ Idle
    /\ t \in openTrades
    /\ todo' = {NewRow(t, st, session)}
    /\ UNCHANGED <<clock, up, openTrades, openFile, closedLog, tornLine, closing, opened>>

\* expire_past_horizon: every open trade past its horizon, priced or not.
ExpirePastHorizon ==
    /\ Idle
    /\ \E t \in openTrades : PastHorizon(t)
    /\ todo' = {NewRow(t, "TIMEOUT", session) : t \in {u \in openTrades : PastHorizon(u)}}
    /\ UNCHANGED <<clock, up, openTrades, openFile, closedLog, tornLine, closing, opened>>

\* archive_open_trades: every open trade.  The rename of the snapshot that
\* ends it leaves what the last close left, no open trade on disk.
ArchiveOpenTrades ==
    /\ Idle
    /\ openTrades # {}
    /\ todo' = {NewRow(t, "ARCHIVED", session) : t \in openTrades}
    /\ UNCHANGED <<clock, up, openTrades, openFile, closedLog, tornLine, closing, opened>>

\* _close, first write: the row goes to the log.  Onto a torn line it is lost.
AppendToLog(r) ==
    /\ up
    /\ closing = {}
    /\ r \in todo
    /\ closedLog' = IF tornLine THEN closedLog ELSE Append(closedLog, r)
    /\ tornLine' = FALSE
    /\ todo' = todo \ {r}
    /\ closing' = {r.trade}
    /\ UNCHANGED <<clock, up, openTrades, openFile, opened>>

\* _close, second write: del open_trades[symbol], then _write_open_state.
FinishClose ==
    /\ up
    /\ closing # {}
    /\ openTrades' = openTrades \ closing
    /\ WriteOpenState(openTrades')
    /\ closing' = {}
    /\ UNCHANGED <<clock, up, closedLog, tornLine, todo, opened>>

-----------------------------------------------------------------------------
\* The process dies; what was in memory is gone.  Dying in the middle of an
\* append may leave part of the line.
Crash ==
    /\ up
    /\ up' = FALSE
    /\ openTrades' = {}
    /\ todo' = {}
    /\ closing' = {}
    /\ \/ UNCHANGED tornLine
       \/ /\ TornAppends /\ todo # {} /\ closing = {}
          /\ tornLine' = TRUE
    /\ UNCHANGED <<clock, openFile, closedLog, opened>>

Restart ==
    /\ ~up
    /\ up' = TRUE
    /\ openTrades' = Recovered
    /\ UNCHANGED <<clock, openFile, closedLog, tornLine, todo, closing, opened>>

Opens(t) == RegularHours(t) /\ Phase(t) = OpeningMinutes

Tick ==
    /\ todo = {} /\ closing = {}
    /\ now < MaxTime
    /\ now' = now + 1
    /\ session' = IF Opens(now') THEN Day(now') ELSE session
    /\ previous' = IF Opens(now') THEN session ELSE previous
    /\ UNCHANGED <<up, openTrades, openFile, closedLog, tornLine, todo, closing, opened>>

Next ==
    \/ \E s \in Symbols : Open(s)
    \/ \E t \in openTrades : Update(t)
    \/ \E t \in openTrades, st \in {"THESIS_FLIPPED", "THESIS_VETOED"} : Abandon(t, st)
    \/ ExpirePastHorizon
    \/ ArchiveOpenTrades
    \/ \E r \in todo : AppendToLog(r)
    \/ FinishClose
    \/ Crash
    \/ Restart
    \/ Tick

Spec == Init /\ [][Next]_vars

-----------------------------------------------------------------------------
(* The properties.                                                         *)

\* No position is counted twice: at most one decodable row carries the
\* (symbol, opened_at) of a trade, whatever crashes and restarts come between
\* the log append and the snapshot rewrite of _close.
RowsUnique ==
    \A i, j \in DOMAIN closedLog : closedLog[i].trade = closedLog[j].trade => i = j

\* The positions the journal still answers for: those in the book, or, while
\* the process is down, those a restart will bring back.
Live == IF up THEN openTrades \ Logged ELSE Recovered

\* No position drops out of the record: every trade open() ever returned is
\* live or has its row in the closed log.
PositionsAccounted ==
    \A i \in DOMAIN opened : opened[i] \in Live \cup Logged

\* Between two calls the disk already holds the whole book: dying there and
\* loading again gives back exactly the trades that are open.
DurableBook == Idle => Recovered = openTrades

\* What paper_journal.py:575-576 says of the guard in update: the bar a stop
\* or a target is decided on is always one whose range postdates the entry.
LevelBarPostdatesEntry ==
    \A i \in DOMAIN closedLog :
        closedLog[i].status \in {"WIN", "LOSS"} =>
            closedLog[i].bar > Day(closedLog[i].trade.at)

\* What the guard does secure, however late the feed is: a stop or a target
\* is decided during regular hours of a later day than the entry's, on a bar
\* no older than the entry's, and on the entry session's own bar only in the
\* opening minutes of the very next session.
LevelBarNotBeforeEntry ==
    \A i \in DOMAIN closedLog :
        LET row == closedLog[i]
            entry == Day(row.trade.at)
        IN  row.status \in {"WIN", "LOSS"} =>
                /\ RegularHours(row.closed)
                /\ entry < Day(row.closed)
                /\ entry <= row.bar
                /\ entry = row.bar =>
                        /\ Phase(row.closed) = OpeningMinutes
                        /\ \A d \in (entry + 1)..(Day(row.closed) - 1) : d \in Weekend

Ledger == INSTANCE PositionLedger WITH
    Position <- Trade,
    live <- Live,
    record <- [i \in DOMAIN closedLog |-> closedLog[i].trade]

\* The journal, its files and its crashes implement the ledger: each trade
\* goes live once and is closed by one row.
ImplementsLedger == Ledger!LedgerSpec
=============================================================================
