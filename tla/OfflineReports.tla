--------------------------- MODULE OfflineReports ---------------------------
(* The reports over the logs the engine leaves: under which session a price *)
(* is filed and which bars follow an event, which episodes vote, and what a *)
(* replay over whole bars says of a position (market_hours.py, backtest.py, *)
(* event_study.py, forward_returns.py).                                     *)
(*                                                                          *)
(* The engine and the market write, a report may be run at any moment: it   *)
(* is an operator over the logs as they stand, and the properties are about *)
(* its value. The three questions share no log, so a behaviour takes up one *)
(* of them, its study. One symbol; time is the exchange's own.              *)
EXTENDS Integers, Sequences, FiniteSets, FiniteSetsExt

CONSTANTS
  Week,          \* for each day of the week, whether the market trades
  Days,          \* bound: days
  Horizons,      \* horizon_days of a position, and of a forward return
  MaxEpisodes,   \* bound: signals fired
  MaxRelogs,     \* bound: repeated rows of a signal
  MaxMarks       \* bound: rows of price_marks.jsonl

ASSUME OfflineAssumption ==
  /\ Week \in Seq(BOOLEAN) /\ Week # <<>>
  /\ Horizons \subseteq Nat \ {0}
  /\ {Days, MaxEpisodes, MaxRelogs, MaxMarks} \subseteq Nat

Studies == {"marks", "votes", "replay"}
Sides == {"LONG", "SHORT"}

VARIABLES
  study, now,
  quoted,      \* marks: the quote in hand while the pass gathers the others
  marks,       \* marks: price_marks.jsonl
  episode,     \* votes: the engine's episode, its side and how far it is
  signals,     \* votes: signals.jsonl
  decisions,   \* votes: decisions.jsonl
  log,         \* votes: paper_trades.jsonl
  snapshot,    \* votes: open_paper_trades.json
  tape,        \* replay: the prices since the position was opened
  position,    \* replay: the position
  close        \* replay: when and how the journal closed it

markVars == <<quoted, marks>>
voteVars == <<episode, signals, decisions, log, snapshot>>
replayVars == <<tape, position, close>>
vars == <<study, now, markVars, voteVars, replayVars>>

None == [none |-> TRUE]

-----------------------------------------------------------------------------
(* The calendar. A day has a part before the open, the session up to its    *)
(* last moments, these, whose price is its close, and what is after it; a   *)
(* moment is a part of a day. Parts have no length: what takes minutes may  *)
(* begin in one and end two further on. A price is known by the moment it   *)
(* was struck.                                                              *)

PartsPerDay == 4
Before == 0
Midday == 1
Closing == 2
After == 3

Moments == 0 .. PartsPerDay * Days - 1
DayOf(t) == t \div PartsPerDay
PartOf(t) == t % PartsPerDay
At(d, part) == PartsPerDay * d + part

Trades(d) == Week[(d % Len(Week)) + 1]
Sessions == {d \in 0 .. Days - 1 : Trades(d)}
Regular(t) == Trades(DayOf(t)) /\ PartOf(t) \in {Midday, Closing}
CloseOf(d) == At(d, Closing)

\* The price a quote shows: the last one struck, if there is one.
Struck(t) == {u \in Moments : u <= t /\ Regular(u)}

SessionBefore(d) == {b \in Sessions : b < d /\ d - b <= 7}

\* Mutant: filed by the date of the capture.
CaptureDate(t) == {DayOf(t)}

\* The sessions whose price a quote is: its own day's from the open on, else the last one's.
SessionForQuote(t) ==
  IF Trades(DayOf(t)) /\ PartOf(t) # Before THEN {DayOf(t)}
  ELSE IF SessionBefore(DayOf(t)) = {} THEN {} ELSE {Max(SessionBefore(DayOf(t)))}

QuoteIsAClose(t) == ~Regular(t)

\* The first date whose session could act on an event.
ActionableDate(t) == DayOf(t) + (IF PartOf(t) = After THEN 1 ELSE 0)

-----------------------------------------------------------------------------
(* Price marks as a series, and event time on it.                           *)

Quality(m) == IF QuoteIsAClose(m.at) THEN 2 ELSE 1

\* Of two rows of the file the further one was stamped later.
Better(i, j) ==
  \/ Quality(marks[i]) > Quality(marks[j])
  \/ Quality(marks[i]) = Quality(marks[j]) /\ i > j

FiledUnder(d) == {i \in DOMAIN marks : d \in SessionForQuote(marks[i].at)}
Filed == {d \in Sessions : FiledUnder(d) # {}}
Chosen(d) == CHOOSE i \in FiledUnder(d) : \A j \in FiledUnder(d) \ {i} : Better(i, j)
Mark(d) == marks[Chosen(d)]

\* The bars of event time zero and later; the others have negative offsets.
FromEvent(bars, t) == {d \in bars : d >= ActionableDate(t)}

\* An event's path: the bars an entry is followed through, and the one before
\* them (none, or a set of one), from whose close the raw move is measured.
EventPath(t) ==
  LET traded == FromEvent(Filed, t)
      earlier == Filed \ traded
  IN [traded |-> traded, base |-> {d \in earlier : \A e \in earlier : e <= d}]

-----------------------------------------------------------------------------
(* Forward returns: a snapshot of a dossier enters at the first session     *)
(* filed on or after its date, and leaves at the first a horizon later.     *)

Lookahead == 5
Later(d) == {s \in Filed : s >= d /\ s - d <= Lookahead}

Joined(snapshots, h) ==
  {d \in snapshots : Later(d) # {} /\ Later(Min(Later(d)) + h) # {}}
Entries(snapshots, h) == {Min(Later(d)) : d \in Joined(snapshots, h)}
Exit(entry, h) == Min(Later(entry + h))

\* The date of a moment's stamp is the UTC one, which is tomorrow's from the evening on.
StampDates(t) == {DayOf(t)} \cup (IF PartOf(t) = After THEN {DayOf(t) + 1} ELSE {})

\* event_study.py enters an episode as forward_returns.py does a snapshot.
EntrySessions(t) == {Min(Later(d)) : d \in {e \in StampDates(t) : Later(e) # {}}}

\* Mutant: a horizon apart is not far enough.
CountedApart(dates, h) ==
  LET upTo[d \in -1 .. Days - 1] ==
        IF d \in dates /\ \A e \in upTo[d - 1] : d - e > h THEN upTo[d - 1] \cup {d}
        ELSE IF d = -1 THEN {} ELSE upTo[d - 1]
  IN upTo[Days - 1]

\* effective_sample_count: in the order of the dates, those a horizon after the last counted.
Counted(dates, h) ==
  LET upTo[d \in -1 .. Days - 1] ==
        IF d \in dates /\ \A e \in upTo[d - 1] : d - e >= h THEN upTo[d - 1] \cup {d}
        ELSE IF d = -1 THEN {} ELSE upTo[d - 1]
  IN upTo[Days - 1]

-----------------------------------------------------------------------------
(* Episodes and votes. A trade's row in the log, or in the snapshot while   *)
(* it is open, carries its episode; a signal that never opened votes as     *)
(* what became of it.                                                       *)

\* The episode's rows as one, from the first of them.
Collapsed ==
  {r \in signals : \A q \in signals : q.episode = r.episode => r.at <= q.at}

\* Mutant: what was written first stands.
OutcomeAsSkipped(e) ==
  CASE [episode |-> e, event |-> "drift_skip"] \in decisions -> "drift_skip"
    [] [episode |-> e, event |-> "trade_opened"] \in decisions -> "opened"
    [] OTHER -> "untracked"

\* Terminal outcomes first.
Outcome(e) ==
  LET has(event) == [episode |-> e, event |-> event] \in decisions
  IN CASE has("trade_opened") -> "opened"
       [] ~has("trade_opened") /\ has("signal_expired") -> "expired"
       [] ~has("trade_opened") /\ ~has("signal_expired") /\ has("drift_skip") -> "drift_skip"
       [] OTHER -> "untracked"

Vote(r, kind, resolved) ==
  [episode |-> r.episode, at |-> r.at, side |-> r.side, kind |-> kind, resolved |-> resolved]

WouldBeTrades ==
  {Vote(r, "opened", TRUE) : r \in log}
  \cup {Vote(r, "opened", FALSE) : r \in snapshot}
  \cup {Vote(r, Outcome(r.episode), FALSE) :
          r \in {q \in Collapsed : Outcome(q.episode) \in {"drift_skip", "expired"}}}

KindRank(v) == CASE v.kind = "opened" -> 0 [] v.kind = "drift_skip" -> 1 [] OTHER -> 2

\* Of two in one part of a day the earlier episode's is the earlier.
Earlier(v, w) == v.at < w.at \/ (v.at = w.at /\ v.episode < w.episode)

Outranks(v, w) ==
  \/ KindRank(v) < KindRank(w)
  \/ KindRank(v) = KindRank(w) /\ v.resolved /\ ~w.resolved
  \/ KindRank(v) = KindRank(w) /\ v.resolved = w.resolved /\ Earlier(v, w)

SameKey(v, w) == v.side = w.side /\ ActionableDate(v.at) = ActionableDate(w.at)

Votes ==
  {v \in WouldBeTrades : \A w \in WouldBeTrades \ {v} : SameKey(v, w) => Outranks(v, w)}

-----------------------------------------------------------------------------
(* The replay of a position over whole bars. Its levels lie one step below  *)
(* and above the entry.                                                     *)

Prices == 1 .. 3
Entry == 2
Stop(side) == IF side = "LONG" THEN 1 ELSE 3
Target(side) == IF side = "LONG" THEN 3 ELSE 1

\* The prices of a session up to a moment: the bar a feed answers with then.
Bar(d, t) == {tape[u] : u \in {v \in DOMAIN tape : DayOf(v) = d /\ v <= t}}

\* On a whole bar or the bar so far: the stop first, then the target, then the horizon.
Verdict(bar, timedOut) ==
  CASE Stop(position.side) \in bar -> "LOSS"
    [] Stop(position.side) \notin bar /\ Target(position.side) \in bar -> "WIN"
    [] Stop(position.side) \notin bar /\ Target(position.side) \notin bar /\ timedOut -> "TIMEOUT"
    [] OTHER -> "OPEN"

HeldOut(d) == d - DayOf(position.at) >= position.horizon

\* Mutant: the session after the entry's is passed over.
ReplayLater == {d \in Sessions : d > DayOf(position.at) + 1 /\ At(d, After) <= now}

\* The sessions whose bar is whole, from the one after the entry's.
ReplaySessions == {d \in Sessions : d >= DayOf(position.at) + 1 /\ At(d, After) <= now}

ReplayOutcome(d) == Verdict(Bar(d, now), HeldOut(d))
ReplayExits == {d \in ReplaySessions : ReplayOutcome(d) # "OPEN"}

-----------------------------------------------------------------------------
Init ==
  /\ study \in Studies
  /\ now = 0
  /\ quoted = None /\ marks = << >>
  /\ episode = [id |-> 0, side |-> "LONG", stage |-> "idle"]
  /\ signals = {} /\ decisions = {} /\ log = {} /\ snapshot = {}
  /\ tape = << >> /\ position = None /\ close = None

\* _run_daily_price_marks asks for one quote after the other ...
QuoteTaken ==
  /\ study = "marks"
  /\ Trades(DayOf(now))
  /\ quoted = None
  /\ Struck(now) # {}
  /\ Len(marks) < MaxMarks
  /\ quoted' = [asked |-> now, price |-> Max(Struck(now))]
  /\ UNCHANGED <<study, now, marks, voteVars, replayVars>>

\* ... and stamps them all when it has them, however long that took.
MarksWritten ==
  /\ study = "marks"
  /\ quoted # None
  /\ marks' = Append(marks, [asked |-> quoted.asked, at |-> now, price |-> quoted.price])
  /\ quoted' = None
  /\ UNCHANGED <<study, now, voteVars, replayVars>>

Row(e) == [episode |-> e.id, at |-> now, side |-> e.side]

\* A fresh episode, or a flip over a waiting one, which leaves no decision.
Fires(side) ==
  /\ study = "votes"
  /\ episode.stage = "idle" \/ (episode.stage = "waiting" /\ side # episode.side)
  /\ episode.id < MaxEpisodes
  /\ episode' = [id |-> episode.id + 1, side |-> side, stage |-> "waiting"]
  /\ signals' = signals \cup {Row(episode')}
  /\ UNCHANGED <<study, now, decisions, log, snapshot, markVars, replayVars>>

\* Each further item above the bar writes the episode's row again.
Relogs ==
  /\ study = "votes"
  /\ episode.stage = "waiting"
  /\ Cardinality(signals) < episode.id + MaxRelogs
  /\ signals' = signals \cup {Row(episode)}
  /\ UNCHANGED <<study, now, episode, decisions, log, snapshot, markVars, replayVars>>

\* A decision's row; an append that fails is logged and passed over.
Decides(event) ==
  decisions' \in {decisions, decisions \cup {[episode |-> episode.id, event |-> event]}}

DriftSkips ==
  /\ study = "votes"
  /\ episode.stage = "waiting" /\ Regular(now)
  /\ Decides("drift_skip")
  /\ UNCHANGED <<study, now, episode, signals, log, snapshot, markVars, replayVars>>

Expires ==
  /\ study = "votes"
  /\ episode.stage = "waiting"
  /\ Decides("signal_expired")
  /\ episode' = [episode EXCEPT !.stage = "idle"]
  /\ UNCHANGED <<study, now, signals, log, snapshot, markVars, replayVars>>

\* An opening writes the snapshot ...
Opens ==
  /\ study = "votes"
  /\ episode.stage = "waiting" /\ Regular(now)
  /\ snapshot' = {Row(episode)}
  /\ episode' = [episode EXCEPT !.stage = "opening"]
  /\ UNCHANGED <<study, now, signals, decisions, log, markVars, replayVars>>

\* ... and then its decision. Killed in between it is as if this append had
\* failed: the restart finds the trade open and does not open it again.
OpeningDecided ==
  /\ study = "votes"
  /\ episode.stage = "opening"
  /\ Decides("trade_opened")
  /\ episode' = [episode EXCEPT !.stage = "open"]
  /\ UNCHANGED <<study, now, signals, log, snapshot, markVars, replayVars>>

\* A close appends to the log ...
CloseLogged ==
  /\ study = "votes"
  /\ episode.stage = "open"
  /\ log' = log \cup snapshot
  /\ episode' = [episode EXCEPT !.stage = "closing"]
  /\ UNCHANGED <<study, now, signals, decisions, snapshot, markVars, replayVars>>

\* ... and then takes the trade out of the snapshot.
CloseDone ==
  /\ study = "votes"
  /\ episode.stage = "closing"
  /\ snapshot' = {}
  /\ episode' = [episode EXCEPT !.stage = "idle"]
  /\ UNCHANGED <<study, now, signals, decisions, log, markVars, replayVars>>

PositionOpens(side, horizon) ==
  /\ study = "replay"
  /\ position = None /\ Regular(now)
  /\ position' = [at |-> now, side |-> side, horizon |-> horizon]
  /\ tape' = [u \in {now} |-> Entry]
  /\ UNCHANGED <<study, now, close, markVars, voteVars>>

Elapsed == (now - position.at) \div PartsPerDay   \* (now - opened_at).days

\* The journal's update, at any poll that finds a price, on the bar so far.
JournalUpdates ==
  /\ study = "replay"
  /\ position # None /\ close = None
  /\ Regular(now) /\ DayOf(now) > DayOf(position.at)
  /\ LET verdict == Verdict(Bar(DayOf(now), now), Elapsed >= position.horizon)
     IN verdict # "OPEN" /\ close' = [at |-> now, status |-> verdict]
  /\ UNCHANGED <<study, now, tape, position, markVars, voteVars>>

\* Its expire_past_horizon, when no source has a price.
JournalExpires ==
  /\ study = "replay"
  /\ position # None /\ close = None
  /\ Elapsed >= position.horizon
  /\ close' = [at |-> now, status |-> "TIMEOUT"]
  /\ UNCHANGED <<study, now, tape, position, markVars, voteVars>>

Continues ==
  /\ now + 1 \in Moments
  /\ now' = now + 1

TimePasses ==
  /\ Continues
  /\ position = None \/ ~Regular(now')
  /\ UNCHANGED <<study, markVars, voteVars, replayVars>>

PriceMoves(price) ==
  /\ Continues
  /\ position # None /\ Regular(now')
  /\ tape' = [u \in DOMAIN tape \cup {now'} |-> IF u = now' THEN price ELSE tape[u]]
  /\ UNCHANGED <<study, position, close, markVars, voteVars>>

Next ==
  \/ QuoteTaken \/ MarksWritten
  \/ \E side \in Sides : Fires(side)
  \/ Relogs \/ DriftSkips \/ Expires \/ Opens \/ OpeningDecided \/ CloseLogged \/ CloseDone
  \/ \E side \in Sides, horizon \in Horizons : PositionOpens(side, horizon)
  \/ JournalUpdates \/ JournalExpires
  \/ TimePasses
  \/ \E price \in Prices : PriceMoves(price)

Spec == Init /\ [][Next]_vars

-----------------------------------------------------------------------------
(* Properties.                                                              *)

IsSettled(d) == Quality(Mark(d)) = 2

\* A price was struck between the row's quote and its stamp.
Overtaken(m) == \E u \in Moments : m.asked < u /\ u <= m.at /\ Regular(u)

\* What event_path reads off the marks. A session filed with a quote from after
\* its close is filed with the price of its close, unless the pass had asked
\* before and was overtaken by the close. For an event at any moment, such a
\* bar of the path it is followed through closed no earlier than the event;
\* and however slow the pass, the bar the move is measured from was struck
\* before the event.
EventTimeAligned ==
  /\ \A d \in Filed : IsSettled(d) /\ ~Overtaken(Mark(d)) => Mark(d).price = CloseOf(d)
  /\ \A t \in Moments : LET path == EventPath(t) IN
       /\ \A d \in path.traded :
            IsSettled(d) /\ ~Overtaken(Mark(d)) => Mark(d).price >= t
       /\ \A d \in path.base : Mark(d).price < t

\* market_hours.py:78 of a quote from after the close: "a real close". The
\* stamp is from after the close, the quote need not be: engine.py:4945 reads
\* the clock once all of them are in.
SettledIsClose == \A d \in Filed : IsSettled(d) => Mark(d).price = CloseOf(d)

\* event_study.py:1, "how did the market move AFTER each signal episode fired":
\* the close an episode is entered at is no older than its firing.
EntersAfterFire ==
  \A t \in Moments : \A d \in EntrySessions(t) :
    IsSettled(d) /\ ~Overtaken(Mark(d)) => Mark(d).price >= t

Spaced(dates, h) == \A d, e \in dates : d < e => e - d >= h

\* Whatever days were snapshot, their entries are some of those of all days; and
\* whatever sessions have no mark, the windows counted as independent
\* observations share no session but their ends, and no other choice among the
\* windows would count more.
WindowsIndependent ==
  study = "marks" =>
    \A h \in Horizons : \A entries \in SUBSET Entries(0 .. DayOf(now), h) :
      LET counted == Counted(entries, h)
      IN /\ \A d, e \in counted : d < e => Exit(d, h) <= e
         /\ \A other \in SUBSET entries :
              Spaced(other, h) => Cardinality(other) <= Cardinality(counted)

\* A trade of the episode is on file and the decision to open it is not.
Unrecorded(e) ==
  /\ \E r \in log \cup snapshot : r.episode = e
  /\ [episode |-> e, event |-> "trade_opened"] \notin decisions

\* Whenever the reports run, between the two writes of an opening or a close as
\* well, an episode has one vote at most, but for one more as a signal that
\* never opened where its opening is not recorded; and every trade that was
\* opened is voted for, as an opened one and as a resolved one once the log
\* has it.
EpisodeVotesOnce ==
  /\ \A v, w \in Votes :
       v.episode = w.episode => v = w \/ (Unrecorded(v.episode) /\ v.kind # w.kind)
  /\ \A r \in log \cup snapshot :
       \E v \in Votes : /\ SameKey(v, r) /\ v.kind = "opened"
                        /\ r \in log => v.resolved

\* backtest.py:152, "Signal episodes that never became a position": a vote of
\* another kind than an opened one is of an episode without a trade.
PassedNeverOpened ==
  \A v \in Votes : v.kind # "opened" => \A r \in log \cup snapshot : r.episode # v.episode

\* Once the bars are whole the replay has ended a position by the first
\* session on or after the day the journal did, although the journal saw only
\* parts of the bars and not all of them; and a loss the journal took is none
\* the replay makes a gain of, when both end it in one session.
ReplayConservative ==
  close # None =>
    LET due == {d \in Sessions : d >= DayOf(close.at)}
    IN due # {} /\ At(Min(due), After) <= now =>
         /\ \E d \in ReplayExits : d <= Min(due)
         /\ LET exit == Min(ReplayExits)
            IN exit = DayOf(close.at) =>
                 /\ close.status = "LOSS" => ReplayOutcome(exit) = "LOSS"
                 /\ close.status = "WIN" => ReplayOutcome(exit) \in {"WIN", "LOSS"}
=============================================================================
