---------------------------- MODULE SignalEngine ----------------------------
(***************************************************************************)
(* The life of a signal in the engine (src/smartboi/engine.py): evidence   *)
(* is merged into a symbol's dossier, a dossier that qualifies fires a     *)
(* signal, the entry gate turns the signal into a paper trade or lets it   *)
(* expire, and a trade that closes returns its dossier to ACTIVE.          *)
(*                                                                         *)
(* The engine is one asyncio task.  It loads a whole dossier, awaits (the  *)
(* model, a price, an alert webhook) and then saves the whole dossier: d   *)
(* is that copy and pc the await it is suspended in.  What lies between    *)
(* two awaits is one step.  Requests of the dashboard run between them, on *)
(* the same event loop; the process can die anywhere.                      *)
(*                                                                         *)
(* Scores are abstracted to what the code tells apart: a thesis that       *)
(* clears the signal bar, one that does not but keeps 0.8 of it            *)
(* (SIGNAL_EXPIRY_HYSTERESIS), and one that has less.  Prices, the clock   *)
(* and the market's hours are nondeterministic; the journal is the set of  *)
(* open trades (its files and its closing rules: PaperJournal).  Every     *)
(* symbol is taken to be tradeable, and a price source to be configured.   *)
(***************************************************************************)
EXTENDS Naturals, FiniteSets

CONSTANTS
    Symbols,            \* the tradeable symbols
    Directions,         \* LONG and SHORT
    VetoConfirmations,  \* _VETO_EXIT_CONFIRMATIONS
    QuoteFallback,      \* whether Finnhub is configured besides IB
    MaxEpisodes,        \* bound: episodes fired
    MaxCrashes,         \* bound: crashes
    MaxResets           \* bound: resets from the dashboard

ASSUME EngineAssumption ==
    /\ "NONE" \notin Directions
    /\ VetoConfirmations \in Nat \ {0}
    /\ QuoteFallback \in BOOLEAN
    /\ MaxEpisodes \in Nat /\ MaxCrashes \in Nat /\ MaxResets \in Nat

-----------------------------------------------------------------------------
(* Dossiers and trades.                                                    *)

Levels == {"clear", "marginal", "low"}

\* What merging or decaying evidence can make of a thesis.
Thesis == [dir : Directions, level : Levels] \cup {[dir |-> "NONE", level |-> "low"]}

\* synthesize: no verdict, already priced in, direction disagrees, or trimmed.
Verdicts == {"none", "priced_in", "disagrees", "trimmed"}

Episodes == 1..MaxEpisodes

\* level is "blank" while a dossier holds no evidence; judged says whether it
\* carries a verdict (synthesis_at), priced_in is consecutive_priced_in.
Opinion ==
    [dir : Directions \cup {"NONE"}, level : Levels \cup {"blank"},
     judged : BOOLEAN, priced_in : 0..VetoConfirmations]

\* Of entry_attempts the code only asks whether it is 0; episode stands for
\* signaled_at, 0 for the empty string.
ActiveDossier ==
    [opinion : Opinion, status : {"ACTIVE"}, attempted : {FALSE},
     drift_alert_sent : {FALSE}, signaled_direction : {"NONE"}, episode : {0}]

SignaledDossier ==
    [opinion : Opinion, status : {"SIGNALED"}, attempted : BOOLEAN,
     drift_alert_sent : BOOLEAN, signaled_direction : Directions, episode : Episodes]

Dossier == ActiveDossier \cup SignaledDossier

Blank ==
    [opinion |-> [dir |-> "NONE", level |-> "blank", judged |-> FALSE, priced_in |-> 0],
     status |-> "ACTIVE", attempted |-> FALSE,
     drift_alert_sent |-> FALSE, signaled_direction |-> "NONE", episode |-> 0]

Trade == [symbol : Symbols, dir : Directions, episode : Episodes]

Awaits ==
    {"merging",     \* _update_dossier: the updater, the skeptic, a price
     "judging",     \* _decay_one: the synthesizer
     "firing",      \* _snapshot_signal_price
     "pricing",     \* _try_open_from_signal: _price_bar
     "warning",     \*   the signal_stale alert
     "sizing",      \*   market_cap_musd
     "announcing",  \*   the paper_trade_opened alert
     "retiring",    \* _mark_and_execute: the alerts of expire_past_horizon
     "fetching",    \*   _price_bars
     "settling"}    \*   the paper_trade_closed alert

VARIABLES
    dossier,        \* the dossiers on disk
    trades,         \* the journal's open trades
    entryPending,   \* _entry_pending
    ibUp,           \* whether IB Gateway answers
    overdue,        \* the episodes whose entry deadline has passed
    pastHorizon,    \* the symbols whose open trade has passed its horizon
    pc,             \* where the engine task is
    cur,            \* the symbol it works on, as a set of at most one
    d,              \* its copy of that symbol's dossier
    queue,          \* the symbols left in the loop it is in
    pending,        \* pending, the local of _mark_and_execute
    crashes, resets,
    \* History:
    fired,          \* the episodes that have reached the disk are 1..fired
    retired,        \* the value of fired at the latest reset
    looked,         \* the episodes the entry gate has evaluated
    entered,        \* the episodes a position was opened on
    driftRows       \* for each episode, its drift_skip rows (2 stands for more)

task == <<pc, cur, d, queue, pending>>
clocks == <<ibUp, overdue, pastHorizon>>
counters == <<crashes, resets, retired>>
history == <<looked, entered, driftRows>>
vars == <<dossier, trades, entryPending, clocks, task, counters, fired, history>>

TypeOK ==
    /\ dossier \in [Symbols -> Dossier]
    /\ trades \subseteq Trade
    /\ entryPending \in BOOLEAN
    /\ ibUp \in BOOLEAN
    /\ overdue \subseteq Episodes
    /\ pastHorizon \subseteq Symbols
    /\ pc \in {"idle", "entering", "marking"} \cup Awaits
    /\ cur \subseteq Symbols /\ Cardinality(cur) <= 1
    /\ d \in Dossier
    /\ queue \subseteq Symbols
    /\ pending \in BOOLEAN
    /\ crashes \in 0..MaxCrashes
    /\ resets \in 0..MaxResets
    /\ fired \in 0..MaxEpisodes
    /\ retired \in 0..MaxEpisodes
    /\ looked \subseteq Episodes
    /\ entered \subseteq Episodes
    /\ driftRows \in [Episodes -> 0..2]

-----------------------------------------------------------------------------
(* What is asked of a dossier, and done to one.                            *)

\* has_open
HasOpen(s) == \E t \in trades : t.symbol = s

\* evaluate(dossier) is not None
Qualifies(x) == x.opinion.level = "clear"

Flipped(x) == x.opinion.dir # x.signaled_direction

\* _should_expire_unopened
ShouldExpireUnopened(x) == Flipped(x) \/ x.attempted \/ x.opinion.level = "low"

\* mutated ResetToActive: signaled_at is kept
ResetButEpisode(x) == [Blank EXCEPT !.opinion = x.opinion, !.episode = x.episode]

\* mutated ResetToActive: the status is kept
ResetNothing(x) == x

\* _reset_to_active: neither the thesis nor the verdict count is touched.
ResetToActive(x) == [Blank EXCEPT !.opinion = x.opinion]

\* mutated Wiped: the evidence goes too
WipedOut(x) == Blank

\* What reset_runtime_state leaves of a dossier: the thesis, but no verdict.
Wiped(x) == [ResetToActive(x) EXCEPT !.opinion.judged = FALSE, !.opinion.priced_in = 0]

\* signal_expired
DeadlinePassed(x) == x.episode \in overdue

\* _apply_synthesis asks only about a thesis with a direction,
MaySynthesize(th, v) == v # "none" => th.dir # "NONE"

\* and a merge (_maybe_resynthesize) only where a verdict already stands.
MayResynthesize(x, v) == v # "none" => x.opinion.judged

\* Recomputed evidence th under the verdict v.  A veto zeroes the score;
\* without a verdict the count of priced-in verdicts stays.
Judged(x, th, v) ==
    [x EXCEPT !.opinion =
        [dir       |-> th.dir,
         level     |-> IF v \in {"priced_in", "disagrees"} THEN "low" ELSE th.level,
         judged    |-> @.judged \/ v # "none",
         priced_in |-> CASE v = "none" -> @.priced_in
                         [] v = "priced_in" /\ @.priced_in < VetoConfirmations -> @.priced_in + 1
                         [] v = "priced_in" -> @.priced_in
                         [] OTHER -> 0]]

\* _snapshot_signal_price, before it awaits the price
SignalBaseline(x) ==
    [x EXCEPT !.drift_alert_sent = FALSE,
              !.signaled_direction = x.opinion.dir, !.episode = fired + 1]

\* mutated Fired: the earlier episode's attempts are inherited
FiredWithAttempts(x) == SignalBaseline([x EXCEPT !.status = "SIGNALED"])

\* _fire_signal, before the await
Fired(x) == SignalBaseline([x EXCEPT !.status = "SIGNALED", !.attempted = FALSE])

\* DossierStore.save, for the symbol the task works on
Save(x) == dossier' = [s \in Symbols |-> IF s \in cur THEN x ELSE dossier[s]]

-----------------------------------------------------------------------------
(* The engine task.                                                        *)

Rest ==
    /\ pc' = "idle" /\ cur' = {} /\ d' = Blank
    /\ queue' = {} /\ pending' = FALSE

Suspend(await, x) == pc' = await /\ d' = x /\ UNCHANGED <<cur, queue, pending>>

\* The bound: a fresh episode may fire.  The last ones are followed to their end.
MayFire == fired < MaxEpisodes

\* A task that works on one symbol begins by loading its dossier.
Load(s, await) ==
    /\ pc = "idle"
    /\ MayFire \/ dossier[s].status = "SIGNALED"
    /\ pc' = await /\ cur' = {s} /\ d' = dossier[s]
    /\ UNCHANGED <<dossier, trades, entryPending, clocks, queue, pending,
                   counters, fired, history>>

Init ==
    /\ dossier = [s \in Symbols |-> Blank]
    /\ trades = {}
    /\ entryPending = TRUE
    /\ ibUp = TRUE /\ overdue = {} /\ pastHorizon = {}
    /\ pc = "idle" /\ cur = {} /\ d = Blank
    /\ queue = {} /\ pending = FALSE
    /\ crashes = 0 /\ resets = 0 /\ fired = 0 /\ retired = 0
    /\ looked = {} /\ entered = {}
    /\ driftRows = [e \in Episodes |-> 0]

\* _update_dossier: load, then the updater and the skeptic.
BeginMerge(s) == Load(s, "merging")

\* Deferred, a duplicate, refuted, or nothing new: the dossier is not saved.
NothingMerged ==
    /\ pc = "merging"
    /\ Rest
    /\ UNCHANGED <<dossier, trades, entryPending, clocks, counters, fired, history>>

\* The rest of _update_dossier up to its next await: merge, re-judge, save,
\* then fire, expire or neither.
Merge(th, v) ==
    LET merged == Judged(d, th, v)
        expires == /\ merged.status = "SIGNALED"
                   /\ \A s \in cur : ~HasOpen(s)
                   /\ ShouldExpireUnopened(merged)
        fresh == merged.status = "ACTIVE" \/ Flipped(merged)
    IN  /\ pc = "merging"
        /\ MayResynthesize(d, v) /\ MaySynthesize(th, v)
        /\ \/ /\ Qualifies(merged) /\ fresh /\ MayFire
              /\ Save(merged) /\ Suspend("firing", Fired(merged))
           \/ Qualifies(merged) /\ ~fresh /\ Save(merged) /\ Rest
           \/ ~Qualifies(merged) /\ expires /\ Save(ResetToActive(merged)) /\ Rest
           \/ ~Qualifies(merged) /\ ~expires /\ Save(merged) /\ Rest
        /\ UNCHANGED <<trades, entryPending, clocks, counters, fired, history>>

\* mutated PullPollForward: the poll stays on its long interval
LeavePollAlone == UNCHANGED entryPending

\* A fresh episode asks for the short poll interval.
PullPollForward == entryPending' = TRUE

\* _fire_signal after the price: the episode reaches the disk.
FinishFire ==
    /\ pc = "firing"
    /\ Save(d)
    /\ fired' = fired + 1
    /\ PullPollForward
    /\ Rest
    /\ UNCHANGED <<trades, clocks, counters, history>>

\* _decay_one, for a dossier with evidence: load, recompute, synthesize.
BeginDecay(s) == dossier[s].opinion.level # "blank" /\ Load(s, "judging")

\* mutated DecayDefers: an open position does not stop the pass
NeverDefers == FALSE

\* With a position open the verdict is recorded and never acted on.
DecayDefers == \E s \in cur : HasOpen(s)

\* The rest of _decay_one.  written says whether it saves; it always does
\* when the thesis or the verdict changed.
Decay(th, v, written) ==
    LET decayed == Judged(d, th, v)
        Recorded == IF written THEN Save(decayed) ELSE UNCHANGED dossier
        expires == decayed.status = "SIGNALED" /\ ShouldExpireUnopened(decayed)
    IN  /\ pc = "judging"
        /\ MaySynthesize(th, v)
        /\ decayed # d \/ v # "none" => written
        /\ \/ DecayDefers /\ Recorded /\ Rest
           \/ /\ ~DecayDefers /\ Qualifies(decayed) /\ decayed.status = "ACTIVE" /\ MayFire
              /\ Recorded /\ Suspend("firing", Fired(decayed))
           \/ ~DecayDefers /\ Qualifies(decayed) /\ decayed.status # "ACTIVE" /\ Recorded /\ Rest
           \/ ~DecayDefers /\ ~Qualifies(decayed) /\ expires /\ Save(ResetToActive(decayed)) /\ Rest
           \/ ~DecayDefers /\ ~Qualifies(decayed) /\ ~expires /\ Recorded /\ Rest
        /\ UNCHANGED <<trades, entryPending, clocks, counters, fired, history>>
-----------------------------------------------------------------------------
(* _mark_and_execute, first half: the entry gate.                          *)

\* _run_entry_and_marking_poll: skipped while IB is down and there is no Finnhub.
BeginPoll ==
    /\ pc = "idle"
    /\ ibUp \/ QuoteFallback
    /\ pc' = "entering"
    /\ queue' = Symbols
    /\ UNCHANGED <<dossier, trades, entryPending, clocks, cur, d, pending,
                   counters, fired, history>>

\* The loop goes on with the next symbol; p is the value of pending.
NextSymbol(p) ==
    /\ pc' = "entering" /\ cur' = {} /\ d' = Blank
    /\ queue' = queue \ cur /\ pending' = p

AwaitsEntry(s) == dossier[s].status = "SIGNALED" /\ ~HasOpen(s)

SkipSymbol(s) ==
    /\ pc = "entering" /\ s \in queue /\ ~AwaitsEntry(s)
    /\ queue' = queue \ {s}
    /\ UNCHANGED <<dossier, trades, entryPending, clocks, pc, cur, d, pending,
                   counters, fired, history>>

\* mutated GateAccepts: the dossier is not evaluated again
GateIgnoresBar(x) == ~Flipped(x)

GateAccepts(x) == Qualifies(x) /\ ~Flipped(x)

\* _try_open_from_signal up to its first await: the attempt is counted and
\* saved before anything is decided.
TryOpen(s, marketOpen) ==
    LET looking == [dossier[s] EXCEPT !.attempted = TRUE]
        expires == ~GateAccepts(looking) \/ (~marketOpen /\ DeadlinePassed(looking))
        Write(x) == dossier' = [dossier EXCEPT ![s] = x]
    IN  /\ pc = "entering" /\ s \in queue /\ AwaitsEntry(s)
        /\ looked' = looked \cup {looking.episode}
        /\ \/ /\ expires
              /\ Write(ResetToActive(looking))
              /\ queue' = queue \ {s}
              /\ UNCHANGED <<pc, cur, d, pending>>
           \/ /\ ~expires /\ ~marketOpen
              /\ Write(looking)
              /\ queue' = queue \ {s} /\ pending' = TRUE
              /\ UNCHANGED <<pc, cur, d>>
           \/ /\ ~expires /\ marketOpen
              /\ Write(looking)
              /\ pc' = "pricing" /\ cur' = {s} /\ d' = looking
              /\ UNCHANGED <<queue, pending>>
        /\ UNCHANGED <<trades, entryPending, clocks, counters, fired,
                       entered, driftRows>>

\* mutated WaitOrExpire: a signal never gives up
WaitOn == UNCHANGED dossier /\ NextSymbol(TRUE)

\* No entry this time: expire past the deadline, otherwise wait.
WaitOrExpire ==
    IF DeadlinePassed(d) THEN Save(ResetToActive(d)) /\ NextSymbol(pending)
    ELSE UNCHANGED dossier /\ NextSymbol(TRUE)

NoPrice ==
    /\ pc = "pricing"
    /\ WaitOrExpire
    /\ UNCHANGED <<trades, entryPending, clocks, counters, fired, history>>

\* mutated DriftNoted: the flag is set in memory alone
DriftForgotten(x) == x.drift_alert_sent = FALSE /\ UNCHANGED dossier

\* Nothing drift-skipped yet: note it in the dossier.
DriftNoted(x) == x.drift_alert_sent = FALSE /\ Save([x EXCEPT !.drift_alert_sent = TRUE])

\* The price drifted too far for the first time: the flag, the ledger row and
\* an alert.
DriftSkip ==
    /\ pc = "pricing"
    /\ DriftNoted(d)
    /\ Suspend("warning", [d EXCEPT !.drift_alert_sent = TRUE])
    /\ driftRows' = [driftRows EXCEPT ![d.episode] = IF @ < 2 THEN @ + 1 ELSE @]
    /\ UNCHANGED <<trades, entryPending, clocks, counters, fired, looked, entered>>

Drifted ==
    /\ pc = "warning" \/ (pc = "pricing" /\ d.drift_alert_sent)
    /\ WaitOrExpire
    /\ UNCHANGED <<trades, entryPending, clocks, counters, fired, history>>

\* A price within the drift bound: expire at the deadline, else ask for the
\* market capitalisation.
Confirm ==
    /\ pc = "pricing"
    /\ IF DeadlinePassed(d) THEN Save(ResetToActive(d)) /\ NextSymbol(pending)
       ELSE UNCHANGED dossier /\ Suspend("sizing", d)
    /\ UNCHANGED <<trades, entryPending, clocks, counters, fired, history>>

\* journal.open, on the thesis and under the episode of the copy.
OpenTrade ==
    /\ pc = "sizing"
    /\ trades' = {t \in trades : t.symbol \notin cur}
                   \cup {[symbol |-> s, dir |-> d.opinion.dir, episode |-> d.episode] : s \in cur}
    /\ pastHorizon' = pastHorizon \ cur
    /\ entered' = entered \cup {d.episode}
    /\ Suspend("announcing", d)
    /\ UNCHANGED <<dossier, entryPending, ibUp, overdue, counters, fired, looked, driftRows>>

Announced ==
    /\ pc = "announcing"
    /\ NextSymbol(pending \/ \A s \in cur : ~HasOpen(s))
    /\ UNCHANGED <<dossier, trades, entryPending, clocks, counters, fired, history>>

-----------------------------------------------------------------------------
(* _mark_and_execute, second half: open trades.                            *)

\* mutated Expired: nothing closes at the horizon
NoneExpired == {}

\* The symbols expire_past_horizon closes.
Expired == {s \in pastHorizon : HasOpen(s)}

\* The loop ends: _entry_pending, then expire_past_horizon.
EntriesDone ==
    /\ pc = "entering" /\ queue = {}
    /\ entryPending' = pending
    /\ trades' = {t \in trades : t.symbol \notin Expired}
    /\ pastHorizon' = pastHorizon \ Expired
    /\ pc' = "retiring" /\ queue' = Expired /\ pending' = FALSE
    /\ UNCHANGED <<dossier, ibUp, overdue, cur, d, counters, fired, history>>

\* Its alert is sent: the dossier of an expired trade is loaded and reset.
Retire(s) ==
    /\ pc = "retiring" /\ s \in queue
    /\ dossier' = [dossier EXCEPT ![s] = ResetToActive(@)]
    /\ queue' = queue \ {s}
    /\ UNCHANGED <<trades, entryPending, clocks, pc, cur, d, pending,
                   counters, fired, history>>

RetiringDone ==
    /\ pc = "retiring" /\ queue = {}
    /\ IF trades = {} THEN Rest
       ELSE /\ pc' = "fetching" /\ queue' = {t.symbol : t \in trades}
            /\ UNCHANGED <<cur, d, pending>>
    /\ UNCHANGED <<dossier, trades, entryPending, clocks, counters, fired, history>>

\* Of the symbols that were open, those some source could price.
Fetched(priced) ==
    /\ pc = "fetching"
    /\ priced \subseteq queue
    /\ pc' = "marking" /\ queue' = priced
    /\ UNCHANGED <<dossier, trades, entryPending, clocks, cur, d, pending,
                   counters, fired, history>>

\* _close_if_thesis_flipped, else _close_if_thesis_vetoed.
MustExit(t) ==
    LET x == dossier[t.symbol]
    IN  \/ Qualifies(x) /\ x.opinion.dir # t.dir
        \/ x.opinion.priced_in >= VetoConfirmations

\* The bar may close the trade (journal.update); if not, the thesis may.
Mark(t) ==
    /\ pc = "marking" /\ t \in trades /\ t.symbol \in queue
    /\ queue' = queue \ {t.symbol}
    /\ \/ ~MustExit(t) /\ UNCHANGED <<trades, pastHorizon, pc, cur>>
       \/ /\ trades' = trades \ {t}
          /\ pastHorizon' = pastHorizon \ {t.symbol}
          /\ pc' = "settling" /\ cur' = {t.symbol}
    /\ UNCHANGED <<dossier, entryPending, ibUp, overdue, d, pending,
                   counters, fired, history>>

\* The trade was archived while the bars were fetched.
MarkGone(s) ==
    /\ pc = "marking" /\ s \in queue /\ ~HasOpen(s)
    /\ queue' = queue \ {s}
    /\ UNCHANGED <<dossier, trades, entryPending, clocks, pc, cur, d, pending,
                   counters, fired, history>>

\* The alert is sent: the dossier is loaded and reset.
Settle ==
    /\ pc = "settling"
    /\ dossier' = [s \in Symbols |-> IF s \in cur THEN ResetToActive(dossier[s]) ELSE dossier[s]]
    /\ pc' = "marking" /\ cur' = {}
    /\ UNCHANGED <<trades, entryPending, clocks, d, queue, pending,
                   counters, fired, history>>

MarkingDone ==
    /\ pc = "marking" /\ queue = {}
    /\ Rest
    /\ UNCHANGED <<dossier, trades, entryPending, clocks, counters, fired, history>>

-----------------------------------------------------------------------------
(* The dashboard, the clock, the Gateway and crashes.                      *)

\* A request is served between two steps of the task.  Where a loop has
\* nothing left to await, it runs on.
AtAwait == pc = "idle" \/ (pc \in Awaits /\ (pc = "retiring" => queue # {}))

\* reset_runtime_state, without the task knowing.  A dossier with no episode
\* and no verdict is left alone, and is as a reset leaves it.
ResetRuntime ==
    /\ AtAwait
    /\ resets < MaxResets
    /\ resets' = resets + 1
    /\ retired' = fired
    /\ trades' = {} /\ pastHorizon' = {}
    /\ entryPending' = FALSE
    /\ dossier' = [s \in Symbols |-> Wiped(dossier[s])]
    /\ UNCHANGED <<ibUp, overdue, task, crashes, fired, history>>

\* A new process: what the task knew is gone, and _entry_pending starts TRUE.
Crash ==
    /\ crashes < MaxCrashes
    /\ crashes' = crashes + 1
    /\ Rest
    /\ entryPending' = TRUE
    /\ UNCHANGED <<dossier, trades, clocks, resets, retired, fired, history>>

DeadlineComes(e) ==
    /\ e \notin overdue
    /\ \E s \in Symbols : dossier[s].episode = e
    /\ overdue' = overdue \cup {e}
    /\ UNCHANGED <<dossier, trades, entryPending, ibUp, pastHorizon, task,
                   counters, fired, history>>

HorizonComes(s) ==
    /\ HasOpen(s) /\ s \notin pastHorizon
    /\ pastHorizon' = pastHorizon \cup {s}
    /\ UNCHANGED <<dossier, trades, entryPending, ibUp, overdue, task,
                   counters, fired, history>>

Gateway ==
    /\ ibUp' = ~ibUp
    /\ UNCHANGED <<dossier, trades, entryPending, overdue, pastHorizon, task,
                   counters, fired, history>>

TaskStep ==
    \/ NothingMerged
    \/ \E th \in Thesis, v \in Verdicts : Merge(th, v)
    \/ \E th \in Thesis, v \in Verdicts, written \in BOOLEAN : Decay(th, v, written)
    \/ FinishFire
    \/ \E s \in queue : SkipSymbol(s)
    \/ \E s \in queue, marketOpen \in BOOLEAN : TryOpen(s, marketOpen)
    \/ NoPrice \/ DriftSkip \/ Drifted \/ Confirm \/ OpenTrade \/ Announced
    \/ EntriesDone
    \/ \E s \in queue : Retire(s)
    \/ RetiringDone
    \/ \E priced \in SUBSET Symbols : Fetched(priced)
    \/ \E t \in trades : Mark(t)
    \/ \E s \in queue : MarkGone(s)
    \/ Settle \/ MarkingDone

Next ==
    \/ \E s \in Symbols : BeginMerge(s) \/ BeginDecay(s)
    \/ BeginPoll
    \/ TaskStep
    \/ ResetRuntime
    \/ Crash
    \/ \E e \in Episodes : DeadlineComes(e)
    \/ \E s \in Symbols : HorizonComes(s)
    \/ Gateway

Spec == Init /\ [][Next]_vars

\* The task runs on and time passes.  Every tick offers the poll twice, so it
\* is not put off for ever by merges and decay passes.
Fairness ==
    /\ WF_vars(TaskStep)
    /\ SF_vars(BeginPoll)
    /\ \A e \in Episodes : WF_vars(DeadlineComes(e))
    /\ \A s \in Symbols : WF_vars(HorizonComes(s))

FairSpec == Spec /\ Fairness

-----------------------------------------------------------------------------
(* The properties.                                                         *)

\* A position is not left behind by its dossier: while one is open, no merge, no
\* decay pass and no restart takes the dossier out of SIGNALED, so that no fresh
\* episode fires beside it (_decay_one, _update_dossier, _mark_and_execute); only
\* a reset of the dashboard does, to the episodes fired before it.
OpenIsSignaled ==
    \A t \in trades : dossier[t.symbol].status = "SIGNALED" \/ t.episode <= retired

\* A position is opened on a copy two awaits old, which nobody re-reads.  Its
\* thesis is nevertheless the stored one, qualifying and in the direction of
\* the trade; and so is its episode, unless a reset of the dashboard has taken
\* it off the board since it fired.
EntryOnStoredThesis ==
    [][\A t \in trades' \ trades :
          LET x == dossier[t.symbol]
          IN  /\ Qualifies(x) /\ x.opinion.dir = t.dir
              /\ \/ x.status = "SIGNALED" /\ x.episode = t.episode
                 \/ x.status = "ACTIVE" /\ t.episode <= retired]_vars

\* An episode the entry gate has not looked at is ended by a merge or a decay
\* pass only on a flip or a material dip (_should_expire_unopened).
FirstLook ==
    [][\A s \in Symbols :
          LET e == dossier[s].episode
              x == dossier'[s]
          IN  /\ pc \in {"merging", "judging", "firing"} /\ pc' # pc
              /\ e # 0 /\ e \notin looked /\ x.episode # e
              => \/ x.opinion.dir # dossier[s].signaled_direction
                 \/ x.opinion.level = "low"]_vars

\* An episode is entered once: the episode is the key that joins a closed
\* trade to the one signal it came from (PaperTrade.episode).
OneEntryPerEpisode ==
    [][pc = "sizing" /\ pc' = "announcing" => d.episode \notin entered]_vars

\* A signal that waits for its entry keeps the poll on its short interval
\* (_price_poll_interval), unless a reset has discarded it.
WaitingIsPolled ==
    \A s \in Symbols :
        pc = "idle" /\ AwaitsEntry(s) /\ dossier[s].episode > retired => entryPending

\* decisions.jsonl carries at most one drift_skip row per episode.
DriftSkipOnce == \A e \in Episodes : driftRows[e] <= 1

\* No signal of before a reset is on the board after it (reset_runtime_state).
ResetSticks ==
    \A s \in Symbols : dossier[s].episode = 0 \/ dossier[s].episode > retired

\* A signal does not wait for ever: the gate enters it or it expires.
SignalResolved ==
    \A s \in Symbols, e \in Episodes :
        []<>(dossier[s].episode # e \/ HasOpen(s))

\* A position past its horizon is closed, whether or not it can be priced.
HorizonEnforced == \A s \in Symbols : []<>(s \notin pastHorizon)

\* The symbols whose trade is closed and whose dossier is about to be reset.
Settling == CASE pc = "retiring" -> queue [] pc = "settling" -> cur [] OTHER -> {}

\* What a symbol's signal is, seen from outside.
SignalOf(s) ==
    IF HasOpen(s) THEN LET t == CHOOSE t \in trades : t.symbol = s
                       IN  [stage |-> "held", episode |-> t.episode, dir |-> t.dir]
    ELSE IF dossier[s].status = "SIGNALED" /\ s \notin Settling
    THEN [stage |-> "waiting", episode |-> dossier[s].episode,
          dir |-> dossier[s].signaled_direction]
    ELSE [stage |-> "quiet"]

Life == INSTANCE SignalLifecycle WITH
    Symbol <- Symbols,
    Direction <- Directions,
    latest <- fired,
    signal <- [s \in Symbols |-> SignalOf(s)]

\* Up to the first crash or reset, whenever that comes, a signal is fired once,
\* waits, is entered at most once under the direction it fired in, and ends once
\* (_mark_and_execute, _open_pending_entry, _update_dossier).
ImplementsLifecycle ==
    /\ Life!LifeInit
    /\ [][crashes' = 0 /\ resets' = 0 => Life!LifeNext]_(Life!lifeVars)
=============================================================================
