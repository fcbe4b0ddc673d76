# SmartBoi in TLA+

SmartBoi is a long-running Python process that reads filings and news, asks a
language model what they mean for a curated set of small companies, keeps a
*dossier* of accumulated evidence per symbol, fires a *signal* when a dossier
qualifies, opens a *paper trade* for a signal if the price is still where it
was, and closes that trade at a stop, a target, a horizon, or when the thesis
turns. It never trades real money; its product is an honest record of what the
strategy would have done. The specifications here are about that honesty: no
position counted twice or lost, none opened on a thesis that no longer stands,
no signal stuck for ever, no symbol traded on a lead nobody confirmed, no
report that counts an episode twice, and of the prices that decide a trade or
measure an event, which may be from before it and which may not.

Contents: [components](#the-system), [modules](#the-modules),
[runs](#what-is-checked), [bounds](#bounds), [fairness](#fairness),
[proofs](#what-is-proved), [disagreements](#where-the-code-does-otherwise),
[limits](#what-is-not-modelled), [plan](#plan).

## The system

One process, one asyncio event loop. The engine is one task: `run_forever`
calls `_tick` over and over, and a tick walks through decay, the entry and
marking poll, filings, news, the poll again, and a series of daily passes. The
dashboard (aiohttp) is served by the same loop, so its requests run between
two awaits of the engine task. Everything durable is a set of small files in
`data/` (replaced atomically by write-and-rename) and append-only logs in
`logs/`.

| Component | State | Operations | What makes it correct |
|---|---|---|---|
| Paper-trade journal (`paper_journal.py`) | open book in memory, its snapshot on disk, closed log | open, update, the two thesis exits, expire_past_horizon, archive | every position is live or has exactly one row, across crashes; levels are decided in later sessions, on bars no older than the entry's |
| Market hours (`market_hours.py`) | none | regular session, minutes into it | the date rolls before the bar does, and the journal must not act in between |
| Signal engine (`engine.py` 3427-4492, `signals.py`) | dossiers on disk, the copy in hand, `_entry_pending` | merge, decay, fire, entry gate, marking, reset | a position and its dossier stay in step; an episode is entered once; signals and positions end |
| Dossier scoring (`dossier.py`) | the evidence lists | decay-weighted aggregation, corroboration, direction | labels and sector links never inflate a thesis; contrary evidence never helps it |
| Dossier store (`dossier.py`, `state.py`) | one JSON file a symbol | load, save, quarantine of a corrupt file | whole files, never a mixture |
| Evidence pipeline (`engine.py` 1566-1960, 3006-3588, `dedup.py`, `skeptic.py`) | fingerprints, pending proposals, handled outcomes, 6-K counts | fan-out to linked symbols, throttling, deferral, retry, registration | an item reaches each target once: never lost by a deferral, never merged twice or paid for twice by a retry |
| Scheduler (`engine.py` 1299-1517, `state.py`) | daily marks, last-poll clocks | `_tick`, daily passes, poll intervals | what was captured is marked and nothing else; a paid search is not paid for twice; failures do not starve the rest |
| Universe, candidates, connectivity (`universe*.py`, `screen.py`, `graph_audit.py`, `engine.py`) | curated and accepted symbols, probation, quarantine, candidate rows, daily counts | discover, screen, accept, connect, review, prune, quarantine, reset | no trading rights without a confirming filing, none by a restart; the caps hold but for a kill or midnight inside a pass; the quarantine holds; every probation ends |
| Relationship graph (`graph.py`) | edges | add with dedupe, backfill, rebuild | additive, idempotent |
| Usage budget (`usage.py`) | calls and dollars of the day, reservations, breaker | budget_remaining, record, note_failure | the caps are passed by no more than what was under way, reservations are usable, a broken account costs two calls an hour |
| Rate limit, IB breaker (`ratelimit.py`, `prices.py`) | event windows, failure streak | would_allow, record, connect | the limit holds in every window; the breaker re-admits one probe |
| Ingestion (`news.py`, `edgar*.py`, `regsho.py`, `federal_register.py`, `dod_contracts.py`) | none: each poll reads its whole lookback | fetch and parse | what a poll could not use, the next offers again |
| LLM requests, research (`llm.py`, `research.py`) | counters | build, call, parse | a malformed answer is an error, not an opinion |
| Dashboard (`webapp.py`) | none of its own | resets, accept, screen, reports | requests and the task leave a state either could have left alone |
| Offline analysis (`backtest.py`, `event_study.py`, `forward_returns.py`, ...) | none | reports over the logs | which prices stand on which side of an event, no episode counted twice, no replay kinder than the journal |
| Process (`main.py`, `config.py`, `alerts.py`) | settings | start, cancel, alert | a restart resumes from the files |

How they interact. The pipeline merges evidence into a dossier (load, awaits,
save) and fires; the decay pass does the same without new evidence. The poll
asks the journal for open trades, the dossiers for waiting signals, the price
feed for bars and the alert webhook to announce; it opens and closes trades
and returns dossiers to ACTIVE. The dashboard's resets write the same dossiers
and the same journal between any two awaits of all this. The scheduler decides
when each of it runs. The universe decides for which symbols, and takes them
from what the filings disclose. Every call to the model asks the budget first
and is charged after. The reports read the logs while all of this writes them.

What is hard, and where it bites, is listed under `hazards` in `PROJECT.json`,
each at its line: two files written one after the other (a crash in between),
a whole dossier saved after an await (a reset in between), a cached
`_entry_pending`, a calendar whose date rolls hours before its prices do, a
gate that must look at a signal before decay may take it away, early returns
that must all check the deadline, marks set before some passes and after
others, roles kept in memory and rebuilt from two files, and five logs that
report on one episode.

## The modules

**`PositionLedger`**: what the journal promises. A position is opened once, is
live until closed, and is closed by one record.

**`PaperJournal`**: `PaperTradeJournal`, write by write. Its methods are
synchronous and do not interleave, but the process dies wherever it likes, so
a call that closes trades leaves the rows it decided in `todo`, `AppendToLog`
writes one (`_append_to_log`), `FinishClose` removes the trade and rewrites the
snapshot (`_write_open_state`). `Crash` forgets the memory and may tear the
line being written; `Restart` is `_load_open_state` with its filter on
`_closed_trade_keys`. The clock has four phases a UTC day: between the date
and the open, the opening minutes, the session, after the close. A bar is the
session it belongs to, an outcome is which levels it traded through.

| Code | Model |
|---|---|
| `open_trades`, `open_paper_trades.json`, `paper_trades.jsonl` | `openTrades`, `openFile`, `closedLog` (+ `tornLine`) |
| `open`, `update` | `Open`, `Update` (`EntrySession`, `Outcome`, `Mark`) |
| `close_on_thesis_flip`, `close_on_thesis_vetoed` | `Abandon` |
| `expire_past_horizon`, `archive_open_trades` | `ExpirePastHorizon`, `ArchiveOpenTrades` |
| `_close` | `NewRow`, `AppendToLog`, `FinishClose` |
| `is_regular_trading_hours`, the engine's opening-minutes gate | `RegularHours`, the guard of `Open` |

**`SignalLifecycle`**: what a signal is meant to live through: quiet, waiting,
held; each episode fresh, entered at most once, over once.

**`SignalEngine`**: the engine task, one step per stretch of code between two
awaits. `pc` names the await, `cur` the symbol, `d` the dossier copy the task
holds over it. Dossiers on disk are `dossier`; the journal is the set of open
trades (`trades`). A thesis is its direction and one of three levels: clear of
the signal bar, marginal (0.8 of it kept), low; this is all the control reads.
A priced-in or disagreeing verdict lowers the level, as the capped score does.

| Code | Model |
|---|---|
| `_update_dossier` | `BeginMerge`, `NothingMerged`, `Merge` |
| `_decay_one` | `BeginDecay`, `Decay` (`DecayDefers`) |
| `_apply_synthesis`, `_maybe_resynthesize` | `Judged`, `MaySynthesize`, `MayResynthesize` |
| `_fire_signal`, `_snapshot_signal_price` | `Fired`, `SignalBaseline`, `FinishFire`, `PullPollForward` |
| `_should_expire_unopened`, `_reset_to_active` | `ShouldExpireUnopened`, `ResetToActive` |
| `_run_entry_and_marking_poll`, `_mark_and_execute` | `BeginPoll`, `SkipSymbol`, `EntriesDone`, `Retire`, `RetiringDone`, `Fetched`, `Mark`, `MarkGone`, `Settle`, `MarkingDone` |
| `_try_open_from_signal` | `TryOpen`, `NoPrice`, `DriftSkip`, `Drifted`, `Confirm`, `OpenTrade`, `Announced` |
| `_close_if_thesis_flipped`, `_close_if_thesis_vetoed` | `MustExit` |
| `reset_runtime_state` | `ResetRuntime`, enabled at the awaits (`AtAwait`) |
| process death and start | `Crash` |

Time is nondeterministic: `DeadlineComes` makes an episode's entry deadline
(`signal_expired`) pass, `HorizonComes` a position's, `Gateway` connects and
disconnects IB.

`fired`, `looked`, `entered`, `driftRows`, `retired`, `opened` are
history: they record what happened and guard nothing (but `fired`, which
numbers the episodes and carries the bound).

**`EvidenceDelivery`**: what the pipeline promises. A dossier makes up its
mind about an item once; an item is settled only after its own company's
dossier has, or when it retells a settled story.

**`EvidencePipeline`**: how evidence reaches the dossiers, again one step per
stretch between two awaits. `item` is the item in hand and `route` the way it
is taking: to its own dossier, over a link of the graph, or to a peer of an
anchor's ecosystem. An item is its feed, origin, story, date and evidence id.
Both models have `_update_dossier`: `SignalEngine` what a merge does to the
score, `EvidencePipeline` whether and how often it comes to a merge.

| Code | Model |
|---|---|
| `dedup_index.json`, `retry_state.json`, `extracted_filings.json`, `sixk_state.json`, `graph.json` | `registered`, `pending` and `handled`, `extracted`, `sixk`, `graph` |
| the dossiers' evidence lists, the two limiters | `merged`, `window` (in memory) |
| `_poll_news`, `_poll_dod_contracts`, `_poll_federal_register` | `TakeItem` (`NearDuplicates`, `CanProduceEvidence`) |
| `_process_filing`, `_within_6k_daily_cap`, `_spend_6k_slot`, `_extract_relationships` | `TakeFiling`, `NoText`, `Text`, `Extracted`, `ExtractionRaises` |
| `_process_evidence` | `HandOut` (`Concerned`, `WouldAllow`, `WhenNoTarget`), `TakeRoute`, `Charge`, `Defer`, `LoopDone` |
| `_update_dossier`, `_mark_handled` | `Already`, `Proposed`, `Reviewed`, `NoAnswer`, `Merge`, `SignalFired`, `MarkHandled`, `Remember` |
| process death and start, the windows | `Crash`, `RollOff` |

`owed`, `charged` and `bought` are history.

**`UsageBudget`**: `UsageTracker`, and the pattern its callers share: ask,
await, record or note the failure. A caller is a task that can be inside a call
(the engine's, the dashboard's tools). Every `set()` is a durable write, so the
store differs from memory only inside an operation: a crash keeps a prefix of
the eight writes of the day's roll, or of the five of a record.

| Code | Model |
|---|---|
| `llm_usage.json` | `usage` |
| `_roll_if_new_day` | `RolledUpTo`, `Rolled` |
| `budget_remaining` | `BudgetRemaining` (`PassesBreaker`, `WithinCaps`), `TakeProbe`, `Admitted`, `Refused` |
| `record`, `note_failure` | `Recorded` and `Answered`, `NoteFailure` and `FailedForGood`, `FailedForNow` |
| one question of the research, the diagnostics report | `CallsPer`, `Diagnose` |

**`Scheduler`**: `_tick`. A pass is its place in the order, when it is due and
when it is marked; of what it does only the prices it asks for are left, since
the feed's breaker is shared by the price poll and the price marks.

| Code | Model |
|---|---|
| `run_forever`, the loop and its `except` | `StartTick`, `PassRaises` |
| `_daily_pass_due`, the poll intervals, `_mark_daily_pass_done` | `Due`, `NotDue`, `MarkedAtStart`, `Mark` |
| the passes | `BeginPass`, `EndPass`, `NothingWritten` |
| `_run_entry_and_marking_poll`, `_run_daily_price_marks` | `BeginPoll`, `BeginMarks` |
| `last_bars`, `_record_ib_failure`, `_breaker_open` | `AskGateway` (`Answered`, `TimedOut`, `Errored`), `BreakerSkips`, `BreakerCloses` |
| the wall clock, process death and start | `QuarterPasses`, `SlotPasses`, `Crash` |

**`Universe`**: the symbols. What the engine works with (`role`) is memory;
acceptances, probations, the quarantine, the candidate rows, the edges and the
two daily counts are on disk. The engine's daily pass, one maintenance run and
the operator's requests interleave at the awaits (a screen, a name lookup).

| Code | Model |
|---|---|
| `_record_universe_candidate`, `_extract_relationships`, `merge_into_candidates`, the research tools | `Disclosed`, `FilingRead`, `Researched`, `LeadFound` |
| `_run_candidate_ticker_recheck`, `_reconcile_accepted_types` | `StartPass`, `Screened`, `CorrectTypes` |
| `_auto_accept_candidates`, `accept_candidate`, `_promote_pending_edges` | `EnterAuto`, `AutoSkips`, `AutoTakesAnchor`, `AutoAsksName`, `NameMatches`, `NameDiffers`, `AutoAccepts`, `AutoCounts`, `Accept`, `Refuses` |
| `_review_probation`, `_set_probationary`, `_drop_symbol` | `EnterReview`, `Confirmed`, `Promotes`, `RecordDropped`, `SymbolDropped` |
| `_grow_connectors`, `inert_anchors`, `_connector_targets` | `EnterGrow`, `GrowAsksName`, `Admits`, `Recorded`, `GrowCounts`, `AlertSent`, `ConnectorTargets` |
| `run_graph_maintenance`, `quarantine_from_findings`, `reconcile_universe_connectivity` | `ScreenedAgain`, `Cleans`, `ConnectBegins`, `ConnectLooksUp`, `ConnectAccepts`, `ConnectPrunes` |
| `_run_universe_screen`, `_prune_dead_symbols`, `_demote_graduated_tradeables` | `MonthlyScreen` |
| manual acceptance, `reset_accepted_candidates` | `ManualAccept`, `ResetAccepted` |
| `_apply_accepted_candidates` at the start | `Rebuilt`, `Restart` |

An acceptance, the record of its probation and the day's count of it are three
writes and three steps; with `HardKill` the process may die between any two.
`tally` is history, kept apart from the counters: what each arm has accepted
since midnight, under a counter that bears the day's date (`taken`) or in a pass
that midnight found at work (`late`), and how many of those a kill kept out of
the count (`lost`).

**`DossierScore`**: `_aggregate` as an operator over the list of records, in
the integers of its own units (confidence and magnitude in tenths, weight in
twentieths, a link's confidence in hundredths, ages in weeks), and the machine
that adds a record, lets a week pass, or has the thesis judged. Sources are the
smaller of two partitions, by fact and by channel (`KeysOf`); every source whose
name begins with "SEC EDGAR" is one channel (`EdgarNames`), and sector links share
one slot. `Qualifies` is `signals.evaluate`.

**`OfflineReports`**: three questions about the reports, each a *study*, as
they share no log. *marks*: price marks, asked for in one moment and stamped in
that or a later one, filed by `session_for_quote` under the stamp (`Filed`,
`Mark`); the paths of `backtest.event_path`, the entries of the event study and
the windows of the forward returns. *votes*: the files an episode is reported
in, written one after the other, and `collect_trades` with `dedup_trades`
(`WouldBeTrades`, `Votes`) run between any two writes; the opening's snapshot
(`Opens`) and its decision (`OpeningDecided`) are two of them, and the append of
a decision may fail and is passed over (`Decides`). *replay*: a position's
prices, the journal that saw parts of the bars, and `simulate` over whole ones.

`MCPaperJournal` adds the symmetry, `MCEvidencePipeline` the feeds; the other MC
modules give the constants that are functions or records, `MCUniverse` a symmetry
for the caps. Eight modules hold the theorems, each about the module it is named for:
`PaperJournalProofs`, `SignalEngineProofs`, `EvidencePipelineProofs`,
`SchedulerProofs`, `UniverseProofs`, `UsageBudgetProofs`, `OfflineReportsProofs`
and `DossierScoreProofs`.

## What is checked

| Run | Question | Result |
|---|---|---|
| `journal` | Does every position survive crashes between any two writes, once? Are levels decided in later sessions, on bars no older than the entry's, with a feed that lags? Does the journal implement `PositionLedger`? | holds, 718,086 states |
| `signals` | Two episodes, and a crash anywhere, a reset at any await or an outage of the Gateway: are positions and dossiers in step, is the stored thesis entered, does the gate look first, is the poll kept short, is the drift row written once, is every waiting signal resolved and every position past its horizon closed? Does the engine implement `SignalLifecycle` up to the first crash or reset? | holds, 452,457 states |
| `evidence` | Three items, throttled and deferred at will, one crash: is each judged once, paid for once, charged once, and never put away unread? Does the pipeline implement `EvidenceDelivery`? | holds, 2,131,244 states |
| `evidence_live` | Is every item settled, if texts and answers do not fail for ever? | holds, 24,565 states |
| `usage` | Two tasks over a roll of the day, an account that breaks, a crash inside a write: are the caps passed by no more than what was under way, is a reservation admitted, a share kept, a broken account asked twice an hour at most? | holds, 1,505,858 states |
| `universe` | One candidate, named by filings and by research, through the daily pass, maintenance, the monthly screen, a request and a restart: does it trade unconfirmed, does a restart promote it, does the quarantine hold, does its probation end? | holds, 1,547,140 states |
| `universe_caps` | Three candidates for caps of two and one, midnight inside a pass, two kills anywhere: how many does an arm accept in a day? | holds, 1,304,575 states |
| `scheduler` | A tick of eight passes over trading and other days, with exceptions, outages and a crash: are captures kept and searches not repeated, are timeouts bounded, does every pass come round? | holds, 173,505 states |
| `dossier` | Every sequence of three of seventeen records, ageing, judged or not: do labels or sector links inflate a thesis, does contrary evidence help one? | holds, 702,709 states |
| `offline` | Four days of marks by passes of any length, three of an episode's logs, or four of a position: which prices stand on which side of an event, does an episode vote twice, is the replay kinder than the journal? | holds, 1,340,894 states |
| `universe_midnight` | `AcceptedPerDay`: does an arm accept no more in a UTC day than its cap? | violated, see below |
| `universe_starved` | `ProbationAlwaysResolved`: does every probation end, whatever else is on file? | violated, see below |

The properties, in the order of the hazards:

- `RowsUnique`, `PositionsAccounted`, `DurableBook`, `ImplementsLedger`: the
  order of `_close` (log first, snapshot second) is safe only because the
  restart filters the snapshot by the pair symbol and opening time. Filtering
  by symbol loses a re-opened position, not filtering counts one twice, and
  not rewriting the snapshot loses the book.
- `LevelBarNotBeforeEntry`: what `update` keeps of its rule that a trade is not
  resolved on its entry session. In the opening minutes the feed still answers
  with the session before, and `update` does not wait them out as the entry gate
  does: a level is decided in a later session than the entry's, on a bar that is
  no older, and on the entry session's own bar only in the opening minutes of
  the very next session. The rule as the code words it fails
  ([below](#where-the-code-does-otherwise)).
- `OpenIsSignaled`: between the fire and the close a decay pass, merges, polls
  and a crash run on the same dossier; `_decay_one` must defer and
  `_update_dossier` must not expire. Only a reset takes a dossier from its open
  position, and then only episodes fired before it.
- `EntryOnStoredThesis`: a position is opened two awaits after the gate read
  the dossier, and a reset may come in either. The thesis that is stored when it
  opens must still qualify, in that direction; its episode is the one the trade
  is opened under, unless a reset took it off the board meanwhile. A reset keeps
  the thesis, and nothing else writes a dossier there.
- `FirstLook`: an episode is not ended by a marginal dip before the entry
  gate has seen it; a re-fired episode must not inherit the attempts of the
  last.
- `WaitingIsPolled`: `_entry_pending` is written in four places; when the task
  is idle it must not be FALSE while a signal fired since the last reset waits.
  (One that an undone reset brings back is found on the long interval.)
- `DriftSkipOnce`: one `drift_skip` row per episode, over days of retries and
  a restart.
- `ImplementsLifecycle`: an episode is entered once; it is the key a closed
  trade is joined by. Up to the first crash or reset, whenever that comes.
- `SignalResolved`, `HorizonEnforced`: nothing waits for ever.
- `MergedOnce`, `ImplementsDelivery`: an item comes back after a deferral of a
  sibling or a crash before its registration, and must find what was decided.
- `ProposalBoughtOnce`: the proposal is kept, on disk, while the skeptic does
  not answer. It leaves out a crash between the skeptic's answer and the save
  of the dossier, where the code does pay again.
- `SlotTakenOnce`: a retry passes the targets that are done, and must not fill
  their links' windows.
- `RegisteredWasRead`: the cooldown postpones an item, it does not drop it.
- `EverySettled`: and it does not postpone it for ever.
- `MeterBounded`, `ShareKept`: the budget is read before the await and charged
  after it, by tasks that do not know of each other, and a research question
  goes on with further calls without asking again. The overrun is at most what
  the callers were let in for, at the dearest price, through midnight and a
  crash inside `record` or the roll.
- `ReservedIsAdmitted`: what the capped categories cannot touch is there when
  its owner asks, whatever the others have spent.
- `StormBounded`: the account refuses every call. The probe of the open breaker
  is shared, each failure moves the stamp, a crash may lose it, midnight closes
  the breaker: still no more calls in a day than probe intervals fit in it.
- `ProbationHolds`: a symbol admitted on a lead from the web trades only when
  a filing joins it to an anchor, through every correction, reset, prune and
  restart that rebuilds the roles. `RestartKeepsRoles`: and a start grants no
  rights that memory had not.
- `CapsHold`: what an arm accepts in a day, counted by acceptances and not by the
  code's own counter: its cap, one more for each kill between an acceptance and
  its count, and once more the cap in a pass that midnight found at work.
- `QuarantineSticks`: the row that found a quarantined symbol is still on file
  for four paths that accept; none brings it back, but by hand or when its
  lookup was already under way.
- `ProbationResolved`: every probation ends, unless the pass is starved.
- `CaptureKept`, `PaidOncePerDay`: the two orders of run and mark. A capture
  may run twice and is not lost; a search may be lost and is not paid for
  twice.
- `StallsBounded`: the streak is kept when the breaker closes, so that a
  Gateway that hangs costs one timeout from then on.
- `EveryPassRuns`: under exceptions, holidays of the price sources and passes
  that are held off.
- `SourcesNotInflated`: a label the model writes, or a sector link, never adds
  a source that the channels do not have, although either may change which
  partition is the smaller. `OpposingOnlyContests`: an item against the thesis
  may turn it or lower it, and never lifts it or lends it its filing.
- `EventTimeAligned`: pre-market and week-end quotes belong to the session
  before. A session filed by a quote from after its close is filed with its
  close, unless the pass had asked before and was overtaken; no event is
  followed through a bar so filed that closed before it; and the bar its move
  is measured from was struck before it, however long the pass took. This is
  about `backtest.event_path`; the event study's and the forward returns' own
  entries do look ahead (below).
- `WindowsIndependent`: thinning by entry dates still gives disjoint windows
  when exits are counted in sessions and some sessions have no mark, and thins
  no more than it must.
- `EpisodeVotesOnce`: between any two of the writes of an opening, a skip or a
  close, and with decisions that failed to be written, an episode has one vote at
  most, but for a second one, as a signal that never opened, where its opening
  is not on record; and an opened trade has one.
- `ReplayConservative`: the replay over whole bars ends a position no later
  than the journal that saw parts of them, and makes no loss a gain.

Each of these is broken by a plausible slip in the code (a dropped guard, a
missing reset, a coarser key); the slips are the operators marked *mutated* or
*Mutant* beside the ones they replace.

## Bounds

- `journal`: two symbols, three positions, 11 ticks (four phases a day: three days
  of which the second has no session, so that the session after the entry's is
  two dates on), horizon two days, a feed that lags, crashes unbounded.
  Three positions over two symbols give the case the restart filter exists
  for: a symbol whose earlier trade is logged and which holds a new one. Whole
  appends only: what a torn line breaks is below.
- `signals`: one symbol and two episodes reach a flip re-fire over a waiting
  signal, one over a position, and one after a close or an expiry, and what the
  second inherits: merges and decay passes go on after the last firing until its
  signal has ended. One confirmation; one crash, or one reset, or an outage of the
  Gateway, which may recur (`OneDisturbance`). With all three in one behaviour the
  safety properties were checked by hand and hold (1,388,786 states, with two
  confirmations 1,847,312). More symbols, episodes and confirmations are what the
  theorems are for. `SignalResolved` and `HorizonEnforced` are written `[]<>`,
  which says the same as leading to the opposite.
- `evidence`: an anchor with two peers, two tellings of one story about it, and
  a filing of one peer that discloses a link to it, so that the routes of the
  story change while it is retried; one event a window, so that the second item
  is throttled; one crash. `evidence_live` leaves out the second telling.
  `MergedOnce` counts to two, which is enough to be wrong.

- `usage`: two callers, three categories (one with a reservation, one with a
  share and two calls a question), seven calls and eight price units, so that
  either cap decides somewhere; a day of three units and an interval of two, so
  that a probe of one day is due in the next; one crash.
- `universe`: an anchor, a target and one candidate that both of them name and
  that research finds, all caps one; one request and one restart at an await. A
  second candidate adds what `universe_starved` has: one that raises beside one
  on probation. Two candidates with requests and restarts are out of reach.
- `universe_caps`: three candidates, so that each arm finds one more than its
  cap admits and one arm's acceptances are candidates the other loses; caps of
  two and one tell a count from a flag; two restarts, killed anywhere.
  `universe_midnight`: two candidates, caps of one, and the process stays up.
- `scheduler`: two slots a day, a trading day and another, a threshold of two,
  one symbol priced, one fault, one crash. A pass begun in one slot and marked
  in the next is reached at the ingestion.
- `dossier`: three records are the least with which one partition overtakes the
  other; the seventeen have each channel, a shared and two different labels of
  one fact, and the two kinds of links. The thresholds are the defaults.
- `offline`: a Thursday, a Friday, a day of the week-end and a Monday, so that
  a week-end is marked and a session follows one that has none; three rows of
  marks; two episodes and a repeated row, over the first three days
  (`ThreeDaysOfVotes`); the horizons a position's days and a window's sessions.

The larger instances run by hand while the models were written (`Scheduler`
without Finnhub, with two faults and crashes) show nothing else.

`MaxEpisodes` is a guard of the two loads and of the firing (`MayFire`), `MaxTrades` of `Open`, `MaxTime` of
`Tick`, `MaxClock` of the usage's; the other bounds are guards of the actions
their comments name. Deadlock is
checked in the runs of the journal and of the signals, and says little there:
the Gateway, or a crash and restart, is always possible, and that the *task*
gets on is what the liveness properties show. It is not checked in the evidence
runs, whose feed is finite, nor in those of the usage, the dossier and the
reports, whose clocks stop: once the bound is reached nothing is left to do.

## Fairness

In `SignalEngine` (`FairSpec`):

- `WF(TaskStep)`: the task runs on. The awaits are of an HTTP call or a
  webhook with a timeout, and their handlers catch what they raise, so a step
  that is possible is taken.
- `SF(BeginPoll)`: `_tick` offers the poll twice per tick, so decay passes and
  merges, however many, do not put it off for ever. It needs strong fairness:
  it is possible only while the task is idle, and, without Finnhub, while the
  Gateway answers.
- `WF` of `DeadlineComes` and `HorizonComes`: time passes.
- Nothing is assumed of merges, of the dashboard, of crashes (but that there
  are not endlessly many) or of the Gateway. Without Finnhub
  (`QuoteFallback = FALSE`) a Gateway that stays down stops the poll and with it
  `HorizonEnforced`: the run has Finnhub.

In `EvidencePipeline`:

- `WF(TaskStep)` as above, `WF` of each `RollOff`: windows get old.
- `SF(Take(i))`: every poll offers every unregistered item its feed still
  shows, so one that can be taken again and again is. Items here do not leave
  their feed; in the code they do after the lookback, 3 days for news.
- `SF` of the text, the extraction and the models' answer, per item and per
  proposal: a new day brings a new budget and outages end. An answer that fails
  each time is no fault of the pipeline.

In `Scheduler`:

- `WF(TickStep)`: the loop goes on; an exception begins the next tick.
- `SF(SlotPasses)`, `SF(QuarterPasses)`: time passes. It does so in the model
  only while the loop sleeps or ingests, hence the strong form.
- Nothing is assumed of the Gateway, of Finnhub or of the faults, whose number
  is bounded: an exception that comes back each day starves the passes after
  it, see `universe_starved`.

In `Universe`: `WF(PassStep)`, `WF(ApplyStep)` and `WF(NewDay)`: the daily pass
and a maintenance run once begun go on, and the days pass. Of the operator
nothing is assumed.

## What is proved

Every invariant and action property that the passing runs check, the refinements
included, is a theorem for every value of the constants, under the conditions of
the columns *Needs*; where there is no such column, or it is empty, nothing is
assumed but the named assumption on the constants. Liveness is left to TLC.

`PaperJournalProofs`, for every set of symbols, horizon, calendar and bound
(from `JournalAssumption` alone, unless stated):

| Theorem | Statement | Needs |
|---|---|---|
| `TypeCorrect` | `Spec => []TypeOK` | |
| `NoDoubleCount` | `Spec => []RowsUnique` | |
| `BookSurvivesCrash` | `Spec => []DurableBook` | |
| `NothingDropsOut` | `Spec => []PositionsAccounted` | `~TornAppends` |
| `LevelsNotBeforeEntry` | `Spec => []LevelBarNotBeforeEntry` | |
| `RefinesLedger` | `Spec => ImplementsLedger` | `~TornAppends` |

The condition cannot be dropped: with torn appends both properties fail (see
[below](#where-the-code-does-otherwise)).

The argument. Neither `RowsUnique` nor `DurableBook` is inductive: that a row
is new depends on the trade not being logged, which depends on where the call
in progress stands. The invariant says that the snapshot is the book, or the
book and the trade being closed; that what is still in `todo` is open and not
logged; that `closing` is logged; that two open trades are of different
symbols; and that what is open or logged was opened. Each of its conjuncts is
disturbed by few actions and is proved action by action. The level property
rests on `BarInv`: between the last two sessions, and since the last one, there
was no other (`CalendarInv`); trades are opened in sessions (`EntryInv`); and of
each row, in the log or still in `todo`, the property holds (`RowsInv`). So at a
later date inside regular hours the bar in hand is of a session after the
entry's, or, in the opening minutes, of the session before that, which is the
entry's at the earliest. The refinement maps `Live`
and the trades of the log's rows; a close takes effect at the append, and a
crash is a stutter because `Live` is defined through what a restart recovers.

`EvidencePipelineProofs`, for every universe, graph, ecosystem, feed and limit
(from `PipelineAssumption` alone):

| Theorem | Statement |
|---|---|
| `TypeCorrect` | `Spec => []TypeOK` |
| `OneRecord` | `Spec => []MergedOnce` |
| `PaidOnce` | `Spec => []ProposalBoughtOnce` |
| `OneSlot` | `Spec => SlotTakenOnce` |
| `NotFiltered` | `Spec => RegisteredWasRead` |
| `RefinesDelivery` | `Spec => ImplementsDelivery` |

The argument. What is decided about an item is in a dossier or in the handled
outcomes; what is only paid for is in the pending proposals, or in the hand of
the task between the skeptic's answer and the merge. `IInv` says at each await
which of the places holds it: the proposal in hand is judged after the merge
and not before (`Fresh`), a paid one is in one of the places (`PaidFor`), a slot
was taken for a judged item only (`SlotsInv`), and there is room in a window
for each target still to come (`Room`), which is what keeps `TypeOK` inductive:
the throttle is read before the awaits and charged after them. The last two
theorems need one thing more, `Due`: while the loop may still register an item,
one of its targets is still to come or has judged it, and so is its own
dossier. It holds because the loop is entered by a hand-out over the graph of
that moment (`LoopEntered`) and from then on loses a target only by a judgement
or by a deferral, which clears `definitive` and with it the obligation
(`LoopKeeps`).

`SchedulerProofs`, for every length of the day, week, threshold, bound and
either price source (from `SchedulerAssumption` alone):

| Theorem | Statement |
|---|---|
| `TypeCorrect` | `Spec => []TypeOK` |
| `NoCaptureLost` | `Spec => []CaptureKept` |
| `BreakerHolds` | `Spec => []StallsBounded` |
| `SearchPaidOnce` | `Spec => PaidOncePerDay` |

The argument. `MarksInv` says that a pass marked first is as old as its mark,
and of one marked last that between its end and its mark it is the pass in hand
and has just ended; no time passes there. `BreakerInv` says what the streak
remembers: until the breaker has closed once it is the number of timeouts, and
it is open when that is the threshold; after that it stays at the threshold,
and the one timeout that is allowed opens the breaker again.

`SignalEngineProofs`, for every set of symbols, number of episodes and of
confirmations, and with or without Finnhub (from `EngineAssumption`):

| Theorem | Statement |
|---|---|
| `TypeCorrect` | `Spec => []TypeOK` |
| `NoPositionOrphaned` | `Spec => []OpenIsSignaled` |
| `WaitingPolled` | `Spec => []WaitingIsPolled` |
| `OneDriftRow` | `Spec => []DriftSkipOnce` |
| `EntryFaithful` | `Spec => EntryOnStoredThesis` |
| `LookedFirst` | `Spec => FirstLook` |
| `RefinesLifecycle` | `Spec => ImplementsLifecycle` |

All of them for any number of crashes and of resets at any await. What a reset
and a crash do change is in the statements: a reset writes dossiers under the
task's hands and is undone by its next save, so some speak of the episodes fired
since (`retired`); a crash between a close and the dossier's reset lets an
episode be entered again, so the refinement goes up to the first of either.

The argument. The task works on a copy of one dossier over its awaits, so each
property speaks of the copy, the disk and the journal at once. `TaskInv` says
what the task knows by where it stands, whatever happens to the disk; `CopyInv`
that at each await its copy is what is stored, or was until a reset wiped what is
stored (`Discarded`), or is what flips it; `FreeInv` that
where a dossier is about to be reset its trade is gone already, and `OneTrade`
that a symbol has one; `EpisodeInv` that two dossiers never carry the same
episode, and that what history says of an episode the dossier that carries it
says too; `PollInv` that each symbol that waits for its entry is still to be
looked at by the poll at hand or keeps the next one short. Most steps are
`Tame`: they keep a dossier's episode or release it, and what that does to the
invariant is said once (`TameEpisodes`, `TameTrades`). For the refinement each
state of a dossier with the journal means a stage of a signal's life
(`SignalMeans`), and each step maps to a fire, an entry, an end or a stutter.

`UniverseProofs`, for every set of curated symbols and candidates, disclosures,
leads, screens and caps (from `UniverseAssumption`):

| Theorem | Statement | Needs |
|---|---|---|
| `TypeCorrect` | `Spec => []TypeOK` | |
| `WithinCaps` | `Spec => []CapsHold` | |
| `RolesAsOnDisk` | `Spec => []RestartKeepsRoles` | |
| `ProbationKept` | `Spec => []ProbationHolds` | `~HardKill` |
| `QuarantineKept` | `Spec => QuarantineSticks` | |

The argument. `CountInv`: what an arm has taken under a count that bears today's
date is at most that count, one for each kill before a count (`lost`), and the
one acceptance the pass in hand has yet to count (`ArmInv`); a pass that midnight
found at work counts on from its own copy, so that what it takes late is at most
the cap too. `AgreeInv`: role and disk agree on every symbol but one that is between the two
writes which begin or end its probation. `TradeInv`: an unjoined symbol of the
connector arm has its record, or is between those two writes, and in neither
case trades; it needs `RecordInv` (what a record names is no trade target, so
what the review promotes is joined to an anchor) and `ApplyInv` (maintenance
rebuilds the roles only while the engine's task awaits, hence not between the
writes). A kill between them is what `HardKill` adds, and `TradeInv` does not
survive it (see below).

The types add `TypedInv`: what a recheck keeps in hand is rows, the graph is of
symbols, and a count is a number. That a symbol is a member exactly when it is
accepted is `AgreeInv` at an await.

`UsageBudgetProofs`, for every budget, price, split of the day into shares and
reservations, number of callers and probe interval, and wherever a crash cuts off
a roll or a record (from `UsageAssumption` alone):

| Theorem | Statement |
|---|---|
| `TypeCorrect` | `Spec => []TypeOK` |
| `StormIsBounded` | `Spec => []StormBounded` |
| `ShareIsKept` | `Spec => []ShareKept` |
| `MeterIsBounded` | `Spec => []MeterBounded` |
| `ReservedAdmission` | `Spec => []ReservedIsAdmitted` |

The argument. The meters are sums over callers and categories, so it starts
with their laws: an empty sum, one taken apart at any element, monotonicity,
additivity, a bound on the summands, and grouping by category (`SumByKey`). They
need induction over finite sets. The library's theorem for that has an operator
as a parameter; `SetInduction` states it with a set in its place and proves it
from the well-foundedness of inclusion. `ShareAt` and `MeterAt` are inductive
with the types once the calls under way are counted at the dearest price.
`StormBounded` rests on the spacing of the probes (`SpacedBy`: the n-th lies
n - 1 intervals into the day at least). `ReservedIsAdmitted` speaks of one
category and cannot be inductive by itself, as what admits one is what the
others have left; `ReserveAt` says for all at once that the day's calls,
with for each category the larger of its unspent reservation and what its
callers are let in for, fit the day but for the last admissions and the crashes.

`OfflineReportsProofs`, for every calendar, number of days, horizon, tape of
prices, number of episodes and of repeated rows, and passes of any length (from
`OfflineAssumption` alone):

| Theorem | Statement |
|---|---|
| `MarksCorrect` | `Spec => []EventTimeAligned` |
| `ReplayIsConservative` | `Spec => []ReplayConservative` |
| `EpisodeVotedOnce` | `Spec => []EpisodeVotesOnce` |
| `WindowsAreIndependent` | `Spec => []WindowsIndependent` |

The argument. A report is an operator over the logs, so each proof has two
halves: an inductive invariant of what the logs can hold (`MarksInv`,
`ReplayInv`, `VotesInv`) and a lemma that the operator makes of any
such logs a value with the property. `MarksInv` keeps of a quote and of a row that
its price is the last one struck when it was asked for; if none was struck until
the stamp, and the stamp is from after the close, that is the close of the session
the row is filed under (`QuoteOfAClose`, `MarkIs`, `AlignedMarks`). `ReplayInv` keeps of a close that it is a
verdict on a bar as it then stood, and a verdict on a part of a bar is one on
the whole but that a stop seen later turns a win into a loss. `VotesInv` says
that an opened episode is over before the next is fired and what each file may
hold of it, so that of two would-be trades of one episode one outranks the other
and only it votes, unless the other is what an unrecorded opening left. The windows need no invariant: the greedy count is a
recursive function, shown to exist and to stay ahead of every other spaced choice
(`GreedyStep`), by induction from least members.

`DossierScoreProofs`, for every set of records, mapping of labels to facts and
value of the bars (from `DossierAssumption`):

| Theorem | Statement | Needs |
|---|---|---|
| `TypeCorrect` | `Spec => []TypeOK` | |
| `LabelsAddNothing` | `Spec => []NothingAdded` | |
| `NothingInflated` | `Spec => []SourcesNotInflated` | `MinSources > 1 \/ NewsOnly > 1` |
| `OppositionContests` | `Spec => OpposingOnlyContests` | |

`NothingAdded` is `SourcesNotInflated` without its last conjunct, that sector
evidence alone qualifies nothing. For that conjunct the code gives a reason,
"1 < min_independent_sources" (`dossier.py` 631). The configuration defaults to
2 and 3 and enforces no bound: with both at 1 or 0 one sector item is enough, so
the theorem assumes what the comment does, of one of the two.

The argument. `IInv` adds to the types that the dossier is at all times the
aggregate of the evidence it holds, on some count of facts (`Kept`): merging,
ageing and the expiry of a verdict rewrite it, the synthesis changes the count
only. What is left are lemmas about `_aggregate` on any body of evidence: the
labels' partition is used only when it is the smaller (`LabelsMerge`), all sector
items share a slot (`SectorAddsOne`), without labels the agreeing items and their
mass are the same (`StrippedIs`), a score grows with the sources it is paid on
and falls with the opposition (`ScoreGrows`, `Discounted`), and an opposing item
changes the opposition's mass only (`Opposed`). The masses are sums over the
items, whose laws are proved as in `UsageBudgetProofs`; the strongest item
exists because a finite set of numbers has a greatest and positions have a
first.

Only model-checked are the liveness properties `SignalResolved`,
`HorizonEnforced`, `EverySettled`, `ProbationResolved` and `EveryPassRuns`: the
prover has no rule for liveness under fairness, and none for ENABLED. It cannot
use the library's induction theorems, whose parameter is an operator; where
induction was needed it is stated with a set instead and proved from
well-foundedness.

## Where the code does otherwise

Two runs check one property each and stop at a behaviour the code has.

- `universe_starved`: `_auto_accept_candidates` hands `accept_candidate` a
  candidate that screens as tradeable and whose ticker is not common equity; it
  raises, nothing below `run_forever` catches it, the row is not blocked, and so
  it raises on the next day again. `_review_probation` and `_grow_connectors`
  come after it in the tick and are not reached on any day: a probation stays
  open.
- `universe_midnight`: "at most auto_accept_max_per_day per UTC day"
  (`engine.py` 2379). The counter's date is looked at before the first candidate,
  and awaits follow: a pass that UTC midnight finds at work accepts on the new
  day under the count of the old one, and the new day's pass takes a full cap
  again. The connector arm (2629) does likewise.

The models show the following as well, each against a sentence of the code and
each a property of its module that is in no run's list: TLC finds it violated
when it is checked with the constants named.

- `LevelBarPostdatesEntry`, as `journal` has them: "the bar in hand is always one
  whose range postdates the entry" (`paper_journal.py` 575). In the opening
  minutes the feed may still answer with yesterday's bar (`market_hours.py` 118);
  the entry gate waits those minutes out, `update` does not, so a trade can be
  stopped out on the range of its own entry session, prices from before the entry
  included.
- `PositionsAccounted`, `TornAppends = TRUE`: a line torn by a crash swallows the
  next closed trade's row. `_append_to_log` does not look at how the file ends.
- `OneEntryPerEpisode`, as `signals`: the process stops at the alert that
  announces a close, the dossier is still SIGNALED, and the same episode is
  entered again.
- `ResetSticks`, as `signals`: "resets every dossier's SIGNAL and SYNTHESIS
  episode to ACTIVE" (`engine.py` 5366). A reset between a load and its save is
  undone by the save.
- `HorizonEnforced`, `QuoteFallback = FALSE`: "the horizon is enforced
  unconditionally" (`paper_journal.py` 613). `expire_past_horizon` is called from
  the poll, which does not run while the Gateway is down and there is no Finnhub.
- `DeferredIsRetried`, with `Items <- BusyFeed`, its `Discloses` and
  `Links <- Supplies` (`MCEvidencePipeline`): an item is deferred for a linked
  dossier; another item uses the link up; on its retry the link is throttled
  and left out, the other targets answer "already", and the item is registered.
  That dossier never sees it.
- `SixKSettled`, with `Items <- SixKFeed` and `Discloses <- SixKFeedDiscloses`: a
  6-K takes the day's slot when its text is in, its scoring is deferred, and
  every retry stops at the cap. No passing run feeds a 6-K; the cap is in
  `TypeOK`, which is proved for every feed.
- `ProbationHolds`, `HardKill = TRUE`: `_grow_connectors` writes the acceptance
  before the record of the probation; a process killed between the two starts
  with a symbol of full trading rights, on the lead alone.
- `SettledIsClose`, as `offline`: "captured >= 16:00 ET -> that session (a real
  close)" (`market_hours.py` 78). `_run_daily_price_marks` reads the clock after
  the quotes are gathered (`engine.py` 4945), so that quotes from before the close
  are filed as a settled close when the pass ends after it.
- `EntersAfterFire`, as `offline`: "how did the market move AFTER each signal
  episode fired" (`event_study.py` 1). An episode that fires after the close is
  entered at the first mark on or after its date, the close already printed,
  which `backtest.py` 357 calls look-ahead bias; `forward_returns.py` 147 enters a
  snapshot in the same way. `backtest.event_path` does not.
- `PassedNeverOpened`, as `offline`: "Signal episodes that never became a
  position" (`backtest.py` 152). The trade is in the snapshot before `trade_opened`
  is among the decisions (`engine.py` 4219), and an append that fails is passed
  over (3878): until then, or for ever, an episode skipped for drift on an
  earlier day votes next to its trade.

Without a property: `budget_remaining` takes the breaker's probe before it looks
at the caps (`Refused` and `Diagnose` take it too), so that a refused caller, or
the diagnostics report that only prints which categories are exhausted, uses up
the half hour in which "one probe call is let through" (`usage.py` 333-335) and
no call is made.

And what only reading shows, since no property is about it:

- `connector_unconfirmed_at` is written when a probation is dropped and never
  read, although its comment says the next audit will see it. An acceptance
  writes the candidate's pending filing edges and so confirms a probation by
  itself. Reset, quarantine and prune leave `probation_state.json` behind.
- A recheck of the candidates saves rows it captured before its awaits, and a
  lead found meanwhile is lost (`Screened` keeps that).
- `_archive_orphaned_dossiers` archives the dossiers of probationary symbols
  too, and over an earlier copy.
- `_aggregate` says agreeing evidence is never penalised. The strongest item is
  chosen by confidence, magnitude and the square of the weight, while the bonus
  is added to confidence: an item of (0.8, 0.2) displaces one of (0.3, 0.5)
  and the score falls. `slot_keys` says that what cannot move the signal bar
  cannot invalidate a verdict; a switch of the smaller partition does.
- The count of priced-in verdicts outlives the episode it was counted in; a
  flip over a waiting episode drops that episode without a ledger row.
- `simulate` speaks of calendar days that match `(now - opened_at).days`; those
  are periods of 24 hours.

## What is not modelled

- Exchange holidays: `market_hours.py` does not know them and says so.
- Failed writes (a full disk), but for the decisions' appends, which the code
  passes over, and the quarantine of corrupt files.
- Within `SignalEngine`, a crash between two writes of one stretch without
  awaits; `PaperJournal` has them for the journal's files, `UsageBudget` for
  its store.
- Signals and a changing universe together: `Symbols` of `SignalEngine` are
  tradeable throughout, `Universe` knows no positions. That a trade can be
  opened on a symbol quarantined during the gate's awaits is seen by reading:
  `_is_tradeable` is asked before them.
- In `EvidencePipeline`: what an item says; feeds whose items leave; the
  eviction of caches; two items with one evidence id (the contract awards of a
  day have one); two filing dates of 6-Ks, whose counts displace each other;
  writes that fail, the only exceptions `_update_dossier` lets out.
- In `UsageBudget`: tokens, the operator tools that run in a thread of their own
  (the diagnostics) and may interleave inside an operation.
- In `Scheduler`: what the passes do; the backfill and its backoff; the drift of
  a mark made late in the day over a week-end.
- In `Universe`: dossiers, aliases, confidence floors and the kinds of
  relationship, the market data behind a recommendation.
- In `DossierScore`: the synthesis verdict's cap, which is the engine's
  (`_cap_with_synthesis`, a level in `SignalEngine`).
- In `OfflineReports`: the bar cache (it looks at the last bar only and does not
  see holes), the benchmark, the bootstrap, `reconcile_entry`.
- P&L, costs, sizing and price arithmetic; scores are three levels in
  `SignalEngine`.
- Logging, alerts' contents, the dashboard's read-only views.
- Statuses per component, with reasons, are in `PROJECT.json`.

## Plan

What is left, in this order:

1. `RelationshipGraph` (ageing, rebuild, backfill with its backoff) and the bar
   cache.
2. `Universe` composed with the entry gate: which of the changes can fall
   between `_is_tradeable` and the open.
