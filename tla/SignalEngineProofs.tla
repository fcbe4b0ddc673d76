------------------------- MODULE SignalEngineProofs -------------------------
(***************************************************************************)
(* Machine-checked theorems about the signal engine, for every set of      *)
(* symbols and directions, every number of confirmations, episodes and     *)
(* crashes, with or without the fallback, and, but for two that say so,    *)
(* for any number of resets, which write dossiers under the hands of the   *)
(* task.                                                                   *)
(*                                                                         *)
(* DiskInv says what the copy d is worth at each await: that it is still   *)
(* what is stored, that it is what was stored before a reset, that it is   *)
(* an episode not yet on disk, or that it is no longer used.               *)
(***************************************************************************)
EXTENDS SignalEngine, FiniteSetTheorems, TLAPS

\* The awaits during which the task works on one symbol.
Single == {"merging", "judging", "firing", "pricing", "warning", "sizing", "announcing", "settling"}
Gated == {"pricing", "warning", "sizing"}
Copying == {"merging", "judging"} \cup Gated

-----------------------------------------------------------------------------
(* The inductive invariant.                                                *)

\* What the task knows by where it is, whatever happens to the disk.
TaskInv ==
    /\ pc \in Single => \E s \in Symbols : cur = {s}
    /\ pc \notin Single => cur = {}
    /\ pc = "firing" => fired < MaxEpisodes
    /\ pc = "firing" => /\ d.status = "SIGNALED" /\ d.episode = fired + 1
                        /\ d.drift_alert_sent = FALSE /\ d.attempted = FALSE
                        /\ d.signaled_direction = d.opinion.dir
    /\ pc \in Gated => d.status = "SIGNALED" /\ GateAccepts(d)

\* A reset has taken s off the board while the task holds a copy of it: what is
\* stored is the copy wiped, and nobody else carries the episode of the copy.
Discarded(s) ==
    /\ resets > 0
    /\ dossier[s] = Wiped(d)
    /\ d.episode <= retired
    /\ \A r \in Symbols : r # s /\ dossier[r].episode = d.episode => d.episode = 0
    /\ d.attempted => d.episode \in looked
    /\ \A e \in Episodes : driftRows[e] # 0 /\ d.episode = e => d.drift_alert_sent

\* What its copy is worth: it is what is stored, or was until a reset, or it is
\* what flips it.
CopyInv ==
    /\ pc \in Copying => \A s \in cur : dossier[s] = d \/ Discarded(s)
    /\ pc = "firing" =>
          \A s \in cur : dossier[s].episode = 0 \/ d.opinion.dir # dossier[s].signaled_direction

\* A symbol has one open trade.
OneTrade == \A t, u \in trades : t.symbol = u.symbol => t = u

\* A position is left behind by its dossier only after a reset.
OpenKept ==
    \A t \in trades :
        \/ dossier[t.symbol].status = "SIGNALED"
        \/ resets > 0 /\ t.episode <= retired

\* Where a dossier is about to be reset, its trade is gone already.
FreeInv ==
    /\ pc \in Gated \cup {"settling"} => \A s \in cur : ~HasOpen(s)
    /\ pc = "retiring" => \A s \in queue : ~HasOpen(s)

\* Two dossiers never carry the same episode; what history says of an episode,
\* the dossier that carries it says too.
EpisodeInv ==
    /\ retired <= fired
    /\ \A s \in Symbols : dossier[s].episode <= fired
    /\ \A s, r \in Symbols :
          s # r /\ dossier[s].episode = dossier[r].episode => dossier[s].episode = 0
    /\ \A s \in Symbols : dossier[s].attempted => dossier[s].episode \in looked
    /\ \A e \in Episodes : driftRows[e] # 0 =>
          e <= fired /\ \A s \in Symbols : dossier[s].episode = e => dossier[s].drift_alert_sent

\* Whether the poll knows, or will know, that s waits for its entry.
Polled(s) ==
    CASE pc \in {"entering", "announcing"} \cup Gated -> s \in queue \/ pending
      [] pc = "retiring" -> s \in queue \/ entryPending
      [] pc = "settling" -> s \in cur \/ entryPending
      [] OTHER -> entryPending

Waits(s) == AwaitsEntry(s) /\ dossier[s].episode > retired

PollInv == \A s \in Symbols : Waits(s) => Polled(s)

DiskInv ==
    /\ CopyInv
    /\ OneTrade /\ OpenKept
    /\ FreeInv
    /\ EpisodeInv /\ DriftSkipOnce
    /\ PollInv

-----------------------------------------------------------------------------
(* Lemmas about dossiers.                                                  *)

LEMMA BlankTyped ==
  /\ Blank \in ActiveDossier
  /\ Blank.status = "ACTIVE" /\ Blank.episode = 0 /\ Blank.attempted = FALSE
BY EngineAssumption DEF Blank, ActiveDossier, Opinion

LEMMA DossierTyped ==
  ASSUME NEW x \in Dossier
  PROVE  /\ x.opinion \in Opinion /\ x.status \in {"ACTIVE", "SIGNALED"}
         /\ x.attempted \in BOOLEAN /\ x.drift_alert_sent \in BOOLEAN
         /\ x.episode \in Nat
         /\ x.status = "ACTIVE" => x.episode = 0
         /\ x.status = "SIGNALED" => x \in SignaledDossier
<1>1. 0 \in Nat /\ Episodes \subseteq Nat
  BY DEF Episodes
<1>2. QED
  BY <1>1 DEF Dossier, ActiveDossier, SignaledDossier

\* A reset dossier keeps its opinion and nothing else.
LEMMA ResetTyped ==
  ASSUME NEW x \in Dossier
  PROVE  /\ ResetToActive(x) \in Dossier
         /\ ResetToActive(x).status = "ACTIVE" /\ ResetToActive(x).episode = 0
         /\ ResetToActive(x).attempted = FALSE
         /\ ResetToActive(x).opinion = x.opinion
<1>1. x.opinion \in Opinion
  BY DossierTyped
<1>2. QED
  BY <1>1, BlankTyped DEF ResetToActive, Dossier, ActiveDossier

\* A judged dossier keeps everything but its opinion.
LEMMA JudgedTyped ==
  ASSUME NEW x \in Dossier, NEW th \in Thesis, NEW v \in Verdicts
  PROVE  /\ Judged(x, th, v) \in Dossier
         /\ Judged(x, th, v).status = x.status
         /\ Judged(x, th, v).episode = x.episode
         /\ Judged(x, th, v).attempted = x.attempted
         /\ Judged(x, th, v).drift_alert_sent = x.drift_alert_sent
         /\ Judged(x, th, v).signaled_direction = x.signaled_direction
         /\ Qualifies(Judged(x, th, v)) => Judged(x, th, v).opinion.dir \in Directions
<1> DEFINE count == CASE v = "none" -> x.opinion.priced_in
                      [] v = "priced_in" /\ x.opinion.priced_in < VetoConfirmations
                           -> x.opinion.priced_in + 1
                      [] v = "priced_in" -> x.opinion.priced_in
                      [] OTHER -> 0
           grade == IF v \in {"priced_in", "disagrees"} THEN "low" ELSE th.level
           view == [dir |-> th.dir, level |-> grade,
                    judged |-> x.opinion.judged \/ v # "none", priced_in |-> count]
<1>1. x.opinion \in Opinion
  BY DossierTyped
<1>2. Judged(x, th, v) = [x EXCEPT !.opinion = view]
  BY DEF Judged
<1>3. count \in 0..VetoConfirmations
  <2>1. x.opinion.priced_in \in 0..VetoConfirmations
    BY <1>1 DEF Opinion
  <2>2. VetoConfirmations \in Nat
    BY EngineAssumption
  <2>3. QED
    BY <2>1, <2>2 DEF Verdicts
<1>4. grade \in Levels /\ th.dir \in Directions \cup {"NONE"}
      /\ (grade = "clear" => th.dir \in Directions)
  BY DEF Thesis, Levels
<1>5. view \in Opinion
  <2>1. (x.opinion.judged \/ v # "none") \in BOOLEAN
    OBVIOUS
  <2>2. QED
    BY <1>3, <1>4, <2>1 DEF Opinion
<1> HIDE DEF view, grade, count
<1>6. [x EXCEPT !.opinion = view] \in Dossier
  BY <1>5 DEF Dossier, ActiveDossier, SignaledDossier
<1>7. /\ [x EXCEPT !.opinion = view].status = x.status
      /\ [x EXCEPT !.opinion = view].episode = x.episode
      /\ [x EXCEPT !.opinion = view].attempted = x.attempted
      /\ [x EXCEPT !.opinion = view].drift_alert_sent = x.drift_alert_sent
      /\ [x EXCEPT !.opinion = view].signaled_direction = x.signaled_direction
      /\ [x EXCEPT !.opinion = view].opinion = view
  BY DEF Dossier, ActiveDossier, SignaledDossier
<1>8. view.dir = th.dir /\ view.level = grade
  BY DEF view
<1>9. QED
  BY <1>2, <1>4, <1>6, <1>7, <1>8 DEF Qualifies

\* What is fired is the next episode, not yet drift-skipped, in the direction
\* of the thesis.
LEMMA FiredTyped ==
  ASSUME NEW x \in Dossier, x.opinion.dir \in Directions, fired \in Nat, fired < MaxEpisodes
  PROVE  /\ Fired(x) \in SignaledDossier
         /\ Fired(x).episode = fired + 1 /\ Fired(x).drift_alert_sent = FALSE
         /\ Fired(x).attempted = FALSE /\ Fired(x).opinion = x.opinion
         /\ Fired(x).signaled_direction = x.opinion.dir
<1>1. fired + 1 \in Episodes
  BY EngineAssumption DEF Episodes
<1>2. QED
  BY <1>1, DossierTyped DEF Fired, SignalBaseline, Dossier, ActiveDossier, SignaledDossier

-----------------------------------------------------------------------------
(* Types, with resets.                                                     *)

LEMMA SmallSets == Cardinality({}) <= 1 /\ \A s : Cardinality({s}) <= 1
BY FS_EmptySet, FS_Singleton

LEMMA SaveEffect ==
  ASSUME NEW x \in Dossier, dossier \in [Symbols -> Dossier], Save(x)
  PROVE  /\ dossier' \in [Symbols -> Dossier]
         /\ \A s \in Symbols : dossier'[s] = IF s \in cur THEN x ELSE dossier[s]
BY DEF Save

LEMMA TypeInit == Init => TypeOK /\ TaskInv
<1> SUFFICES ASSUME Init PROVE TypeOK /\ TaskInv
  OBVIOUS
<1>1. Blank \in Dossier
  BY BlankTyped DEF Dossier
<1>2. TypeOK
  <2>1. /\ dossier \in [Symbols -> Dossier] /\ d \in Dossier
        /\ driftRows \in [Episodes -> 0..2]
    BY <1>1 DEF Init
  <2>2. /\ crashes \in 0..MaxCrashes /\ resets \in 0..MaxResets
        /\ fired \in 0..MaxEpisodes /\ retired \in 0..MaxEpisodes
    BY EngineAssumption DEF Init
  <2>3. entryPending \in BOOLEAN /\ ibUp \in BOOLEAN /\ pending \in BOOLEAN
    BY DEF Init
  <2>4. QED
    BY <2>1, <2>2, <2>3, SmallSets DEF Init, TypeOK
<1>3. TaskInv
  BY DEF Init, TaskInv, Single, Gated
<1> QED
  BY <1>2, <1>3

\* A dossier the gate takes is signaled in the direction of its thesis.
LEMMA GateDirection ==
  ASSUME NEW x \in Dossier, x.status = "SIGNALED", GateAccepts(x)
  PROVE  /\ x.opinion.dir \in Directions /\ x.episode \in Episodes
         /\ x.opinion.dir = x.signaled_direction
BY DEF Dossier, ActiveDossier, SignaledDossier, GateAccepts, Flipped

\* The dossier whose attempt is counted.
LEMMA LookingTyped ==
  ASSUME NEW x \in Dossier, x.status = "SIGNALED"
  PROVE  LET looking == [x EXCEPT !.attempted = TRUE]
         IN  /\ looking \in Dossier /\ looking.status = "SIGNALED"
             /\ looking.episode = x.episode /\ looking.episode \in Episodes
             /\ looking.drift_alert_sent = x.drift_alert_sent
             /\ looking.signaled_direction = x.signaled_direction
BY DEF Dossier, ActiveDossier, SignaledDossier

\* The dossier whose drift skip is noted.
LEMMA NotedTyped ==
  ASSUME NEW x \in Dossier, x.status = "SIGNALED", GateAccepts(x)
  PROVE  LET noted == [x EXCEPT !.drift_alert_sent = TRUE]
         IN  /\ noted \in Dossier /\ noted.status = "SIGNALED" /\ GateAccepts(noted)
             /\ noted.episode = x.episode /\ noted.attempted = x.attempted
             /\ noted.signaled_direction = x.signaled_direction
             /\ noted.drift_alert_sent = TRUE
BY DEF Dossier, ActiveDossier, SignaledDossier, GateAccepts, Qualifies, Flipped

\* The dossier a reset of the runtime state leaves.
LEMMA WipedTyped ==
  ASSUME NEW x \in Dossier
  PROVE  /\ Wiped(x) \in Dossier
         /\ Wiped(x).status = "ACTIVE" /\ Wiped(x).episode = 0 /\ Wiped(x).attempted = FALSE
         /\ Wiped(x).opinion.dir = x.opinion.dir /\ Wiped(x).opinion.level = x.opinion.level
<1>1. ResetToActive(x) \in ActiveDossier
  BY DossierTyped, BlankTyped DEF ResetToActive, ActiveDossier
<1> DEFINE y == ResetToActive(x)
<1> HIDE DEF y
<1>2. y \in ActiveDossier /\ y.opinion \in Opinion
  BY <1>1 DEF y, ActiveDossier
<1>3. 0 \in 0..VetoConfirmations
  BY EngineAssumption
<1>4. [y.opinion EXCEPT !.judged = FALSE, !.priced_in = 0] \in Opinion
  BY <1>2, <1>3 DEF Opinion
<1> DEFINE o == [y.opinion EXCEPT !.judged = FALSE, !.priced_in = 0]
<1>5. [y EXCEPT !.opinion = o] \in ActiveDossier
  BY <1>2, <1>4 DEF ActiveDossier
<1>6. Wiped(x) = [y EXCEPT !.opinion = o]
  BY DEF Wiped, y
<1>7. y.opinion = x.opinion
  BY ResetTyped DEF y
<1>8. o.dir = x.opinion.dir /\ o.level = x.opinion.level
  BY <1>2, <1>7 DEF Opinion
<1>9. [y EXCEPT !.opinion = o].opinion = o
  BY <1>2 DEF ActiveDossier
<1> HIDE DEF o
<1>10. Wiped(x) \in ActiveDossier
  BY <1>5, <1>6
<1>11. QED
  BY <1>6, <1>8, <1>9, <1>10 DEF ActiveDossier, Dossier

\* A second reset finds nothing to do.
LEMMA WipedTwice ==
  ASSUME NEW x \in Dossier
  PROVE  Wiped(Wiped(x)) = Wiped(x)
<1> DEFINE o == [x.opinion EXCEPT !.judged = FALSE, !.priced_in = 0]
<1>1. x.opinion \in Opinion
  BY DossierTyped
<1>2. Wiped(x) = [Blank EXCEPT !.opinion = o]
  BY DEF Wiped, ResetToActive, Blank
<1>3. [o EXCEPT !.judged = FALSE, !.priced_in = 0] = o
  BY <1>1 DEF Opinion
<1> HIDE DEF o
<1>4. [Blank EXCEPT !.opinion = o].opinion = o
  BY DEF Blank
<1>5. Wiped([Blank EXCEPT !.opinion = o])
        = [Blank EXCEPT !.opinion = [o EXCEPT !.judged = FALSE, !.priced_in = 0]]
  BY <1>4 DEF Wiped, ResetToActive, Blank
<1>6. QED
  BY <1>2, <1>3, <1>5

\* The end of an evaluation, with or without an expiry.
LEMMA WaitTypes ==
  ASSUME TypeOK, pc \in Gated, UNCHANGED <<trades, entryPending, clocks, counters, fired, history>>,
         \/ WaitOrExpire
         \/ Save(ResetToActive(d)) /\ NextSymbol(pending)
  PROVE  TypeOK' /\ TaskInv'
<1>1. Blank \in Dossier /\ ResetToActive(d) \in Dossier
  BY BlankTyped, ResetTyped DEF Dossier, TypeOK
<1>2. dossier' \in [Symbols -> Dossier]
  BY <1>1, SaveEffect DEF WaitOrExpire, TypeOK
<1>3. NextSymbol(pending) \/ NextSymbol(TRUE)
  BY DEF WaitOrExpire
<1>4. TaskInv'
  BY <1>3 DEF NextSymbol, TaskInv, Single, Gated
<1>5. QED
  BY <1>1, <1>2, <1>3, <1>4, SmallSets DEF NextSymbol, TypeOK, clocks, counters, history

LEMMA TypeStep == TypeOK /\ TaskInv /\ [Next]_vars => TypeOK' /\ TaskInv'
<1> SUFFICES ASSUME TypeOK, TaskInv, [Next]_vars PROVE TypeOK' /\ TaskInv'
  OBVIOUS
<1> USE SmallSets, EngineAssumption
<1>0. Blank \in Dossier
  BY BlankTyped DEF Dossier
<1>d. dossier \in [Symbols -> Dossier] /\ d \in Dossier
  BY DEF TypeOK
<1>1. ASSUME NEW s \in Symbols, BeginMerge(s) PROVE TypeOK' /\ TaskInv'
  BY <1>1 DEF BeginMerge, Load, TypeOK, TaskInv, Single, Gated, Awaits, clocks, counters, history
<1>2. ASSUME NEW s \in Symbols, BeginDecay(s) PROVE TypeOK' /\ TaskInv'
  BY <1>2 DEF BeginDecay, Load, TypeOK, TaskInv, Single, Gated, Awaits, clocks, counters, history
<1>3. CASE BeginPoll
  BY <1>3 DEF BeginPoll, TypeOK, TaskInv, Single, Gated, Awaits, clocks, counters, history
<1>4. CASE NothingMerged
  BY <1>0, <1>4 DEF NothingMerged, Rest, TypeOK, TaskInv, Single, Gated, clocks, counters, history
<1>5. ASSUME NEW th \in Thesis, NEW v \in Verdicts, Merge(th, v) PROVE TypeOK' /\ TaskInv'
  <2> DEFINE merged == Judged(d, th, v)
  <2>1. /\ merged \in Dossier /\ ResetToActive(merged) \in Dossier
        /\ Qualifies(merged) => merged.opinion.dir \in Directions
    BY <1>d, JudgedTyped, ResetTyped
  <2> HIDE DEF merged
  <2>2. pc = "merging" /\ fired \in Nat /\ \E s \in Symbols : cur = {s}
    BY <1>5 DEF Merge, TaskInv, TypeOK, Single
  <2>3. UNCHANGED <<trades, entryPending, ibUp, overdue, pastHorizon, crashes, resets, retired,
                    fired, looked, entered, driftRows>>
    BY <1>5 DEF Merge, clocks, counters, history
  <2>4. CASE Save(merged) /\ Qualifies(merged) /\ MayFire /\ Suspend("firing", Fired(merged))
    <3>1. /\ Fired(merged) \in Dossier /\ Fired(merged).status = "SIGNALED"
          /\ Fired(merged).episode = fired + 1
          /\ Fired(merged).drift_alert_sent = FALSE /\ Fired(merged).attempted = FALSE
          /\ Fired(merged).signaled_direction = Fired(merged).opinion.dir
      BY <2>1, <2>2, <2>4, FiredTyped DEF MayFire, Dossier, SignaledDossier
    <3>2. TaskInv'
      BY <2>2, <2>3, <2>4, <3>1 DEF MayFire, Suspend, TaskInv, Single, Gated
    <3>3. QED
      BY <1>d, <2>1, <2>3, <2>4, <3>1, <3>2, SaveEffect DEF Suspend, TypeOK, Awaits
  <2>5. CASE Rest /\ (Save(merged) \/ Save(ResetToActive(merged)))
    <3>1. TaskInv'
      BY <2>5 DEF Rest, TaskInv, Single, Gated
    <3>2. dossier' \in [Symbols -> Dossier]
      BY <1>d, <2>1, <2>5, SaveEffect
    <3>3. QED
      BY <1>0, <2>3, <2>5, <3>1, <3>2 DEF Rest, TypeOK
  <2>6. QED
    BY <1>5, <2>4, <2>5 DEF Merge, merged
<1>6. ASSUME NEW th \in Thesis, NEW v \in Verdicts, NEW written \in BOOLEAN, Decay(th, v, written)
      PROVE TypeOK' /\ TaskInv'
  <2> DEFINE decayed == Judged(d, th, v)
  <2>1. /\ decayed \in Dossier /\ ResetToActive(decayed) \in Dossier
        /\ Qualifies(decayed) => decayed.opinion.dir \in Directions
    BY <1>d, JudgedTyped, ResetTyped
  <2> HIDE DEF decayed
  <2>2. pc = "judging" /\ fired \in Nat /\ \E s \in Symbols : cur = {s}
    BY <1>6 DEF Decay, TaskInv, TypeOK, Single
  <2>3. UNCHANGED <<trades, entryPending, ibUp, overdue, pastHorizon, crashes, resets, retired,
                    fired, looked, entered, driftRows>>
    BY <1>6 DEF Decay, clocks, counters, history
  <2>4. \/ Save(decayed) \/ Save(ResetToActive(decayed)) \/ UNCHANGED dossier
    BY <1>6 DEF Decay, decayed
  <2>5. dossier' \in [Symbols -> Dossier]
    BY <1>d, <2>1, <2>4, SaveEffect
  <2>6. CASE Qualifies(decayed) /\ MayFire /\ Suspend("firing", Fired(decayed))
    <3>1. /\ Fired(decayed) \in Dossier /\ Fired(decayed).status = "SIGNALED"
          /\ Fired(decayed).episode = fired + 1
          /\ Fired(decayed).drift_alert_sent = FALSE /\ Fired(decayed).attempted = FALSE
          /\ Fired(decayed).signaled_direction = Fired(decayed).opinion.dir
      BY <2>1, <2>2, <2>6, FiredTyped DEF MayFire, Dossier, SignaledDossier
    <3>2. TaskInv'
      BY <2>2, <2>3, <2>6, <3>1 DEF MayFire, Suspend, TaskInv, Single, Gated
    <3>3. QED
      BY <2>3, <2>5, <2>6, <3>1, <3>2 DEF Suspend, TypeOK, Awaits
  <2>7. CASE Rest
    <3>1. TaskInv'
      BY <2>7 DEF Rest, TaskInv, Single, Gated
    <3>2. QED
      BY <1>0, <2>3, <2>5, <2>7, <3>1 DEF Rest, TypeOK
  <2>8. QED
    BY <1>6, <2>6, <2>7 DEF Decay, decayed
<1>7. CASE FinishFire
  <2>1. dossier' \in [Symbols -> Dossier]
    BY <1>7, <1>d, SaveEffect DEF FinishFire
  <2>2. fired' \in 0..MaxEpisodes
    BY <1>7 DEF FinishFire, TypeOK, TaskInv
  <2>3. TaskInv'
    BY <1>7 DEF FinishFire, Rest, TaskInv, Single, Gated
  <2>4. QED
    BY <1>0, <1>7, <2>1, <2>2, <2>3
    DEF FinishFire, PullPollForward, Rest, TypeOK, clocks, counters, history
<1>8. ASSUME NEW s \in queue, SkipSymbol(s) PROVE TypeOK' /\ TaskInv'
  BY <1>8 DEF SkipSymbol, TypeOK, TaskInv, Single, Gated, clocks, counters, history
<1>9. ASSUME NEW s \in queue, NEW marketOpen \in BOOLEAN, TryOpen(s, marketOpen)
      PROVE TypeOK' /\ TaskInv'
  <2> DEFINE looking == [dossier[s] EXCEPT !.attempted = TRUE]
  <2>1. s \in Symbols /\ dossier[s] \in Dossier /\ dossier[s].status = "SIGNALED"
    BY <1>9, <1>d DEF TypeOK, TryOpen, AwaitsEntry
  <2>2. /\ looking \in Dossier /\ ResetToActive(looking) \in Dossier
        /\ looking.status = "SIGNALED" /\ looking.episode \in Episodes
    BY <2>1, LookingTyped, ResetTyped
  <2> HIDE DEF looking
  <2>3. UNCHANGED <<trades, entryPending, ibUp, overdue, pastHorizon, crashes, resets, retired,
                    fired, entered, driftRows>>
    BY <1>9 DEF TryOpen, clocks, counters
  <2>4. /\ pc = "entering" /\ looked' = looked \cup {looking.episode}
        /\ \E x \in {looking, ResetToActive(looking)} : dossier' = [dossier EXCEPT ![s] = x]
        /\ \/ UNCHANGED <<pc, cur, d>>
           \/ pc' = "pricing" /\ cur' = {s} /\ d' = looking /\ GateAccepts(looking)
        /\ queue' \in SUBSET Symbols /\ pending' \in BOOLEAN
    BY <1>9 DEF TryOpen, looking, TypeOK
  <2>5. dossier' \in [Symbols -> Dossier]
    BY <1>d, <2>1, <2>2, <2>4
  <2>6. TaskInv'
    BY <2>1, <2>2, <2>3, <2>4 DEF TaskInv, Single, Gated
  <2>7. QED
    BY <2>1, <2>2, <2>3, <2>4, <2>5, <2>6 DEF TypeOK, Awaits
<1>10. CASE NoPrice
  <2>1. WaitOrExpire /\ pc \in Gated
    BY <1>10 DEF NoPrice, Gated
  <2>2. UNCHANGED <<trades, entryPending, clocks, counters, fired, history>>
    BY <1>10 DEF NoPrice
  <2>3. QED
    BY <2>1, <2>2, WaitTypes
<1>11. CASE DriftSkip
  <2> DEFINE x == [d EXCEPT !.drift_alert_sent = TRUE]
  <2>1. d.status = "SIGNALED" /\ GateAccepts(d) /\ pc = "pricing"
    BY <1>11 DEF DriftSkip, TaskInv, Gated
  <2>2. x \in Dossier /\ x.status = "SIGNALED" /\ GateAccepts(x)
    BY <1>d, <2>1, NotedTyped
  <2>3. Save(x) /\ Suspend("warning", x)
    BY <1>11 DEF DriftSkip, DriftNoted, counters
  <2> HIDE DEF x
  <2>4. dossier' \in [Symbols -> Dossier]
    BY <1>d, <2>2, <2>3, SaveEffect
  <2>5. driftRows' \in [Episodes -> 0..2]
    <3>1. driftRows' = [driftRows EXCEPT ![d.episode] =
                          IF driftRows[d.episode] < 2 THEN driftRows[d.episode] + 1
                          ELSE driftRows[d.episode]]
      BY <1>11 DEF DriftSkip
    <3>2. driftRows \in [Episodes -> 0..2] /\ d.episode \in Episodes
      BY <1>d, <2>1, GateDirection DEF TypeOK
    <3>3. QED
      BY <3>1, <3>2
  <2>6. UNCHANGED <<trades, entryPending, clocks, counters, fired, looked, entered>>
    BY <1>11 DEF DriftSkip
  <2>7. TaskInv'
    BY <2>1, <2>2, <2>3, <2>6 DEF Suspend, TaskInv, Single, Gated
  <2>8. QED
    BY <2>2, <2>3, <2>4, <2>5, <2>6, <2>7 DEF Suspend, TypeOK, Awaits, clocks, counters
<1>12. CASE Drifted
  <2>1. WaitOrExpire /\ pc \in Gated
    BY <1>12 DEF Drifted, Gated
  <2>2. UNCHANGED <<trades, entryPending, clocks, counters, fired, history>>
    BY <1>12 DEF Drifted
  <2>3. QED
    BY <2>1, <2>2, WaitTypes
<1>13. CASE Confirm
  <2>1. UNCHANGED <<trades, entryPending, clocks, counters, fired, history>> /\ pc \in Gated
    BY <1>13 DEF Confirm, Gated
  <2>2. CASE DeadlinePassed(d)
    BY <1>13, <2>1, <2>2, WaitTypes DEF Confirm, WaitOrExpire
  <2>3. CASE UNCHANGED dossier /\ Suspend("sizing", d)
    BY <2>1, <2>3 DEF Suspend, TypeOK, TaskInv, Single, Gated, Awaits, clocks, counters, history
  <2>4. QED
    BY <1>13, <2>2, <2>3 DEF Confirm
<1>14. CASE OpenTrade
  <2>1. d.opinion.dir \in Directions /\ d.episode \in Episodes
    BY <1>14, <1>d, GateDirection DEF OpenTrade, TaskInv, Gated
  <2>2. trades' \subseteq Trade
    BY <1>14, <2>1 DEF OpenTrade, Trade, TypeOK
  <2>3. entered' \subseteq Episodes /\ pastHorizon' \subseteq Symbols
    BY <1>14, <2>1 DEF OpenTrade, TypeOK
  <2>4. TaskInv'
    BY <1>14 DEF OpenTrade, Suspend, TaskInv, Single, Gated
  <2>5. QED
    BY <1>14, <2>2, <2>3, <2>4 DEF OpenTrade, Suspend, TypeOK, Awaits, counters
<1>15. CASE Announced
  BY <1>0, <1>15 DEF Announced, NextSymbol, TypeOK, TaskInv, Single, Gated, clocks, counters, history
<1>16. CASE EntriesDone
  BY <1>16 DEF EntriesDone, Expired, HasOpen, TypeOK, TaskInv, Single, Gated, Awaits, counters, history
<1>17. ASSUME NEW s \in queue, Retire(s) PROVE TypeOK' /\ TaskInv'
  <2>1. dossier' \in [Symbols -> Dossier]
    BY <1>17, <1>d, ResetTyped DEF Retire, TypeOK
  <2>2. QED
    BY <1>17, <2>1 DEF Retire, TypeOK, TaskInv, Single, Gated, clocks, counters, history
<1>18. CASE RetiringDone
  <2>1. {t.symbol : t \in trades} \subseteq Symbols
    BY DEF TypeOK, Trade
  <2>2. TaskInv'
    BY <1>18 DEF RetiringDone, Rest, TaskInv, Single, Gated
  <2>3. QED
    BY <1>0, <1>18, <2>1, <2>2 DEF RetiringDone, Rest, TypeOK, Awaits, clocks, counters, history
<1>19. ASSUME NEW priced \in SUBSET Symbols, Fetched(priced) PROVE TypeOK' /\ TaskInv'
  BY <1>19 DEF Fetched, TypeOK, TaskInv, Single, Gated, clocks, counters, history
<1>20. ASSUME NEW t \in trades, Mark(t) PROVE TypeOK' /\ TaskInv'
  <2>1. t.symbol \in Symbols
    BY DEF TypeOK, Trade
  <2>2. TaskInv'
    BY <1>20, <2>1 DEF Mark, TaskInv, Single, Gated
  <2>3. QED
    BY <1>20, <2>1, <2>2 DEF Mark, TypeOK, Awaits, counters, history
<1>21. ASSUME NEW s \in queue, MarkGone(s) PROVE TypeOK' /\ TaskInv'
  BY <1>21 DEF MarkGone, TypeOK, TaskInv, Single, Gated, clocks, counters, history
<1>22. CASE Settle
  <2>1. \A s \in Symbols : ResetToActive(dossier[s]) \in Dossier
    BY <1>d, ResetTyped
  <2>2. dossier' \in [Symbols -> Dossier]
    BY <1>22, <1>d, <2>1 DEF Settle
  <2>3. QED
    BY <1>22, <2>2 DEF Settle, TypeOK, TaskInv, Single, Gated, clocks, counters, history
<1>23. CASE MarkingDone
  BY <1>0, <1>23 DEF MarkingDone, Rest, TypeOK, TaskInv, Single, Gated, clocks, counters, history
<1>24. CASE ResetRuntime
  <2> DEFINE x(s) == Wiped(dossier[s])
  <2>1. \A s \in Symbols : x(s) \in Dossier
    BY <1>d, WipedTyped
  <2>2. dossier' = [s \in Symbols |-> x(s)]
    BY <1>24 DEF ResetRuntime
  <2> HIDE DEF x
  <2>3. dossier' \in [Symbols -> Dossier]
    BY <2>1, <2>2
  <2>4. resets' \in 0..MaxResets
    <3>1. resets < MaxResets /\ resets' = resets + 1
      BY <1>24 DEF ResetRuntime
    <3>2. resets \in 0..MaxResets /\ MaxResets \in Nat
      BY DEF TypeOK
    <3>3. QED
      BY <3>1, <3>2
  <2>5. QED
    BY <1>24, <2>3, <2>4 DEF ResetRuntime, TypeOK, TaskInv, task, history
<1>25. CASE Crash
  <2>1. crashes' \in 0..MaxCrashes
    BY <1>25 DEF Crash, TypeOK
  <2>2. TaskInv'
    BY <1>25 DEF Crash, Rest, TaskInv, Single, Gated
  <2>3. QED
    BY <1>0, <1>25, <2>1, <2>2 DEF Crash, Rest, TypeOK, clocks, history
<1>26. ASSUME NEW e \in Episodes, DeadlineComes(e) PROVE TypeOK' /\ TaskInv'
  BY <1>26 DEF DeadlineComes, TypeOK, TaskInv, task, counters, history
<1>27. ASSUME NEW s \in Symbols, HorizonComes(s) PROVE TypeOK' /\ TaskInv'
  BY <1>27 DEF HorizonComes, TypeOK, TaskInv, task, counters, history
<1>28. CASE Gateway
  BY <1>28 DEF Gateway, TypeOK, TaskInv, task, counters, history
<1>29. CASE UNCHANGED vars
  BY <1>29 DEF vars, TypeOK, TaskInv, clocks, task, counters, history
<1> QED
  BY <1>1, <1>2, <1>3, <1>4, <1>5, <1>6, <1>7, <1>8, <1>9, <1>10, <1>11, <1>12, <1>13, <1>14,
     <1>15, <1>16, <1>17, <1>18, <1>19, <1>20, <1>21, <1>22, <1>23, <1>24, <1>25, <1>26,
     <1>27, <1>28, <1>29 DEF Next, TaskStep

-----------------------------------------------------------------------------
(* The disk.                                                               *)

\* What most steps do to a dossier: nothing that concerns its signal but a mark
\* that is on record, its return to ACTIVE once no trade is open, or a save that
\* undoes a reset.
Kept(s) ==
    /\ dossier'[s].status = dossier[s].status
    /\ dossier'[s].episode = dossier[s].episode
    /\ dossier'[s].signaled_direction = dossier[s].signaled_direction
    /\ dossier'[s].attempted => dossier[s].attempted \/ dossier[s].episode \in looked'
    /\ dossier[s].drift_alert_sent => dossier'[s].drift_alert_sent

Released(s) ==
    /\ dossier'[s].status = "ACTIVE"
    /\ dossier'[s].episode = 0
    /\ dossier'[s].attempted = FALSE
    /\ ~HasOpen(s)

Returned(s) ==
    /\ pc \in Copying /\ s \in cur /\ Discarded(s)
    /\ dossier'[s].episode = d.episode
    /\ dossier'[s].attempted => d.attempted
    /\ d.drift_alert_sent => dossier'[s].drift_alert_sent

Tame == \A s \in Symbols : Kept(s) \/ Released(s) \/ Returned(s)

\* A first row for an episode comes with the mark of the dossier that carries it.
Rows ==
    \A e \in Episodes :
        \/ driftRows'[e] = driftRows[e]
        \/ /\ driftRows[e] = 0 /\ driftRows'[e] = 1 /\ e <= fired
           /\ \A s \in Symbols : dossier'[s].episode = e => dossier'[s].drift_alert_sent

LEMMA TameEpisodes ==
  ASSUME TypeOK, TaskInv, EpisodeInv, DriftSkipOnce, Tame, Rows,
         UNCHANGED <<fired, retired>>, looked \subseteq looked'
  PROVE  EpisodeInv' /\ DriftSkipOnce'
<1>0. /\ d.episode \in Nat /\ fired \in Nat /\ retired \in Nat
      /\ \A s \in Symbols : dossier[s].episode \in Nat
  BY DossierTyped DEF TypeOK
<1>1. \A s \in Symbols : \/ dossier'[s].episode \in {0, dossier[s].episode}
                         \/ Returned(s) /\ dossier'[s].episode = d.episode
  BY DEF Tame, Kept, Released, Returned
<1>2. \A s \in Symbols : dossier'[s].episode <= fired'
  BY <1>0, <1>1 DEF EpisodeInv, Returned, Discarded
<1>3. ASSUME NEW s \in Symbols, NEW r \in Symbols, s # r,
             dossier'[s].episode = dossier'[r].episode
      PROVE  dossier'[s].episode = 0
  <2>1. ~(Returned(s) /\ Returned(r))
    BY <1>3 DEF Returned, TaskInv, Copying, Gated, Single
  <2>2. CASE Returned(s)
    BY <1>1, <1>3, <2>1, <2>2 DEF Returned, Discarded
  <2>3. CASE Returned(r)
    BY <1>1, <1>3, <2>1, <2>3 DEF Returned, Discarded
  <2>4. CASE ~Returned(s) /\ ~Returned(r)
    BY <1>1, <1>3, <2>4 DEF EpisodeInv
  <2>5. QED
    BY <2>2, <2>3, <2>4
<1>4. \A s \in Symbols : dossier'[s].attempted => dossier'[s].episode \in looked'
  BY DEF EpisodeInv, Tame, Kept, Released, Returned, Discarded
<1>5. \A e \in Episodes : e # 0
  BY DEF Episodes
<1>6. ASSUME NEW e \in Episodes, driftRows'[e] # 0
      PROVE  e <= fired' /\ \A s \in Symbols : dossier'[s].episode = e => dossier'[s].drift_alert_sent
  <2>1. CASE driftRows'[e] = driftRows[e]
    <3>1. e <= fired'
      BY <1>6, <2>1 DEF EpisodeInv
    <3>2. ASSUME NEW s \in Symbols, dossier'[s].episode = e
          PROVE  dossier'[s].drift_alert_sent
      <4>1. CASE Returned(s)
        BY <1>6, <2>1, <3>2, <4>1 DEF Returned, Discarded
      <4>2. CASE Kept(s) \/ Released(s)
        BY <1>5, <1>6, <2>1, <3>2, <4>2 DEF EpisodeInv, Kept, Released
      <4>3. QED
        BY <4>1, <4>2 DEF Tame
    <3>3. QED
      BY <3>1, <3>2
  <2>2. CASE driftRows'[e] # driftRows[e]
    BY <2>2 DEF Rows
  <2>3. QED
    BY <2>1, <2>2
<1>7. DriftSkipOnce'
  BY DEF DriftSkipOnce, Rows
<1>8. QED
  BY <1>2, <1>3, <1>4, <1>6, <1>7 DEF EpisodeInv

LEMMA TameTrades ==
  ASSUME TypeOK, OneTrade, OpenKept, Tame, trades' \subseteq trades, UNCHANGED <<resets, retired>>
  PROVE  OneTrade' /\ OpenKept'
<1>1. \A t \in trades' : t \in trades /\ t.symbol \in Symbols /\ HasOpen(t.symbol)
  BY DEF TypeOK, Trade, HasOpen
<1>2. OneTrade'
  BY <1>1 DEF OneTrade
<1>3. ASSUME NEW t \in trades', dossier[t.symbol].status = "SIGNALED"
      PROVE  dossier'[t.symbol].status = "SIGNALED"
  <2>1. ~Discarded(t.symbol)
    BY <1>1, <1>3, WipedTyped DEF Discarded, TypeOK
  <2>2. QED
    BY <1>1, <1>3, <2>1 DEF Tame, Kept, Released, Returned
<1>4. QED
  BY <1>1, <1>2, <1>3 DEF OpenKept

LEMMA UnchangedIsTame == UNCHANGED dossier => Tame
BY DEF Tame, Kept

\* A task that saves what it merged, or resets a dossier with no open trade.
LEMMA SaveIsTame ==
  ASSUME TypeOK, NEW x \in Dossier, Save(x),
         pc \in Copying, \A s \in cur : dossier[s] = d \/ Discarded(s),
         \/ /\ x.status = d.status /\ x.episode = d.episode
            /\ x.signaled_direction = d.signaled_direction
            /\ x.attempted = d.attempted
            /\ d.drift_alert_sent => x.drift_alert_sent
         \/ /\ x.status = "ACTIVE" /\ x.episode = 0 /\ x.attempted = FALSE
            /\ \A s \in cur : ~HasOpen(s)
  PROVE  Tame
<1>1. \A s \in Symbols : dossier'[s] = IF s \in cur THEN x ELSE dossier[s]
  BY SaveEffect DEF TypeOK
<1>2. QED
  BY <1>1 DEF Tame, Kept, Released, Returned

\* Who waits for an entry after a tame step did before, if no trade closed.
LEMMA TameWaits ==
  ASSUME TypeOK, Tame, UNCHANGED <<trades, retired>>, NEW s \in Symbols, Waits(s)'
  PROVE  Waits(s) /\ dossier'[s].status = "SIGNALED"
<1>1. ~Returned(s)
  <2>1. d.episode \in Nat /\ retired \in Nat
    BY DossierTyped DEF TypeOK
  <2>2. QED
    BY <2>1 DEF Returned, Discarded, Waits
<1>2. QED
  BY <1>1 DEF Tame, Kept, Released, Waits, AwaitsEntry, HasOpen

LEMMA WaitIsTame ==
  ASSUME TypeOK, DiskInv, pc \in Gated, UNCHANGED dossier \/ Save(ResetToActive(d))
  PROVE  Tame
<1>1. pc \in Copying /\ \A s \in cur : (dossier[s] = d \/ Discarded(s)) /\ ~HasOpen(s)
  BY DEF DiskInv, CopyInv, FreeInv, Copying, Gated
<1>2. QED
  BY <1>1, SaveIsTame, UnchangedIsTame, ResetTyped DEF TypeOK

\* Every step is tame but a reset of the runtime state and the one that brings
\* a new episode to the disk.
LEMMA TameUnlessFired ==
  ASSUME TypeOK, TaskInv, DiskInv, [Next]_vars, ~FinishFire, UNCHANGED resets
  PROVE  Tame
<1> USE DEF Gated, Copying
<1>d. dossier \in [Symbols -> Dossier] /\ d \in Dossier
  BY DEF TypeOK
<1>1. CASE UNCHANGED dossier
  BY <1>1, UnchangedIsTame
<1>2. ASSUME NEW th \in Thesis, NEW v \in Verdicts, NEW x \in {Judged(d, th, v)},
             pc \in {"merging", "judging"},
             \/ UNCHANGED dossier
             \/ Save(x)
             \/ Save(ResetToActive(x)) /\ \A s \in cur : ~HasOpen(s)
      PROVE  Tame
  <2>1. /\ x \in Dossier /\ x.status = d.status /\ x.episode = d.episode
        /\ x.attempted = d.attempted /\ x.drift_alert_sent = d.drift_alert_sent
        /\ x.signaled_direction = d.signaled_direction
    BY <1>d, <1>2, JudgedTyped
  <2>2. \A s \in cur : dossier[s] = d \/ Discarded(s)
    BY <1>2 DEF DiskInv, CopyInv
  <2>3. QED
    BY <1>2, <2>1, <2>2, ResetTyped, SaveIsTame, UnchangedIsTame
<1>3. ASSUME NEW th \in Thesis, NEW v \in Verdicts, Merge(th, v) PROVE Tame
  BY <1>2, <1>3 DEF Merge
<1>4. ASSUME NEW th \in Thesis, NEW v \in Verdicts, NEW written \in BOOLEAN, Decay(th, v, written)
      PROVE  Tame
  BY <1>2, <1>4 DEF Decay, DecayDefers
<1>5. ASSUME NEW s \in queue, NEW marketOpen \in BOOLEAN, TryOpen(s, marketOpen) PROVE Tame
  <2> DEFINE looking == [dossier[s] EXCEPT !.attempted = TRUE]
  <2>1. s \in Symbols /\ dossier[s].status = "SIGNALED" /\ ~HasOpen(s)
    BY <1>5 DEF TypeOK, TryOpen, AwaitsEntry
  <2>2. /\ looking \in Dossier /\ looking.episode = dossier[s].episode
        /\ looking.status = "SIGNALED" /\ looking.drift_alert_sent = dossier[s].drift_alert_sent
        /\ looking.signaled_direction = dossier[s].signaled_direction
    BY <1>d, <2>1, LookingTyped
  <2>3. /\ ResetToActive(looking).status = "ACTIVE" /\ ResetToActive(looking).episode = 0
        /\ ResetToActive(looking).attempted = FALSE
    BY <2>2, ResetTyped
  <2> HIDE DEF looking
  <2>4. /\ looked' = looked \cup {looking.episode}
        /\ \E x \in {looking, ResetToActive(looking)} : dossier' = [dossier EXCEPT ![s] = x]
    BY <1>5 DEF TryOpen, looking
  <2>5. QED
    BY <1>d, <2>1, <2>2, <2>3, <2>4 DEF Tame, Kept, Released
<1>6. CASE NoPrice \/ Drifted \/ Confirm
  BY <1>6, WaitIsTame DEF NoPrice, Drifted, Confirm, WaitOrExpire
<1>7. CASE DriftSkip
  <2> DEFINE x == [d EXCEPT !.drift_alert_sent = TRUE]
  <2>1. /\ d.status = "SIGNALED" /\ GateAccepts(d) /\ Save(x)
        /\ pc = "pricing" /\ \A s \in cur : dossier[s] = d \/ Discarded(s)
    BY <1>7 DEF DriftSkip, DriftNoted, TaskInv, DiskInv, CopyInv
  <2>2. /\ x \in Dossier /\ x.status = "SIGNALED" /\ x.episode = d.episode
        /\ x.attempted = d.attempted /\ x.drift_alert_sent = TRUE
        /\ x.signaled_direction = d.signaled_direction
    BY <1>d, <2>1, NotedTyped
  <2> HIDE DEF x
  <2>3. QED
    BY <2>1, <2>2, SaveIsTame
<1>8. ASSUME NEW s \in queue, Retire(s) PROVE Tame
  <2>1. s \in Symbols /\ ~HasOpen(s) /\ dossier' = [dossier EXCEPT ![s] = ResetToActive(dossier[s])]
    BY <1>8 DEF Retire, DiskInv, FreeInv, TypeOK
  <2>2. /\ ResetToActive(dossier[s]).status = "ACTIVE" /\ ResetToActive(dossier[s]).episode = 0
        /\ ResetToActive(dossier[s]).attempted = FALSE
    BY <1>d, <2>1, ResetTyped
  <2>3. QED
    BY <1>d, <2>1, <2>2 DEF Tame, Kept, Released
<1>9. CASE Settle
  <2>1. /\ \A s \in cur : ~HasOpen(s)
        /\ \A s \in Symbols :
              dossier'[s] = IF s \in cur THEN ResetToActive(dossier[s]) ELSE dossier[s]
    BY <1>9 DEF Settle, DiskInv, FreeInv
  <2>2. \A s \in Symbols :
           /\ ResetToActive(dossier[s]).status = "ACTIVE" /\ ResetToActive(dossier[s]).episode = 0
           /\ ResetToActive(dossier[s]).attempted = FALSE
    BY <1>d, ResetTyped
  <2>3. QED
    BY <2>1, <2>2 DEF Tame, Kept, Released
<1>10. QED
  <2>1. CASE TaskStep
    BY <1>1, <1>3, <1>4, <1>5, <1>6, <1>7, <1>8, <1>9, <2>1
    DEF TaskStep, NothingMerged, SkipSymbol, OpenTrade, Announced, EntriesDone, RetiringDone,
        Fetched, Mark, MarkGone, MarkingDone
  <2>2. CASE ~TaskStep
    <3>1. ~ResetRuntime
      BY DEF ResetRuntime, TypeOK
    <3>2. QED
      BY <1>1, <2>2, <3>1
      DEF Next, BeginMerge, BeginDecay, Load, BeginPoll, Crash, DeadlineComes, HorizonComes,
          Gateway, vars
  <2>3. QED
    BY <2>1, <2>2

\* The end of an evaluation, for the disk.
LEMMA WaitDisk ==
  ASSUME TypeOK, TaskInv, DiskInv, pc \in Gated,
         UNCHANGED <<trades, entryPending, fired, resets, retired, looked, driftRows>>,
         \/ UNCHANGED dossier /\ NextSymbol(TRUE)
         \/ Save(ResetToActive(d)) /\ NextSymbol(pending)
  PROVE  DiskInv'
<1> USE DEF Gated
<1>2. Tame
  BY WaitIsTame
<1>3. OneTrade' /\ OpenKept' /\ EpisodeInv' /\ DriftSkipOnce'
  BY <1>2, TameEpisodes, TameTrades DEF DiskInv, Rows
<1>4. CopyInv' /\ FreeInv'
  BY DEF NextSymbol, CopyInv, FreeInv
<1>5. ASSUME NEW s \in Symbols, Waits(s)' PROVE Polled(s)'
  <2>1. Waits(s) /\ dossier'[s].status = "SIGNALED"
    BY <1>2, <1>5, TameWaits
  <2>2. s \in queue \/ pending
    BY <2>1 DEF DiskInv, PollInv, Polled
  <2>3. CASE UNCHANGED dossier /\ NextSymbol(TRUE)
    BY <2>3 DEF Polled, NextSymbol
  <2>4. CASE Save(ResetToActive(d)) /\ NextSymbol(pending)
    <3>1. s \notin cur
      BY <2>1, <2>4, ResetTyped, SaveEffect DEF TypeOK
    <3>2. QED
      BY <2>2, <2>4, <3>1 DEF Polled, NextSymbol
  <2>5. QED
    BY <2>3, <2>4
<1>6. QED
  BY <1>3, <1>4, <1>5 DEF DiskInv, PollInv

LEMMA DiskInit == Init => DiskInv
<1> SUFFICES ASSUME Init PROVE DiskInv
  OBVIOUS
<1>1. \A s \in Symbols : dossier[s] = Blank
  BY DEF Init
<1>2. CopyInv /\ OneTrade /\ OpenKept /\ FreeInv
  BY <1>1 DEF Init, CopyInv, OneTrade, OpenKept, FreeInv, Gated
<1>3. EpisodeInv /\ DriftSkipOnce
  BY <1>1, BlankTyped DEF Init, EpisodeInv, DriftSkipOnce
<1>4. PollInv
  BY <1>1, BlankTyped DEF Init, PollInv, Waits, AwaitsEntry
<1>5. QED
  BY <1>2, <1>3, <1>4 DEF DiskInv

LEMMA DiskStep ==
  ASSUME TypeOK, TaskInv, DiskInv, TypeOK', TaskInv', [Next]_vars
  PROVE  DiskInv'
<1> USE DEF Gated, Copying
<1> DEFINE Local == CopyInv' /\ FreeInv' /\ PollInv'
           Quiet == UNCHANGED <<dossier, trades, fired, resets, retired, looked, driftRows>>
<1>d. dossier \in [Symbols -> Dossier] /\ d \in Dossier
  BY DEF TypeOK
<1>t. ASSUME Tame, trades' \subseteq trades,
             UNCHANGED <<fired, resets, retired, looked, driftRows>>, Local
      PROVE  DiskInv'
  BY <1>t, TameEpisodes, TameTrades DEF DiskInv, Rows
<1>m. ~FinishFire /\ UNCHANGED resets => Tame
  BY TameUnlessFired
<1>q. ASSUME Quiet, Local PROVE DiskInv'
  BY <1>q, <1>t, UnchangedIsTame
<1> HIDE DEF Quiet
<1>1. ASSUME NEW s \in Symbols, BeginMerge(s) PROVE DiskInv'
  <2>1. Quiet
    BY <1>1 DEF BeginMerge, Load, Quiet, clocks, counters, history
  <2>2. CopyInv' /\ FreeInv'
    BY <1>1, <2>1 DEF BeginMerge, Load, Quiet, DiskInv, CopyInv, FreeInv, HasOpen, TaskInv, Single
  <2>3. PollInv'
    BY <1>1, <2>1 DEF BeginMerge, Load, Quiet, DiskInv, PollInv, Polled, Waits, AwaitsEntry, HasOpen, TaskInv, Single
  <2>4. QED
    BY <1>q, <2>1, <2>2, <2>3
<1>2. ASSUME NEW s \in Symbols, BeginDecay(s) PROVE DiskInv'
  <2>1. Quiet
    BY <1>2 DEF BeginDecay, Load, Quiet, clocks, counters, history
  <2>2. CopyInv' /\ FreeInv'
    BY <1>2, <2>1 DEF BeginDecay, Load, Quiet, DiskInv, CopyInv, FreeInv, HasOpen, TaskInv, Single
  <2>3. PollInv'
    BY <1>2, <2>1 DEF BeginDecay, Load, Quiet, DiskInv, PollInv, Polled, Waits, AwaitsEntry, HasOpen, TaskInv, Single
  <2>4. QED
    BY <1>q, <2>1, <2>2, <2>3
<1>3. CASE BeginPoll
  <2>1. Quiet
    BY <1>3 DEF BeginPoll, Quiet, clocks, counters, history
  <2>2. CopyInv' /\ FreeInv'
    BY <1>3, <2>1 DEF BeginPoll, Quiet, DiskInv, CopyInv, FreeInv, HasOpen, TaskInv, Single
  <2>3. PollInv'
    BY <1>3, <2>1 DEF BeginPoll, Quiet, DiskInv, PollInv, Polled, Waits, AwaitsEntry, HasOpen, TaskInv, Single
  <2>4. QED
    BY <1>q, <2>1, <2>2, <2>3
<1>4. CASE NothingMerged
  <2>1. Quiet
    BY <1>4 DEF NothingMerged, Rest, Quiet, clocks, counters, history
  <2>2. CopyInv' /\ FreeInv'
    BY <1>4, <2>1 DEF NothingMerged, Rest, Quiet, DiskInv, CopyInv, FreeInv, HasOpen, TaskInv, Single
  <2>3. PollInv'
    BY <1>4, <2>1 DEF NothingMerged, Rest, Quiet, DiskInv, PollInv, Polled, Waits, AwaitsEntry, HasOpen, TaskInv, Single
  <2>4. QED
    BY <1>q, <2>1, <2>2, <2>3
<1>5. ASSUME NEW th \in Thesis, NEW v \in Verdicts, Merge(th, v) PROVE DiskInv'
  <2> DEFINE merged == Judged(d, th, v)
  <2>1. merged \in Dossier /\ (Qualifies(merged) => merged.opinion.dir \in Directions)
    BY <1>d, JudgedTyped
  <2> HIDE DEF merged
  <2>2. pc = "merging" /\ fired \in Nat
    BY <1>5 DEF Merge, TaskInv, TypeOK
  <2>3. UNCHANGED <<trades, entryPending, fired, resets, retired, looked, driftRows>>
    BY <1>5 DEF Merge, counters, history
  <2>4. Tame
    BY <1>m, <2>2, <2>3 DEF FinishFire
  <2>5. pc' \in {"firing", "idle"}
    BY <1>5 DEF Merge, Suspend, Rest
  <2>6. CopyInv'
    <3>1. CASE Rest
      BY <3>1 DEF Rest, CopyInv
    <3>2. CASE /\ Save(merged) /\ Suspend("firing", Fired(merged)) /\ Qualifies(merged) /\ MayFire
               /\ merged.status = "ACTIVE" \/ Flipped(merged)
      <4>1. Fired(merged).opinion = merged.opinion
        BY <2>1, <2>2, <3>2, FiredTyped DEF MayFire
      <4>2. \A s \in cur : s \in Symbols /\ dossier'[s] = merged
        BY <1>d, <2>1, <3>2, SaveEffect DEF TypeOK
      <4>3. merged.episode = 0 \/ merged.opinion.dir # merged.signaled_direction
        BY <2>1, <3>2, DossierTyped DEF Flipped
      <4>4. QED
        BY <3>2, <4>1, <4>2, <4>3 DEF Suspend, CopyInv
    <3>3. QED
      BY <1>5, <3>1, <3>2 DEF Merge, merged
  <2>7. FreeInv'
    BY <2>5 DEF FreeInv
  <2>8. PollInv'
    BY <2>2, <2>3, <2>4, <2>5, TameWaits DEF DiskInv, PollInv, Polled
  <2>9. QED
    BY <1>t, <2>3, <2>4, <2>6, <2>7, <2>8
<1>6. ASSUME NEW th \in Thesis, NEW v \in Verdicts, NEW written \in BOOLEAN, Decay(th, v, written)
      PROVE DiskInv'
  <2> DEFINE decayed == Judged(d, th, v)
  <2>1. decayed.status = d.status
    BY <1>d, JudgedTyped
  <2> HIDE DEF decayed
  <2>2. pc = "judging" /\ (\A s \in cur : dossier[s] = d \/ Discarded(s))
    BY <1>6 DEF Decay, DiskInv, CopyInv
  <2>3. UNCHANGED <<trades, entryPending, fired, resets, retired, looked, driftRows>>
    BY <1>6 DEF Decay, counters, history
  <2>4. Tame
    BY <1>m, <2>2, <2>3 DEF FinishFire
  <2>5. pc' \in {"firing", "idle"}
    BY <1>6 DEF Decay, Suspend, Rest
  <2>6. CopyInv'
    <3>1. CASE Rest
      BY <3>1 DEF Rest, CopyInv
    <3>2. CASE Suspend("firing", Fired(decayed)) /\ decayed.status = "ACTIVE"
      <4>1. d.episode = 0 /\ \A s \in cur : s \in Symbols /\ dossier[s].episode = 0
        BY <1>d, <2>1, <2>2, <3>2, DossierTyped, WipedTyped DEF Discarded, TypeOK
      <4>2. \A s \in cur : dossier'[s].episode = 0
        BY <2>4, <4>1 DEF Tame, Kept, Released, Returned
      <4>3. QED
        BY <3>2, <4>2 DEF Suspend, CopyInv
    <3>3. QED
      BY <1>6, <3>1, <3>2 DEF Decay, decayed
  <2>7. FreeInv'
    BY <2>5 DEF FreeInv
  <2>8. PollInv'
    BY <2>2, <2>3, <2>4, <2>5, TameWaits DEF DiskInv, PollInv, Polled
  <2>9. QED
    BY <1>t, <2>3, <2>4, <2>6, <2>7, <2>8
<1>7. CASE FinishFire
  <2>1. /\ d.status = "SIGNALED" /\ d.episode = fired + 1 /\ d.attempted = FALSE
        /\ fired \in Nat /\ fired' = fired + 1 /\ entryPending' = TRUE
        /\ UNCHANGED <<trades, resets, retired, looked, driftRows>> /\ pc' = "idle"
        /\ \E s \in Symbols : cur = {s}
    BY <1>7 DEF FinishFire, PullPollForward, Rest, TaskInv, TypeOK, Single, counters, history
  <2>2. \A s \in Symbols : dossier'[s] = IF s \in cur THEN d ELSE dossier[s]
    BY <1>7, <1>d, SaveEffect DEF FinishFire
  <2>3. OneTrade'
    BY <2>1 DEF DiskInv, OneTrade
  <2>4. OpenKept'
    BY <2>1, <2>2 DEF DiskInv, OpenKept, TypeOK, Trade
  <2>5. \A s \in Symbols : dossier[s].episode <= fired /\ dossier[s].episode \in Nat
    <3>1. \A s \in Symbols : dossier[s].episode \in Nat
      BY <1>d, DossierTyped
    <3>2. QED
      BY <3>1 DEF DiskInv, EpisodeInv
  <2>6. EpisodeInv'
    <3>1. \A s \in Symbols : dossier'[s].episode <= fired'
      BY <2>1, <2>2, <2>5
    <3>2. \A s \in Symbols : s \notin cur => dossier'[s].episode # fired + 1
      BY <2>1, <2>2, <2>5
    <3>3. \A s, r \in Symbols :
            s # r /\ dossier'[s].episode = dossier'[r].episode => dossier'[s].episode = 0
      BY <2>1, <2>2, <3>2 DEF DiskInv, EpisodeInv
    <3>4. \A s \in Symbols : dossier'[s].attempted => dossier'[s].episode \in looked'
      BY <2>1, <2>2 DEF DiskInv, EpisodeInv
    <3>5. ASSUME NEW e \in Episodes, driftRows'[e] # 0
          PROVE  e <= fired' /\ \A s \in Symbols : dossier'[s].episode = e => dossier'[s].drift_alert_sent
      <4>1. e <= fired /\ e \in Nat
        BY <2>1, <3>5 DEF DiskInv, EpisodeInv, Episodes
      <4>2. e # fired + 1 /\ e <= fired'
        BY <2>1, <4>1
      <4>3. QED
        BY <2>1, <2>2, <3>5, <4>2 DEF DiskInv, EpisodeInv
    <3>6. retired' <= fired'
      BY <2>1 DEF DiskInv, EpisodeInv, TypeOK
    <3>7. QED
      BY <3>1, <3>3, <3>4, <3>5, <3>6 DEF EpisodeInv
  <2>7. DriftSkipOnce'
    BY <2>1 DEF DiskInv, DriftSkipOnce
  <2>8. CopyInv' /\ FreeInv' /\ PollInv'
    BY <2>1 DEF CopyInv, FreeInv, PollInv, Polled
  <2>9. QED
    BY <2>3, <2>4, <2>6, <2>7, <2>8 DEF DiskInv
<1>8. ASSUME NEW s \in queue, SkipSymbol(s) PROVE DiskInv'
  <2>1. Quiet
    BY <1>8 DEF SkipSymbol, Quiet, clocks, counters, history
  <2>2. CopyInv' /\ FreeInv'
    BY <1>8, <2>1 DEF SkipSymbol, Quiet, DiskInv, CopyInv, FreeInv, HasOpen, TaskInv, Single
  <2>3. PollInv'
    BY <1>8, <2>1 DEF SkipSymbol, Quiet, DiskInv, PollInv, Polled, Waits, AwaitsEntry, HasOpen, TaskInv, Single
  <2>4. QED
    BY <1>q, <2>1, <2>2, <2>3
<1>9. ASSUME NEW s \in queue, NEW marketOpen \in BOOLEAN, TryOpen(s, marketOpen) PROVE DiskInv'
  <2> DEFINE looking == [dossier[s] EXCEPT !.attempted = TRUE]
  <2>1. s \in Symbols /\ dossier[s].status = "SIGNALED" /\ ~HasOpen(s) /\ pc = "entering" /\ cur = {}
    BY <1>9 DEF TypeOK, TryOpen, AwaitsEntry, TaskInv, Single
  <2>2. /\ looking \in Dossier /\ looking.episode = dossier[s].episode
        /\ looking.status = "SIGNALED" /\ looking.drift_alert_sent = dossier[s].drift_alert_sent
    BY <1>d, <2>1, LookingTyped
  <2>3. /\ ResetToActive(looking).status = "ACTIVE" /\ ResetToActive(looking).episode = 0
        /\ ResetToActive(looking).attempted = FALSE
    BY <2>2, ResetTyped
  <2> HIDE DEF looking
  <2>4. UNCHANGED <<trades, entryPending, fired, resets, retired, driftRows>> /\ looked' = looked \cup {looking.episode}
    BY <1>9 DEF TryOpen, looking, counters
  <2>5. \/ /\ dossier' = [dossier EXCEPT ![s] = ResetToActive(looking)]
           /\ queue' = queue \ {s} /\ UNCHANGED <<pc, cur, d, pending>>
        \/ /\ dossier' = [dossier EXCEPT ![s] = looking]
           /\ queue' = queue \ {s} /\ pending' = TRUE /\ UNCHANGED <<pc, cur, d>>
        \/ /\ dossier' = [dossier EXCEPT ![s] = looking]
           /\ pc' = "pricing" /\ cur' = {s} /\ d' = looking /\ UNCHANGED <<queue, pending>>
    BY <1>9 DEF TryOpen, looking
  <2>6. Tame
    BY <1>m, <2>1, <2>4 DEF FinishFire
  <2>7. OneTrade' /\ OpenKept' /\ EpisodeInv' /\ DriftSkipOnce'
    BY <2>4, <2>6, TameEpisodes, TameTrades DEF DiskInv, Rows
  <2>8. CopyInv' /\ FreeInv'
    BY <1>d, <2>1, <2>4, <2>5 DEF CopyInv, FreeInv, HasOpen
  <2>9. ASSUME NEW r \in Symbols, Waits(r)' PROVE Polled(r)'
    <3>1. Waits(r) /\ dossier'[r].status = "SIGNALED"
      BY <2>4, <2>6, <2>9, TameWaits
    <3>2. r \in queue \/ pending
      BY <2>1, <3>1 DEF DiskInv, PollInv, Polled
    <3>3. QED
      BY <1>d, <2>1, <2>3, <2>5, <3>1, <3>2 DEF Polled
  <2>10. QED
    BY <2>7, <2>8, <2>9 DEF DiskInv, PollInv
<1>10. CASE NoPrice
  BY <1>10, WaitDisk DEF NoPrice, WaitOrExpire, counters, history
<1>11. CASE DriftSkip
  <2> DEFINE x == [d EXCEPT !.drift_alert_sent = TRUE]
  <2>1. /\ pc = "pricing" /\ d.drift_alert_sent = FALSE /\ d.status = "SIGNALED" /\ GateAccepts(d)
        /\ \A s \in cur : (dossier[s] = d \/ Discarded(s)) /\ ~HasOpen(s)
        /\ \E s \in Symbols : cur = {s}
    BY <1>11 DEF DriftSkip, DriftNoted, TaskInv, Single, DiskInv, CopyInv, FreeInv
  <2>2. /\ x \in Dossier /\ x.status = "SIGNALED" /\ x.episode = d.episode
        /\ x.attempted = d.attempted /\ x.drift_alert_sent = TRUE /\ d.episode \in Episodes
    BY <1>d, <2>1, NotedTyped, GateDirection
  <2>3. /\ Save(x) /\ Suspend("warning", x)
        /\ UNCHANGED <<trades, entryPending, fired, resets, retired, looked>>
        /\ driftRows' = [driftRows EXCEPT ![d.episode] =
                            IF driftRows[d.episode] < 2 THEN driftRows[d.episode] + 1
                            ELSE driftRows[d.episode]]
    BY <1>11 DEF DriftSkip, DriftNoted, counters
  <2> HIDE DEF x
  <2>4. \A s \in Symbols : dossier'[s] = IF s \in cur THEN x ELSE dossier[s]
    BY <1>d, <2>2, <2>3, SaveEffect
  <2>5. Tame
    BY <1>m, <2>1, <2>3 DEF FinishFire
  <2>6. Rows
    <3>0. d.episode \in Nat /\ retired \in Nat /\ fired \in Nat /\ retired <= fired
      BY <1>d, DossierTyped DEF TypeOK, DiskInv, EpisodeInv
    <3>1. driftRows[d.episode] = 0 /\ d.episode <= fired
      BY <2>1, <2>2, <3>0 DEF DiskInv, EpisodeInv, Discarded
    <3>2. driftRows'[d.episode] = 1 /\ \A e \in Episodes \ {d.episode} : driftRows'[e] = driftRows[e]
      BY <2>2, <2>3, <3>1 DEF TypeOK
    <3>3. \A s \in Symbols : dossier'[s].episode = d.episode => dossier'[s].drift_alert_sent
      <4>1. d.episode # 0
        BY <2>2 DEF Episodes
      <4>2. QED
        BY <2>1, <2>2, <2>4, <4>1 DEF DiskInv, EpisodeInv, Discarded
    <3>4. QED
      BY <3>1, <3>2, <3>3 DEF Rows
  <2>7. OneTrade' /\ OpenKept' /\ EpisodeInv' /\ DriftSkipOnce'
    BY <2>3, <2>5, <2>6, TameEpisodes, TameTrades DEF DiskInv
  <2>8. CopyInv' /\ FreeInv'
    BY <2>1, <2>3, <2>4 DEF CopyInv, FreeInv, HasOpen, Suspend
  <2>9. PollInv'
    BY <2>1, <2>3, <2>5, TameWaits DEF DiskInv, PollInv, Polled, Suspend
  <2>10. QED
    BY <2>7, <2>8, <2>9 DEF DiskInv
<1>12. CASE Drifted
  BY <1>12, WaitDisk DEF Drifted, WaitOrExpire, counters, history
<1>13. CASE Confirm
  <2>1. CASE DeadlinePassed(d)
    BY <1>13, <2>1, WaitDisk DEF Confirm, counters, history
  <2>2. CASE UNCHANGED dossier /\ Suspend("sizing", d)
    <3>1. Quiet /\ UNCHANGED entryPending /\ pc = "pricing"
      BY <1>13, <2>2 DEF Confirm, Quiet, counters, history
    <3>2. Local
      BY <2>2, <3>1 DEF Suspend, Quiet, DiskInv, CopyInv, Discarded, FreeInv, PollInv, Polled, Waits, AwaitsEntry, HasOpen
    <3>3. QED
      BY <1>q, <3>1, <3>2
  <2>3. QED
    BY <1>13, <2>1, <2>2 DEF Confirm
<1>14. CASE OpenTrade
  <2>1. /\ pc = "sizing" /\ d.status = "SIGNALED"
        /\ (\A s \in cur : dossier[s] = d \/ Discarded(s))
        /\ \E s \in Symbols : cur = {s}
    BY <1>14 DEF OpenTrade, TaskInv, Single, DiskInv, CopyInv
  <2>2. UNCHANGED <<dossier, entryPending, fired, resets, retired, looked, driftRows, queue, pending>>
        /\ pc' = "announcing"
    BY <1>14 DEF OpenTrade, Suspend, counters
  <2>3. \A t \in trades' : \/ t \in trades /\ t.symbol \notin cur
                           \/ t.symbol \in cur /\ \A u \in trades' : u.symbol = t.symbol => u = t
    BY <1>14, <2>1 DEF OpenTrade
  <2>4. OneTrade'
    BY <2>3 DEF DiskInv, OneTrade
  <2>5. OpenKept'
    <3>1. \A t \in trades' : t \in trades \/ (t.symbol \in cur /\ t.episode = d.episode)
      BY <1>14 DEF OpenTrade
    <3>2. \A s \in cur : dossier[s].status = "SIGNALED" \/ (resets > 0 /\ d.episode <= retired)
      BY <2>1 DEF Discarded
    <3>3. QED
      BY <2>2, <3>1, <3>2 DEF DiskInv, OpenKept
  <2>6. EpisodeInv' /\ DriftSkipOnce'
    BY <2>2, TameEpisodes, UnchangedIsTame DEF DiskInv, Rows
  <2>7. CopyInv' /\ FreeInv'
    BY <2>2 DEF CopyInv, FreeInv
  <2>8. ASSUME NEW s \in Symbols, Waits(s)' PROVE Waits(s)
    <3>1. \A t \in trades : t.symbol \in cur \/ t \in trades'
      BY <1>14 DEF OpenTrade
    <3>2. \A r \in cur : \E t \in trades' : t.symbol = r
      <4>1. \A r \in cur :
               [symbol |-> r, dir |-> d.opinion.dir, episode |-> d.episode] \in trades'
        BY <1>14 DEF OpenTrade
      <4>2. QED
        BY <4>1
    <3>3. QED
      BY <2>2, <2>8, <3>1, <3>2 DEF Waits, AwaitsEntry, HasOpen
  <2>9. PollInv'
    BY <2>1, <2>2, <2>8 DEF DiskInv, PollInv, Polled
  <2>10. QED
    BY <2>4, <2>5, <2>6, <2>7, <2>9 DEF DiskInv
<1>15. CASE Announced
  <2>1. Quiet
    BY <1>15 DEF Announced, NextSymbol, Quiet, clocks, counters, history
  <2>2. CopyInv' /\ FreeInv'
    BY <1>15, <2>1 DEF Announced, NextSymbol, Quiet, DiskInv, CopyInv, FreeInv, HasOpen, TaskInv, Single
  <2>3. PollInv'
    BY <1>15, <2>1 DEF Announced, NextSymbol, Quiet, DiskInv, PollInv, Polled, Waits, AwaitsEntry, HasOpen, TaskInv, Single
  <2>4. QED
    BY <1>q, <2>1, <2>2, <2>3
<1>16. CASE EntriesDone
  <2>1. /\ UNCHANGED <<dossier, fired, resets, retired, looked, driftRows>> /\ trades' \subseteq trades
        /\ pc = "entering" /\ queue = {} /\ entryPending' = pending
        /\ pc' = "retiring" /\ queue' = Expired
        /\ \A t \in trades : t \in trades' \/ t.symbol \in Expired
        /\ \A t \in trades' : t.symbol \notin Expired
    BY <1>16 DEF EntriesDone, counters, history
  <2>2. CopyInv' /\ FreeInv'
    BY <2>1 DEF CopyInv, FreeInv, HasOpen
  <2>3. PollInv'
    BY <2>1 DEF DiskInv, PollInv, Polled, Waits, AwaitsEntry, HasOpen
  <2>4. QED
    BY <1>t, <2>1, <2>2, <2>3, UnchangedIsTame
<1>17. ASSUME NEW s \in queue, Retire(s) PROVE DiskInv'
  <2>1. /\ pc = "retiring" /\ pc' = pc /\ cur = {} /\ cur' = cur /\ s \in Symbols /\ ~HasOpen(s)
        /\ dossier' = [dossier EXCEPT ![s] = ResetToActive(dossier[s])] /\ queue' = queue \ {s}
        /\ UNCHANGED <<trades, entryPending, fired, resets, retired, looked, driftRows>>
    BY <1>17 DEF Retire, DiskInv, FreeInv, TypeOK, TaskInv, Single, counters, history
  <2>2. /\ ResetToActive(dossier[s]).status = "ACTIVE" /\ ResetToActive(dossier[s]).episode = 0
        /\ ResetToActive(dossier[s]).attempted = FALSE
    BY <1>d, <2>1, ResetTyped
  <2>3. Tame
    BY <1>m, <2>1 DEF FinishFire
  <2>4. CopyInv' /\ FreeInv'
    BY <2>1 DEF DiskInv, CopyInv, FreeInv, HasOpen
  <2>5. PollInv'
    BY <1>d, <2>1, <2>2, <2>3, TameWaits DEF DiskInv, PollInv, Polled
  <2>6. QED
    BY <1>t, <2>1, <2>3, <2>4, <2>5
<1>18. CASE RetiringDone
  <2>1. Quiet
    BY <1>18 DEF RetiringDone, Rest, Quiet, clocks, counters, history
  <2>2. CopyInv' /\ FreeInv'
    BY <1>18, <2>1 DEF RetiringDone, Rest, Quiet, DiskInv, CopyInv, FreeInv, HasOpen, TaskInv, Single
  <2>3. PollInv'
    BY <1>18, <2>1 DEF RetiringDone, Rest, Quiet, DiskInv, PollInv, Polled, Waits, AwaitsEntry, HasOpen, TaskInv, Single
  <2>4. QED
    BY <1>q, <2>1, <2>2, <2>3
<1>19. ASSUME NEW priced \in SUBSET Symbols, Fetched(priced) PROVE DiskInv'
  <2>1. Quiet
    BY <1>19 DEF Fetched, Quiet, clocks, counters, history
  <2>2. CopyInv' /\ FreeInv'
    BY <1>19, <2>1 DEF Fetched, Quiet, DiskInv, CopyInv, FreeInv, HasOpen, TaskInv, Single
  <2>3. PollInv'
    BY <1>19, <2>1 DEF Fetched, Quiet, DiskInv, PollInv, Polled, Waits, AwaitsEntry, HasOpen, TaskInv, Single
  <2>4. QED
    BY <1>q, <2>1, <2>2, <2>3
<1>20. ASSUME NEW t \in trades, Mark(t) PROVE DiskInv'
  <2>1. /\ pc = "marking" /\ trades' \subseteq trades /\ cur = {} /\ t.symbol \in Symbols
        /\ UNCHANGED <<dossier, entryPending, fired, resets, retired, looked, driftRows>>
        /\ \/ UNCHANGED <<trades, pc, cur>>
           \/ trades' = trades \ {t} /\ pc' = "settling" /\ cur' = {t.symbol}
    BY <1>20 DEF Mark, TaskInv, Single, TypeOK, Trade, counters, history
  <2>2. CopyInv' /\ FreeInv'
    BY <2>1 DEF DiskInv, OneTrade, CopyInv, FreeInv, HasOpen
  <2>3. PollInv'
    BY <2>1 DEF DiskInv, PollInv, Polled, Waits, AwaitsEntry, HasOpen
  <2>4. QED
    BY <1>t, <2>1, <2>2, <2>3, UnchangedIsTame
<1>21. ASSUME NEW s \in queue, MarkGone(s) PROVE DiskInv'
  <2>1. Quiet
    BY <1>21 DEF MarkGone, Quiet, clocks, counters, history
  <2>2. CopyInv' /\ FreeInv'
    BY <1>21, <2>1 DEF MarkGone, Quiet, DiskInv, CopyInv, FreeInv, HasOpen, TaskInv, Single
  <2>3. PollInv'
    BY <1>21, <2>1 DEF MarkGone, Quiet, DiskInv, PollInv, Polled, Waits, AwaitsEntry, HasOpen, TaskInv, Single
  <2>4. QED
    BY <1>q, <2>1, <2>2, <2>3
<1>22. CASE Settle
  <2>1. /\ pc = "settling" /\ pc' = "marking" /\ cur' = {} /\ (\A s \in cur : ~HasOpen(s))
        /\ UNCHANGED <<trades, entryPending, fired, resets, retired, looked, driftRows>>
    BY <1>22 DEF Settle, DiskInv, FreeInv, counters, history
  <2>2. \A s \in Symbols : dossier'[s] = IF s \in cur THEN ResetToActive(dossier[s]) ELSE dossier[s]
    BY <1>22 DEF Settle
  <2>3. \A s \in Symbols :
           /\ ResetToActive(dossier[s]).status = "ACTIVE" /\ ResetToActive(dossier[s]).episode = 0
           /\ ResetToActive(dossier[s]).attempted = FALSE
    BY <1>d, ResetTyped
  <2>4. Tame
    BY <1>m, <2>1 DEF FinishFire
  <2>5. CopyInv' /\ FreeInv'
    BY <2>1 DEF CopyInv, FreeInv
  <2>6. PollInv'
    BY <2>1, <2>2, <2>3, <2>4, TameWaits DEF DiskInv, PollInv, Polled
  <2>7. QED
    BY <1>t, <2>1, <2>4, <2>5, <2>6
<1>23. CASE MarkingDone
  <2>1. Quiet
    BY <1>23 DEF MarkingDone, Rest, Quiet, clocks, counters, history
  <2>2. CopyInv' /\ FreeInv'
    BY <1>23, <2>1 DEF MarkingDone, Rest, Quiet, DiskInv, CopyInv, FreeInv, HasOpen, TaskInv, Single
  <2>3. PollInv'
    BY <1>23, <2>1 DEF MarkingDone, Rest, Quiet, DiskInv, PollInv, Polled, Waits, AwaitsEntry, HasOpen, TaskInv, Single
  <2>4. QED
    BY <1>q, <2>1, <2>2, <2>3
<1>24. CASE ResetRuntime
  <2>1. /\ resets \in Nat /\ resets' = resets + 1 /\ retired' = fired /\ trades' = {}
        /\ UNCHANGED <<pc, cur, d, queue, pending, fired, looked, driftRows>>
        /\ fired \in Nat /\ retired \in Nat /\ d.episode \in Nat
    BY <1>d, <1>24, DossierTyped DEF ResetRuntime, TypeOK, task, history
  <2>2. \A s \in Symbols : dossier'[s] = Wiped(dossier[s])
    BY <1>24 DEF ResetRuntime
  <2>3. \A s \in Symbols :
           dossier'[s].status = "ACTIVE" /\ dossier'[s].episode = 0 /\ dossier'[s].attempted = FALSE
    <3> TAKE s \in Symbols
    <3>1. dossier[s] \in Dossier
      BY <1>d
    <3>2. Wiped(dossier[s]).status = "ACTIVE" /\ Wiped(dossier[s]).episode = 0 /\ Wiped(dossier[s]).attempted = FALSE
      BY <3>1, WipedTyped
    <3>3. QED
      BY <2>2, <3>2
  <2>4. EpisodeInv' /\ DriftSkipOnce'
    <3>1. \A e \in Episodes : e # 0
      BY DEF Episodes
    <3>2. QED
      BY <2>1, <2>3, <3>1 DEF DiskInv, EpisodeInv, DriftSkipOnce
  <2>5. ASSUME pc \in Copying, NEW s \in cur PROVE Discarded(s)'
    <3>1. s \in Symbols /\ (dossier[s] = d \/ Discarded(s))
      BY <2>5 DEF TypeOK, DiskInv, CopyInv
    <3>2. dossier'[s] = Wiped(d)
      BY <1>d, <2>2, <3>1, WipedTwice DEF Discarded
    <3>3. /\ d.episode <= fired
          /\ d.attempted => d.episode \in looked
          /\ \A e \in Episodes : driftRows[e] # 0 /\ d.episode = e => d.drift_alert_sent
      BY <2>1, <3>1 DEF Discarded, DiskInv, EpisodeInv
    <3>4. QED
      BY <2>1, <2>3, <3>2, <3>3 DEF Discarded
  <2>6. CopyInv' /\ FreeInv'
    BY <2>1, <2>3, <2>5 DEF CopyInv, FreeInv, HasOpen, TypeOK
  <2>7. OneTrade' /\ OpenKept' /\ PollInv'
    BY <2>1, <2>3 DEF OneTrade, OpenKept, PollInv, Waits, AwaitsEntry
  <2>8. QED
    BY <2>4, <2>6, <2>7 DEF DiskInv
<1>25. CASE Crash
  <2>1. Quiet
    BY <1>25 DEF Crash, Rest, Quiet, clocks, counters, history
  <2>2. CopyInv' /\ FreeInv'
    BY <1>25, <2>1 DEF Crash, Rest, Quiet, DiskInv, CopyInv, FreeInv, HasOpen, TaskInv, Single
  <2>3. PollInv'
    BY <1>25, <2>1 DEF Crash, Rest, Quiet, DiskInv, PollInv, Polled, Waits, AwaitsEntry, HasOpen, TaskInv, Single
  <2>4. QED
    BY <1>q, <2>1, <2>2, <2>3
<1>26. ASSUME NEW e \in Episodes, DeadlineComes(e) PROVE DiskInv'
  <2>1. Quiet
    BY <1>26 DEF DeadlineComes, Quiet, task, clocks, counters, history
  <2>2. CopyInv' /\ FreeInv'
    BY <1>26, <2>1 DEF DeadlineComes, Quiet, task, DiskInv, CopyInv, Discarded, FreeInv, HasOpen, TaskInv, Single
  <2>3. PollInv'
    BY <1>26, <2>1 DEF DeadlineComes, Quiet, task, DiskInv, PollInv, Polled, Waits, AwaitsEntry, HasOpen, TaskInv, Single
  <2>4. QED
    BY <1>q, <2>1, <2>2, <2>3
<1>27. ASSUME NEW s \in Symbols, HorizonComes(s) PROVE DiskInv'
  <2>1. Quiet
    BY <1>27 DEF HorizonComes, Quiet, task, clocks, counters, history
  <2>2. CopyInv' /\ FreeInv'
    BY <1>27, <2>1 DEF HorizonComes, Quiet, task, DiskInv, CopyInv, Discarded, FreeInv, HasOpen, TaskInv, Single
  <2>3. PollInv'
    BY <1>27, <2>1 DEF HorizonComes, Quiet, task, DiskInv, PollInv, Polled, Waits, AwaitsEntry, HasOpen, TaskInv, Single
  <2>4. QED
    BY <1>q, <2>1, <2>2, <2>3
<1>28. CASE Gateway
  <2>1. Quiet
    BY <1>28 DEF Gateway, Quiet, task, clocks, counters, history
  <2>2. CopyInv' /\ FreeInv'
    BY <1>28, <2>1 DEF Gateway, Quiet, task, DiskInv, CopyInv, Discarded, FreeInv, HasOpen, TaskInv, Single
  <2>3. PollInv'
    BY <1>28, <2>1 DEF Gateway, Quiet, task, DiskInv, PollInv, Polled, Waits, AwaitsEntry, HasOpen, TaskInv, Single
  <2>4. QED
    BY <1>q, <2>1, <2>2, <2>3
<1>29. CASE UNCHANGED vars
  <2>1. Quiet
    BY <1>29 DEF vars, Quiet, task, clocks, counters, history
  <2>2. CopyInv' /\ FreeInv'
    BY <1>29, <2>1 DEF vars, Quiet, task, DiskInv, CopyInv, Discarded, FreeInv, HasOpen, TaskInv, Single
  <2>3. PollInv'
    BY <1>29, <2>1 DEF vars, Quiet, task, DiskInv, PollInv, Polled, Waits, AwaitsEntry, HasOpen, TaskInv, Single
  <2>4. QED
    BY <1>q, <2>1, <2>2, <2>3
<1> QED
  BY <1>1, <1>2, <1>3, <1>4, <1>5, <1>6, <1>7, <1>8, <1>9, <1>10, <1>11, <1>12, <1>13, <1>14,
     <1>15, <1>16, <1>17, <1>18, <1>19, <1>20, <1>21, <1>22, <1>23, <1>24, <1>25, <1>26,
     <1>27, <1>28, <1>29 DEF Next, TaskStep

-----------------------------------------------------------------------------
(* The theorems.                                                           *)

\* Every dossier, trade and copy stays within its type, whatever is reset.
THEOREM TypeCorrect == Spec => []TypeOK
<1>1. TypeOK /\ TaskInv /\ [Next]_vars => (TypeOK /\ TaskInv)'
  BY TypeStep
<1>2. QED
  BY <1>1, TypeInit, PTL DEF Spec

\* The inductive invariant.
THEOREM Invariance == Spec => [](TypeOK /\ TaskInv /\ DiskInv)
<1>1. Init => TypeOK /\ TaskInv /\ DiskInv
  BY TypeInit, DiskInit
<1>2. TypeOK /\ TaskInv /\ DiskInv /\ [Next]_vars => (TypeOK /\ TaskInv /\ DiskInv)'
  BY TypeStep, DiskStep
<1>3. QED
  BY <1>1, <1>2, PTL DEF Spec

\* Without a reset nothing is ever discarded.
LEMMA NoReset ==
  ASSUME resets = 0, TypeOK, DiskInv
  PROVE  pc \in Copying => \A s \in cur : dossier[s] = d
BY DEF DiskInv, CopyInv, Discarded

\* No open position is left behind by its dossier, through any crash, unless a
\* reset of the runtime state has retired its episode.
THEOREM NoPositionOrphaned == Spec => []OpenIsSignaled
<1>1. DiskInv => OpenIsSignaled
  BY DEF DiskInv, OpenKept, OpenIsSignaled
<1>2. QED
  BY <1>1, Invariance, PTL

\* When the task rests, a signal waiting for its entry has the short poll
\* interval, but for one that a reset had discarded and a save brought back.
THEOREM WaitingPolled == Spec => []WaitingIsPolled
<1>1. DiskInv => WaitingIsPolled
  BY DEF DiskInv, PollInv, Waits, Polled, WaitingIsPolled, Gated
<1>2. QED
  BY <1>1, Invariance, PTL

\* The ledger has at most one drift_skip row for an episode, whatever is
\* cut off, retried or reset.
THEOREM OneDriftRow == Spec => []DriftSkipOnce
<1>1. DiskInv => DriftSkipOnce
  BY DEF DiskInv
<1>2. QED
  BY <1>1, Invariance, PTL

LEMMA EntryStep ==
  ASSUME TypeOK, TaskInv, DiskInv, [Next]_vars,
         NEW t \in trades' \ trades
  PROVE  LET x == dossier[t.symbol]
         IN  /\ Qualifies(x) /\ x.opinion.dir = t.dir
             /\ \/ x.status = "SIGNALED" /\ x.episode = t.episode
                \/ x.status = "ACTIVE" /\ t.episode <= retired
<1>1. CASE OpenTrade
  <2>1. d \in Dossier /\ \A s \in cur : dossier[s] = d \/ Discarded(s)
    BY <1>1 DEF OpenTrade, DiskInv, CopyInv, Copying, Gated, TypeOK
  <2>2. d.status = "SIGNALED" /\ Qualifies(d)
    BY <1>1 DEF OpenTrade, TaskInv, Gated, GateAccepts
  <2>3. t.symbol \in cur /\ t.dir = d.opinion.dir /\ t.episode = d.episode
    BY <1>1 DEF OpenTrade
  <2>4. CASE dossier[t.symbol] = d
    BY <2>2, <2>3, <2>4
  <2>5. CASE Discarded(t.symbol)
    <3>1. dossier[t.symbol] = Wiped(d) /\ d.episode <= retired
      BY <2>5 DEF Discarded
    <3>2. QED
      BY <2>1, <2>2, <2>3, <3>1, WipedTyped DEF Qualifies
  <2>6. QED
    BY <2>1, <2>3, <2>4, <2>5
<1>2. CASE ~OpenTrade
  <2>1. CASE TaskStep
    BY <1>2, <2>1
    DEF TaskStep, NothingMerged, Merge, Decay, FinishFire, SkipSymbol, TryOpen, NoPrice, DriftSkip,
        Drifted, Confirm, Announced, EntriesDone, Retire, RetiringDone, Fetched, Mark, MarkGone,
        Settle, MarkingDone
  <2>2. CASE ~TaskStep
    BY <2>2
    DEF Next, BeginMerge, BeginDecay, Load, BeginPoll, ResetRuntime, Crash, DeadlineComes,
        HorizonComes, Gateway, vars
  <2>3. QED
    BY <2>1, <2>2
<1>3. QED
  BY <1>1, <1>2

\* A position is opened on the thesis that is stored when it opens, whatever
\* came between the gate and the open; and under the stored episode, unless a
\* reset has discarded it.
THEOREM EntryFaithful == Spec => EntryOnStoredThesis
<1>1. TypeOK /\ TaskInv /\ DiskInv /\ [Next]_vars =>
        [\A t \in trades' \ trades :
            LET x == dossier[t.symbol]
            IN  /\ Qualifies(x) /\ x.opinion.dir = t.dir
                /\ \/ x.status = "SIGNALED" /\ x.episode = t.episode
                   \/ x.status = "ACTIVE" /\ t.episode <= retired]_vars
  BY EntryStep
<1>2. QED
  BY <1>1, Invariance, PTL DEF Spec, EntryOnStoredThesis

LEMMA LookStep ==
  ASSUME TypeOK, TaskInv, DiskInv, [Next]_vars,
         pc \in {"merging", "judging", "firing"}, pc' # pc,
         NEW s \in Symbols, dossier[s].episode # 0, dossier[s].episode \notin looked,
         dossier'[s].episode # dossier[s].episode
  PROVE  dossier'[s].opinion.dir # dossier[s].signaled_direction \/ dossier'[s].opinion.level = "low"
<1>1. dossier \in [Symbols -> Dossier] /\ d \in Dossier /\ dossier[s].attempted = FALSE
  BY DossierTyped DEF TypeOK, DiskInv, EpisodeInv
<1>2. ASSUME NEW th \in Thesis, NEW v \in Verdicts, NEW x \in {Judged(d, th, v)},
             pc \in {"merging", "judging"},
             \/ UNCHANGED dossier
             \/ Save(x)
             \/ Save(ResetToActive(x)) /\ ShouldExpireUnopened(x)
      PROVE  dossier'[s].opinion.dir # dossier[s].signaled_direction \/ dossier'[s].opinion.level = "low"
  <2>1. /\ x \in Dossier /\ x.episode = d.episode /\ x.attempted = d.attempted
        /\ x.signaled_direction = d.signaled_direction
    BY <1>1, <1>2, JudgedTyped
  <2>2. ResetToActive(x) \in Dossier /\ ResetToActive(x).opinion = x.opinion
    BY <2>1, ResetTyped
  <2>3. s \in cur /\ dossier[s] = d
    <3>1. s \in cur
      BY <1>1, <1>2, <2>1, <2>2, SaveEffect
    <3>2. dossier[s] = d \/ Discarded(s)
      BY <1>2, <3>1 DEF DiskInv, CopyInv, Copying
    <3>3. ~Discarded(s)
      BY <1>1, WipedTyped DEF Discarded
    <3>4. QED
      BY <3>1, <3>2, <3>3
  <2>4. dossier'[s] = ResetToActive(x) /\ ShouldExpireUnopened(x)
    BY <1>1, <1>2, <2>1, <2>2, <2>3, SaveEffect
  <2>5. QED
    BY <1>1, <2>1, <2>2, <2>3, <2>4 DEF ShouldExpireUnopened, Flipped
<1>3. ASSUME NEW th \in Thesis, NEW v \in Verdicts, Merge(th, v)
      PROVE  dossier'[s].opinion.dir # dossier[s].signaled_direction \/ dossier'[s].opinion.level = "low"
  BY <1>2, <1>3 DEF Merge
<1>4. ASSUME NEW th \in Thesis, NEW v \in Verdicts, NEW written \in BOOLEAN, Decay(th, v, written)
      PROVE  dossier'[s].opinion.dir # dossier[s].signaled_direction \/ dossier'[s].opinion.level = "low"
  BY <1>2, <1>4 DEF Decay
<1>5. CASE FinishFire
  <2>1. s \in cur /\ dossier'[s] = d
    BY <1>1, <1>5, SaveEffect DEF FinishFire
  <2>2. QED
    BY <1>5, <2>1 DEF FinishFire, DiskInv, CopyInv
<1>6. CASE UNCHANGED dossier
  BY <1>6
<1>7. QED
  <2>1. CASE TaskStep
    BY <1>3, <1>4, <1>5, <1>6, <2>1
    DEF TaskStep, NothingMerged, SkipSymbol, TryOpen, NoPrice, DriftSkip, Drifted, Confirm,
        OpenTrade, Announced, EntriesDone, Retire, RetiringDone, Fetched, Mark, MarkGone,
        Settle, MarkingDone
  <2>2. CASE ~TaskStep
    BY <1>6, <2>2
    DEF Next, BeginMerge, BeginDecay, Load, BeginPoll, ResetRuntime, Crash, DeadlineComes,
        HorizonComes, Gateway, vars, task
  <2>3. QED
    BY <2>1, <2>2

\* Before the gate has looked at an episode, only a flip or a material dip
\* ends it.
THEOREM LookedFirst == Spec => FirstLook
<1>1. TypeOK /\ TaskInv /\ DiskInv /\ [Next]_vars =>
        [\A s \in Symbols :
            LET e == dossier[s].episode
                x == dossier'[s]
            IN  /\ pc \in {"merging", "judging", "firing"} /\ pc' # pc
                /\ e # 0 /\ e \notin looked /\ x.episode # e
                => \/ x.opinion.dir # dossier[s].signaled_direction
                   \/ x.opinion.level = "low"]_vars
  BY LookStep
<1>2. QED
  BY <1>1, Invariance, PTL DEF Spec, FirstLook

-----------------------------------------------------------------------------
(* The engine implements SignalLifecycle up to the first crash or reset.   *)

LifeStep == [Life!LifeNext]_(Life!lifeVars)

\* What SignalOf is, without the choice of a trade.
Meaning ==
    \A s \in Symbols :
      /\ \A t \in trades : t.symbol = s => SignalOf(s) = Life!Held(t.episode, t.dir)
      /\ ~HasOpen(s) /\ dossier[s].status = "SIGNALED" /\ s \notin Settling
            => SignalOf(s) = Life!Waiting(dossier[s].episode, dossier[s].signaled_direction)
      /\ ~HasOpen(s) /\ (dossier[s].status # "SIGNALED" \/ s \in Settling)
            => SignalOf(s) = Life!Quiet

LEMMA SignalMeans == OneTrade => Meaning
<1>1. ASSUME OneTrade, NEW t \in trades PROVE SignalOf(t.symbol) = Life!Held(t.episode, t.dir)
  <2>1. (CHOOSE u \in trades : u.symbol = t.symbol) = t
    BY <1>1 DEF OneTrade
  <2>2. HasOpen(t.symbol)
    BY <1>1 DEF HasOpen
  <2>3. QED
    BY <2>1, <2>2 DEF SignalOf, Life!Held
<1>2. \A s : ~HasOpen(s) /\ dossier[s].status = "SIGNALED" /\ s \notin Settling
        => SignalOf(s) = Life!Waiting(dossier[s].episode, dossier[s].signaled_direction)
  BY DEF SignalOf, Life!Waiting
<1>3. \A s : ~HasOpen(s) /\ (dossier[s].status # "SIGNALED" \/ s \in Settling)
        => SignalOf(s) = Life!Quiet
  BY DEF SignalOf, Life!Quiet
<1>4. QED
  BY <1>1, <1>2, <1>3 DEF Meaning

LEMMA SignalMeansNext == OneTrade' => Meaning'
BY SignalMeans, PTL

\* The stage tells the three kinds of signal apart.
LEMMA Stages ==
  /\ Life!Quiet.stage = "quiet"
  /\ \A e, dir : /\ Life!Held(e, dir).stage = "held"
                 /\ Life!Held(e, dir).episode = e /\ Life!Held(e, dir).dir = dir
                 /\ Life!Waiting(e, dir).stage = "waiting"
                 /\ Life!Waiting(e, dir).episode = e /\ Life!Waiting(e, dir).dir = dir
BY DEF Life!Quiet, Life!Held, Life!Waiting

LEMMA StageOf ==
  ASSUME OneTrade, NEW s \in Symbols
  PROVE  SignalOf(s) # Life!Quiet => SignalOf(s).stage # "quiet"
BY SignalMeans, Stages DEF Meaning, HasOpen

\* A step after which every signal is as it was, or over.
LEMMA EndsLive ==
  ASSUME OneTrade, UNCHANGED fired,
         \A s \in Symbols : SignalOf(s)' \in {SignalOf(s), Life!Quiet}
  PROVE  LifeStep
<1> DEFINE Over == {s \in Symbols : SignalOf(s)' # SignalOf(s)}
<1>1. \A s \in Over : SignalOf(s).stage # "quiet" /\ SignalOf(s)' = Life!Quiet
  BY StageOf
<1>2. Life!End(Over)
  <2>1. [s \in Symbols |-> SignalOf(s)]' =
          [s \in Symbols |-> IF s \in Over THEN Life!Quiet ELSE SignalOf(s)]
    BY <1>1
  <2>2. QED
    BY <1>1, <2>1 DEF Life!End
<1>3. QED
  BY <1>2 DEF LifeStep, Life!LifeNext

\* Without a reset, a tame step that closes and opens nothing.
LEMMA TameLives ==
  ASSUME OneTrade, OneTrade', Tame, resets = 0, UNCHANGED <<trades, fired>>,
         \A s \in Symbols : dossier'[s].status = "SIGNALED" => (s \in Settling' <=> s \in Settling)
  PROVE  LifeStep
<1> SUFFICES ASSUME NEW s \in Symbols PROVE SignalOf(s)' \in {SignalOf(s), Life!Quiet}
  BY EndsLive
<1>1. CASE HasOpen(s)
  BY <1>1 DEF SignalOf, HasOpen
<1>2. CASE ~HasOpen(s) /\ dossier'[s].status # "SIGNALED"
  BY <1>2, SignalMeansNext DEF Meaning, HasOpen
<1>3. CASE ~HasOpen(s) /\ dossier'[s].status = "SIGNALED"
  <2>1. Kept(s)
    BY <1>3 DEF Tame, Released, Returned, Discarded
  <2>2. QED
    BY <1>3, <2>1 DEF SignalOf, HasOpen, Kept
<1>4. QED
  BY <1>1, <1>2, <1>3

LEMMA FireLives ==
  ASSUME TypeOK, TaskInv, DiskInv, OneTrade', FinishFire
  PROVE  LifeStep
<1>1. PICK s \in Symbols : cur = {s}
  BY DEF FinishFire, TaskInv, Single
<1>2. /\ pc = "firing" /\ pc' = "idle" /\ trades' = trades /\ fired' = fired + 1
      /\ d.status = "SIGNALED" /\ d.episode = fired + 1 /\ d \in Dossier
      /\ d.signaled_direction = d.opinion.dir
      /\ dossier[s].episode = 0 \/ d.opinion.dir # dossier[s].signaled_direction
  BY <1>1 DEF FinishFire, Rest, TaskInv, TypeOK, DiskInv, CopyInv
<1>3. d.signaled_direction \in Directions
  BY <1>2, DossierTyped DEF SignaledDossier
<1>4. dossier'[s] = d /\ \A r \in Symbols \ {s} : dossier'[r] = dossier[r]
  BY <1>1, <1>2, SaveEffect DEF FinishFire, TypeOK
<1>5. Settling = {} /\ Settling' = {}
  BY <1>2 DEF Settling
<1>6. \A r \in Symbols \ {s} : SignalOf(r)' = SignalOf(r)
  BY <1>2, <1>4, <1>5 DEF SignalOf, HasOpen
<1>7. CASE HasOpen(s)
  <2>1. SignalOf(s)' = SignalOf(s)
    BY <1>2, <1>7 DEF SignalOf, HasOpen
  <2>2. SignalOf(s).stage = "held"
    BY <1>7, SignalMeans, Stages DEF DiskInv, Meaning, HasOpen
  <2>3. Life!FireUnseen
    BY <1>2, <1>6, <2>1, <2>2 DEF Life!FireUnseen
  <2>4. QED
    BY <2>3 DEF LifeStep, Life!LifeNext
<1>8. CASE ~HasOpen(s)
  <2>1. SignalOf(s)' = Life!Waiting(fired', d.signaled_direction)
    BY <1>2, <1>4, <1>5, <1>8, SignalMeansNext DEF Meaning, HasOpen
  <2>2. /\ SignalOf(s).stage # "held"
        /\ SignalOf(s).stage = "waiting" => SignalOf(s).dir = dossier[s].signaled_direction
                                            /\ dossier[s].status = "SIGNALED"
    BY <1>5, <1>8, SignalMeans, Stages DEF DiskInv, Meaning
  <2>3. dossier[s].status = "SIGNALED" => dossier[s].signaled_direction # d.signaled_direction
    <3>1. dossier[s].status = "SIGNALED" => dossier[s].episode # 0
      BY DossierTyped DEF TypeOK, SignaledDossier, Episodes
    <3>2. QED
      BY <1>2, <3>1
  <2>4. [r \in Symbols |-> SignalOf(r)]' =
          [[r \in Symbols |-> SignalOf(r)] EXCEPT ![s] = Life!Waiting(fired', d.signaled_direction)]
    BY <1>6, <2>1
  <2>5. Life!Fire(s, d.signaled_direction)
    BY <1>2, <2>2, <2>3, <2>4 DEF Life!Fire, Life!Become
  <2>6. QED
    BY <1>3, <2>5 DEF LifeStep, Life!LifeNext
<1>9. QED
  BY <1>7, <1>8

LEMMA OpenLives ==
  ASSUME resets = 0, TypeOK, TaskInv, DiskInv, OneTrade', OpenTrade
  PROVE  LifeStep
<1>1. PICK s \in Symbols : cur = {s}
  BY DEF OpenTrade, TaskInv, Single
<1>2. /\ pc = "sizing" /\ pc' = "announcing" /\ UNCHANGED <<dossier, fired>>
      /\ d.status = "SIGNALED" /\ GateAccepts(d) /\ dossier[s] = d /\ ~HasOpen(s)
  BY <1>1, NoReset DEF OpenTrade, Suspend, TaskInv, DiskInv, FreeInv, Gated, Copying, counters
<1>3. d.opinion.dir = d.signaled_direction
  BY <1>2 DEF GateAccepts, Flipped
<1>4. Settling = {} /\ Settling' = {}
  BY <1>2 DEF Settling
<1> DEFINE new == [symbol |-> s, dir |-> d.opinion.dir, episode |-> d.episode]
<1>5. trades' = {t \in trades : t.symbol # s} \cup {new}
  BY <1>1 DEF OpenTrade
<1>6. SignalOf(s) = Life!Waiting(d.episode, d.opinion.dir)
  BY <1>2, <1>3, <1>4, SignalMeans DEF DiskInv, Meaning
<1>7. SignalOf(s)' = Life!Held(d.episode, d.opinion.dir)
  <2>1. new \in trades' /\ new.symbol = s /\ new.dir = d.opinion.dir /\ new.episode = d.episode
    BY <1>5
  <2> HIDE DEF new
  <2>2. SignalOf(s)' = Life!Held(new.episode, new.dir)
    BY <2>1, SignalMeansNext DEF Meaning
  <2>3. QED
    BY <2>1, <2>2
<1>8. ASSUME NEW r \in Symbols \ {s} PROVE SignalOf(r)' = SignalOf(r)
  <2>1. HasOpen(r)' <=> HasOpen(r)
    BY <1>5 DEF HasOpen
  <2>2. CASE HasOpen(r)
    <3>1. PICK t \in trades : t.symbol = r
      BY <2>2 DEF HasOpen
    <3>2. t \in trades'
      BY <1>5, <3>1
    <3>3. QED
      BY <3>1, <3>2, SignalMeans, SignalMeansNext DEF DiskInv, Meaning
  <2>3. CASE ~HasOpen(r)
    BY <1>2, <1>4, <2>1, <2>3 DEF SignalOf
  <2>4. QED
    BY <2>2, <2>3
<1>9. Life!Enter(s)
  <2>1. [r \in Symbols |-> SignalOf(r)]' =
          [[r \in Symbols |-> SignalOf(r)] EXCEPT ![s] = Life!Held(d.episode, d.opinion.dir)]
    BY <1>7, <1>8
  <2>2. /\ SignalOf(s).stage = "waiting"
        /\ SignalOf(s).episode = d.episode /\ SignalOf(s).dir = d.opinion.dir
    BY <1>6, Stages
  <2>3. QED
    BY <1>2, <2>1, <2>2 DEF Life!Enter, Life!Become
<1>10. QED
  BY <1>9 DEF LifeStep, Life!LifeNext

\* Trades close, and their dossiers are about to be reset.
LEMMA CloseLives ==
  ASSUME TypeOK, OneTrade, OneTrade', UNCHANGED <<dossier, fired>>, Settling = {},
         trades' = {t \in trades : t.symbol \notin Settling'}
  PROVE  LifeStep
<1> SUFFICES ASSUME NEW s \in Symbols PROVE SignalOf(s)' \in {SignalOf(s), Life!Quiet}
  BY EndsLive
<1>1. CASE s \in Settling'
  <2>1. ~HasOpen(s)'
    BY <1>1 DEF HasOpen
  <2>2. QED
    BY <1>1, <2>1, SignalMeansNext DEF Meaning
<1>2. CASE s \notin Settling' /\ ~HasOpen(s)
  BY <1>2 DEF SignalOf, HasOpen
<1>3. CASE s \notin Settling' /\ HasOpen(s)
  <2>1. PICK t \in trades : t.symbol = s
    BY <1>3 DEF HasOpen
  <2>2. t \in trades'
    BY <1>3, <2>1
  <2>3. QED
    BY <2>1, <2>2, SignalMeans, SignalMeansNext DEF Meaning
<1>4. QED
  BY <1>1, <1>2, <1>3

\* Who counts a crash or a reset.
LEMMA Undisturbed ==
  ASSUME TypeOK, [Next]_vars, crashes' = 0, resets' = 0
  PROVE  ~Crash /\ ~ResetRuntime /\ resets = 0
<1>1. crashes \in Nat /\ resets \in Nat
  BY EngineAssumption DEF TypeOK
<1>2. ~Crash /\ ~ResetRuntime
  BY <1>1 DEF Crash, ResetRuntime
<1>3. CASE TaskStep
  <2>1. ASSUME NEW th \in Thesis, NEW v \in Verdicts, Merge(th, v) PROVE UNCHANGED counters
    BY <2>1 DEF Merge
  <2>2. ASSUME NEW th \in Thesis, NEW v \in Verdicts, NEW written \in BOOLEAN, Decay(th, v, written)
        PROVE  UNCHANGED counters
    BY <2>2 DEF Decay
  <2>3. ASSUME NothingMerged \/ FinishFire \/ EntriesDone \/ RetiringDone \/ Settle \/ MarkingDone
        PROVE  UNCHANGED counters
    BY <2>3 DEF NothingMerged, FinishFire, EntriesDone, RetiringDone, Settle, MarkingDone
  <2>4. ASSUME NoPrice \/ DriftSkip \/ Drifted \/ Confirm \/ OpenTrade \/ Announced
        PROVE  UNCHANGED counters
    BY <2>4 DEF NoPrice, DriftSkip, Drifted, Confirm, OpenTrade, Announced
  <2>5. ASSUME NEW s \in queue, NEW marketOpen \in BOOLEAN, TryOpen(s, marketOpen)
        PROVE  UNCHANGED counters
    BY <2>5 DEF TryOpen
  <2>6. ASSUME NEW s \in queue, SkipSymbol(s) \/ Retire(s) \/ MarkGone(s) PROVE UNCHANGED counters
    BY <2>6 DEF SkipSymbol, Retire, MarkGone
  <2>7. ASSUME NEW priced \in SUBSET Symbols, Fetched(priced) PROVE UNCHANGED counters
    BY <2>7 DEF Fetched
  <2>8. ASSUME NEW t \in trades, Mark(t) PROVE UNCHANGED counters
    BY <2>8 DEF Mark
  <2>9. UNCHANGED counters
    BY <1>3, <2>1, <2>2, <2>3, <2>4, <2>5, <2>6, <2>7, <2>8 DEF TaskStep
  <2>10. QED
    BY <1>2, <2>9 DEF counters
<1>4. CASE ~TaskStep
  BY <1>2, <1>4 DEF Next, BeginMerge, BeginDecay, Load, BeginPoll, DeadlineComes, HorizonComes,
     Gateway, vars, counters
<1>5. QED
  BY <1>2, <1>3, <1>4

LEMMA StepLives ==
  ASSUME TypeOK, TaskInv, DiskInv, [Next]_vars, TypeOK', TaskInv', DiskInv',
         crashes' = 0, resets' = 0
  PROVE  LifeStep
<1> USE DEF Gated
<1>1. OneTrade /\ OneTrade' /\ resets = 0 /\ UNCHANGED resets
  BY Undisturbed DEF DiskInv
<1>2. CASE FinishFire
  BY <1>1, <1>2, FireLives
<1>3. CASE OpenTrade
  BY <1>1, <1>3, OpenLives
<1>4. CASE EntriesDone
  BY <1>1, <1>4, CloseLives DEF EntriesDone, Settling
<1>5. ASSUME NEW t \in trades, Mark(t) PROVE LifeStep
  <2>1. pc = "marking" /\ Settling = {} /\ UNCHANGED <<dossier, fired>>
    BY <1>5 DEF Mark, Settling
  <2>2. CASE UNCHANGED <<trades, pc>>
    <3>1. Settling' = {}
      BY <2>1, <2>2 DEF Settling
    <3>2. QED
      BY <1>1, <2>1, <2>2, <3>1, CloseLives
  <2>3. CASE trades' = trades \ {t} /\ pc' = "settling" /\ cur' = {t.symbol}
    <3>1. Settling' = {t.symbol}
      BY <2>3 DEF Settling
    <3>2. trades' = {u \in trades : u.symbol \notin Settling'}
      BY <1>1, <2>3, <3>1 DEF OneTrade
    <3>3. QED
      BY <1>1, <2>1, <3>2, CloseLives
  <2>4. QED
    BY <1>5, <2>2, <2>3 DEF Mark
<1>6. ASSUME ~FinishFire, UNCHANGED <<trades, fired>>,
             \A s \in Symbols : dossier'[s].status = "SIGNALED" => (s \in Settling' <=> s \in Settling)
      PROVE  LifeStep
  BY <1>1, <1>6, TameUnlessFired, TameLives
<1>7. ASSUME pc \notin {"firing", "retiring", "settling"}, pc' \notin {"retiring", "settling"},
             UNCHANGED <<trades, fired>>
      PROVE  LifeStep
  <2>1. ~FinishFire /\ Settling = {} /\ Settling' = {}
    BY <1>7 DEF FinishFire, Settling
  <2>2. QED
    BY <1>6, <1>7, <2>1
<1>8. ASSUME NEW s \in queue, Retire(s) PROVE LifeStep
  <2>1. /\ pc = "retiring" /\ pc' = pc /\ UNCHANGED <<trades, fired>>
        /\ s \in Symbols /\ dossier[s] \in Dossier /\ queue' = queue \ {s}
        /\ dossier' = [dossier EXCEPT ![s] = ResetToActive(dossier[s])]
    BY <1>8 DEF Retire, TypeOK
  <2>2. dossier'[s].status = "ACTIVE"
    BY <2>1, ResetTyped DEF TypeOK
  <2>3. Settling = queue /\ Settling' = queue \ {s} /\ ~FinishFire
    BY <2>1 DEF Settling, FinishFire
  <2>4. QED
    BY <1>6, <2>1, <2>2, <2>3
<1>9. CASE RetiringDone
  <2>1. /\ pc = "retiring" /\ queue = {} /\ pc' \in {"idle", "fetching"} /\ UNCHANGED <<trades, fired>>
    BY <1>9 DEF RetiringDone, Rest
  <2>2. Settling = {} /\ Settling' = {} /\ ~FinishFire
    BY <2>1 DEF Settling, FinishFire
  <2>3. QED
    BY <1>6, <2>1, <2>2
<1>10. CASE Settle
  <2>1. /\ pc = "settling" /\ pc' = "marking" /\ UNCHANGED <<trades, fired>>
        /\ \A s \in cur : dossier'[s] = ResetToActive(dossier[s])
    BY <1>10 DEF Settle, TypeOK
  <2>2. ASSUME NEW s \in cur PROVE dossier'[s].status = "ACTIVE"
    <3>1. dossier[s] \in Dossier
      BY DEF TypeOK
    <3>2. ResetToActive(dossier[s]).status = "ACTIVE"
      BY <3>1, ResetTyped
    <3>3. QED
      BY <2>1, <3>2
  <2>3. Settling = cur /\ Settling' = {} /\ ~FinishFire
    BY <2>1 DEF Settling, FinishFire
  <2>4. QED
    BY <1>6, <2>1, <2>2, <2>3
<1>11. ASSUME UNCHANGED <<trades, fired, task>> PROVE LifeStep
  <2>1. Settling' = Settling /\ ~FinishFire
    BY <1>11 DEF Settling, FinishFire, Rest, task
  <2>2. QED
    BY <1>6, <1>11, <2>1
<1>12. ~Crash /\ ~ResetRuntime
  BY Undisturbed
<1>13. QED
  <2>1. CASE TaskStep
    <3>1. CASE NothingMerged \/ MarkingDone \/ Announced
      BY <1>7, <3>1 DEF NothingMerged, MarkingDone, Announced, Rest, NextSymbol
    <3>2. CASE NoPrice \/ DriftSkip \/ Drifted \/ Confirm
      BY <1>7, <3>2 DEF NoPrice, DriftSkip, Drifted, Confirm, WaitOrExpire, NextSymbol, Suspend
    <3>3. ASSUME NEW th \in Thesis, NEW v \in Verdicts, Merge(th, v) PROVE LifeStep
      BY <1>7, <3>3 DEF Merge, Rest, Suspend
    <3>4. ASSUME NEW th \in Thesis, NEW v \in Verdicts, NEW written \in BOOLEAN,
                 Decay(th, v, written)
          PROVE  LifeStep
      BY <1>7, <3>4 DEF Decay, Rest, Suspend
    <3>5. ASSUME NEW s \in queue, NEW marketOpen \in BOOLEAN, TryOpen(s, marketOpen) PROVE LifeStep
      BY <1>7, <3>5 DEF TryOpen
    <3>6. ASSUME NEW s \in queue, SkipSymbol(s) \/ MarkGone(s) PROVE LifeStep
      BY <1>7, <3>6 DEF SkipSymbol, MarkGone
    <3>7. ASSUME NEW priced \in SUBSET Symbols, Fetched(priced) PROVE LifeStep
      BY <1>7, <3>7 DEF Fetched
    <3>8. QED
      BY <1>2, <1>3, <1>4, <1>5, <1>8, <1>9, <1>10, <2>1, <3>1, <3>2, <3>3, <3>4, <3>5, <3>6, <3>7
      DEF TaskStep
  <2>2. CASE ~TaskStep
    BY <1>7, <1>11, <1>12, <2>2
    DEF Next, BeginMerge, BeginDecay, Load, BeginPoll, DeadlineComes, HorizonComes, Gateway, vars
  <2>3. QED
    BY <2>1, <2>2

\* Up to the first crash or reset every step of the engine is
\* a step of SignalLifecycle or none: a signal fires once, is entered at most
\* once, in the direction it fired in, and ends once.
THEOREM RefinesLifecycle == Spec => ImplementsLifecycle
<1>1. Init => Life!LifeInit
  <2> SUFFICES ASSUME Init PROVE Life!LifeInit
    OBVIOUS
  <2>1. \A s \in Symbols : ~HasOpen(s) /\ dossier[s].status = "ACTIVE"
    BY BlankTyped DEF Init, HasOpen
  <2>2. \A s \in Symbols : SignalOf(s) = Life!Quiet
    BY <2>1 DEF SignalOf, Life!Quiet
  <2>3. QED
    BY <2>2 DEF Life!LifeInit, Init
<1>2. TypeOK /\ TaskInv /\ DiskInv /\ (TypeOK /\ TaskInv /\ DiskInv)' /\ [Next]_vars
        => [crashes' = 0 /\ resets' = 0 => Life!LifeNext]_(Life!lifeVars)
  BY StepLives DEF LifeStep
<1>3. QED
  BY <1>1, <1>2, Invariance, PTL DEF Spec, ImplementsLifecycle
=============================================================================
