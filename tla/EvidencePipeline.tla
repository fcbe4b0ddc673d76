-------------------------- MODULE EvidencePipeline --------------------------
(***************************************************************************)
(* How evidence reaches the dossiers (src/smartboi/engine.py): a poll      *)
(* offers every item a feed still shows; _process_evidence resolves which  *)
(* dossiers it concerns and hands it to each; _update_dossier has the      *)
(* updater propose a change, the skeptic review it, and merges it.  Each   *)
(* answer can fail to come (an error, or the day's budget is spent): the   *)
(* item is then deferred for that dossier and offered again by a later     *)
(* poll, until every dossier is done with it and its fingerprint is        *)
(* registered.                                                             *)
(*                                                                         *)
(* Propagation to linked dossiers is limited per link in a sliding window. *)
(* The fingerprints, the dossiers and the retry caches are on disk; the    *)
(* windows are not.  The polls run one after the other in the engine task, *)
(* so one item is in hand at a time.                                       *)
(*                                                                         *)
(* What an item says, and what its merge does to the score, is left to     *)
(* SignalEngine.  Items stay in their feed: the caches outlive every       *)
(* feed's lookback (_EVIDENCE_CACHE_TTL_SEC).                              *)
(***************************************************************************)
EXTENDS Naturals

CONSTANTS
    Tradeable,      \* the symbols with a dossier
    Origins,        \* the symbols evidence is about: these, anchors, regulators
    Items,          \* what the feeds show; see Item
    Links,          \* pairs of an origin and a tradeable linked from the start
    Discloses,      \* for each item, the pairs its extraction adds
    Peers,          \* pairs of an anchor and a tradeable of its ecosystem
    MaxPerLink,     \* max_propagated_evidence_per_link
    MaxPerPeer,     \* max_ecosystem_evidence_per_link
    MaxSixK,        \* max_6k_items_per_symbol_per_day
    MaxCrashes      \* bound: crashes

\* The kinds of feed: news; 10-K and 10-Q, whose relationships are extracted;
\* 6-K, which is capped; and the rest (other forms, contract awards, rules).
Feeds == {"news", "report", "6-K", "other"}

\* published is a day; id is the evidence_id, and a story that several
\* publishers tell has several items.
IsItem(i) ==
    /\ DOMAIN i = {"feed", "origin", "story", "published", "id"}
    /\ i.feed \in Feeds /\ i.origin \in Origins /\ i.published \in Nat

ASSUME PipelineAssumption ==
    /\ Tradeable \subseteq Origins
    /\ \A i \in Items : IsItem(i)
    /\ Links \subseteq Origins \X Tradeable
    /\ Peers \subseteq (Origins \ Tradeable) \X Tradeable
    /\ Discloses \in [Items -> SUBSET (Origins \X Tradeable)]
    /\ MaxPerLink \in Nat /\ MaxPerPeer \in Nat /\ MaxSixK \in Nat
    /\ MaxCrashes \in Nat

-----------------------------------------------------------------------------
EvidenceIds == {i.id : i \in Items}
Filings == {i \in Items : i.feed \in {"report", "6-K"}}
FilingDays == {i.published : i \in Filings}

\* A dossier and an evidence id.
ProposalKeys == Tradeable \X EvidenceIds

\* How an item reaches a dossier.  A link and a peer route are also the keys
\* of the two limiters.
Own == {<<"own", s, s>> : s \in Tradeable}
LimiterKeys == {"link", "peer"} \X Origins \X Tradeable
Routes == Own \cup LimiterKeys

Target(r) == r[3]

\* proposal_key
Key(i, r) == <<Target(r), i.id>>

Limit(r) == IF r[1] = "link" THEN MaxPerLink ELSE MaxPerPeer

VARIABLES
    registered,     \* the dedup index
    merged,         \* for each dossier and evidence id, its records
    pending,        \* _pending_proposals
    handled,        \* _handled_outcomes
    graph,          \* the relationship graph
    extracted,      \* extracted_filings
    sixk,           \* sixk_state: a day, and for each symbol a count
    window,         \* for each limiter key, the events in its window
    pc,             \* the await the task is suspended in
    item,           \* the item in hand, as a set of at most one
    todo,           \* the routes it has yet to take
    route,          \* the route it is on, as a set of at most one
    definitive,     \* all_definitive
    crashes,
    \* History:
    owed,           \* an item and a dossier it was deferred for, still unjudged
    charged,        \* an item and a limiter key it has taken a slot of
    bought          \* the proposals paid for, unless lost before the merge was saved

disk == <<registered, merged, pending, handled, graph, extracted, sixk>>
hand == <<pc, item, todo, route, definitive>>
history == <<owed, charged, bought>>
vars == <<disk, window, hand, crashes, history>>

TypeOK ==
    /\ registered \subseteq Items
    /\ merged \in [ProposalKeys -> 0..2]
    /\ pending \subseteq ProposalKeys /\ handled \subseteq ProposalKeys
    /\ graph \subseteq Origins \X Tradeable
    /\ extracted \subseteq Items
    /\ sixk \in [day : FilingDays \cup {0}, count : [Origins -> 0..MaxSixK]]
    /\ window \in [LimiterKeys -> Nat] /\ \A k \in LimiterKeys : window[k] <= Limit(k)
    /\ pc \in {"idle", "fetching", "extracting", "looping", "proposing",
               "reviewing", "merging", "firing"}
    /\ IF pc = "idle" THEN item = {} ELSE \E i \in Items : item = {i}
    /\ todo \subseteq Routes /\ (route = {} \/ \E r \in Routes : route = {r})
    /\ definitive \in BOOLEAN
    /\ crashes \in 0..MaxCrashes
    /\ owed \subseteq Items \X Tradeable
    /\ charged \subseteq Items \X LimiterKeys
    /\ bought \subseteq ProposalKeys

-----------------------------------------------------------------------------
(* What is asked of the stores.                                            *)

\* mutated Already: what was merged is not looked up
AlreadyJudged(k) == k \in handled

\* has_evidence, or judged before: _update_dossier answers "already".
Already(k) == merged[k] > 0 \/ k \in handled

\* find_near_duplicate: the rewordings of i registered on its day or on the
\* four days before.
NearDuplicates(i) ==
    {j \in registered : /\ i.feed = "news" /\ j.feed = "news"
                        /\ j.origin = i.origin /\ j.story = i.story
                        /\ j.published <= i.published /\ i.published <= j.published + 4}

\* _6k_count
SixKCount(i) == IF sixk.day = i.published THEN sixk.count[i.origin] ELSE 0

\* _within_6k_daily_cap
WithinSixKCap(i) == i.feed = "6-K" => SixKCount(i) < MaxSixK

\* mutated WouldAllow: one event too many
WouldAllowOneMore(k) == window[k] <= Limit(k)

\* SlidingWindowLimiter.would_allow
WouldAllow(k) == window[k] < Limit(k)

\* linked_symbols, without anchors; parallel edges are one route.
Linked(i, edges) == {<<"link", e[1], e[2]>> : e \in {e \in edges : e[1] = i.origin /\ e[2] # i.origin}}

\* Only an origin without any link falls back on its ecosystem.
Propagation(i, edges) ==
    IF Linked(i, edges) # {} THEN Linked(i, edges)
    ELSE {<<"peer", e[1], e[2]>> : e \in {e \in Peers : e[1] = i.origin}}

\* The dossiers an item is about, throttled or not.
Concerned(i, edges) ==
    {<<"own", s, s>> : s \in {i.origin} \cap Tradeable} \cup Propagation(i, edges)

-----------------------------------------------------------------------------
(* A poll, up to the hand-out of an item.                                  *)

Init ==
    /\ registered = {} /\ merged = [k \in ProposalKeys |-> 0]
    /\ pending = {} /\ handled = {}
    /\ graph = Links /\ extracted = {}
    /\ sixk = [day |-> 0, count |-> [s \in Origins |-> 0]]
    /\ window = [k \in LimiterKeys |-> 0]
    /\ pc = "idle" /\ item = {} /\ todo = {} /\ route = {} /\ definitive = TRUE
    /\ crashes = 0
    /\ owed = {} /\ charged = {} /\ bought = {}

PutDown ==
    /\ pc' = "idle" /\ item' = {} /\ todo' = {} /\ route' = {} /\ definitive' = TRUE

Register(i) == registered' = registered \cup {i}

\* mutated WhenNoTarget: throttled or not, the item is done with
NoTargetIsDone(i, edges) == Register(i)

\* No target: done with, unless its links are only inside their windows.
WhenNoTarget(i, edges) ==
    IF Propagation(i, edges) # {} THEN UNCHANGED registered ELSE Register(i)

\* _process_evidence up to its loop.
HandOut(i, edges) ==
    LET allowed == {r \in Concerned(i, edges) : r \in Own \/ WouldAllow(r)}
    IN  \/ allowed = {} /\ WhenNoTarget(i, edges) /\ PutDown
        \/ /\ allowed # {}
           /\ pc' = "looping" /\ item' = {i} /\ todo' = allowed /\ route' = {} /\ definitive' = TRUE
           /\ UNCHANGED registered

\* _can_produce_evidence: news of an origin without a route is not fetched.
CanProduceEvidence(i) == i.feed = "news" => Concerned(i, graph) # {}

\* An unregistered item of news, or of a feed whose fetch decides nothing.
TakeItem(i) ==
    /\ pc = "idle" /\ i \in (Items \ Filings) \ registered
    /\ CanProduceEvidence(i)
    /\ \/ NearDuplicates(i) # {} /\ Register(i) /\ UNCHANGED hand
       \/ NearDuplicates(i) = {} /\ HandOut(i, graph)
    /\ UNCHANGED <<merged, pending, handled, graph, extracted, sixk, window, crashes, history>>

\* _process_filing, up to the fetch of the text.
TakeFiling(i) ==
    /\ pc = "idle" /\ i \in Filings \ registered
    /\ WithinSixKCap(i)
    /\ pc' = "fetching" /\ item' = {i}
    /\ UNCHANGED <<disk, window, todo, route, definitive, crashes, history>>

NoText ==
    /\ pc = "fetching"
    /\ PutDown
    /\ UNCHANGED <<disk, window, crashes, history>>

\* _spend_6k_slot: the counts are of one day only.
SpendSixK(i) ==
    sixk' = [day |-> i.published,
             count |-> [s \in Origins |-> (IF sixk.day = i.published THEN sixk.count[s] ELSE 0)
                                            + (IF s = i.origin THEN 1 ELSE 0)]]

\* The text is there.  A 6-K takes its slot; a report not yet extracted is.
Text ==
    /\ pc = "fetching"
    /\ \E i \in item :
        /\ IF i.feed = "6-K" THEN SpendSixK(i) ELSE UNCHANGED sixk
        /\ \/ /\ i.feed = "report" /\ i \notin extracted
              /\ pc' = "extracting"
              /\ UNCHANGED <<registered, item, todo, route, definitive>>
           \/ ~(i.feed = "report" /\ i \notin extracted) /\ HandOut(i, graph)
    /\ UNCHANGED <<merged, pending, handled, graph, extracted, window, crashes, history>>

\* _extract_relationships ran, or was deferred; the item goes on either way.
Extracted(ran) ==
    /\ pc = "extracting"
    /\ \E i \in item :
        /\ graph' = IF ran THEN graph \cup Discloses[i] ELSE graph
        /\ extracted' = IF ran THEN extracted \cup {i} ELSE extracted
        /\ HandOut(i, graph')
    /\ UNCHANGED <<merged, pending, handled, sixk, window, crashes, history>>

\* A counterparty's ticker cannot be looked up: the poll drops the filing where
\* it is, with the relationships recorded so far.
ExtractionRaises ==
    /\ pc = "extracting"
    /\ \E i \in item : \E found \in SUBSET Discloses[i] : graph' = graph \cup found
    /\ PutDown
    /\ UNCHANGED <<registered, merged, pending, handled, extracted, sixk, window, crashes, history>>

-----------------------------------------------------------------------------
(* The loop of _process_evidence over its targets, and _update_dossier.    *)

Debts == {<<i, Target(r)>> : i \in item, r \in route}

\* With the outcome "handled", a propagated item takes a slot of its link.
Charge ==
    /\ window' = [k \in LimiterKeys |-> IF k \in route THEN window[k] + 1 ELSE window[k]]
    /\ charged' = charged \cup (item \X (route \cap LimiterKeys))
    /\ owed' = owed \ Debts

BackToLoop == pc' = "looping" /\ route' = {} /\ UNCHANGED <<item, todo>>

\* With the outcome "deferred".
Defer ==
    /\ BackToLoop /\ definitive' = FALSE
    /\ owed' = owed \cup Debts
    /\ UNCHANGED <<disk, window, crashes, charged, bought>>

\* mutated AlreadyDone: a slot is taken each time, as an earlier version did
AlreadyCharged(i, r) ==
    /\ window' = [k \in LimiterKeys |->
                     IF k = r /\ window[k] < Limit(k) THEN window[k] + 1 ELSE window[k]]
    /\ UNCHANGED <<definitive, charged>>

\* mutated AlreadyDone: it counts as deferred
AlreadyDeferred(i, r) == definitive' = FALSE /\ UNCHANGED <<window, charged>>

\* With the outcome "already": no slot is taken.
AlreadyDone(i, r) == UNCHANGED <<definitive, window, charged>>

\* The next target, the item's own dossier first.
TakeRoute(r) ==
    /\ pc = "looping" /\ r \in todo
    /\ todo \cap Own # {} => r \in Own
    /\ todo' = todo \ {r}
    /\ \E i \in item :
        \/ /\ Already(Key(i, r))
           /\ AlreadyDone(i, r)
           /\ owed' = owed \ {<<i, Target(r)>>}
           /\ UNCHANGED <<pc, route>>
        \/ /\ ~Already(Key(i, r))
           /\ pc' = IF Key(i, r) \in pending THEN "reviewing" ELSE "proposing"
           /\ route' = {r}
           /\ UNCHANGED <<definitive, window, charged, owed>>
    /\ UNCHANGED <<disk, item, crashes, bought>>

\* mutated MarkHandled: only the merged outcome leaves a mark
MarkNothing(k) == UNCHANGED handled

\* _mark_handled
MarkHandled(k) == handled' = handled \cup {k}

\* mutated Remember: the proposal is not cached
ForgetProposal(k) == UNCHANGED pending

\* The proposal is cached, and persisted, until the skeptic has answered.
Remember(k) == pending' = pending \cup {k}

\* propose_update answers: malformed, nothing new, or a proposal.
Proposed(answer) ==
    /\ pc = "proposing"
    /\ \E i \in item, r \in route :
        /\ bought' = bought \cup {Key(i, r)}
        /\ \/ /\ answer \in {"malformed", "not_new"}
              /\ MarkHandled(Key(i, r)) /\ Charge /\ BackToLoop
              /\ UNCHANGED <<definitive, pending>>
           \/ /\ answer = "new"
              /\ Remember(Key(i, r)) /\ pc' = "reviewing"
              /\ UNCHANGED <<handled, window, charged, owed, item, todo, route, definitive>>
    /\ UNCHANGED <<registered, merged, graph, extracted, sixk, crashes>>

\* The skeptic answers: refuted, or the change may be merged.
Reviewed(refuted) ==
    /\ pc = "reviewing"
    /\ \E i \in item, r \in route :
        /\ pending' = pending \ {Key(i, r)}
        /\ \/ /\ refuted
              /\ MarkHandled(Key(i, r)) /\ Charge /\ BackToLoop
              /\ UNCHANGED definitive
           \/ /\ ~refuted
              /\ pc' = "merging"
              /\ UNCHANGED <<handled, window, charged, owed, item, todo, route, definitive>>
    /\ UNCHANGED <<registered, merged, graph, extracted, sixk, crashes, bought>>

\* No answer.
NoAnswer == pc \in {"proposing", "reviewing"} /\ Defer

\* A price and perhaps a fresh synthesis later, the dossier is saved; it may
\* qualify, and firing awaits a price again.
Merge(fires) ==
    /\ pc = "merging"
    /\ \E i \in item, r \in route :
        merged' = [merged EXCEPT ![Key(i, r)] = IF @ < 2 THEN @ + 1 ELSE @]
    /\ \/ fires /\ pc' = "firing" /\ UNCHANGED <<window, charged, owed, item, todo, route>>
       \/ ~fires /\ Charge /\ BackToLoop
    /\ UNCHANGED <<registered, pending, handled, graph, extracted, sixk, definitive,
                   crashes, bought>>

SignalFired ==
    /\ pc = "firing"
    /\ Charge /\ BackToLoop
    /\ UNCHANGED <<disk, definitive, crashes, bought>>

\* The loop is over; the caller registers the item unless it was deferred.
LoopDone ==
    /\ pc = "looping" /\ todo = {}
    /\ registered' = IF definitive THEN registered \cup item ELSE registered
    /\ PutDown
    /\ UNCHANGED <<merged, pending, handled, graph, extracted, sixk, window, crashes, history>>

-----------------------------------------------------------------------------
\* The process dies and starts again: the files are all it knows.
Crash ==
    /\ crashes < MaxCrashes
    /\ crashes' = crashes + 1
    /\ window' = [k \in LimiterKeys |-> 0]
    /\ bought' = IF pc = "merging" THEN bought \ {Key(i, r) : i \in item, r \in route} ELSE bought
    /\ PutDown
    /\ UNCHANGED <<disk, owed, charged>>

\* The oldest event of a window is older than the window is long.
RollOff(k) ==
    /\ window[k] > 0
    /\ window' = [window EXCEPT ![k] = @ - 1]
    /\ UNCHANGED <<disk, hand, crashes, history>>

Answer ==
    \/ \E answer \in {"malformed", "not_new", "new"} : Proposed(answer)
    \/ \E refuted \in BOOLEAN : Reviewed(refuted)

TaskStep ==
    \/ NoText \/ Text
    \/ \E ran \in BOOLEAN : Extracted(ran)
    \/ ExtractionRaises
    \/ \E r \in todo : TakeRoute(r)
    \/ Answer \/ NoAnswer
    \/ \E fires \in BOOLEAN : Merge(fires)
    \/ SignalFired
    \/ LoopDone

Take(i) == TakeItem(i) \/ TakeFiling(i)

Next ==
    \/ \E i \in Items : Take(i)
    \/ TaskStep
    \/ Crash
    \/ \E k \in LimiterKeys : RollOff(k)

Spec == Init /\ [][Next]_vars

\* The task runs on, windows roll off, every poll offers every item again, and
\* neither EDGAR nor the models fail for ever: a new day brings a new budget.
Fairness ==
    /\ WF_vars(TaskStep)
    /\ \A k \in LimiterKeys : WF_vars(RollOff(k))
    /\ \A i \in Items : SF_vars(Take(i))
    /\ \A i \in Filings : SF_vars(item = {i} /\ Text)
    /\ \A i \in Filings : SF_vars(item = {i} /\ \E ran \in BOOLEAN : Extracted(ran))
    /\ \A k \in ProposalKeys : SF_vars((\E i \in item, r \in route : k = Key(i, r)) /\ Answer)

FairSpec == Spec /\ Fairness

-----------------------------------------------------------------------------
(* The properties.                                                         *)

\* An item is one record in a dossier, however often it is offered: deferrals
\* of its siblings and crashes come between the merge and the registration.
MergedOnce == \A k \in ProposalKeys : merged[k] <= 1

\* The updater is paid once for a proposal: neither a deferral of the skeptic,
\* nor of a sibling, nor a restart has it asked again.  Only a crash between
\* the skeptic's answer and the save does.
ProposalBoughtOnce ==
    pc = "proposing" => \A i \in item, r \in route : Key(i, r) \notin bought

\* An item takes one slot of a link's window, however often it is retried.
SlotTakenOnce ==
    [][\A k \in LimiterKeys : window'[k] > window[k] => item \X {k} \cap charged = {}]_vars

Decided(i) == {r \in Concerned(i, graph) : Already(Key(i, r))}

\* The cooldown is a rate limit, not a filter: an item that concerns some
\* dossier is not registered before one has judged it, nor before its own
\* company's has; unless it retells a registered story.
RegisteredWasRead ==
    [][\A i \in registered' \ registered :
          NearDuplicates(i) = {} /\ Concerned(i, graph') # {} =>
              /\ Decided(i) # {}
              /\ Concerned(i, graph) \cap Own \subseteq Decided(i)]_vars

\* An item that was deferred for a dossier is retried until that dossier has
\* judged it (_process_evidence), so it is not registered before.
DeferredIsRetried ==
    \A i \in registered, s \in Tradeable : <<i, s>> \notin owed

\* Every item that concerns a dossier, of a feed without a cap, is settled in
\* the end: no deferral, throttle or restart is for ever.
EverySettled ==
    \A i \in Items : (i.feed # "6-K" /\ Concerned(i, graph) # {}) ~> i \in registered

\* So is every 6-K when there are no more of them than the cap allows: a
\* deferred item is to be retried on a later poll (_process_evidence).
SixKSettled == \A i \in Items : i.feed = "6-K" => <>(i \in registered)

Delivery == INSTANCE EvidenceDelivery WITH
    Dossiers <- Tradeable,
    Item <- Items,
    outcome <- [k \in ProposalKeys |->
                   IF merged[k] > 0 THEN "merged" ELSE IF k \in handled THEN "dropped" ELSE "open"],
    settled <- registered

\* Across deferrals, retries and restarts a dossier decides once about an item,
\* and what the skeptic refuted stays out.
ImplementsDelivery == Delivery!DeliverySpec
=============================================================================
