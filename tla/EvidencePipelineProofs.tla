----------------------- MODULE EvidencePipelineProofs -----------------------
(***************************************************************************)
(* Machine-checked theorems about the evidence pipeline, for every         *)
(* universe, graph, feed and limit.                                        *)
(*                                                                         *)
(* What is decided is found in three places (the dossier, the handled and  *)
(* the pending caches) and in the hand of the task.  IInv says which holds *)
(* at each await: a proposal that was paid for is judged, pending, or      *)
(* about to be merged; a slot that was taken belongs to a judged item; and *)
(* an item's own dossier is still to come, or has judged it.               *)
(***************************************************************************)
EXTENDS EvidencePipeline, TLAPS

InHand == {Key(i, r) : i \in item, r \in route}

\* Outside the loop there is nothing to do, between two targets none is in hand.
Resting ==
    /\ pc \in {"idle", "fetching", "extracting"} => todo = {}
    /\ pc \in {"idle", "fetching", "extracting", "looping"} => route = {}
    /\ pc \in {"proposing", "reviewing", "merging", "firing"} => route # {}

\* What is in hand is not judged before the merge, and is after it.
Fresh ==
    /\ pc \in {"proposing", "reviewing", "merging"} => \A k \in InHand : ~Already(k)
    /\ pc = "proposing" => InHand \cap pending = {}
    /\ pc = "firing" => \A k \in InHand : Already(k)

\* What was paid for is judged, pending, or in hand after the skeptic.
PaidFor == \A k \in bought : Already(k) \/ k \in pending \/ (pc = "merging" /\ k \in InHand)

\* The windows have room for what is under way.
Room ==
    /\ todo \cap route = {}
    /\ \A k \in (todo \cup route) \cap LimiterKeys : window[k] < Limit(k)

\* A 6-K being fetched still has its slot.
Capped == pc = "fetching" => \A i \in item : WithinSixKCap(i)

\* A slot is taken for a judged item only, and after it has left the hand.
SlotsInv ==
    /\ \A i \in Items, k \in LimiterKeys : <<i, k>> \in charged => Already(Key(i, k))
    /\ pc \in {"proposing", "reviewing", "merging", "firing"} => item \X route \cap charged = {}

IInv == TypeOK /\ Resting /\ Fresh /\ PaidFor /\ MergedOnce /\ Room /\ Capped /\ SlotsInv

-----------------------------------------------------------------------------
(* Lemmas.                                                                 *)

\* What a route of an item leads to is an evidence id in a dossier.
LEMMA KeyType == \A i \in Items, r \in Routes : Key(i, r) \in ProposalKeys
  BY PipelineAssumption DEF Key, Target, Routes, Own, LimiterKeys, ProposalKeys, EvidenceIds

\* The limit of a route is a number.
LEMMA LimitType == \A r \in Routes : Limit(r) \in Nat
  BY PipelineAssumption DEF Limit

\* Every origin of an item is a symbol, and the routes it can take are routes.
LEMMA ConcernedType ==
    ASSUME NEW i \in Items, NEW edges \in SUBSET (Origins \X Tradeable)
    PROVE  Concerned(i, edges) \subseteq Routes
<1>1. Linked(i, edges) \subseteq LimiterKeys
  BY DEF Linked, LimiterKeys
<1>2. \A e \in Peers : <<"peer", e[1], e[2]>> \in LimiterKeys
  BY PipelineAssumption DEF LimiterKeys
<1>3. Propagation(i, edges) \subseteq LimiterKeys
  BY <1>1, <1>2 DEF Propagation
<1> QED
  BY <1>3 DEF Concerned, Routes, Own

\* What the hand-out of an item does to the hand: it is put down, or its
\* routes that have room are to be taken.
LEMMA HandOutEffect ==
    ASSUME TypeOK, NEW i \in Items, NEW edges \in SUBSET (Origins \X Tradeable),
           HandOut(i, edges)
    PROVE  /\ registered' \subseteq Items
           /\ route' = {} /\ definitive' = TRUE
           /\ \/ pc' = "idle" /\ item' = {} /\ todo' = {}
              \/ pc' = "looping" /\ item' = {i} /\ todo' \subseteq Routes
           /\ \A k \in todo' \cap LimiterKeys : window[k] < Limit(k)
<1>1. Concerned(i, edges) \subseteq Routes
  BY ConcernedType
<1>2. Own \cap LimiterKeys = {}
  BY DEF Own, LimiterKeys
<1>3. registered' = registered \/ registered' = registered \cup {i}
  BY DEF HandOut, WhenNoTarget, Register
<1>4. registered' \subseteq Items
  BY <1>3 DEF TypeOK
<1> QED
  BY <1>1, <1>2, <1>4 DEF HandOut, PutDown, WouldAllow

-----------------------------------------------------------------------------
(* Each action preserves the invariant.                                    *)

\* A fresh installation satisfies the invariant.
LEMMA InitHolds == Init => IInv
<1> SUFFICES ASSUME Init PROVE IInv
  OBVIOUS
<1>1. TypeOK
  BY PipelineAssumption DEF Init, TypeOK, Limit
<1>2. MergedOnce /\ SlotsInv
  BY DEF Init, MergedOnce, SlotsInv
<1> QED
  BY <1>1, <1>2 DEF Init, IInv, Resting, Fresh, PaidFor, Room, Capped

\* A step that leaves the dossiers, the caches and the windows alone and ends
\* outside of a target.
LEMMA NoTargetStep ==
    ASSUME IInv, TypeOK', UNCHANGED <<merged, pending, handled, window, charged, bought>>,
           pc # "merging", route' = {}, pc' \in {"idle", "fetching", "extracting", "looping"},
           pc' # "looping" => todo' = {},
           \A k \in todo' \cap LimiterKeys : window[k] < Limit(k),
           Capped'
    PROVE  IInv'
<1>1. MergedOnce'
  BY DEF IInv, MergedOnce
<1>2. PaidFor'
  BY DEF IInv, PaidFor, Already
<1>3. SlotsInv'
  BY DEF IInv, SlotsInv, Already
<1>4. Resting' /\ Fresh' /\ Room'
  BY DEF Resting, Fresh, Room
<1> QED
  BY <1>1, <1>2, <1>3, <1>4 DEF IInv

\* A poll offers an item of news, an award or a rule.
LEMMA TakeItemHolds == \A i \in Items : IInv /\ TakeItem(i) => IInv'
<1> SUFFICES ASSUME IInv, NEW i \in Items, TakeItem(i) PROVE IInv'
  OBVIOUS
<1> USE DEF IInv
<1>0. graph \in SUBSET (Origins \X Tradeable)
  BY DEF TypeOK
<1>1. CASE NearDuplicates(i) # {} /\ Register(i) /\ UNCHANGED hand
  <2>1. TypeOK'
    BY <1>1 DEF TypeOK, TakeItem, Register, hand, history
  <2>2. Resting' /\ Capped'
    BY <1>1 DEF TakeItem, hand, Resting, Capped
  <2> QED
    BY <1>1, <2>1, <2>2, NoTargetStep DEF TakeItem, hand, history, Resting
<1>2. CASE HandOut(i, graph)
  <2>1. /\ registered' \subseteq Items
        /\ route' = {} /\ definitive' = TRUE
        /\ \/ pc' = "idle" /\ item' = {} /\ todo' = {}
           \/ pc' = "looping" /\ item' = {i} /\ todo' \subseteq Routes
        /\ \A k \in todo' \cap LimiterKeys : window[k] < Limit(k)
    BY <1>0, <1>2, HandOutEffect
  <2>2. TypeOK'
    BY <2>1 DEF TypeOK, TakeItem, history
  <2> QED
    BY <2>1, <2>2, NoTargetStep DEF TakeItem, Capped, history
<1> QED
  BY <1>1, <1>2 DEF TakeItem

\* The filings poll offers a filing.
LEMMA TakeFilingHolds == \A i \in Items : IInv /\ TakeFiling(i) => IInv'
<1> SUFFICES ASSUME IInv, NEW i \in Items, TakeFiling(i) PROVE IInv'
  OBVIOUS
<1> USE DEF IInv
<1>1. TypeOK'
  BY DEF TypeOK, TakeFiling, disk, history
<1>2. Capped'
  BY DEF Capped, TakeFiling, WithinSixKCap, SixKCount, disk
<1> QED
  BY <1>1, <1>2, NoTargetStep DEF TakeFiling, disk, history, Resting

\* The filing is put down.
LEMMA PutDownHolds ==
    ASSUME IInv, PutDown, pc # "merging", graph' \subseteq Origins \X Tradeable,
           registered' \subseteq Items, owed' = owed, crashes' = crashes,
           UNCHANGED <<merged, pending, handled, extracted, sixk, window, charged, bought>>
    PROVE  IInv'
<1> USE DEF IInv
<1>1. TypeOK'
  BY DEF TypeOK, PutDown
<1> QED
  BY <1>1, NoTargetStep DEF PutDown, Capped

\* The text of a filing could not be fetched.
LEMMA NoTextHolds == IInv /\ NoText => IInv'
  BY PutDownHolds DEF NoText, disk, history, IInv, TypeOK

\* The relationship extraction raised.
LEMMA ExtractionRaisesHolds == IInv /\ ExtractionRaises => IInv'
<1> SUFFICES ASSUME IInv, ExtractionRaises PROVE IInv'
  OBVIOUS
<1>1. PICK i \in item : \E found \in SUBSET Discloses[i] : graph' = graph \cup found
  BY DEF ExtractionRaises
<1>2. Discloses[i] \subseteq Origins \X Tradeable
  BY PipelineAssumption DEF IInv, TypeOK
<1>3. graph' \subseteq Origins \X Tradeable
  BY <1>1, <1>2 DEF IInv, TypeOK
<1> QED
  BY <1>3, PutDownHolds DEF ExtractionRaises, history, IInv, TypeOK

\* The relationship extraction ran, or did not for want of budget.
LEMMA ExtractedHolds == \A ran \in BOOLEAN : IInv /\ Extracted(ran) => IInv'
<1> SUFFICES ASSUME IInv, NEW ran \in BOOLEAN, Extracted(ran) PROVE IInv'
  OBVIOUS
<1> USE DEF IInv
<1>1. PICK i \in item :
        /\ graph' = IF ran THEN graph \cup Discloses[i] ELSE graph
        /\ extracted' = IF ran THEN extracted \cup {i} ELSE extracted
        /\ HandOut(i, graph')
  BY DEF Extracted
<1>2. i \in Items /\ Discloses[i] \subseteq Origins \X Tradeable
  BY PipelineAssumption DEF TypeOK
<1>3. graph' \in SUBSET (Origins \X Tradeable) /\ extracted' \subseteq Items
  BY <1>1, <1>2 DEF TypeOK
<1>4. /\ registered' \subseteq Items
      /\ route' = {} /\ definitive' = TRUE
      /\ \/ pc' = "idle" /\ item' = {} /\ todo' = {}
         \/ pc' = "looping" /\ item' = {i} /\ todo' \subseteq Routes
      /\ \A k \in todo' \cap LimiterKeys : window[k] < Limit(k)
  BY <1>1, <1>2, <1>3, HandOutEffect
<1>5. TypeOK'
  BY <1>2, <1>3, <1>4 DEF TypeOK, Extracted, history
<1> QED
  BY <1>4, <1>5, NoTargetStep DEF Extracted, Capped, history

\* The counts stay under the cap, for the item in hand had room.
LEMMA SpendSixKType ==
    ASSUME TypeOK, NEW i \in Filings, i.feed = "6-K", WithinSixKCap(i), SpendSixK(i)
    PROVE  sixk' \in [day : FilingDays \cup {0}, count : [Origins -> 0..MaxSixK]]
<1>1. i.origin \in Origins /\ i.published \in FilingDays
  BY PipelineAssumption DEF Filings, FilingDays, IsItem
<1>2. SixKCount(i) < MaxSixK
  BY DEF WithinSixKCap
<1>3. sixk.count \in [Origins -> 0..MaxSixK]
  BY DEF TypeOK
<1>4. ASSUME NEW s \in Origins
      PROVE  (IF sixk.day = i.published THEN sixk.count[s] ELSE 0)
                 + (IF s = i.origin THEN 1 ELSE 0) \in 0..MaxSixK
  <2>1. sixk.count[s] \in 0..MaxSixK /\ MaxSixK \in Nat
    BY <1>3, PipelineAssumption
  <2>2. CASE s = i.origin
    BY <1>2, <2>1, <2>2 DEF SixKCount
  <2>3. CASE s # i.origin
    BY <2>1, <2>3
  <2> QED
    BY <2>2, <2>3
<1> QED
  BY <1>1, <1>4 DEF SpendSixK

\* The text of a filing is in.
LEMMA TextHolds == IInv /\ Text => IInv'
<1> SUFFICES ASSUME IInv, Text PROVE IInv'
  OBVIOUS
<1> USE DEF IInv
<1>1. PICK i \in item :
        /\ IF i.feed = "6-K" THEN SpendSixK(i) ELSE UNCHANGED sixk
        /\ \/ /\ i.feed = "report" /\ i \notin extracted
              /\ pc' = "extracting"
              /\ UNCHANGED <<registered, item, todo, route, definitive>>
           \/ ~(i.feed = "report" /\ i \notin extracted) /\ HandOut(i, graph)
  BY DEF Text
<1>2. i \in Items /\ item = {i} /\ pc = "fetching"
  BY DEF TypeOK, Text
<1>3. sixk' \in [day : FilingDays \cup {0}, count : [Origins -> 0..MaxSixK]]
  <2>1. CASE i.feed = "6-K"
    <3>1. i \in Filings /\ WithinSixKCap(i)
      BY <1>2, <2>1 DEF Filings, Capped
    <3> QED
      BY <1>1, <2>1, <3>1, SpendSixKType
  <2> QED
    BY <1>1, <2>1 DEF TypeOK
<1>4. UNCHANGED <<merged, pending, handled, graph, extracted, window, crashes, owed, charged, bought>>
  BY DEF Text, history
<1>5. CASE UNCHANGED <<registered, item, todo, route, definitive>> /\ pc' = "extracting"
  <2>1. TypeOK'
    BY <1>2, <1>3, <1>4, <1>5 DEF TypeOK
  <2> QED
    BY <1>2, <1>4, <1>5, <2>1, NoTargetStep DEF Capped, Resting
<1>6. CASE HandOut(i, graph)
  <2>1. /\ registered' \subseteq Items
        /\ route' = {} /\ definitive' = TRUE
        /\ \/ pc' = "idle" /\ item' = {} /\ todo' = {}
           \/ pc' = "looping" /\ item' = {i} /\ todo' \subseteq Routes
        /\ \A k \in todo' \cap LimiterKeys : window[k] < Limit(k)
    BY <1>2, <1>6, HandOutEffect DEF TypeOK
  <2>2. TypeOK'
    BY <1>2, <1>3, <1>4, <2>1 DEF TypeOK
  <2> QED
    BY <1>2, <1>4, <2>1, <2>2, NoTargetStep DEF Capped
<1> QED
  BY <1>1, <1>5, <1>6

-----------------------------------------------------------------------------
(* The loop.                                                               *)

\* Back in the loop after an outcome "handled" for the one target in hand.
LEMMA ChargeHolds ==
    ASSUME IInv, Charge, BackToLoop, NEW i \in Items, NEW r \in Routes,
           item = {i}, route = {r},
           pc \in {"proposing", "reviewing", "merging", "firing"},
           merged' \in [ProposalKeys -> 0..2], MergedOnce',
           pending' \subseteq ProposalKeys, handled' \subseteq ProposalKeys,
           bought' \subseteq ProposalKeys,
           \A k \in ProposalKeys : Already(k) => Already(k)',
           Already(Key(i, r))',
           \A k \in bought' : Already(k)' \/ k \in pending',
           UNCHANGED <<registered, graph, extracted, sixk, definitive, crashes>>
    PROVE  IInv'
<1> USE DEF IInv
<1>1. item' = {i} /\ route' = {} /\ todo' = todo /\ pc' = "looping" /\ r \notin todo
  BY DEF BackToLoop, Room
<1>2. \A k \in LimiterKeys : window[k] \in Nat /\ Limit(k) \in Nat
  BY LimitType DEF TypeOK, Routes
<1>3. window' = [k \in LimiterKeys |-> IF k = r THEN window[k] + 1 ELSE window[k]]
  BY DEF Charge
<1>4. /\ window' \in [LimiterKeys -> Nat]
      /\ \A k \in LimiterKeys : window'[k] <= Limit(k)
  <2>1. \A k \in LimiterKeys : k = r => window[k] < Limit(k)
    BY DEF Room
  <2> QED
    BY <1>2, <1>3, <2>1 DEF TypeOK
<1>5. charged' = charged \cup ({i} \X ({r} \cap LimiterKeys)) /\ charged' \subseteq Items \X LimiterKeys
  BY DEF Charge, TypeOK
<1>6. owed' \subseteq Items \X Tradeable
  BY DEF Charge, TypeOK
<1>7. TypeOK'
  BY <1>1, <1>4, <1>5, <1>6 DEF TypeOK
<1>8. Room'
  BY <1>1, <1>3 DEF Room
<1>9. SlotsInv'
  <2>1. ASSUME NEW j \in Items, NEW k \in LimiterKeys, <<j, k>> \in charged'
        PROVE  Already(Key(j, k))'
    <3>1. CASE <<j, k>> \in charged
      <4>1. Already(Key(j, k)) /\ Key(j, k) \in ProposalKeys
        BY <3>1, KeyType DEF SlotsInv, Routes
      <4> QED
        BY <4>1
    <3>2. CASE j = i /\ k = r
      BY <3>2
    <3> QED
      BY <1>5, <2>1, <3>1, <3>2
  <2> QED
    BY <1>1, <2>1 DEF SlotsInv, Key, Target
<1>10. PaidFor' /\ Resting' /\ Fresh' /\ Capped'
  BY <1>1 DEF PaidFor, Resting, Fresh, Capped
<1> QED
  BY <1>7, <1>8, <1>9, <1>10

\* In the loop there is one item in hand, and with a target one route.
LEMMA OneInHand ==
    ASSUME TypeOK, pc # "idle"
    PROVE  /\ \E i \in Items : item = {i}
           /\ route # {} => \E r \in Routes : route = {r}
  BY DEF TypeOK

\* The updater or the skeptic did not answer: the target is deferred.
LEMMA NoAnswerHolds == IInv /\ NoAnswer => IInv'
<1> SUFFICES ASSUME IInv, NoAnswer PROVE IInv'
  OBVIOUS
<1> USE DEF IInv
<1>1. PICK i \in Items, r \in Routes : item = {i} /\ route = {r}
  BY OneInHand DEF NoAnswer, Resting
<1>2. /\ pc' = "looping" /\ route' = {} /\ definitive' = FALSE
      /\ UNCHANGED <<disk, window, crashes, charged, bought, item, todo>>
      /\ owed' = owed \cup {<<i, Target(r)>>}
  BY <1>1 DEF NoAnswer, Defer, BackToLoop, Debts
<1>3. Target(r) \in Tradeable
  BY DEF Target, Routes, Own, LimiterKeys
<1>4. owed' \subseteq Items \X Tradeable
  BY <1>2, <1>3 DEF TypeOK
<1>5. TypeOK'
  BY <1>1, <1>2, <1>4 DEF TypeOK, disk
<1> QED
  BY <1>2, <1>5, NoTargetStep DEF NoAnswer, Room, Capped, disk

\* The loop goes on to the next target.
LEMMA TakeRouteHolds == \A r \in Routes : IInv /\ TakeRoute(r) => IInv'
<1> SUFFICES ASSUME IInv, NEW r \in Routes, TakeRoute(r) PROVE IInv'
  OBVIOUS
<1> USE DEF IInv
<1>1. PICK i \in Items : item = {i}
  BY OneInHand DEF TakeRoute
<1>2. /\ pc = "looping" /\ r \in todo /\ todo' = todo \ {r} /\ route = {}
      /\ UNCHANGED <<disk, item, crashes, bought, definitive, window, charged>>
  BY DEF TakeRoute, AlreadyDone, Resting
<1>3. owed' \subseteq Items \X Tradeable
  BY <1>1 DEF TakeRoute, TypeOK
<1>4. CASE Already(Key(i, r)) /\ UNCHANGED <<pc, route>>
  <2>1. TypeOK'
    BY <1>1, <1>2, <1>3, <1>4 DEF TypeOK, disk
  <2> QED
    BY <1>2, <1>4, <2>1, NoTargetStep DEF Room, Capped, disk
<1>5. CASE ~Already(Key(i, r)) /\ route' = {r}
           /\ pc' = (IF Key(i, r) \in pending THEN "reviewing" ELSE "proposing")
  <2>1. TypeOK'
    BY <1>1, <1>2, <1>3, <1>5 DEF TypeOK, disk
  <2>2. InHand' = {Key(i, r)} /\ UNCHANGED <<merged, handled, pending>>
    BY <1>1, <1>2, <1>5 DEF InHand, disk
  <2>3. Fresh'
    BY <1>5, <2>2 DEF Fresh, Already
  <2>4. PaidFor'
    BY <1>2, <2>2 DEF PaidFor, Already
  <2>5. MergedOnce' /\ Capped'
    BY <1>2, <1>5, <2>2 DEF MergedOnce, Capped
  <2>6. Room' /\ Resting'
    BY <1>2, <1>5 DEF Room, Resting
  <2>7. SlotsInv'
    <3>1. \A j \in Items, k \in LimiterKeys : <<j, k>> \in charged' => Already(Key(j, k))'
      BY <1>2, <2>2 DEF SlotsInv, Already
    <3>2. <<i, r>> \notin charged
      BY <1>1, <1>5 DEF SlotsInv, TypeOK
    <3> QED
      BY <1>1, <1>2, <1>5, <3>1, <3>2 DEF SlotsInv
  <2> QED
    BY <2>1, <2>3, <2>4, <2>5, <2>6, <2>7
<1> QED
  BY <1>1, <1>4, <1>5 DEF TakeRoute

\* The step of a target that stays in hand.
LEMMA SameTargetStep ==
    ASSUME IInv, TypeOK', UNCHANGED <<item, todo, route, window, charged, merged, handled>>,
           pc \in {"proposing", "reviewing"}, pc' \in {"reviewing", "merging"},
           \A k \in bought' : Already(k) \/ k \in pending' \/ (pc' = "merging" /\ k \in InHand)
    PROVE  IInv'
<1> USE DEF IInv
<1>1. InHand' = InHand /\ \A k : Already(k)' = Already(k)
  BY DEF InHand, Already
<1>2. Fresh' /\ PaidFor' /\ MergedOnce'
  BY <1>1 DEF Fresh, PaidFor, MergedOnce
<1>3. SlotsInv'
  BY <1>1 DEF SlotsInv
<1>4. Resting' /\ Room' /\ Capped'
  BY DEF Resting, Room, Capped
<1> QED
  BY <1>2, <1>3, <1>4

\* The updater answered.
LEMMA ProposedHolds ==
    \A answer \in {"malformed", "not_new", "new"} : IInv /\ Proposed(answer) => IInv'
<1> SUFFICES ASSUME IInv, NEW answer \in {"malformed", "not_new", "new"}, Proposed(answer)
             PROVE  IInv'
  OBVIOUS
<1> USE DEF IInv
<1>1. PICK i \in Items, r \in Routes : item = {i} /\ route = {r}
  BY OneInHand DEF Proposed, Resting
<1> DEFINE key == Key(i, r)
<1>2. key \in ProposalKeys
  BY KeyType
<1>3. /\ pc = "proposing" /\ bought' = bought \cup {key}
      /\ UNCHANGED <<registered, merged, graph, extracted, sixk, crashes, definitive>>
  BY <1>1 DEF Proposed
<1>4. bought' \subseteq ProposalKeys
  BY <1>2, <1>3 DEF TypeOK
<1>5. \A k \in bought : Already(k) \/ k \in pending
  BY <1>3 DEF PaidFor
<1> HIDE DEF key
<1>6. CASE MarkHandled(key) /\ Charge /\ BackToLoop /\ UNCHANGED pending
  <2>1. handled' = handled \cup {key} /\ merged' = merged
    BY <1>3, <1>6 DEF MarkHandled
  <2>2. \A k : Already(k) => Already(k)'
    BY <2>1 DEF Already
  <2>3. Already(key)'
    BY <2>1 DEF Already
  <2>4. \A k \in bought' : Already(k)' \/ k \in pending'
    BY <1>3, <1>5, <1>6, <2>2, <2>3
  <2>5. handled' \subseteq ProposalKeys /\ pending' \subseteq ProposalKeys
    BY <1>2, <1>6, <2>1 DEF TypeOK
  <2>6. MergedOnce' /\ merged' \in [ProposalKeys -> 0..2]
    BY <2>1 DEF MergedOnce, TypeOK
  <2> QED
    BY <1>1, <1>3, <1>4, <1>6, <2>2, <2>3, <2>4, <2>5, <2>6, ChargeHolds DEF key
<1>7. CASE Remember(key) /\ pc' = "reviewing"
           /\ UNCHANGED <<handled, window, charged, owed, item, todo, route>>
  <2>1. pending' = pending \cup {key}
    BY <1>7 DEF Remember
  <2>2. TypeOK'
    BY <1>1, <1>2, <1>3, <1>4, <1>7, <2>1 DEF TypeOK
  <2> QED
    BY <1>3, <1>5, <1>7, <2>1, <2>2, SameTargetStep
<1> QED
  BY <1>1, <1>6, <1>7 DEF Proposed, key

\* The skeptic answered.
LEMMA ReviewedHolds == \A refuted \in BOOLEAN : IInv /\ Reviewed(refuted) => IInv'
<1> SUFFICES ASSUME IInv, NEW refuted \in BOOLEAN, Reviewed(refuted) PROVE IInv'
  OBVIOUS
<1> USE DEF IInv
<1>1. PICK i \in Items, r \in Routes : item = {i} /\ route = {r}
  BY OneInHand DEF Reviewed, Resting
<1> DEFINE key == Key(i, r)
<1>2. key \in ProposalKeys /\ InHand = {key}
  BY <1>1, KeyType DEF InHand
<1>3. /\ pc = "reviewing" /\ pending' = pending \ {key}
      /\ UNCHANGED <<registered, merged, graph, extracted, sixk, crashes, bought, definitive>>
  BY <1>1 DEF Reviewed
<1>4. \A k \in bought : Already(k) \/ k \in pending
  BY <1>3 DEF PaidFor
<1> HIDE DEF key
<1>5. CASE MarkHandled(key) /\ Charge /\ BackToLoop
  <2>1. handled' = handled \cup {key} /\ merged' = merged
    BY <1>3, <1>5 DEF MarkHandled
  <2>2. \A k : Already(k) => Already(k)'
    BY <2>1 DEF Already
  <2>3. Already(key)'
    BY <2>1 DEF Already
  <2>4. \A k \in bought' : Already(k)' \/ k \in pending'
    BY <1>3, <1>4, <2>2, <2>3
  <2>5. handled' \subseteq ProposalKeys /\ pending' \subseteq ProposalKeys /\ bought' \subseteq ProposalKeys
    BY <1>2, <1>3, <2>1 DEF TypeOK
  <2>6. MergedOnce' /\ merged' \in [ProposalKeys -> 0..2]
    BY <2>1 DEF MergedOnce, TypeOK
  <2> QED
    BY <1>1, <1>3, <1>5, <2>2, <2>3, <2>4, <2>5, <2>6, ChargeHolds DEF key
<1>6. CASE pc' = "merging" /\ UNCHANGED <<handled, window, charged, owed, item, todo, route>>
  <2>1. TypeOK'
    BY <1>1, <1>3, <1>6 DEF TypeOK
  <2> QED
    BY <1>2, <1>3, <1>4, <1>6, <2>1, SameTargetStep
<1> QED
  BY <1>1, <1>5, <1>6 DEF Reviewed, key

\* The dossier is saved.
LEMMA MergeHolds == \A fires \in BOOLEAN : IInv /\ Merge(fires) => IInv'
<1> SUFFICES ASSUME IInv, NEW fires \in BOOLEAN, Merge(fires) PROVE IInv'
  OBVIOUS
<1> USE DEF IInv
<1>1. PICK i \in Items, r \in Routes : item = {i} /\ route = {r}
  BY OneInHand DEF Merge, Resting
<1> DEFINE key == Key(i, r)
<1>2. key \in ProposalKeys /\ InHand = {key}
  BY <1>1, KeyType DEF InHand
<1>3. /\ pc = "merging" /\ merged' = [merged EXCEPT ![key] = IF @ < 2 THEN @ + 1 ELSE @]
      /\ UNCHANGED <<registered, pending, handled, graph, extracted, sixk, crashes, bought, definitive>>
  BY <1>1 DEF Merge
<1> HIDE DEF key
<1>4. merged[key] = 0
  BY <1>2, <1>3 DEF Fresh, Already, TypeOK
<1>5. merged' = [merged EXCEPT ![key] = 1]
  BY <1>3, <1>4
<1>6. MergedOnce' /\ merged' \in [ProposalKeys -> 0..2]
  BY <1>2, <1>5 DEF MergedOnce, TypeOK
<1>7. Already(key)' /\ \A k \in ProposalKeys : Already(k) => Already(k)'
  BY <1>2, <1>3, <1>5 DEF Already, TypeOK
<1>8. \A k \in bought' : Already(k)' \/ k \in pending'
  BY <1>2, <1>3, <1>7 DEF PaidFor, TypeOK
<1>9. CASE Charge /\ BackToLoop
  BY <1>1, <1>3, <1>6, <1>7, <1>8, <1>9, ChargeHolds DEF key, TypeOK
<1>10. CASE pc' = "firing" /\ UNCHANGED <<window, charged, owed, item, todo, route>>
  <2>1. TypeOK'
    BY <1>1, <1>3, <1>6, <1>10 DEF TypeOK
  <2>2. \A j \in Items, k \in LimiterKeys : <<j, k>> \in charged' => Already(Key(j, k))'
    BY <1>7, <1>10, KeyType DEF SlotsInv, Routes
  <2>3. SlotsInv'
    BY <1>3, <1>10, <2>2 DEF SlotsInv
  <2>4. InHand' = {key}
    BY <1>2, <1>10 DEF InHand
  <2> QED
    BY <1>3, <1>6, <1>7, <1>8, <1>10, <2>1, <2>3, <2>4 DEF Resting, Fresh, PaidFor, Room, Capped
<1> QED
  BY <1>9, <1>10 DEF Merge

\* The alert of a signal is out.
LEMMA SignalFiredHolds == IInv /\ SignalFired => IInv'
<1> SUFFICES ASSUME IInv, SignalFired PROVE IInv'
  OBVIOUS
<1> USE DEF IInv
<1>1. PICK i \in Items, r \in Routes : item = {i} /\ route = {r}
  BY OneInHand DEF SignalFired, Resting
<1>2. /\ pc = "firing" /\ Charge /\ BackToLoop
      /\ UNCHANGED <<registered, merged, pending, handled, graph, extracted, sixk,
                     definitive, crashes, bought>>
  BY DEF SignalFired, disk
<1>3. \A k : Already(k) => Already(k)'
  BY <1>2 DEF Already
<1>4. Already(Key(i, r))'
  BY <1>1, <1>2, <1>3 DEF InHand, Fresh
<1>5. \A k \in bought' : Already(k)' \/ k \in pending'
  BY <1>2, <1>3 DEF PaidFor
<1>6. MergedOnce' /\ merged' \in [ProposalKeys -> 0..2]
  BY <1>2 DEF MergedOnce, TypeOK
<1>7. pending' \subseteq ProposalKeys /\ handled' \subseteq ProposalKeys /\ bought' \subseteq ProposalKeys
  BY <1>2 DEF TypeOK
<1> QED
  BY <1>1, <1>2, <1>3, <1>4, <1>5, <1>6, <1>7, ChargeHolds

\* The loop has been through every target.
LEMMA LoopDoneHolds == IInv /\ LoopDone => IInv'
<1> SUFFICES ASSUME IInv, LoopDone PROVE IInv'
  OBVIOUS
<1>1. registered' \subseteq Items
  BY OneInHand DEF LoopDone, IInv, TypeOK
<1> QED
  BY <1>1, PutDownHolds DEF LoopDone, history, IInv, TypeOK

\* The process stops and starts again.
LEMMA CrashHolds == IInv /\ Crash => IInv'
<1> SUFFICES ASSUME IInv, Crash PROVE IInv'
  OBVIOUS
<1> USE DEF IInv
<1>1. /\ bought' = (IF pc = "merging" THEN bought \ InHand ELSE bought)
      /\ window' = [k \in LimiterKeys |-> 0]
      /\ UNCHANGED <<disk, owed, charged>> /\ PutDown
  BY DEF Crash, InHand
<1>2. TypeOK'
  <2>1. crashes' \in 0..MaxCrashes
    BY PipelineAssumption DEF Crash, TypeOK
  <2>2. /\ window' \in [LimiterKeys -> Nat]
        /\ \A k \in LimiterKeys : window'[k] <= Limit(k)
    BY <1>1, LimitType DEF Routes
  <2> QED
    BY <1>1, <2>1, <2>2 DEF TypeOK, disk, PutDown
<1>3. PaidFor'
  BY <1>1 DEF PaidFor, Already, disk
<1>4. MergedOnce' /\ SlotsInv'
  BY <1>1 DEF MergedOnce, SlotsInv, Already, disk, PutDown
<1>5. Resting' /\ Fresh' /\ Room' /\ Capped'
  BY <1>1 DEF Resting, Fresh, Room, Capped, PutDown
<1> QED
  BY <1>2, <1>3, <1>4, <1>5

\* An event leaves its window.
LEMMA RollOffHolds == \A k \in LimiterKeys : IInv /\ RollOff(k) => IInv'
<1> SUFFICES ASSUME IInv, NEW k \in LimiterKeys, RollOff(k) PROVE IInv'
  OBVIOUS
<1> USE DEF IInv
<1>1. UNCHANGED <<disk, hand, crashes, history>> /\ window' = [window EXCEPT ![k] = @ - 1]
  BY DEF RollOff
<1>2. window[k] \in Nat /\ window[k] > 0
  BY DEF RollOff, TypeOK
<1>3. \A j \in LimiterKeys : window[j] \in Nat /\ Limit(j) \in Nat
  BY LimitType DEF TypeOK, Routes
<1>4. /\ window' \in [LimiterKeys -> Nat]
      /\ \A j \in LimiterKeys : window'[j] <= window[j]
  BY <1>1, <1>2, <1>3 DEF TypeOK
<1>5. TypeOK'
  BY <1>1, <1>3, <1>4 DEF TypeOK, disk, hand, history
<1>6. Room'
  BY <1>1, <1>3, <1>4 DEF Room, hand
<1>7. Resting' /\ Fresh' /\ PaidFor' /\ MergedOnce' /\ Capped' /\ SlotsInv'
  BY <1>1 DEF Resting, Fresh, PaidFor, MergedOnce, Capped, SlotsInv, InHand, Already,
              WithinSixKCap, SixKCount, disk, hand, history
<1> QED
  BY <1>5, <1>6, <1>7

\* The invariant is inductive.
LEMMA Inductive == IInv /\ [Next]_vars => IInv'
<1> SUFFICES ASSUME IInv, [Next]_vars PROVE IInv'
  OBVIOUS
<1>1. CASE \E i \in Items : Take(i)
  BY <1>1, TakeItemHolds, TakeFilingHolds DEF Take
<1>2. CASE TaskStep
  <2>1. \A r \in todo : r \in Routes
    BY DEF IInv, TypeOK
  <2> QED
    BY <1>2, <2>1, NoTextHolds, TextHolds, ExtractedHolds, ExtractionRaisesHolds, TakeRouteHolds,
       ProposedHolds, ReviewedHolds, NoAnswerHolds, MergeHolds, SignalFiredHolds, LoopDoneHolds
       DEF TaskStep, Answer
<1>3. CASE Crash
  BY <1>3, CrashHolds
<1>4. CASE \E k \in LimiterKeys : RollOff(k)
  BY <1>4, RollOffHolds
<1>5. CASE UNCHANGED vars
  BY <1>5 DEF vars, disk, hand, history, IInv, TypeOK, Resting, Fresh, PaidFor, MergedOnce, Room,
              Capped, SlotsInv, InHand, Already, WithinSixKCap, SixKCount
<1> QED
  BY <1>1, <1>2, <1>3, <1>4, <1>5 DEF Next

-----------------------------------------------------------------------------
(* The theorems.                                                           *)

\* The invariant the theorems below are read off holds in every reachable state.
THEOREM InvariantHolds == Spec => []IInv
<1> QED
  BY InitHolds, Inductive, PTL DEF Spec

\* The pipeline's variables keep their types: no window exceeds its limit, and
\* no 6-K count the cap, whatever is retried and however often it restarts.
THEOREM TypeCorrect == Spec => []TypeOK
<1>1. IInv => TypeOK
  BY DEF IInv
<1> QED
  BY <1>1, InvariantHolds, PTL

\* No sequence of deferrals, crashes and retries merges an item into a dossier
\* twice.
THEOREM OneRecord == Spec => []MergedOnce
<1>1. IInv => MergedOnce
  BY DEF IInv
<1> QED
  BY <1>1, InvariantHolds, PTL

\* The updater is never asked again for a proposal it was paid for, except for
\* one that was lost between the skeptic's answer and the dossier's save.
THEOREM PaidOnce == Spec => []ProposalBoughtOnce
<1>1. ASSUME IInv PROVE ProposalBoughtOnce
  <2>1. SUFFICES ASSUME pc = "proposing", NEW i \in item, NEW r \in route, Key(i, r) \in bought
                 PROVE  FALSE
    BY DEF ProposalBoughtOnce
  <2>2. Key(i, r) \in InHand
    BY DEF InHand
  <2> QED
    BY <1>1, <2>1, <2>2 DEF IInv, Fresh, PaidFor
<1> QED
  BY <1>1, InvariantHolds, PTL

\* A window grows only by the route in hand, which the item was not charged for.
LEMMA OneSlotStep ==
    ASSUME IInv, [Next]_vars, NEW k \in LimiterKeys, window'[k] > window[k]
    PROVE  item \X {k} \cap charged = {}
<1> USE DEF IInv
<1>0. window[k] \in Nat
  BY DEF TypeOK
<1>1. window' # window
  BY <1>0
<1>2. CASE Charge /\ pc \in {"proposing", "reviewing", "merging", "firing"}
  <2>1. k \in route
    BY <1>0, <1>2 DEF Charge
  <2> QED
    BY <1>2, <2>1 DEF SlotsInv
<1>3. CASE Crash
  BY <1>0, <1>3 DEF Crash
<1>4. CASE \E j \in LimiterKeys : RollOff(j)
  BY <1>0, <1>4 DEF RollOff, TypeOK
<1>5. CASE UNCHANGED vars \/ \E i \in Items : Take(i)
  BY <1>1, <1>5 DEF vars, Take, TakeItem, TakeFiling
<1>6. CASE TaskStep
  <2>1. CASE NoText \/ Text \/ (\E ran \in BOOLEAN : Extracted(ran)) \/ ExtractionRaises
             \/ NoAnswer \/ LoopDone
    BY <1>1, <2>1 DEF NoText, Text, Extracted, ExtractionRaises, NoAnswer, Defer, LoopDone
  <2>2. CASE \E r \in todo : TakeRoute(r)
    BY <1>1, <2>2 DEF TakeRoute, AlreadyDone
  <2>3. CASE Answer
    BY <1>1, <1>2, <2>3 DEF Answer, Proposed, Reviewed
  <2>4. CASE SignalFired \/ \E fires \in BOOLEAN : Merge(fires)
    BY <1>1, <1>2, <2>4 DEF SignalFired, Merge
  <2> QED
    BY <1>6, <2>1, <2>2, <2>3, <2>4 DEF TaskStep
<1> QED
  BY <1>3, <1>4, <1>5, <1>6 DEF Next

\* However often an item is retried, it takes one slot of a link's window.
THEOREM OneSlot == Spec => SlotTakenOnce
<1>1. IInv /\ [Next]_vars =>
          [\A k \in LimiterKeys : window'[k] > window[k] => item \X {k} \cap charged = {}]_vars
  BY OneSlotStep
<1> QED
  BY <1>1, InvariantHolds, PTL DEF Spec, SlotTakenOnce

-----------------------------------------------------------------------------
(* What the loop owes an item before it may register it.                   *)

InLoop == pc \in {"looping", "proposing", "reviewing", "merging", "firing"}

\* A target of the item is still to come, or has been judged.
DueOrDone(i, r) == r \in todo \cup route \/ Already(Key(i, r))

\* As long as nothing was deferred, this is so of some target of the item, and
\* of its own dossier if it has one.
Due ==
    InLoop /\ definitive =>
        \A i \in item :
            /\ \E r \in Concerned(i, graph) : DueOrDone(i, r)
            /\ \A r \in Concerned(i, graph) \cap Own : DueOrDone(i, r)

\* The own dossier of an item is never throttled.
LEMMA OwnConcerned ==
    ASSUME NEW i \in Items, NEW edges, i.origin \in Tradeable
    PROVE  <<"own", i.origin, i.origin>> \in Concerned(i, edges) \cap Own
  BY DEF Concerned, Own

\* A hand-out that registers an item found nothing it concerns.
LEMMA HandOutRegisters ==
    ASSUME NEW i \in Items, NEW edges \in SUBSET (Origins \X Tradeable), HandOut(i, edges),
           registered' # registered
    PROVE  registered' = registered \cup {i} /\ i.origin \notin Tradeable
           /\ Concerned(i, edges) = {}
<1>1. i.origin \notin Tradeable
  BY OwnConcerned DEF HandOut, WhenNoTarget, Register
<1>2. registered' = registered \cup {i} /\ Propagation(i, edges) = {}
  BY DEF HandOut, WhenNoTarget, Register
<1> QED
  BY <1>1, <1>2 DEF Concerned

\* A hand-out enters the loop with a target, the own dossier among them.
LEMMA HandOutDue ==
    ASSUME NEW i \in Items, HandOut(i, graph'), InLoop'
    PROVE  Due'
<1>1. /\ item' = {i} /\ todo' # {} /\ todo' \subseteq Concerned(i, graph')
      /\ Concerned(i, graph') \cap Own \subseteq todo'
  BY DEF HandOut, PutDown, InLoop
<1>2. \A r \in todo' : DueOrDone(i, r)'
  BY DEF DueOrDone
<1> QED
  BY <1>1, <1>2 DEF Due

\* The loop is entered by a hand-out over the graph as it is then.
LEMMA LoopEntered ==
    ASSUME IInv, [Next]_vars, ~InLoop, InLoop'
    PROVE  \E i \in Items : HandOut(i, graph')
<1> USE DEF IInv
<1>1. CASE \E i \in Items : Take(i)
  BY <1>1 DEF Take, TakeItem, TakeFiling, hand, InLoop
<1>2. CASE Text \/ \E ran \in BOOLEAN : Extracted(ran)
  <2>1. PICK i \in Items : item = {i}
    BY OneInHand, <1>2 DEF Text, Extracted
  <2> QED
    BY <1>2, <2>1 DEF Text, Extracted, InLoop
<1>3. CASE NoText \/ LoopDone \/ ExtractionRaises \/ Crash
  BY <1>3 DEF NoText, LoopDone, ExtractionRaises, Crash, PutDown, InLoop
<1>4. CASE (\E r \in todo : TakeRoute(r)) \/ Answer \/ NoAnswer \/ SignalFired
           \/ \E fires \in BOOLEAN : Merge(fires)
  BY <1>4 DEF TakeRoute, Answer, Proposed, Reviewed, NoAnswer, SignalFired, Merge, InLoop
<1>5. CASE UNCHANGED vars \/ \E k \in LimiterKeys : RollOff(k)
  BY <1>5 DEF vars, hand, RollOff, InLoop
<1> QED
  BY <1>1, <1>2, <1>3, <1>4, <1>5 DEF Next, TaskStep

\* What holds from one await of the loop to the next: no judgement is undone,
\* and a target is left only when it was judged, or for a deferral.
LoopKeeps ==
    /\ UNCHANGED <<item, graph>>
    /\ definitive' => definitive
    /\ \A k \in ProposalKeys : Already(k) => Already(k)'
    /\ definitive' => \A i \in item, r \in Routes :
                          r \in todo \cup route => r \in todo' \cup route' \/ Already(Key(i, r))'

\* A step that judges the target in hand, or leaves the hand alone.
LEMMA TargetStepKeeps ==
    ASSUME IInv, InLoop, Answer \/ SignalFired \/ \E fires \in BOOLEAN : Merge(fires)
    PROVE  LoopKeeps
<1> USE DEF IInv
<1>1. PICK i \in Items, r \in Routes : item = {i} /\ route = {r}
  BY OneInHand DEF Answer, Proposed, Reviewed, SignalFired, Merge, Resting
<1>2. Key(i, r) \in ProposalKeys
  BY KeyType
<1>3. /\ UNCHANGED <<item, todo, graph, definitive>>
      /\ \/ UNCHANGED <<merged, handled>>
         \/ merged' = merged /\ handled' = handled \cup {Key(i, r)}
         \/ handled' = handled
            /\ merged' = [merged EXCEPT ![Key(i, r)] = IF @ < 2 THEN @ + 1 ELSE @]
  BY <1>1 DEF Answer, Proposed, Reviewed, SignalFired, Merge, MarkHandled, BackToLoop, disk
<1>4. \A k \in ProposalKeys : Already(k) => Already(k)'
  BY <1>2, <1>3 DEF Already, TypeOK
<1>5. route' = route \/ Already(Key(i, r))'
  <2>1. CASE SignalFired
    BY <1>1, <2>1 DEF SignalFired, Fresh, InHand, Already, disk
  <2>2. CASE \E fires \in BOOLEAN : Merge(fires)
    <3>1. merged'[Key(i, r)] > 0
      BY <1>1, <1>2, <2>2 DEF Merge, TypeOK
    <3> QED
      BY <3>1 DEF Already
  <2>3. CASE Answer
    BY <1>1, <2>3 DEF Answer, Proposed, Reviewed, MarkHandled, Already
  <2> QED
    BY <2>1, <2>2, <2>3
<1> QED
  BY <1>1, <1>3, <1>4, <1>5 DEF LoopKeeps

\* Every step from await to await of the loop keeps it.
LEMMA LoopGoesOn ==
    ASSUME IInv, [Next]_vars, InLoop, InLoop'
    PROVE  LoopKeeps
<1> USE DEF IInv
<1>1. CASE Answer \/ SignalFired \/ \E fires \in BOOLEAN : Merge(fires)
  BY <1>1, TargetStepKeeps
<1>2. CASE NoAnswer
  BY <1>2 DEF NoAnswer, Defer, BackToLoop, LoopKeeps, disk, Already
<1>3. CASE \E r \in todo : TakeRoute(r)
  <2>1. PICK r \in todo : TakeRoute(r)
    BY <1>3
  <2>2. PICK i \in Items : item = {i}
    BY OneInHand, <2>1 DEF TakeRoute
  <2>3. /\ route = {} /\ todo' = todo \ {r}
        /\ UNCHANGED <<merged, handled, item, definitive, graph>>
    BY <2>1 DEF TakeRoute, AlreadyDone, Resting, disk
  <2>4. route' = {r} \/ Already(Key(i, r))
    BY <2>1, <2>2 DEF TakeRoute
  <2> QED
    BY <2>2, <2>3, <2>4 DEF LoopKeeps, Already
<1>4. CASE (\E i \in Items : Take(i)) \/ Text \/ (\E ran \in BOOLEAN : Extracted(ran))
           \/ NoText \/ ExtractionRaises
  BY <1>4 DEF Take, TakeItem, TakeFiling, Text, Extracted, NoText, ExtractionRaises, InLoop
<1>5. CASE LoopDone \/ Crash
  BY <1>5 DEF LoopDone, Crash, PutDown, InLoop
<1>6. CASE UNCHANGED vars \/ \E k \in LimiterKeys : RollOff(k)
  BY <1>6 DEF vars, disk, hand, RollOff, LoopKeeps, Already
<1> QED
  BY <1>1, <1>2, <1>3, <1>4, <1>5, <1>6 DEF Next, TaskStep

\* While the loop may still register an item, what it owes it is to come or done.
LEMMA DueStep == IInv /\ Due /\ [Next]_vars => Due'
<1> SUFFICES ASSUME IInv, Due, [Next]_vars, InLoop', definitive' PROVE Due'
  BY DEF Due
<1>1. CASE ~InLoop
  BY <1>1, LoopEntered, HandOutDue
<1>2. CASE InLoop
  <2>1. LoopKeeps
    BY <1>2, LoopGoesOn
  <2>2. graph \in SUBSET (Origins \X Tradeable) /\ item \subseteq Items
    BY DEF IInv, TypeOK
  <2>3. \A i \in item : \A r \in Concerned(i, graph) : DueOrDone(i, r) => DueOrDone(i, r)'
    <3> SUFFICES ASSUME NEW i \in item, NEW r \in Concerned(i, graph), DueOrDone(i, r)
                 PROVE  DueOrDone(i, r)'
      OBVIOUS
    <3>1. r \in Routes /\ Key(i, r) \in ProposalKeys
      BY <2>2, ConcernedType, KeyType
    <3> QED
      BY <2>1, <3>1 DEF LoopKeeps, DueOrDone
  <2>4. item' = item /\ graph' = graph /\ definitive
    BY <2>1 DEF LoopKeeps
  <2>5. \A i \in item' : /\ \E r \in Concerned(i, graph) : DueOrDone(i, r)'
                         /\ \A r \in Concerned(i, graph) \cap Own : DueOrDone(i, r)'
    BY <1>2, <2>3, <2>4 DEF Due
  <2> QED
    BY <2>4, <2>5 DEF Due
<1> QED
  BY <1>1, <1>2

\* Outside the loop nothing is owed.
LEMMA DueHolds == Spec => []Due
<1>1. Init => Due
  BY DEF Init, Due, InLoop
<1> QED
  BY <1>1, DueStep, InvariantHolds, PTL DEF Spec

\* What the end of the loop may register was judged, by its own dossier if it
\* has one.
LEMMA LoopDoneDecided ==
    ASSUME IInv, Due, LoopDone, definitive, NEW i \in Items, item = {i}
    PROVE  Decided(i) # {} /\ Concerned(i, graph) \cap Own \subseteq Decided(i)
<1>1. InLoop /\ todo \cup route = {}
  BY DEF LoopDone, InLoop, IInv, Resting
<1> QED
  BY <1>1 DEF Due, DueOrDone, Decided

\* A step of RegisteredWasRead.
LEMMA ReadStep ==
    ASSUME IInv, Due, [Next]_vars, NEW i, i \in registered', i \notin registered,
           NearDuplicates(i) = {}, Concerned(i, graph') # {}
    PROVE  Decided(i) # {} /\ Concerned(i, graph) \cap Own \subseteq Decided(i)
<1> USE DEF IInv
<1>0. graph \in SUBSET (Origins \X Tradeable)
  BY DEF TypeOK
<1>1. ASSUME NEW j \in Items, HandOut(j, graph'), graph' \in SUBSET (Origins \X Tradeable)
      PROVE  FALSE
  BY <1>1, HandOutRegisters
<1>2. CASE \E j \in Items : Take(j)
  <2>1. PICK j \in Items : TakeItem(j) \/ TakeFiling(j)
    BY <1>2 DEF Take
  <2> QED
    BY <1>0, <1>1, <2>1 DEF TakeItem, TakeFiling, Register, disk
<1>3. CASE Text
  <2>1. PICK j \in Items : item = {j}
    BY OneInHand, <1>3 DEF Text
  <2> QED
    BY <1>0, <1>1, <1>3, <2>1 DEF Text
<1>4. CASE \E ran \in BOOLEAN : Extracted(ran)
  <2>1. PICK j \in Items : item = {j}
    BY OneInHand, <1>4 DEF Extracted
  <2>2. graph' \in SUBSET (Origins \X Tradeable)
    BY <1>0, <1>4, <2>1, PipelineAssumption DEF Extracted
  <2> QED
    BY <1>1, <1>4, <2>1, <2>2 DEF Extracted
<1>5. CASE LoopDone
  <2>1. definitive /\ item = {i}
    BY OneInHand, <1>5 DEF LoopDone
  <2>2. i \in Items
    BY <2>1 DEF TypeOK
  <2> QED
    BY <1>5, <2>1, <2>2, LoopDoneDecided
<1>6. CASE \/ NoText \/ ExtractionRaises \/ NoAnswer \/ Answer \/ SignalFired \/ Crash
           \/ \E fires \in BOOLEAN : Merge(fires)
  BY <1>6 DEF NoText, ExtractionRaises, NoAnswer, Defer, Answer, Proposed, Reviewed, SignalFired,
              Crash, Merge, disk
<1>7. CASE UNCHANGED vars \/ (\E r \in todo : TakeRoute(r)) \/ \E k \in LimiterKeys : RollOff(k)
  BY <1>7 DEF TakeRoute, RollOff, vars, disk
<1> QED
  BY <1>2, <1>3, <1>4, <1>5, <1>6, <1>7 DEF Next, TaskStep

\* The cooldown is a rate limit, not a filter: whatever is throttled, deferred,
\* retried or lost in a crash, an item that concerns a dossier is registered
\* only when one has judged it, and its own company's among them.
THEOREM NotFiltered == Spec => RegisteredWasRead
<1>1. IInv /\ Due /\ [Next]_vars =>
          [\A i \in registered' \ registered :
               NearDuplicates(i) = {} /\ Concerned(i, graph') # {} =>
                   /\ Decided(i) # {}
                   /\ Concerned(i, graph) \cap Own \subseteq Decided(i)]_vars
  BY ReadStep
<1> QED
  BY <1>1, DueHolds, InvariantHolds, PTL DEF Spec, RegisteredWasRead

-----------------------------------------------------------------------------
(* The pipeline implements EvidenceDelivery.                               *)

\* What EvidenceDelivery sees.
Verdict(k) ==
    IF merged[k] > 0 THEN "merged" ELSE IF k \in handled THEN "dropped" ELSE "open"

Outcome == [k \in ProposalKeys |-> Verdict(k)]

DeliveryStep == [Delivery!DeliveryNext]_(Delivery!deliveryVars)

\* What leaves index, dossiers and outcomes alone is no step of EvidenceDelivery.
LEMMA DeliveryStutters ==
    ASSUME UNCHANGED <<registered, merged, handled>>
    PROVE  DeliveryStep
  BY DEF DeliveryStep, Delivery!deliveryVars

\* An item is registered.
LEMMA Settles ==
    ASSUME NEW i \in Items, registered' = registered \cup {i}, UNCHANGED <<merged, handled>>,
           i.origin \in Tradeable =>
               Already(<<i.origin, i.id>>) \/ \E j \in registered : j.story = i.story
    PROVE  DeliveryStep
<1>1. CASE i \in registered
  BY <1>1, DeliveryStutters
<1>2. CASE i \notin registered
  <2>1. i.origin \in Tradeable => <<i.origin, i.id>> \in ProposalKeys
    BY DEF ProposalKeys, EvidenceIds
  <2>2. Delivery!Settle(i)
    BY <1>2, <2>1 DEF Delivery!Settle, Already
  <2> QED
    BY <2>2 DEF DeliveryStep, Delivery!DeliveryNext
<1> QED
  BY <1>1, <1>2

\* A dossier judges an item it had not judged.
LEMMA Decides ==
    ASSUME TypeOK, NEW k \in ProposalKeys, ~Already(k), registered' = registered,
           \/ merged' = merged /\ handled' = handled \cup {k}
           \/ merged' = [merged EXCEPT ![k] = 1] /\ handled' = handled
    PROVE  DeliveryStep
<1>1. k \in Tradeable \X Delivery!Ids
  BY DEF ProposalKeys, EvidenceIds, Delivery!Ids
<1>2. merged[k] = 0 /\ k \notin handled
  BY DEF Already, TypeOK
<1>3. Outcome[k] = "open"
  BY <1>2 DEF Outcome, Verdict
<1>4. CASE merged' = merged /\ handled' = handled \cup {k}
  <2>1. Outcome' = [Outcome EXCEPT ![k] = "dropped"]
    <3>1. /\ Verdict(k)' = "dropped"
          /\ \A x \in ProposalKeys : x # k => Verdict(x)' = Verdict(x)
      BY <1>2, <1>4 DEF Verdict
    <3> QED
      BY <3>1 DEF Outcome
  <2>2. Delivery!Decide(k, "dropped")
    BY <1>3, <2>1 DEF Delivery!Decide, Outcome, Verdict
  <2> QED
    BY <1>1, <2>2 DEF DeliveryStep, Delivery!DeliveryNext
<1>5. CASE merged' = [merged EXCEPT ![k] = 1] /\ handled' = handled
  <2>1. Outcome' = [Outcome EXCEPT ![k] = "merged"]
    <3>1. merged'[k] = 1 /\ \A x \in ProposalKeys : x # k => merged'[x] = merged[x]
      BY <1>5 DEF TypeOK
    <3>2. /\ Verdict(k)' = "merged"
          /\ \A x \in ProposalKeys : x # k => Verdict(x)' = Verdict(x)
      BY <1>5, <3>1 DEF Verdict
    <3> QED
      BY <3>2 DEF Outcome
  <2>2. Delivery!Decide(k, "merged")
    BY <1>3, <2>1 DEF Delivery!Decide, Outcome, Verdict
  <2> QED
    BY <1>1, <2>2 DEF DeliveryStep, Delivery!DeliveryNext
<1> QED
  BY <1>4, <1>5

\* A hand-out is a stutter, or settles an item without a dossier of its own.
LEMMA HandOutDelivers ==
    ASSUME NEW i \in Items, NEW edges \in SUBSET (Origins \X Tradeable), HandOut(i, edges),
           UNCHANGED <<merged, handled>>
    PROVE  DeliveryStep
<1>1. CASE registered' = registered
  BY <1>1, DeliveryStutters
<1>2. CASE registered' # registered
  BY <1>2, HandOutRegisters, Settles
<1> QED
  BY <1>1, <1>2

\* Every step of the pipeline is a step of EvidenceDelivery or a stutter.
LEMMA StepDelivers == IInv /\ Due /\ [Next]_vars => DeliveryStep
<1> SUFFICES ASSUME IInv, Due, [Next]_vars PROVE DeliveryStep
  OBVIOUS
<1> USE DEF IInv
<1>0. graph \in SUBSET (Origins \X Tradeable)
  BY DEF TypeOK
<1>1. CASE \E i \in Items : Take(i)
  <2>1. PICK i \in Items : TakeItem(i) \/ TakeFiling(i)
    BY <1>1 DEF Take
  <2>2. CASE TakeItem(i) /\ HandOut(i, graph)
    BY <1>0, <2>2, HandOutDelivers DEF TakeItem
  <2>3. CASE TakeItem(i) /\ NearDuplicates(i) # {} /\ Register(i)
    <3>1. \E j \in registered : j.story = i.story
      BY <2>3 DEF NearDuplicates
    <3> QED
      BY <2>3, <3>1, Settles DEF TakeItem, Register
  <2>4. CASE TakeFiling(i)
    BY <2>4, DeliveryStutters DEF TakeFiling, disk
  <2> QED
    BY <2>1, <2>2, <2>3, <2>4 DEF TakeItem
<1>2. CASE Text
  <2>1. PICK i \in Items : item = {i}
    BY OneInHand, <1>2 DEF Text
  <2>2. UNCHANGED <<merged, handled>> /\ (registered' = registered \/ HandOut(i, graph))
    BY <1>2, <2>1 DEF Text
  <2> QED
    BY <1>0, <2>2, HandOutDelivers, DeliveryStutters
<1>3. CASE \E ran \in BOOLEAN : Extracted(ran)
  <2>1. PICK i \in Items : item = {i}
    BY OneInHand, <1>3 DEF Extracted
  <2>2. graph' \in SUBSET (Origins \X Tradeable)
    BY <1>0, <1>3, <2>1, PipelineAssumption DEF Extracted
  <2>3. UNCHANGED <<merged, handled>> /\ HandOut(i, graph')
    BY <1>3, <2>1 DEF Extracted
  <2> QED
    BY <2>2, <2>3, HandOutDelivers
<1>4. CASE LoopDone
  <2>1. PICK i \in Items : item = {i}
    BY OneInHand, <1>4 DEF LoopDone
  <2>2. UNCHANGED <<merged, handled>>
        /\ registered' = IF definitive THEN registered \cup {i} ELSE registered
    BY <1>4, <2>1 DEF LoopDone
  <2>3. CASE definitive
    <3>1. i.origin \in Tradeable => Already(<<i.origin, i.id>>)
      <4>1. Key(i, <<"own", i.origin, i.origin>>) = <<i.origin, i.id>>
        BY DEF Key, Target
      <4> QED
        BY <1>4, <2>1, <2>3, <4>1, LoopDoneDecided, OwnConcerned DEF Decided
    <3> QED
      BY <2>2, <2>3, <3>1, Settles
  <2> QED
    BY <2>2, <2>3, DeliveryStutters
<1>5. CASE Answer
  <2>1. PICK i \in Items, r \in Routes : item = {i} /\ route = {r}
    BY OneInHand, <1>5 DEF Answer, Proposed, Reviewed, Resting
  <2>2. Key(i, r) \in ProposalKeys /\ ~Already(Key(i, r))
    BY <1>5, <2>1, KeyType DEF Answer, Proposed, Reviewed, Fresh, InHand
  <2>3. /\ UNCHANGED <<registered, merged>>
        /\ handled' = handled \/ handled' = handled \cup {Key(i, r)}
    BY <1>5, <2>1 DEF Answer, Proposed, Reviewed, MarkHandled
  <2> QED
    BY <2>2, <2>3, Decides, DeliveryStutters
<1>6. CASE \E fires \in BOOLEAN : Merge(fires)
  <2>1. PICK i \in Items, r \in Routes : item = {i} /\ route = {r}
    BY OneInHand, <1>6 DEF Merge, Resting
  <2>2. Key(i, r) \in ProposalKeys /\ ~Already(Key(i, r))
    BY <1>6, <2>1, KeyType DEF Merge, Fresh, InHand
  <2>3. /\ UNCHANGED <<registered, handled>>
        /\ merged' = [merged EXCEPT ![Key(i, r)] = IF @ < 2 THEN @ + 1 ELSE @]
    BY <1>6, <2>1 DEF Merge
  <2>4. merged[Key(i, r)] = 0
    BY <2>2 DEF Already, TypeOK
  <2>5. merged' = [merged EXCEPT ![Key(i, r)] = 1]
    BY <2>3, <2>4
  <2> QED
    BY <2>2, <2>3, <2>5, Decides
<1>7. CASE \/ NoText \/ ExtractionRaises \/ NoAnswer \/ SignalFired \/ Crash \/ UNCHANGED vars
           \/ \E r \in todo : TakeRoute(r)
           \/ \E k \in LimiterKeys : RollOff(k)
  BY <1>7, DeliveryStutters DEF NoText, ExtractionRaises, NoAnswer, Defer, SignalFired, Crash,
                                TakeRoute, RollOff, vars, disk
<1> QED
  BY <1>1, <1>2, <1>3, <1>4, <1>5, <1>6, <1>7 DEF Next, TaskStep

\* A dossier decides once about an item, and an item is settled only when its
\* own dossier has decided: every step of the pipeline, with all its caches,
\* retries and restarts, is a step of EvidenceDelivery or none.
THEOREM RefinesDelivery == Spec => ImplementsDelivery
<1>1. Init => Delivery!DeliveryInit
  <2> SUFFICES ASSUME Init PROVE Delivery!DeliveryInit
    OBVIOUS
  <2>1. \A k \in ProposalKeys : ~(merged[k] > 0) /\ k \notin handled
    BY DEF Init
  <2>2. ProposalKeys = Tradeable \X Delivery!Ids
    BY DEF ProposalKeys, EvidenceIds, Delivery!Ids
  <2> QED
    BY <2>1, <2>2 DEF Delivery!DeliveryInit, Init
<1>2. IInv /\ Due /\ [Next]_vars => [Delivery!DeliveryNext]_(Delivery!deliveryVars)
  BY StepDelivers DEF DeliveryStep
<1> QED
  BY <1>1, <1>2, DueHolds, InvariantHolds, PTL
     DEF Spec, ImplementsDelivery, Delivery!DeliverySpec
=============================================================================
