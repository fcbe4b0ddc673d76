-------------------------- MODULE EvidenceDelivery --------------------------
(***************************************************************************)
(* What the evidence pipeline promises, with none of its caches: a dossier *)
(* makes up its mind about an item of evidence once, and an item is        *)
(* settled (never read again) only after the dossier of the company it is  *)
(* about has, or when it retells a story that is settled already.          *)
(* EvidencePipeline is shown to implement this across deferrals, retries   *)
(* and restarts.                                                           *)
(***************************************************************************)
CONSTANTS
    Dossiers,       \* the companies that have a dossier
    Item            \* records with an origin, an id and a story

VARIABLES
    outcome,        \* what each dossier made of each evidence id
    settled         \* the items never read again

deliveryVars == <<outcome, settled>>

Ids == {i.id : i \in Item}

DeliveryInit ==
    /\ outcome = [k \in Dossiers \X Ids |-> "open"]
    /\ settled = {}

Decide(k, verdict) ==
    /\ outcome[k] = "open"
    /\ outcome' = [outcome EXCEPT ![k] = verdict]
    /\ UNCHANGED settled

Settle(i) ==
    /\ i \notin settled
    /\ i.origin \in Dossiers =>
           \/ outcome[<<i.origin, i.id>>] # "open"
           \/ \E j \in settled : j.story = i.story
    /\ settled' = settled \cup {i}
    /\ UNCHANGED outcome

DeliveryNext ==
    \/ \E k \in Dossiers \X Ids, verdict \in {"merged", "dropped"} : Decide(k, verdict)
    \/ \E i \in Item : Settle(i)

DeliverySpec == DeliveryInit /\ [][DeliveryNext]_deliveryVars
=============================================================================
