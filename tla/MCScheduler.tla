----------------------------- MODULE MCScheduler -----------------------------
(* A trading day and one that is not.                                        *)
EXTENDS Scheduler

MCWeek == <<TRUE, FALSE>>
=============================================================================
