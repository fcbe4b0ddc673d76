-------------------------- MODULE MCSignalEngine --------------------------
(***************************************************************************)
(* What is checked of the signal engine: an instance with one symbol and   *)
(* two directions; no symmetry, for the run has liveness properties.       *)
(***************************************************************************)
EXTENDS SignalEngine

\* The bound of the run: one thing goes wrong, at any moment: the process dies,
\* the dashboard resets the state, or the Gateway is away, which may recur.
OneDisturbance == crashes + resets + (IF ibUp THEN 0 ELSE 1) <= 1
===========================================================================
