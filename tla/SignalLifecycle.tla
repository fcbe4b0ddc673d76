-------------------------- MODULE SignalLifecycle --------------------------
(***************************************************************************)
(* What a signal is meant to live through, with none of the machinery: a   *)
(* symbol has no signal, or one that waits for the entry gate, or one that *)
(* is held as a position.  Every signal is a fresh episode, an episode is  *)
(* entered at most once and never comes back once it is over.              *)
(* SignalEngine is shown to implement this up to the first crash or reset. *)
(***************************************************************************)
EXTENDS Naturals

CONSTANTS Symbol, Direction

VARIABLES
    signal,      \* for each symbol, the stage it is in and its episode
    latest       \* the number of the latest episode

lifeVars == <<signal, latest>>

Quiet == [stage |-> "quiet"]
Waiting(e, dir) == [stage |-> "waiting", episode |-> e, dir |-> dir]
Held(e, dir) == [stage |-> "held", episode |-> e, dir |-> dir]

LifeInit ==
    /\ signal = [s \in Symbol |-> Quiet]
    /\ latest = 0

Become(s, next) == signal' = [signal EXCEPT ![s] = next]

\* A new episode, out of nothing or out of a waiting one that changed direction.
Fire(s, dir) ==
    /\ signal[s].stage # "held"
    /\ signal[s].stage = "waiting" => signal[s].dir # dir
    /\ latest' = latest + 1
    /\ Become(s, Waiting(latest', dir))

Enter(s) ==
    /\ signal[s].stage = "waiting"
    /\ Become(s, Held(signal[s].episode, signal[s].dir))
    /\ UNCHANGED latest

\* Waiting signals expire, or positions close.
End(S) ==
    /\ \A s \in S : signal[s].stage # "quiet"
    /\ signal' = [s \in Symbol |-> IF s \in S THEN Quiet ELSE signal[s]]
    /\ UNCHANGED latest

\* The evidence turns while the position is held: the episode this starts is
\* never seen, for the position's end ends it too.
FireUnseen ==
    /\ \E s \in Symbol : signal[s].stage = "held"
    /\ latest' = latest + 1
    /\ UNCHANGED signal

LifeNext ==
    \/ \E s \in Symbol : Enter(s) \/ \E dir \in Direction : Fire(s, dir)
    \/ \E S \in SUBSET Symbol : End(S)
    \/ FireUnseen

LifeSpec == LifeInit /\ [][LifeNext]_lifeVars
=============================================================================
