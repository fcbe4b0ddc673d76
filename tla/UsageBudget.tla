---------------------------- MODULE UsageBudget ----------------------------
(* The daily budget for language-model calls: usage.py, and the pattern its *)
(* callers share (dossier.py, skeptic.py, graph.py, research.py): ask       *)
(* budget_remaining, await the call, then record the answer or note the     *)
(* failure. Callers are the tasks that may await a call at the same time:   *)
(* the engine's own and the dashboard's operator tools.                     *)
(*                                                                          *)
(* Every set() of the store is a durable write, so memory and disk differ   *)
(* only inside an operation: a crash keeps a prefix of its writes. Tokens,  *)
(* rounding and log lines are left out. Shares are tenths of the day.       *)
EXTENDS Integers, FiniteSets, Functions

CONSTANTS
  Categories,   \* who a call is charged to
  Research,     \* the category whose one question may cost several calls
  Callers,      \* tasks that can be inside a call at the same time
  CallBudget,   \* max_daily_llm_calls
  UsdBudget,    \* max_daily_usd in price units, 0 for no dollar cap
  Share,        \* category -> tenths of the day it may spend, 10 for uncapped
  Reserved,     \* category -> tenths of the day set aside for it
  Prices,       \* category -> what one of its calls may cost, in price units
  MaxResumes,   \* further calls one research question may make
  DayLen,       \* time units in a day
  Interval,     \* BREAKER_PROBE_INTERVAL_SEC in time units
  MaxClock,     \* bound: the last moment
  MaxCrashes    \* bound: crashes

ASSUME UsageAssumption ==
  /\ Research \in Categories
  /\ IsFiniteSet(Categories) /\ IsFiniteSet(Callers) /\ Callers # {}
  /\ CallBudget \in Nat \ {0} /\ UsdBudget \in Nat
  /\ Prices \in [Categories -> SUBSET Nat]
  /\ \A c \in Categories : IsFiniteSet(Prices[c]) /\ Prices[c] # {}
  /\ Share \in [Categories -> 0..10] /\ Reserved \in [Categories -> 0..10]
  /\ FoldFunction(+, 0, Reserved) <= 10
  /\ MaxResumes \in Nat /\ DayLen \in Nat \ {0} /\ Interval \in Nat \ {0}
  /\ MaxClock \in Nat /\ MaxCrashes \in Nat

VARIABLES
  clock,      \* the time
  account,    \* whether the provider accepts calls: "ok" or "broken"
  usage,      \* llm_usage.json
  caller,     \* caller -> the category it is in a call for, and calls it may still make
  probes,     \* history: calls let through an open breaker since the day began or it opened
  crashes     \* crashes so far

vars == <<clock, account, usage, caller, probes, crashes>>

Never == -1
Idle == [cat |-> Research, left |-> 0]
Today == clock \div DayLen
Sum(f) == FoldFunction(+, 0, f)
AtLeast0(n) == IF n > 0 THEN n ELSE 0
Later(a, b) == IF a > b THEN a ELSE b
Earlier(a, b) == IF a < b THEN a ELSE b

(* What _roll_if_new_day leaves after its first n of eight writes; the date *)
(* is the first.                                                            *)
RollWrites == 8
RolledUpTo(n) ==
  IF usage.date = Today THEN usage
  ELSE [date      |-> IF n >= 1 THEN Today ELSE usage.date,
        calls     |-> IF n >= 2 THEN 0 ELSE usage.calls,
        usd       |-> IF n >= 3 THEN 0 ELSE usage.usd,
        usdBy     |-> IF n >= 4 THEN [c \in Categories |-> 0] ELSE usage.usdBy,
        callsBy   |-> IF n >= 5 THEN [c \in Categories |-> 0] ELSE usage.callsBy,
        open      |-> IF n >= 6 THEN FALSE ELSE usage.open,
        trippedAt |-> IF n >= 7 THEN Never ELSE usage.trippedAt,
        probeAt   |-> IF n >= 8 THEN Never ELSE usage.probeAt]
Rolled == RolledUpTo(RollWrites)

(* What a reservation still holds back from the others.                     *)
ReservedCalls(c) == (CallBudget * Reserved[c]) \div 10
UnspentCalls(u, c) == AtLeast0(ReservedCalls(c) - u.callsBy[c])
UnspentTenthsUsd(u, c) == AtLeast0(UsdBudget * Reserved[c] - 10 * u.usdBy[c])
(* Mutant: the reservation protects dollars only.                           *)
ReservedNoCalls(u, cat) == 0
ReservedCallsElsewhere(u, cat) ==
  Sum([c \in Categories \ {cat} |-> UnspentCalls(u, c)])
ReservedTenthsElsewhere(u, cat) ==
  Sum([c \in Categories \ {cat} |-> UnspentTenthsUsd(u, c)])

ProbeDue(u) ==
  LET latest == Later(u.trippedAt, u.probeAt)
  IN latest = Never \/ clock - latest >= Interval

(* The caps, in the order of the code: the day's calls, the day's dollars,  *)
(* the category's own share of both.                                        *)
(* Mutants: one call too many; the share of the calls is looked at only when*)
(* there is no dollar cap.                                                  *)
CallRoomForOneMore(u, cat) == u.calls <= CallBudget - ReservedCallsElsewhere(u, cat)
ShareOfDollars(u, cat) ==
  Share[cat] < 10 =>
    /\ Share[cat] > 0
    /\ IF UsdBudget > 0 THEN 10 * u.usdBy[cat] < UsdBudget * Share[cat]
       ELSE 10 * u.callsBy[cat] < CallBudget * Share[cat]
CallRoom(u, cat) == u.calls < CallBudget - ReservedCallsElsewhere(u, cat)
UsdRoom(u, cat) ==
  UsdBudget > 0 => 10 * u.usd < 10 * UsdBudget - ReservedTenthsElsewhere(u, cat)
ShareRoom(u, cat) ==
  Share[cat] < 10 =>
    /\ Share[cat] > 0
    /\ 10 * u.callsBy[cat] < CallBudget * Share[cat]
    /\ UsdBudget > 0 => 10 * u.usdBy[cat] < UsdBudget * Share[cat]
WithinCaps(u, cat) == CallRoom(u, cat) /\ UsdRoom(u, cat) /\ ShareRoom(u, cat)

PassesBreaker(u) == u.open => ProbeDue(u)

(* budget_remaining(cat): the answer, and the store it leaves. A probe is   *)
(* taken before the caps are looked at.                                     *)
(* Mutant: the probe is tested and not taken.                               *)
TestProbe(u) == u
TakeProbe(u) == IF u.open /\ ProbeDue(u) THEN [u EXCEPT !.probeAt = clock] ELSE u
BudgetRemaining(cat) == PassesBreaker(Rolled) /\ WithinCaps(Rolled, cat)
----------------------------------------------------------------------------
NoUsage == [date |-> 0, calls |-> 0, usd |-> 0,
            usdBy |-> [c \in Categories |-> 0], callsBy |-> [c \in Categories |-> 0],
            open |-> FALSE, trippedAt |-> Never, probeAt |-> Never]

Init ==
  /\ clock = 0 /\ account = "ok"
  /\ usage = NoUsage
  /\ caller = [p \in Callers |-> Idle]
  /\ probes = 0 /\ crashes = 0

CallsPer(cat) == IF cat = Research THEN MaxResumes + 1 ELSE 1
ProbeBound == (DayLen + Interval - 1) \div Interval
CountProbes(n) == Earlier(n, ProbeBound + 1)

(* The history restarts with the day.                                       *)
ProbesToday == IF usage.date = Today THEN probes ELSE 0

(* A caller is let through, and awaits its call.                            *)
Admitted(p, cat) ==
  /\ caller[p].left = 0
  /\ BudgetRemaining(cat)
  /\ usage' = TakeProbe(Rolled)
  /\ caller' = [caller EXCEPT ![p] = [cat |-> cat, left |-> CallsPer(cat)]]
  /\ probes' = IF Rolled.open THEN CountProbes(ProbesToday + 1) ELSE ProbesToday
  /\ UNCHANGED <<clock, account, crashes>>

(* A caller is refused and defers its work; deferral_reason, asked for the  *)
(* log, finds the breaker open or the caps reached and changes nothing      *)
(* more.                                                                    *)
Refused(p, cat) ==
  /\ caller[p].left = 0
  /\ ~ BudgetRemaining(cat)
  /\ usage' = TakeProbe(Rolled)
  /\ probes' = ProbesToday
  /\ UNCHANGED <<clock, account, caller, crashes>>

(* The diagnostics report asks budget_remaining for each category, to print *)
(* which are exhausted. No call follows.                                    *)
Diagnose(cat) ==
  /\ usage' = TakeProbe(Rolled)
  /\ probes' = ProbesToday
  /\ UNCHANGED <<clock, account, caller, crashes>>

(* record: the first n of its five writes, of the call that cost k.         *)
RecordWrites == 5
Recorded(cat, k, n) ==
  LET u == Rolled
  IN [u EXCEPT !.open = IF n >= 1 THEN FALSE ELSE @,
               !.trippedAt = IF u.open /\ n >= 1 THEN Never ELSE @,
               !.probeAt = IF u.open /\ n >= 1 THEN Never ELSE @,
               !.calls = IF n >= 2 THEN @ + 1 ELSE @,
               !.usd = IF n >= 3 THEN @ + k ELSE @,
               !.usdBy[cat] = IF n >= 4 THEN @ + k ELSE @,
               !.callsBy[cat] = IF n >= 5 THEN @ + 1 ELSE @]

(* The call succeeds. A research question may go on with another call,      *)
(* without asking the budget again.                                         *)
Answered(p) ==
  /\ caller[p].left > 0
  /\ account = "ok"
  /\ \E k \in Prices[caller[p].cat], left \in {0, caller[p].left - 1} :
       /\ usage' = Recorded(caller[p].cat, k, RecordWrites)
       /\ caller' = [caller EXCEPT ![p] = IF left = 0 THEN Idle ELSE [@ EXCEPT !.left = left]]
  /\ probes' = ProbesToday
  /\ UNCHANGED <<clock, account, crashes>>

(* note_failure on an account-level error opens the breaker, or moves its   *)
(* stamp when it is open.                                                   *)
NoteFailure == [Rolled EXCEPT !.open = TRUE, !.trippedAt = clock]

FailedForGood(p) ==
  /\ caller[p].left > 0
  /\ account = "broken"
  /\ usage' = NoteFailure
  /\ caller' = [caller EXCEPT ![p] = Idle]
  /\ probes' = IF Rolled.open THEN ProbesToday ELSE 0
  /\ UNCHANGED <<clock, account, crashes>>

(* Any other error is transient: nothing is written.                        *)
FailedForNow(p) ==
  /\ caller[p].left > 0
  /\ caller' = [caller EXCEPT ![p] = Idle]
  /\ UNCHANGED <<clock, account, usage, probes, crashes>>
----------------------------------------------------------------------------
(* The environment: time passes, the balance runs out and is topped up.     *)
Tick ==
  /\ clock < MaxClock
  /\ clock' = clock + 1
  /\ UNCHANGED <<account, usage, caller, probes, crashes>>

AccountChanges ==
  /\ account' = IF account = "ok" THEN "broken" ELSE "ok"
  /\ UNCHANGED <<clock, usage, caller, probes, crashes>>

(* The process dies and starts again on the store as written so far:        *)
(* between operations, within the roll of the day, or within a record.      *)
Restart(u) ==
  /\ crashes < MaxCrashes
  /\ crashes' = crashes + 1
  /\ usage' = u
  /\ caller' = [p \in Callers |-> Idle]
  /\ probes' = IF u.date = usage.date THEN probes ELSE 0
  /\ UNCHANGED <<clock, account>>

CrashIdle == Restart(usage)
CrashInRoll == \E n \in 1..RollWrites : usage.date # Today /\ Restart(RolledUpTo(n))
CrashInRecord ==
  \E p \in Callers, n \in 1..RecordWrites : \E k \in Prices[caller[p].cat] :
    /\ caller[p].left > 0
    /\ account = "ok"
    /\ Restart(Recorded(caller[p].cat, k, n))

Next ==
  \/ \E p \in Callers, cat \in Categories : Admitted(p, cat) \/ Refused(p, cat)
  \/ \E cat \in Categories : Diagnose(cat)
  \/ \E p \in Callers : Answered(p) \/ FailedForGood(p) \/ FailedForNow(p)
  \/ Tick \/ AccountChanges
  \/ CrashIdle \/ CrashInRoll \/ CrashInRecord

Spec == Init /\ [][Next]_vars
----------------------------------------------------------------------------
(* Properties.                                                              *)

Usage == [date : Nat, calls : Nat, usd : Nat,
          usdBy : [Categories -> Nat], callsBy : [Categories -> Nat],
          open : BOOLEAN, trippedAt : Nat \cup {Never}, probeAt : Nat \cup {Never}]

(* Every variable has its type; the store never carries a date or a stamp   *)
(* of the future, and an open breaker always has the stamp it counts from.  *)
TypeOK ==
  /\ clock \in 0..MaxClock /\ account \in {"ok", "broken"}
  /\ usage \in Usage
  /\ usage.date <= Today /\ usage.trippedAt <= clock /\ usage.probeAt <= clock
  /\ usage.open => usage.trippedAt # Never
  /\ caller \in [Callers -> [cat : Categories, left : 0..MaxResumes + 1]]
  /\ \A p \in Callers : caller[p].left <= CallsPer(caller[p].cat)
  /\ probes \in Nat /\ crashes \in 0..MaxCrashes

(* Calls that may still be made on a permission already given: of one       *)
(* category, and the most there can be, as the budget is looked at before   *)
(* a call and charged after it.                                             *)
Outstanding(cat) ==
  Sum([p \in Callers |-> IF caller[p].cat = cat THEN caller[p].left ELSE 0])
AllOutstanding == Sum([p \in Callers |-> caller[p].left])
Dearest == CHOOSE k \in UNION {Prices[c] : c \in Categories} :
  \A c \in Categories : \A j \in Prices[c] : j <= k
MostOutstanding == Cardinality(Callers) * (MaxResumes + 1)

(* usage.py's two caps: with the calls still under way counted at the       *)
(* dearest price, the day's calls and dollars pass their caps by less than  *)
(* what the concurrent callers were let in for.                             *)
MeterBounded ==
  /\ usage.calls + AllOutstanding < CallBudget + MostOutstanding
  /\ UsdBudget > 0 =>
       usage.usd + Dearest * AllOutstanding < UsdBudget + Dearest * MostOutstanding

(* "guaranteed whatever the capped categories cannot touch" (usage.py): a   *)
(* category with more calls of its reservation left than can be under way,  *)
(* and than crashes have left half recorded, is not refused by the day's    *)
(* calls, whatever the others have spent.                                   *)
ReservedIsAdmitted ==
  \A c \in Categories :
    UnspentCalls(usage, c) >= MostOutstanding + crashes => CallRoom(usage, c)

(* A capped category passes its own share of the calls by less than what    *)
(* its callers were let in for, and one that is switched off makes none.    *)
(* A call a crash cut off in record may be counted for the day and not for  *)
(* the category.                                                            *)
ShareKept ==
  \A c \in Categories :
    LET cap == (CallBudget * Share[c] + 9) \div 10
    IN Share[c] < 10 =>
         usage.callsBy[c] + Outstanding(c)
           <= IF cap = 0 THEN 0 ELSE cap - 1 + MostOutstanding

(* "The failure loop is bounded at roughly two calls an hour" (usage.py):   *)
(* however callers, transient errors, the day's roll and restarts fall, an  *)
(* open breaker lets through no more calls in a day than probe intervals    *)
(* fit in it.                                                               *)
StormBounded == probes <= ProbeBound
============================================================================
