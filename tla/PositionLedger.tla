--------------------------- MODULE PositionLedger ---------------------------
(***************************************************************************)
(* What the paper-trade journal promises, with none of its files: a        *)
(* position is opened once, is live until it is closed, and is closed by   *)
(* one record that is never rewritten.  PaperJournal is shown to implement *)
(* this specification across crashes and restarts.                         *)
(***************************************************************************)
EXTENDS Naturals, Sequences

CONSTANT Position        \* every position there can ever be, each with a .symbol

VARIABLES
    live,                \* positions opened and not yet closed
    record               \* the closed positions, in the order they closed

ledgerVars == <<live, record>>

Recorded == {record[i] : i \in DOMAIN record}

LedgerInit ==
    /\ live = {}
    /\ record = << >>

\* A symbol holds at most one live position, and no position is opened twice.
OpenPosition(p) ==
    /\ p \notin live \cup Recorded
    /\ \A q \in live : q.symbol # p.symbol
    /\ live' = live \cup {p}
    /\ UNCHANGED record

ClosePosition(p) ==
    /\ p \in live
    /\ live' = live \ {p}
    /\ record' = Append(record, p)

LedgerNext == \E p \in Position : OpenPosition(p) \/ ClosePosition(p)

LedgerSpec == LedgerInit /\ [][LedgerNext]_ledgerVars
=============================================================================
