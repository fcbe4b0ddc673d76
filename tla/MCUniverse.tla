----------------------------- MODULE MCUniverse -----------------------------
(* One curated anchor, one curated trade target; x is what the filings of   *)
(* both and the anchor's research name; y, where it is a candidate, is what *)
(* the trade target's filings name. Where the caps are the question, the    *)
(* anchor's filings name every candidate, and each screens as tradeable.    *)
EXTENDS Universe, TLC

MCDiscloses == [s \in Symbols |-> CASE s = "anchor" -> {"x"}
                                    [] s = "target" -> {"x", "y"} \cap Candidates
                                    [] s = "x" -> {"anchor"} [] s = "y" -> {}]
MCLeads == [s \in Symbols |-> IF s = "anchor" THEN {"x"} ELSE {}]
MCScreens == [c \in Candidates |-> IF c = "y" THEN {"tradeable"} ELSE {"anchor", "tradeable"}]

CapsDiscloses == [s \in Symbols |-> IF s \in Anchors THEN Candidates ELSE {}]
CapsLeads == [s \in Symbols |-> {}]
CapsScreens == [c \in Candidates |-> {"tradeable"}]
Symmetry == Permutations(Candidates)
=============================================================================
