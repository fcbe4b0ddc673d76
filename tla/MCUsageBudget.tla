--------------------------- MODULE MCUsageBudget ---------------------------
(* Two tasks, three categories: the dossier pass without a cap, synthesis   *)
(* with a reservation, research with a share, a second call per question    *)
(* and calls too cheap to move the dollar counter, so that both meters      *)
(* decide somewhere.                                                        *)
EXTENDS UsageBudget

MCCategories == {"dossier", "synthesis", "research"}
MCShare == [c \in MCCategories |-> IF c = "research" THEN 3 ELSE 10]
MCReserved == [c \in MCCategories |-> IF c = "synthesis" THEN 8 ELSE 0]
MCPrices == [c \in MCCategories |-> CASE c = "dossier" -> {1} [] c = "synthesis" -> {2}
                                       [] c = "research" -> {0}]
============================================================================
