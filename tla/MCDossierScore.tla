--------------------------- MODULE MCDossierScore ---------------------------
(* An anchor's and a supplier's news, a filing, a contract award, sector     *)
(* links and labels.                                                        *)
EXTENDS DossierScore

Labels == ("" :> "" @@ "capex cut" :> "capex cut" @@ "Capex cut!" :> "capex cut"
           @@ "fab delay" :> "fab delay")

Item(type, source, origin, link, role, fact, direction, strength, horizon) ==
  [source_type |-> type, source |-> source, day |-> 1, origin |-> origin, link |-> link,
   role |-> role, fact |-> fact, direction |-> direction,
   confidence |-> strength, magnitude |-> 9, horizon |-> horizon, age |-> 0]

Evidence ==
  {Item("news", "Yahoo", "own", 0, "", f, "LONG", 9, 1) : f \in DOMAIN Labels}
  \cup {Item("news", "Reuters", "own", 0, "", f, "LONG", 6, 2) : f \in {"", "Capex cut!"}}
  \cup {Item("8-K", "SEC EDGAR (8-K)", "own", 0, "", "", "LONG", 6, 2),
        Item("8-K", "SEC EDGAR (8-K)", "anchor", 50, "customer", "", "LONG", 6, 2),
        Item("news", "Yahoo", "anchor", 90, "supplier", "fab delay", "LONG", 9, 2),
        Item("news", "Yahoo", "rival", 90, "competitor", "", "LONG", 6, 1),
        Item("contract_award", "DoD", "own", 0, "", "", "LONG", 6, 2),
        Item("news", "Yahoo", "own", 0, "", "", "SHORT", 6, 2),
        Item("news", "Reuters", "own", 0, "", "fab delay", "SHORT", 9, 1)}
  \cup {Item("news", "Yahoo", o, 20, "", f, "LONG", 9, 2) : o \in {"anchor", "rival"}, f \in {"", "fab delay"}}
=============================================================================
