\* Three candidates for caps of two and one, and two restarts that may kill the process
\* anywhere.
CONSTANTS
  Anchors = {anchor}
  Tradeables = {target}
  Candidates = {x, y, z}
  NonCommon = {}
  Discloses <- CapsDiscloses
  Leads <- CapsLeads
  Screens <- CapsScreens
  MinSeen = 1
  AcceptAnchors = FALSE
  MaxAuto = 2
  MaxConnect = 1
  MaxProbationary = 2
  ProbationDays = 1
  HardKill = TRUE
  MaxRequests = 0
  MaxRestarts = 2
SPECIFICATION Spec
SYMMETRY Symmetry
INVARIANT
  CapsHold
