\* Two candidates for caps of one; the process stays up.
CONSTANTS
  Anchors = {anchor}
  Tradeables = {target}
  Candidates = {x, y}
  NonCommon = {}
  Discloses <- CapsDiscloses
  Leads <- CapsLeads
  Screens <- CapsScreens
  MinSeen = 1
  AcceptAnchors = FALSE
  MaxAuto = 1
  MaxConnect = 1
  MaxProbationary = 1
  ProbationDays = 1
  HardKill = FALSE
  MaxRequests = 0
  MaxRestarts = 0
SPECIFICATION Spec
SYMMETRY Symmetry
INVARIANT
  AcceptedPerDay
