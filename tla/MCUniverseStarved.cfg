\* Two candidates, one of them no common equity; the process stays up.
CONSTANTS
  Anchors = {"anchor"}
  Tradeables = {"target"}
  Candidates = {"x", "y"}
  NonCommon = {"y"}
  Discloses <- MCDiscloses
  Leads <- MCLeads
  Screens <- MCScreens
  MinSeen = 1
  AcceptAnchors = TRUE
  MaxAuto = 1
  MaxConnect = 1
  MaxProbationary = 1
  ProbationDays = 1
  HardKill = FALSE
  MaxRequests = 0
  MaxRestarts = 0
SPECIFICATION Spec
PROPERTY
  ProbationAlwaysResolved
