\* One candidate, one request, and one restart at an await.
CONSTANTS
  Anchors = {"anchor"}
  Tradeables = {"target"}
  Candidates = {"x"}
  NonCommon = {}
  Discloses <- MCDiscloses
  Leads <- MCLeads
  Screens <- MCScreens
  MinSeen = 1
  AcceptAnchors = TRUE
  MaxAuto = 1
  MaxConnect = 1
  MaxProbationary = 1
  ProbationDays = 1
  HardKill = FALSE
  MaxRequests = 1
  MaxRestarts = 1
SPECIFICATION Spec
INVARIANTS
  ProbationHolds
  RestartKeepsRoles
PROPERTIES
  QuarantineSticks
  ProbationResolved
