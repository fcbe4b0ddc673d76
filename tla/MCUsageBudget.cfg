CONSTANTS
  Categories <- MCCategories
  Research = "research"
  Callers = {engine, tool}
  CallBudget = 7
  UsdBudget = 8
  Share <- MCShare
  Reserved <- MCReserved
  Prices <- MCPrices
  MaxResumes = 1
  DayLen = 3
  Interval = 2
  MaxClock = 4
  MaxCrashes = 1
SPECIFICATION Spec
INVARIANTS
  MeterBounded
  ReservedIsAdmitted
  ShareKept
  StormBounded
CHECK_DEADLOCK FALSE
