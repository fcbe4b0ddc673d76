CONSTANTS
  Records <- Evidence
  Folded <- Labels
  MinSources = 2
  NewsOnly = 3
  Threshold = 800000
  MaxEvidence = 3
  MaxWeeks = 3
  MaxFacts = 2

SPECIFICATION Spec

INVARIANT SourcesNotInflated
PROPERTY OpposingOnlyContests

CHECK_DEADLOCK FALSE
