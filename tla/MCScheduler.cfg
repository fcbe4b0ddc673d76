\* Both price sources, one pass that fails, one crash at any point.
SPECIFICATION Spec
CONSTANTS
    SlotsPerDay = 2
    Week <- MCWeek
    Quotes = TRUE
    Gateway = TRUE
    Threshold = 2
    MaxPriced = 1
    MaxFaults = 1
    MaxCrashes = 1
INVARIANTS
    CaptureKept
    StallsBounded
PROPERTIES
    PaidOncePerDay
    EveryPassRuns
