\* Two symbols, three positions, three days of which the second is a weekend
\* day, a feed that lags; crashes at every point, appends are whole.
SPECIFICATION Spec
CONSTANTS
    Symbols = {a, b}
    HorizonDays = 2
    Weekend = {1}
    TornAppends = FALSE
    BarLags = TRUE
    MaxTrades = 3
    MaxTime = 11
SYMMETRY Symmetry
INVARIANTS
    RowsUnique
    PositionsAccounted
    DurableBook
    LevelBarNotBeforeEntry
PROPERTIES
    ImplementsLedger
