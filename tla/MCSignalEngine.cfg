\* One symbol, two episodes; one crash at any point, or one reset at any await;
\* Finnhub can stand in for IB.
SPECIFICATION FairSpec
CONSTANTS
    Symbols = {a}
    Directions = {LONG, SHORT}
    VetoConfirmations = 1
    QuoteFallback = TRUE
    MaxEpisodes = 2
    MaxCrashes = 1
    MaxResets = 1
CONSTRAINT OneDisturbance
INVARIANTS
    TypeOK
    OpenIsSignaled
    DriftSkipOnce
    WaitingIsPolled
PROPERTIES
    FirstLook
    EntryOnStoredThesis
    ImplementsLifecycle
    SignalResolved
    HorizonEnforced
