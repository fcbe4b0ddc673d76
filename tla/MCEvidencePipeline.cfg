\* Three items on two feeds, a link found on the way, one crash.
SPECIFICATION FairSpec
CONSTANTS
    t = t
    u = u
    a = a
    Tradeable = {t, u}
    Origins <- Symbols
    Items <- Feed
    Links = {}
    Discloses <- FeedDiscloses
    Peers <- Peerage
    MaxPerLink = 1
    MaxPerPeer = 1
    MaxSixK = 1
    MaxCrashes = 1
INVARIANTS
    TypeOK
    MergedOnce
    ProposalBoughtOnce
PROPERTIES
    SlotTakenOnce
    RegisteredWasRead
    ImplementsDelivery
\* The bounded feed is settled in the end, and the system may stop.
CHECK_DEADLOCK FALSE
