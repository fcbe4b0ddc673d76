\* A filing and a story, a link found on the way, one crash.
SPECIFICATION FairSpec
CONSTANTS
    t = t
    u = u
    a = a
    Tradeable = {t, u}
    Origins <- Symbols
    Items <- ShortFeed
    Links = {}
    Discloses <- ShortFeedDiscloses
    Peers <- Peerage
    MaxPerLink = 1
    MaxPerPeer = 1
    MaxSixK = 1
    MaxCrashes = 1
PROPERTIES
    EverySettled
\* The bounded feed is settled in the end, and the system may stop.
CHECK_DEADLOCK FALSE
