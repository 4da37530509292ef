\* Liveness under FairFeedSpec; no symmetry.
CONSTANTS
    Client = {c1, c2}
    Token = {c1, c2}
    MessageId = {1}
    Generation = {g1}
    Unbound = Unbound
    Capacity = 1
    Lifetime = 1
    Cooldown = 1
    MaxTime = 1
    PageSize = 1
    Tries = 2
    ReaderAhead = TRUE
    FreshIds = TRUE
SPECIFICATION FairFeedSpec
PROPERTIES GapsAreResynced ExpiredAreAnnounced
