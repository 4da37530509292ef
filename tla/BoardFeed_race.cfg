\* An expiry met by a board_list: the snapshot is stale.
CONSTANTS
    Client = {c1, c2}
    Token = {c1, c2}
    MessageId = {1, 2}
    Generation = {g1}
    Unbound = Unbound
    Capacity = 1
    Lifetime = 1
    Cooldown = 1
    MaxTime = 1
    PageSize = 1
    Tries = 2
    ReaderAhead = FALSE
    FreshIds = TRUE
SYMMETRY Interchangeable
SPECIFICATION FeedSpec
INVARIANTS SubscriptionClosesRace
