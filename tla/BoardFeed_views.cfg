\* Two clients and a board of two records, one of them of an earlier lifetime of
\* the relay: posts that evict another record or themselves, suspended posts and
\* lists, lists of two pages, records that expire at different times, duplicate
\* posts, resyncs, reconnections.
CONSTANTS
    Client = {c1, c2}
    Token = {c1, c2, t0}
    MessageId = {1, 2, 3}
    Generation = {g1}
    Unbound = Unbound
    Capacity = 2
    Lifetime = 2
    Cooldown = 2
    MaxTime = 2
    PageSize = 1
    Tries = 2
    ReaderAhead = TRUE
    FreshIds = FALSE
SYMMETRY Interchangeable
SPECIFICATION FeedSpec
CONSTRAINTS InheritedRecord CrowdedOrOld BoardMaintained
INVARIANTS FeedTypeOK NoRecordWithheld ViewsAreCurrent SnapshotsAreWhole
