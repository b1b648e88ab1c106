\* The bot acts between polls; streams are replaced while they watch all that is shared.
SPECIFICATION FairSpec
CHECK_DEADLOCK FALSE
CONSTANTS
    Streams = {s1, s2}
    Chains = {c1, c2}
    Nothing = Nothing
    MaxItem = 2
    PageSize = 1
    Subreddits = {sr1, sr2}
    Sources = {"new", "modqueue"}
    InFlight = FALSE
    FailsAt = {"get"}
    Unfollowed = FALSE
    DelistedFrom = {"modqueue"}
    ReplacesAny = FALSE
INVARIANTS TypeOK StreamFollows
PROPERTIES PushedOnceIfNew EventuallyPolled
