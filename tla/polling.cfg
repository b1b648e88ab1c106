\* Dedicated streams, ended between their polls only, whose first poll succeeds.
SPECIFICATION FairSpec
CHECK_DEADLOCK FALSE
CONSTANTS
    Streams = {s1, s2}
    Chains = {c1, c2}
    Nothing = Nothing
    MaxItem = 2
    PageSize = 1
    Sources = {"new", "modqueue"}
    Subreddits = {sr1}
    EndInFlight = FALSE
    FirstFails = FALSE
    ConfigUpdates = TRUE
INVARIANTS TypeOK OneChain
PROPERTIES NoPollUnlessRunning PushedOnceIfNew EventuallyPushed
