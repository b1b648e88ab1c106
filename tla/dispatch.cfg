\* One worker, two delayed activities, a database that is slow or fails, and a
\* restart at any time.
SPECIFICATION FairSpec
CHECK_DEADLOCK FALSE
CONSTANTS
    Ids = {1, 2}
    Activities = {a}
    Workers = {w1}
    Nothing = Nothing
    Dispatches <- SomeDispatches
    MaxRestarts = 1
INVARIANTS TypeOK MemoryAndTable
PROPERTIES KeepsPromise EventuallySettled
