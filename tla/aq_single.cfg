\* The default manager: one worker, stops that are graceful, one operation of
\* an administrator at a time.
SPECIFICATION FairSpec
CHECK_DEADLOCK FALSE
CONSTANTS
    Activities = {a, b}
    Workers = {w1, w2}
    Idle = Idle
    GlobalMaxWorkers = 1
    ConfigWorkers = {0, 2}
    SlowWork = FALSE
    Editable = {a}
    MaxVersion = 2
    MaxFirehose = 1
    MaxOperations = 1
INVARIANTS TypeOK MetasMirrorQueue NoneLost StateTellsQueue
PROPERTIES NoStartUnlessRunning EventuallyUsed
