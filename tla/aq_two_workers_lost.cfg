\* Two workers, no operation overlapping another.
SPECIFICATION Spec
CHECK_DEADLOCK FALSE
CONSTANTS
    Activities = {a, b}
    Workers = {w1, w2}
    Idle = Idle
    GlobalMaxWorkers = 2
    ConfigWorkers = {2}
    SlowWork = FALSE
    Editable = {a, b}
    MaxVersion = 2
    MaxFirehose = 1
    MaxOperations = 1
INVARIANTS NoneLost
