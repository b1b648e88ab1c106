\* The hard limit is hit, and the heart beats.
SPECIFICATION Spec
CHECK_DEADLOCK FALSE
CONSTANTS
    Overlap = FALSE
    Panics = FALSE
PROPERTIES HardLimitHolds
