SPECIFICATION Spec
CONSTANTS
    r1 = r1
    r2 = r2
    CheckCount <- MCCheckCount
    Rules <- MCRules
    Configs <- LoopConfigs
    InitialGotos <- MCInitialGotos
    MaxGotoDepth = 1
INVARIANTS GotoLimited
CHECK_DEADLOCK FALSE
