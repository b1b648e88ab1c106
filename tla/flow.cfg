SPECIFICATION FairSpec
CONSTANTS
    r1 = r1
    r2 = r2
    CheckCount <- MCCheckCount
    Rules <- MCRules
    Configs <- MCConfigs
    InitialGotos <- MCInitialGotos
    MaxGotoDepth = 1
INVARIANTS TypeOK RunOnce VerdictIsJoin
PROPERTIES FlowsAsDocumented
CHECK_DEADLOCK FALSE
