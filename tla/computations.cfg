\* One input of each kind.
SPECIFICATION Spec
CHECK_DEADLOCK FALSE
CONSTANTS
    Unset = Unset
INVARIANTS
    FiltersAsDocumented RulesAsDocumented ConfigsAsDocumented ActionsAsDocumented RequestsAsDocumented
