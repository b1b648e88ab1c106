\* The operator may have a bot rebuilt at any time, one that does not run too.
SPECIFICATION Services
CHECK_DEADLOCK FALSE
CONSTANTS
    Overlap = FALSE
    Panics = FALSE
    Subs = {s1, s2, x}
    Acceptable = {s1, s2}
    Excluded = {x}
    Orderly = FALSE
    Hosts = {1}
    Ids = {i1}
    Accounts = {a1}
    Visitors = {v1}
    NoInvite = NoInvite
    OneByOne = TRUE
PROPERTIES RebuildsEnd
