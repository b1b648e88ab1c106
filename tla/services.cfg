\* One operation at a time; of the bot's subreddits one is excluded.
SPECIFICATION Services
CHECK_DEADLOCK FALSE
CONSTANTS
    Overlap = FALSE
    Panics = FALSE
    Subs = {s1, s2, x}
    Acceptable = {s1, s2}
    Excluded = {x}
    Orderly = TRUE
    Hosts = {1}
    Ids = {i1}
    Accounts = {a1}
    Visitors = {v1}
    NoInvite = NoInvite
    OneByOne = TRUE
INVARIANTS TypesOK ManagersKept
PROPERTIES StatesRecover Proceeds
