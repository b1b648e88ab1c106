\* Two workers; user notes with one.
SPECIFICATION Spec
SYMMETRY Symmetry
CHECK_DEADLOCK FALSE
CONSTANTS
    Workers = {w1, w2}
    None = None
    Kinds = {"remove", "approveParent", "report", "flair"}
    DryRuns = {TRUE, FALSE}
    MaxActs = 2
    Reported = {"com"}
    MaxExternal = 1
    Labels = {l1}
    Posts = {p1, p2}
    MaxNotes = 3
    MaxFlairs = 2
    Moderators = TRUE
    NoteWorkers = {n1}
    Types = {t1, t2}
    Refs = {r1, r2, r3, r4, r5}
    MaxUserNotes = 3
    TTLs = {"none", "zero", "positive"}
    Stores = {"memory", "redis"}
    Readers = {s1, s2}
    Uncached = {s2}
    PageTTL = 2
    FragmentTTLs = {0, 1, None, Unsaid}
    Lifetimes = {3, None, Unsaid}
    Unsaid = Unsaid
    MaxVersions = 3
    Subs = {c1, c2}
    BotStores = {"memory", "redis"}
    MaxCaches = 3
    Frequencies = {"hour", "day"}
    MaxCounted = 4
    MaxInstances = 2
    Guested = {r1, r2}
    Users = {u1}
    LastDay = 3
    Hosts = {1}
    Ids = {i1, i2}
    Accounts = {a1}
    Visitors = {v1}
    NoInvite = NoInvite
    OneByOne = TRUE
INVARIANTS TypesOK FragmentsGuarded GuestsKept
PROPERTIES CachesFollowActions StoresKept TotalsSaved UserNotesKept BotsAdded
