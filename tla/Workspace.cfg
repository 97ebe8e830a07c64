INIT Init
NEXT Next
SYMMETRY Interchangeable
CONSTANTS
    s1 = s1
    s2 = s2
    u1 = u1
    u2 = u2
    u3 = u3
    Deliveries = {d1, d2}
    MaxNotices = 2
    MaxDigest = 3
    Debounce = 1
    MaxDebounce = 2
    Sockets = {s1, s2}
    Rooms = {r1, r2}
    Files = {f}
    MaxMessages = 2
    MaxBlocks = 2
    MaxEdits = 2
    MaxRequests = 3
    CodeBlocks = {b1}
    Collabs = {k1}
    GroupTargets = {b1}
    Runners = {s1, s2}
    RunCodePerDay = 1
    MaxTexts = 2
    MaxDeaths = 0
    Clients = {g1}
    Accounts = {u1, u2}
    Views = {v1}
    PresenceTtl = 1
    Usernames = {s1, s2}
    Emails = {e1, e2}
    Passwords = {p1, p2}
    Callers = {c1}
    MaxUsers = 2
    MaxCodes = 1
    MaxFresh = 1
    Absent = Absent
    PlanCodes = {F}
    SeedCodes = {F}
    FreeCode = F
    Terms = {t1, t2}
    SeedTerms = t1
    Desks = {k1}
    MaxPlans = 2
    MaxUses = 1
    MaxVersion = 2
    MaxCopies = 1
    Unset = Unset
    Editors = {w1}
    MaxTasks = 1
    MaxHistory = 3
    LockDays = 1
    Reporters = {s1, s2}
    MessageTypes = {e1, e2}
    DaysPerMonth = 2
    LastDay = 2
    MaxReports = 2
    RequiredUsers <- Required
    ImportantUsers = {u1, u2}
    TestOwner = u1
    GeneratedUsers = {u3}
    TotalUsers = 3
    TotalGroups = 2
    OwnGroups = 1
    TestGroupSize = 2
    GroupMembers = 1
    GroupInvites = 1
    TasksPerGroup = 2
    TargetReports = 1
    MaxRuns = 2
    Tongues = {s1, s2, t1}
    Profilers = {w1}
    MaxEntries = 5
INVARIANTS
    TypeOK
    Announced
    CountIsMessages
    NothingLeftBehind
    ToldIsFetched
    RunsWithinLimit
    CacheFaithful
    NobodyMissed
    AsBought
    HistoryReplays
    TrendsAddUp
    SeededOnce
    LanguagesInOrder
PROPERTY
    PasswordKept
CHECK_DEADLOCK FALSE
