\* The six parts that keep the data of the life.
CONSTANTS
    home = home  usb = usb  disk = disk  legacy = legacy  middle = middle  latest1 = latest1
    latest2 = latest2  g1 = g1  p1 = p1  s1 = s1  a1 = a1  NoRoot = NoRoot
    NoDatabase = NoDatabase  NoProc = NoProc  Original = Original  Nothing = Nothing  Null = Null  NoEntity = NoEntity
    Roots = {home, usb, disk}
    Default = home
    Writes = {x1, x2}
    Detachable = {usb, disk}
    MaxMoveFaults = 2
    MaxUnrestored = 1
    MaxEnds = 3
    MaxToggles = 1
    MaxDetaches = 1
    Procs = {legacy, middle, latest1, latest2}
    MaxOf <- MCMaxOf
    OutboxMemories = {o1}
    Lives = {l1}
    FirstVersions = {0, 12, 14, 30}
    MaxOpenFaults = 2
    MaxOpens = 4
    Memories = {m1, m2}
    RebuildRequests = {q1}
    MaxRebuildAttempts = 1
    MaxClock = 2
    MaxRebuildCrashes = 1
    MaxStorageFaults = 1
    Candidates = {c1, c2}
    Contents <- OneContent
    Messages = {u1}
    Requests = {t1}
    Expiring = {c1}
    MaxRevision = 1
    Workers = {w1, w2}
    LeaseTtl = 2
    MinRemaining = 1
    RetryDelay = 1
    MaxAttempts = 2
    Permits = 1
    Modes <- BothModes
    Driven = TRUE
    MaxRuns = 2
    MaxTime = 3
    MaxCrashes = 0
    TickCallers = {w1, w2}
    NTicks = 2
    NGoals = 1
    GoalLimit = 1
    Recheck = 1
    Quiet = 2
    Policies <- Budgets
    MaxNow = 3
    MaxTalks = 0
    MaxUpdates = 1
    MaxTickCrashes = 0
    MaxCalls = 1
    Entities = {g1, p1}
    KindOf <- MCKindOf
    Details = {t1}
    Events = {e1, e2}
    Callers = {w1, w2}
    Reused = FALSE
    MaxLosses = 1
    Parts = {"root", "upgrade", "rebuild", "extraction", "autonomy", "intent"}
SPECIFICATION Spec
SYMMETRY Symmetry
INVARIANTS
    DataRootSafe
    UpgradeSafe
    RebuildSafe
    ExtractionSafe
    AutonomySafe
    LifeIntentSafe
PROPERTIES
    StorageSteps
CHECK_DEADLOCK FALSE
