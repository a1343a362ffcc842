\* Liveness of the parts that keep the data of the life.
CONSTANTS
    home = home  usb = usb  disk = disk  legacy = legacy  middle = middle  latest1 = latest1
    latest2 = latest2  g1 = g1  p1 = p1  s1 = s1  a1 = a1  NoRoot = NoRoot
    NoDatabase = NoDatabase  NoProc = NoProc  Original = Original  Nothing = Nothing  Null = Null  NoEntity = NoEntity
    Roots = {home, usb, disk}
    Default = home
    Writes = {x1}
    Detachable = {usb, disk}
    MaxMoveFaults = 1
    MaxUnrestored = 1
    MaxEnds = 1
    MaxToggles = 1
    MaxDetaches = 0
    Procs = {legacy, middle, latest1}
    MaxOf <- MCMaxOf
    OutboxMemories = {o1}
    Lives = {l1}
    FirstVersions = {0, 12, 14, 30}
    MaxOpenFaults = 2
    MaxOpens = 4
    Memories = {m1}
    RebuildRequests = {q1}
    MaxRebuildAttempts = 1
    MaxClock = 2
    MaxRebuildCrashes = 1
    MaxStorageFaults = 1
    Candidates = {c1}
    Contents <- OneContent
    Messages = {u1}
    Requests = {t1}
    Expiring = {}
    MaxRevision = 1
    Workers = {w1, w2}
    LeaseTtl = 2
    MinRemaining = 1
    RetryDelay = 1
    MaxAttempts = 2
    Permits = 1
    Modes <- OnlyLlm
    Driven = FALSE
    MaxRuns = 2
    MaxTime = 5
    MaxCrashes = 1
    TickCallers = {w1}
    NTicks = 2
    NGoals = 1
    GoalLimit = 1
    Recheck = 1
    Quiet = 2
    Policies <- PolicyStates
    MaxNow = 3
    MaxTalks = 1
    MaxUpdates = 0
    MaxTickCrashes = 1
    MaxCalls = 1
    Entities = {g1, p1, s1, a1}
    KindOf <- MCKindOf
    Details = {t1}
    Events = {e1}
    Callers = {w1}
    Reused = FALSE
    MaxLosses = 0
    Parts = {"upgrade", "rebuild", "extraction", "autonomy", "intent"}
SPECIFICATION FairSpec
PROPERTIES
    UpgradeCompletes
    RebuildEnds
    CurrentRunEnds
    TicksSettle
CHECK_DEADLOCK FALSE
