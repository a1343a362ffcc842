\* Liveness of the four parts at the boundary to tools, pictures and consent.
CONSTANTS
    f1 = f1  f2 = f2  c1 = c1  c2 = c2  x1 = x1  x2 = x2
    q1 = q1  p1 = p1  p2 = p2  a1 = a1  a2 = a2  d1 = d1
    d2 = d2  Torn = Torn  NoFile = NoFile  NoOne = NoOne  None = None  Null = Null
    NCalls = 1
    MaxRev = 1
    CmdCap = 8
    Troubles = {{"lapse", "slow"}, {"lapse", "timeout"}, {"lapse", "crash"}}
    MaxTurns = 1
    MaxCancels = 1
    Objects = {f1}
    FileContents = {c1, c2}
    Txs = {x1}
    Recoverers = {q1}
    Procs = {p1}
    ProcOf <- OneProcess
    MaxScanEntries = 9
    LiveRecovery = FALSE
    MaxEdits = 1
    MaxNativeFaults = 1
    MaxAgentCrashes = 2
    MaxAsks = 5
    Attempts = {a1}
    Destinations = {d1, d2}
    MaxPreps = 1
    MaxArms = 2
    MaxPolicyRev = 3
    Candidates = {m1}
    Contents <- OneContent
    Messages = {}
    Requests = {t1}
    Expiring = {}
    MaxRevision = 1
    Callers = {w1, w2}
    Ttl = 2
    Lease = 1
    Cache = 2
    Window = 1
    MaxAttempts = 3
    Capacity = 1
    MaxTime = 4
    MaxFaults = 1
    Parts = {"session", "recovery", "vision", "confirmation"}
SPECIFICATION FairSpec
PROPERTIES
    SessionProgress
    RecoveryProgress
    ConsentEnds
CHECK_DEADLOCK FALSE
