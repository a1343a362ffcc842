\* Recovery of a replacement, a picture sent to the model and the confirmation of a memory.
CONSTANTS
    f1 = f1  f2 = f2  c1 = c1  c2 = c2  x1 = x1  x2 = x2
    q1 = q1  p1 = p1  p2 = p2  a1 = a1  a2 = a2  d1 = d1
    d2 = d2  Torn = Torn  NoFile = NoFile  NoOne = NoOne  None = None  Null = Null
    Objects = {f1}
    FileContents = {c1, c2}
    Txs = {x1, x2}
    Recoverers = {q1}
    Procs = {p1, p2}
    ProcOf <- TwoProcesses
    MaxScanEntries = 2
    LiveRecovery = FALSE
    MaxEdits = 1
    MaxNativeFaults = 1
    MaxAgentCrashes = 1
    MaxAsks = 1
    Attempts = {a1, a2}
    Destinations = {d1, d2}
    MaxPreps = 2
    MaxArms = 2
    MaxPolicyRev = 3
    Candidates = {m1}
    Contents <- SomeContents
    Messages = {}
    Requests = {t1, t2}
    Expiring = {}
    MaxRevision = 2
    Callers = {w1, w2}
    Ttl = 2
    Lease = 1
    Cache = 2
    Window = 1
    MaxAttempts = 2
    Capacity = 1
    MaxTime = 3
    MaxFaults = 1
    Parts = {"recovery", "vision", "confirmation"}
SPECIFICATION ConsentSpec
SYMMETRY Symmetry
INVARIANTS
    RecoverySafe
    VisionSafe
    ConfirmSafe
PROPERTIES
    ConsentSteps
CHECK_DEADLOCK FALSE
