\* Two processes that pass the same lease owner, one memory and a cut-over.
CONSTANTS
    m1 = m1  w1 = w1  w2 = w2  o1 = o1  o2 = o2  NoOwner = NoOwner  NoMemory = NoMemory
    Memories <- OneMemory
    Workers <- TwoWorkers
    Owners <- OneOwner
    OwnerOf <- SharedOwner
    MaxAttempts = 2
    InitialRetry = 1
    MaxRetry = 1
    MaxSequence = 2
    MaxEpoch = 2
    LeaseTicks = 2
    DrainLimit = 1
    MaxGeneration = 2
    MaxNow = 3
SPECIFICATION Spec
INVARIANTS
    TypeOK
    NoReplay
    SentIsRecorded
    AttemptsArePaid
    NeverMalformed
    ClaimIsExclusive
    UnknownDeleteHasResolution
    OpenResolutionIsLatest
    SettledItemIsDesired
PROPERTIES
    EvidenceIsMonotone
    ImplementsIndex
