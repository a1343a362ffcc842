\* One process and one resolver; a newer mutation after the uncertain Delete.
CONSTANTS
    m1 = m1  w1 = w1  o1 = o1  x1 = x1  x2 = x2  NoOwner = NoOwner
    NoMemory = NoMemory
    Memories <- OneMemory
    Workers <- OneWorker
    Owners <- OneOwner
    OwnerOf <- SingleOwner
    Resolvers <- OneResolver
    MaxAttempts = 1
    InitialRetry = 1
    MaxRetry = 1
    MaxSequence = 3
    MaxEpoch = 2
    LeaseTicks = 1
    DrainLimit = 1
    MaxGeneration = 1
    MaxNow = 2
    MaxResolutions = 1
    ResolutionWindow = 2
    FailingPasses = 0
SPECIFICATION LateSpec
VIEW WithoutCalls
INVARIANTS
    TargetMatchesMemory
    ResolvedMeansGone
    SettledStoreIsDesired
    StaleReadNeverBlocks
PROPERTIES
    DesiredVectorSurvives
