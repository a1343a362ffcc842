\* One process and two resolvers whose passes crash and overlap, and a cut-over.
CONSTANTS
    m1 = m1  w1 = w1  o1 = o1  x1 = x1  x2 = x2  NoOwner = NoOwner
    NoMemory = NoMemory
    Memories <- OneMemory
    Workers <- OneWorker
    Owners <- OneOwner
    OwnerOf <- SingleOwner
    Resolvers <- TwoResolvers
    MaxAttempts = 1
    InitialRetry = 1
    MaxRetry = 1
    MaxSequence = 2
    MaxEpoch = 1
    LeaseTicks = 1
    DrainLimit = 1
    MaxGeneration = 2
    MaxNow = 2
    MaxResolutions = 2
    ResolutionWindow = 2
    FailingPasses = 1
SPECIFICATION LateSpec
SYMMETRY ResolverSymmetry
VIEW WithoutCalls
INVARIANTS
    LateTypeOK
    ProbesArePaid
PROPERTIES
    ResolutionsOnlyAdvance
