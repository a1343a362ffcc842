\* The Delete witness that keeps an earlier mutation's time.
CONSTANTS
    m1 = m1  w1 = w1  w2 = w2  o1 = o1  o2 = o2
    NoOwner = NoOwner
    NoMemory = NoMemory
    Memories <- OneMemory
    Workers <- OneWorker
    Owners <- OneOwner
    OwnerOf <- SingleOwner
    MaxAttempts = 2
    InitialRetry = 1
    MaxRetry = 1
    MaxSequence = 3
    MaxEpoch = 2
    LeaseTicks = 1
    DrainLimit = 1
    MaxGeneration = 1
    MaxNow = 3
SPECIFICATION Spec
PROPERTIES
    AnchorIsOwnWitness
