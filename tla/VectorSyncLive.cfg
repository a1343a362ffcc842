\* Two processes with lease owners of their own under fairness, one memory.
CONSTANTS
    m1 = m1  w1 = w1  w2 = w2  o1 = o1  o2 = o2
    NoOwner = NoOwner
    NoMemory = NoMemory
    Memories <- OneMemory
    Workers <- TwoWorkers
    Owners <- TwoOwners
    OwnerOf <- OwnOwner
    MaxAttempts = 2
    InitialRetry = 1
    MaxRetry = 1
    MaxSequence = 1
    MaxEpoch = 4
    LeaseTicks = 1
    DrainLimit = 1
    MaxGeneration = 1
    MaxNow = 2
SPECIFICATION LiveSpec
PROPERTIES
    DueWorkIsServed
