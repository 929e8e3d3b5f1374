SPECIFICATION FairSpec
CONSTANTS
    LastBlock = 3
    MaxWrites = 2
    Writes <- ThreeBlocks
    Keyed <- KeyedEvents
    NumSnapshots = 2
    Cutoff <- BothCutoffs
    Faults = {"crash", "db"}
    MaxFaults = 4
    MaxAttempts = 8
    PollLimit = 2
    ErrorLimit = 3
    Rejection = {"exit"}
INVARIANT TypeOK
PROPERTY StoreSpec
PROPERTY EventuallyIndexed
