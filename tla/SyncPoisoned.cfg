SPECIFICATION FairSpec
CONSTANTS
    LastBlock = 2
    MaxWrites = 2
    Writes <- TwoBlocks
    Keyed <- KeyedEvents
    NumSnapshots = 0
    Cutoff <- NoCutoff
    Faults = {"archive"}
    MaxFaults = 1
    MaxAttempts = 6
    PollLimit = 1
    ErrorLimit = 1
    Rejection = {"exit"}
PROPERTY SyncKeepsGoing
