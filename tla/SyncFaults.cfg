SPECIFICATION FairSpec
CONSTANTS
    LastBlock = 2
    MaxWrites = 2
    Writes <- TwoBlocks
    Keyed <- NoKeys
    NumSnapshots = 1
    Cutoff <- SecondBlock
    Faults = {"crash", "db", "archive", "sql", "timeout", "commitLost"}
    MaxFaults = 2
    MaxAttempts = 6
    PollLimit = 1
    ErrorLimit = 1
    Rejection = {"exit"}
PROPERTY HeightNeverFalls
PROPERTY SyncKeepsGoing
