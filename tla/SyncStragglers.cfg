SPECIFICATION Spec
CONSTANTS
    LastBlock = 3
    MaxWrites = 2
    Writes <- ThreeBlocks
    Keyed <- NoKeys
    NumSnapshots = 2
    Cutoff <- BothCutoffs
    Faults = {"crash", "archive", "commitLost"}
    MaxFaults = 3
    MaxAttempts = 6
    PollLimit = 1
    ErrorLimit = 1
    Rejection = {"exit", "stall"}
INVARIANT NoGap
INVARIANT OrphansOfNextOnly
INVARIANT SnapshotFirst
PROPERTY HeightStepsByOne
CHECK_DEADLOCK FALSE
