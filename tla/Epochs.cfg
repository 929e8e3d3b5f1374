SPECIFICATION FairSpec
CONSTANTS
    Duration <- Durations
    MaxErrors = 1
    MaxHeight = 5
    MaxFaults = 2
INVARIANT TypeOK
INVARIANT EpochEventsMatch
PROPERTY EpochsGetIndexed
CHECK_DEADLOCK FALSE
