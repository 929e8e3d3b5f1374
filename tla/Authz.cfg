SPECIFICATION Spec
CONSTANTS
    Keys = {submit, send, payout}
    ClaimKeys = {submit}
    PayoutKeys = {payout}
    Limits = {2}
    Lifetimes = {0, 1, 2}
    SnapInterval = 2
    Lag = 1
    Faults = {"fails", "pruned"}
    MaxHeight = 5
    MaxMessages = 3
    MaxFaults = 1
INVARIANT TypeOK
INVARIANT ExactRowsAreCapabilities
INVARIANT NoGrantLost
INVARIANT PayloadsMatch
CHECK_DEADLOCK FALSE
