SPECIFICATION FairSpec
CONSTANTS
    dao = dao
    Callers = {a, b}
    BlockPaths = {epochs, dao}
    SnapshotPaths = {pools}
    UpgradeHeight = 1
    MaxRetries = 1
    Refused <- DaoRefused
    MaxHeight = 2
    MaxCrashes = 1
PROPERTY ContractKept
PROPERTY CallsEnd
CHECK_DEADLOCK FALSE
