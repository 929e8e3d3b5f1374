SPECIFICATION Spec
CONSTANTS
    k = k
    Collections = {k}
    Budgets = {b}
    Pools = {zero, pool}
    Zero = zero
    Claims = {c1}
    CollectionOf <- OneCollection
    Broken = {}
    Agents = {a1}
    Roles = {agent}
    UpgradeHeight = 2
    KnownFrom = 4
    BatchLimit = 1
    MaxHeight = 4
    MaxMessages = 2
    MaxReplays = 0
INVARIANT LateEventsCaught
CHECK_DEADLOCK FALSE
