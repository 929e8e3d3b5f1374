SPECIFICATION FairSpec
CONSTANTS
    k = k
    Collections = {k}
    Budgets = {b}
    Pools = {zero}
    Zero = zero
    Claims = {c1, c2}
    CollectionOf <- OneCollection
    Broken = {c2}
    Agents = {a1}
    Roles = {agent, evaluator}
    UpgradeHeight = 2
    KnownFrom = 1
    BatchLimit = 2
    MaxHeight = 3
    MaxMessages = 4
    MaxReplays = 1
INVARIANT TypeOK
INVARIANT MirrorsMatch
INVARIANT EvaluationsMatch
INVARIANT DisputesMatch
INVARIANT LiquidStakesMatch
PROPERTY SchemaTypesFilled
CHECK_DEADLOCK FALSE
