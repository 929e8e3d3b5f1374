SPECIFICATION FairSpec
CONSTANTS
    Entities = {e1}
    Accounts = {a1, a2}
    Classes = {c1}
    Tokens = {t1, t2}
    MintAmounts = {2}
    Amounts = {1, 2}
    None = None
    MaxMessages = 4
    MaxBlock = 4
    MaxFaults = 1
INVARIANT OwnersMatch
INVARIANT BalancesMatch
INVARIANT BalanceIsLedgerSum
INVARIANT BurnsAgree
INVARIANT ClassLinksMatch
INVARIANT NothingLeftWaiting
INVARIANT NeverRefused
PROPERTY BlocksGetIndexed
CHECK_DEADLOCK FALSE
