SPECIFICATION Spec
CONSTANTS
    coin = coin
    art = art
    early = early
    late = late
    pool = pool
    votes = votes
    group = group
    CoinModules = {coin}
    NftModules = {art}
    TokenModules = {early, late}
    Stakings = {pool}
    GroupModules = {votes}
    Groups = {group}
    Base <- Bases
    Members = {a, b}
    Nfts = {x, y}
    Amounts = {1}
    Duration <- Durations
    Cutoff = 2
    None = None
    MaxHeight = 4
    MaxMessages = 5
SYMMETRY Symmetry
INVARIANT TypeOK
INVARIANT WeightsAreSums
INVARIANT SettledStakesMatch
INVARIANT NftsMatch
INVARIANT ClaimsCounted
CHECK_DEADLOCK FALSE
