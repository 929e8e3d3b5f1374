SPECIFICATION Spec
CONSTANTS
    m1 = m1
    m2 = m2
    q1 = q1
    q2 = q2
    v1 = v1
    v2 = v2
    Modules = {m1, m2}
    PreProposes = {q1, q2}
    Votings = {v1, v2}
    SubDaos = {sub}
    Voters = {voter}
    Cutoff = 2
    MaxHeight = 4
    MaxMessages = 5
    MaxTroubles = 1
INVARIANT ModulesMatch
INVARIANT ProposalsMatch
INVARIANT DaoBlocksIndexable
SYMMETRY ContractSymmetry
CHECK_DEADLOCK FALSE
