SPECIFICATION FairSpec
CONSTANTS
    g = g  a1 = a1  a2 = a2  a3 = a3  a4 = a4  a5 = a5  a6 = a6
    b3 = b3  b4 = b4  b5 = b5  b6 = b6  c4 = c4  c5 = c5  c6 = c6
    NoBlock = NoBlock  NoEpoch = NoEpoch  Genesis = Genesis
    Blocks <- MCBlocks
    Prev <- MCPrev
    Chains <- MCChains
    FirstChains <- FirstA6
    Moves <- MCMoves
    MaxHeight = 6
    BlocksPerEpoch = 2
    SolutionLifetime = 1
    AttestationDelay = 2
    MinDifficulty = 2
    Carried <- MCCarried
    Bits <- MCBits
    LinkedKeys = {1, 2}
    WhitelistedKey = 2
    WhitelistedEnds = {5}
    ReindexFrom = {0, 1}
    MaxReorgs = 2
    Budgets <- MCBudgets
INVARIANTS EpochsCanonical ChallengesSettled AttestationsProved
PROPERTIES ReachesTip
CHECK_DEADLOCK FALSE
