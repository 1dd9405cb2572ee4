SPECIFICATION FairSpec
CONSTANTS
    g = g  a1 = a1  a2 = a2  b1 = b1  b2 = b2
    NoBlock = NoBlock
    Blocks <- MCBlocks
    Prev <- MCPrev
    Chains <- MCChains
    FirstChains <- FirstA2
    Moves <- Reorganising
    MaxHeight = 2
    Workers = 2
    SaveMargin = 1
    QueueLimit = 1
    MaxFetches = 2
    MaxReorgs = 1
    MaxReverts = 1
    MaxFaults = 1
INVARIANTS UtxosExplained
PROPERTIES WorkersSettle
