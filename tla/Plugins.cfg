SPECIFICATION FairSpec
CONSTANTS
    Files <- TwoFiles
    Setups <- AnySetup
    Count = 1
    Height = 1
    Reindexing = TRUE
    MaxBlocks = 1
    MaxReverts = 2
    MaxTroubles = 1
INVARIANTS EnabledIsServed OrphansExplained
PROPERTIES IndexerReleased
CHECK_DEADLOCK FALSE
