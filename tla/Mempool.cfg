SPECIFICATION Spec
CONSTANTS
    a = a
    child = child
    rival = rival
    NoTx = NoTx
    Txs <- ThreeTxs
    Parent <- ParentOf
    Rivals <- RivalsOf
    ValidAt <- Validity
    StartPool <- JustA
    Packages <- OnePackage
    Slots <- TwoSlots
    MaxPending = 1
    PreventIfNotSynced = TRUE
    StartHeight = 1
    MaxHeight = 3
    Budgets <- PoolOrChain
    s1 = s1
    s2 = s2
    MaxRetries = 1
    RefreshGap = 2
    InfoAt <- InfoOf
SYMMETRY SlotsAlike
INVARIANTS PoolExplained AcceptedSpread SyncSettled
CHECK_DEADLOCK FALSE
