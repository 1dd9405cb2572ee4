SPECIFICATION FairSpec
CONSTANTS
  MaxHeight = 3
  Tables <- MCTables
  Witnesses = "witnesses"
  Utxos <- MCUtxos
  BatchSize = 2
  MaxFailures = 1
INVARIANTS PurgeComplete Lockstep
PROPERTIES KeepsBelow CallEnds
CHECK_DEADLOCK FALSE
