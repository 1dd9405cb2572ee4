SPECIFICATION Spec
CONSTANTS
  MaxCalls = 3
  MaxDeploys = 2
  MaxEvents = 2
  NewSlotGas = 2
  UpdatedSlotGas = 1
  MaxBurnedFee = 20
  MaxUTXOs = 4
  BlockGas = 30
  PanicGas = 3
  MaxLength = 3
  MaxCrashes = 1
  MaxReorgs = 1
  MaxFaults = 2
  Nil = Nil
  Failed = Failed
  Chains <- MCChains
  Stressed <- MCStressed
INVARIANTS ExecutionExact HeadersCommit OrderSound
PROPERTIES BlocksComplete
CHECK_DEADLOCK FALSE
