SPECIFICATION Spec
CONSTANTS
  g = g  a1 = a1  a2 = a2  a3 = a3  a4 = a4  b2 = b2  b3 = b3  b4 = b4
  NoBlock = NoBlock
  Blocks <- MCBlocks
  Prev <- MCPrev
  Chains <- MCChains
  FirstChains <- FirstA3
  Moves <- AnyMove
  MaxHeight = 4
  PrefetchQueueSize = 2
  VerifyGap = 100
  Regressions = {"r1"}
  Starts = {3}
  MaxReorgs = 2
  MaxFaults = 1
  MaxCrashes = 1
INVARIANT LockExplained
PROPERTY Linked
CHECK_DEADLOCK FALSE
