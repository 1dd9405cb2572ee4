SPECIFICATION FairSpec
CONSTANTS
  g = g  a1 = a1  a2 = a2  a3 = a3  a4 = a4  b2 = b2  b3 = b3  b4 = b4
  NoBlock = NoBlock
  Blocks <- MCBlocks
  Prev <- MCPrev
  Chains <- MCChains
  FirstChains <- FirstA2
  Moves <- Growing
  MaxHeight = 4
  PrefetchQueueSize = 2
  VerifyGap = 2
  Regressions = {"r1"}
  Starts <- EmptyOrTwo
  MaxReorgs = 2
  MaxFaults = 2
  MaxCrashes = 2
INVARIANTS TypeOK CleanStart RevertsExclusive DatabaseSound
PROPERTIES RefinesLedger Converges
CHECK_DEADLOCK FALSE
