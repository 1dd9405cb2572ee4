SPECIFICATION Spec
CONSTANTS
    Threads <- TwoThreads
    MaxHeight = 3
    Stored = 1
    MaxReorgs = 1
    MaxEvents = 2
    MaxLag = 3
    Threshold = 1
    MaxPending = 1
    MaxValidations = 1
    MaxPerBlock = 1
    MaxQueue = 1
    MaxSelfProofs = 1
INVARIANTS WitnessesExplained SelfWitnessed
CHECK_DEADLOCK FALSE
