SPECIFICATION FairSpec
CONSTANTS
    Nodes = {"a", "b"}
    Compats <- AnyCompat
    MaxDialFailures = 2
    MaxConns = 2
    MaxTroubles = 2
    MaxWire = 1
INVARIANTS BansExplained SessionsAgree
PROPERTIES HandshakeSettles
CHECK_DEADLOCK FALSE
