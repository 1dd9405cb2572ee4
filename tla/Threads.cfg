SPECIFICATION FairSpec
CONSTANTS
    Slots = 2
    Single = {"one"}
    Broadcasts = {"all"}
    MaxTries = 1
    MaxDeaths = 1
INVARIANTS CallersServed
PROPERTIES LinksSettle
CHECK_DEADLOCK FALSE
