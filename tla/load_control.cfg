SPECIFICATION FairSpec
CONSTANTS
    Requests = {r1, r2}
    NumThresholds = 2
    Demands <- MCDemands
    Supplies <- MCSupplies
INVARIANTS
    TypeOK
    CapsWithinSupply
    MarkWakesUpdater
PROPERTIES
    MarksServed
    ShutdownStops
