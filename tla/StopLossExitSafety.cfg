\* Entries and faults of every kind, three in all.
SPECIFICATION Spec
CONSTANTS
    Q = 2
    MaxAttempts = 2
    HedgeMax = 2
    SweepHasOwnPrice = FALSE
    FaultKinds = {"reply", "db", "verify", "crash"}
    Budget = 3
INVARIANTS
    TypeOK
    WatchedWhileHeld
    DbKnowsPosition
    NeverOvercounted
PROPERTIES
    SucceededMeansGone
