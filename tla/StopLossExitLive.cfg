\* Two entries, or one and a lost buy reply or a crash.
SPECIFICATION FairSpec
CONSTANTS
    Q = 2
    MaxAttempts = 2
    HedgeMax = 2
    SweepHasOwnPrice = FALSE
    FaultKinds = {"reply", "crash"}
    Budget = 2
PROPERTIES
    HoldingIsAdopted
    StopReachesExchange
