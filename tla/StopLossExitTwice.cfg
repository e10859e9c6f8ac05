\* The sweep notices the stop as well.  VIOLATED, see README.
SPECIFICATION Spec
CONSTANTS
    Q = 2
    MaxAttempts = 2
    HedgeMax = 2
    SweepHasOwnPrice = TRUE
    FaultKinds = {}
    Budget = 1
INVARIANTS
    NeverOvercounted
