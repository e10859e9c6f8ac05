\* A lost buy reply after a stop-loss.  VIOLATED, see README.
SPECIFICATION Spec
CONSTANTS
    Q = 2
    MaxAttempts = 2
    HedgeMax = 2
    SweepHasOwnPrice = FALSE
    FaultKinds = {"reply"}
    Budget = 3
INVARIANTS
    FreshRecord
