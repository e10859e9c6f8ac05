\* A crash while the sale is in flight.  VIOLATED, see README.
SPECIFICATION FairSpec
CONSTANTS
    Q = 2
    MaxAttempts = 2
    HedgeMax = 2
    SweepHasOwnPrice = FALSE
    FaultKinds = {"crash"}
    Budget = 2
PROPERTIES
    SubmittedIsRetried
