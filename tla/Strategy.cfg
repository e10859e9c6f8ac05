SPECIFICATION AllSpec
CONSTANTS
    Tickers = {b50, b52}
    Initial = 1
    Factor = 2
    EventMax = 3
    FailClosed = FALSE
    MaxOrders = 2
    MaxStops = 3
    Together = {{"reply"}, {"cut"}}
    MaxUnknown = 2
    Days = 2
    MaxStarts = 3
    Dates = 2
    Temps = {0, 1, 2}
    Line = 1
    MaxObs = 3
    Qty = 2
    Checkpoints = {1, 2}
    LateStart = TRUE
    MaxPositions = 2
SYMMETRY AnyBracket
INVARIANTS
    AllTypeOK PositionWithinCap  NoLostCandidate CountFollowsStops
    AmLowIsKept  GateIsEarned NoKnifeEntry SellsOnce
PROPERTIES ExitIsConfirmed 
CHECK_DEADLOCK FALSE
