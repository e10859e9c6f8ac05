SPECIFICATION FairSpec
CONSTANTS
    Target = 3
    Cap = 3
    Bids = {1, 2}
    Ids = 2
    MaxPlaced = 2
    MaxEntries = 1
    FaultKinds = {"reply", "cancel", "list", "crash"}
    Budget = 1
INVARIANTS TypeOK OneRestingBuy NeverPastTarget NoStrayBuy
PROPERTY ClosedChaseEnds
CHECK_DEADLOCK FALSE
