SPECIFICATION FairSpec
CONSTANTS
    Q = 2
    Ids = 5
    Settings = {{"bsp"}, {"pts"}}
    Overlapping = FALSE
    MaxEntries = 1
    FaultKinds = {"reply", "cancel", "list", "db", "crash"}
    Budget = 2
INVARIANTS TypeOK StackedBackstop StackedTakeProfit NeverOversold NoLingeringSell
PROPERTY StaleIdIsDropped
CHECK_DEADLOCK FALSE
