\* Every book, feed stalls included.
SPECIFICATION FairSpec
CONSTANTS
    Ticker = t1
    Workers = {w1, w2}
    NoWorker = NoWorker
    MaxAttempts = 3
    ConfirmChecks = 2
    FeedStalls = TRUE
    Books <- AllBooks
INVARIANTS
    TypeOK
    ParkedIsLeftAlone
PROPERTIES
    StopIsServed
    DeadBookIsParked
