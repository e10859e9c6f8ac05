\* A book that dies and comes back.  VIOLATED, see README.
SPECIFICATION FairSpec
CONSTANTS
    Ticker = t1
    Workers = {w1, w2}
    NoWorker = NoWorker
    MaxAttempts = 3
    ConfirmChecks = 2
    FeedStalls = FALSE
    Books <- Reviving
PROPERTIES
    RevivedIsServed
