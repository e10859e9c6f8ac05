\* One ticker, three task identities: a stale worker, its successor and the
\* successor's successor can all be unfinished at once.  Several tickers share
\* only the polling sweep and the shutdown; SlWatcherProofs covers any number.
SPECIFICATION FairSpec
CONSTANTS
    Tickers = {t1}
    Workers = {w1, w2, w3}
    NoWorker = NoWorker
INVARIANTS
    TypeOK
    ExclusiveExit
    FlagHasOwner
    NoExitAfterUnregister
PROPERTIES
    ImplementsGuard
    ArmedIsServed
