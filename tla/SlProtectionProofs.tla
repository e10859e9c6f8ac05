------------------------- MODULE SlProtectionProofs -------------------------
(***************************************************************************)
(* Proofs about the protection of a held ticker, for any number of         *)
(* attempts and of dead readings, any worker identities and any of the     *)
(* books the model covers.                                                 *)
(*                                                                         *)
(* The watcher is used as it is meant to be: every step of the composition *)
(* is, for the watcher, a step of its own or none at all, so what is       *)
(* proved about the watcher alone holds here.  What that takes is that     *)
(* the strategy and the watcher agree on what is held (HeldIsWatched):     *)
(* the re-registration of a ticker the watcher has lost, which would be    *)
(* two steps of the watcher in one, then never happens.                    *)
(***************************************************************************)
EXTENDS SlProtection, TLAPS

W == INSTANCE SlWatcherProofs WITH Tickers <- {Ticker}

\* The strategy and the watcher agree on what is held.
HeldIsWatched == held <=> Ticker \in watched

\* Nothing is exited that is not held.
ExitHasPosition == exit.on => held

Inv == TypeOK /\ HeldIsWatched /\ ExitHasPosition /\ ParkedIsLeftAlone

-----------------------------------------------------------------------------
(* The watcher of SlProtection is the one SlWatcherProofs is about. *)

LEMMA SameTypes == W!TypeOK <=> Watcher!TypeOK
  BY DEF W!TypeOK, W!States, W!Asks, W!Lives, Watcher!TypeOK, Watcher!States, Watcher!Asks, Watcher!Lives

LEMMA SameInit == W!Init <=> Watcher!Init
  BY DEF W!Init, Watcher!Init

LEMMA SameNext == W!Next <=> Watcher!Next
  BY DEF W!Next, W!Strategy, W!RegisterPosition, W!RegisterNew, W!RegisterAgain, W!RearmPosition,
     W!UnregisterPosition, W!ForgetPosition, W!AfterUnregister, W!Unfinished, W!MarketUpdate,
     W!MarketAboveStop, W!SeeAsk, W!TriggerIgnored, W!TriggerFired, W!SlotBusy, W!HasFree, W!NextFree,
     W!PollCycle, W!Due, W!Pending, W!Worker, W!WorkerStarts, W!WorkerReports, W!ResultState, W!WorkerEnds,
     W!WorkerCancelled, W!Cleanup, W!Stop, W!Outcomes, W!Asks, W!posVars,
     Watcher!Next, Watcher!Strategy, Watcher!RegisterPosition, Watcher!RegisterNew, Watcher!RegisterAgain,
     Watcher!RearmPosition, Watcher!UnregisterPosition, Watcher!ForgetPosition, Watcher!AfterUnregister,
     Watcher!Unfinished, Watcher!MarketUpdate, Watcher!MarketAboveStop, Watcher!SeeAsk,
     Watcher!TriggerIgnored, Watcher!TriggerFired, Watcher!SlotBusy, Watcher!HasFree, Watcher!NextFree,
     Watcher!PollCycle, Watcher!Due, Watcher!Pending, Watcher!Worker, Watcher!WorkerStarts,
     Watcher!WorkerReports, Watcher!ResultState, Watcher!WorkerEnds, Watcher!WorkerCancelled,
     Watcher!Cleanup, Watcher!Stop, Watcher!Outcomes, Watcher!Asks, Watcher!posVars

LEMMA SameStep == [Watcher!Next]_watcherVars <=> [W!Next]_(W!vars)
  BY SameNext DEF W!vars, watcherVars

LEMMA SameSpec == [Watcher!Next]_watcherVars <=> [Watcher!Next]_(Watcher!vars)
  BY DEF Watcher!vars, watcherVars

\* A step of the watcher keeps its types.
LEMMA WatcherTypes == ASSUME Watcher!TypeOK, [Watcher!Next]_watcherVars PROVE Watcher!TypeOK'
<1>1. W!TypeOK /\ [W!Next]_(W!vars) => W!TypeOK'
  BY ConstantsAssumption, W!TypeStep DEF W!NoWorkerAssumption
<1>2. W!TypeOK' <=> Watcher!TypeOK'
  BY DEF W!TypeOK, W!States, W!Asks, W!Lives, Watcher!TypeOK, Watcher!States, Watcher!Asks, Watcher!Lives
<1>3. QED
  BY <1>1, <1>2, SameTypes, SameStep

-----------------------------------------------------------------------------
(* What the steps ask of the watcher *)

LEMMA ToldIsAStep ==
    ASSUME NEW ask \in AskSides, WatcherTold(ask)
    PROVE  [Watcher!Next]_watcherVars /\ watched' = watched
<1>1. CASE Ticker \notin watched /\ UNCHANGED watcherVars
  BY <1>1 DEF watcherVars
<1>2. CASE AsLow(ask) # "low" /\ Watcher!MarketAboveStop(Ticker, AsLow(ask))
  <2>1. AsLow(ask) \in {"none", "high"}
    BY <1>2 DEF AskSides, AsLow, AtStop
  <2>2. Watcher!MarketUpdate(Ticker)
    BY <1>2, <2>1 DEF Watcher!MarketUpdate
  <2>3. QED
    BY <1>2, <2>2 DEF Watcher!Next, Watcher!MarketAboveStop
<1>3. CASE Watcher!TriggerIgnored(Ticker) \/ Watcher!TriggerFired(Ticker)
  BY <1>3 DEF Watcher!Next, Watcher!MarketUpdate, Watcher!TriggerIgnored, Watcher!TriggerFired
<1>4. QED
  BY <1>1, <1>2, <1>3 DEF WatcherTold

LEMMA TaskIsAStep ==
    ASSUME NEW w \in Workers, Watcher!WorkerStarts(Ticker, w) \/ Watcher!WorkerCancelled(Ticker, w)
                              \/ Watcher!Cleanup(Ticker, w)
                              \/ (\E o \in Watcher!Outcomes : Watcher!WorkerReports(Ticker, w, o))
    PROVE  Watcher!Next /\ watched' = watched
<1>1. Watcher!Worker(Ticker, w)
  BY DEF Watcher!Worker
<1>2. watched' = watched
  BY DEF Watcher!WorkerStarts, Watcher!WorkerCancelled, Watcher!Cleanup, Watcher!WorkerReports, Watcher!posVars
<1>3. QED
  BY <1>1, <1>2 DEF Watcher!Next

LEMMA EndIsAStep ==
    ASSUME NEW w \in Workers, Watcher!WorkerEnds(Ticker, w)
    PROVE  Watcher!Next /\ watched' = watched \ {Ticker}
  BY DEF Watcher!Next, Watcher!Worker, Watcher!WorkerEnds, Watcher!ForgetPosition

\* Every step is one of the watcher or none of its business, and the strategy
\* and the watcher stay agreed.
LEMMA WatcherStep ==
    ASSUME Inv, [Next]_vars
    PROVE  [Watcher!Next]_watcherVars /\ HeldIsWatched'
<1> USE DEF Inv, HeldIsWatched
<1>0. book \in Books /\ book[2] \in AskSides /\ watched \subseteq {Ticker}
  BY ConstantsAssumption DEF TypeOK, AskSides, Watcher!TypeOK
<1>1. ASSUME UNCHANGED <<watcherVars, held>> PROVE [Watcher!Next]_watcherVars /\ HeldIsWatched'
  BY <1>1 DEF watcherVars
<1>2. CASE Feed
  <2>1. WatcherTold(book[2]) /\ held' = held
    BY <1>2 DEF Feed, TickerMessage, OrderbookMessage
  <2>2. QED
    BY <1>0, <2>1, ToldIsAStep
<1>3. CASE Enter
  <2>1. Watcher!Strategy(Ticker)
    BY <1>3 DEF Enter, Watcher!Strategy, Watcher!RegisterPosition
  <2>2. held' = TRUE /\ watched' = watched \cup {Ticker}
    BY <1>3 DEF Enter, Watcher!RegisterNew
  <2>3. QED
    BY <2>1, <2>2 DEF Watcher!Next
<1>4. CASE Poll
  BY <1>4 DEF Poll, Watcher!Next, Watcher!PollCycle
<1>5. ASSUME NEW w \in Workers, WorkerMoves(w) PROVE Watcher!Next /\ HeldIsWatched'
  BY <1>5, TaskIsAStep DEF WorkerMoves
<1>6. ASSUME NEW w \in Workers, HandlerRuns(w) PROVE Watcher!Next /\ HeldIsWatched'
  <2>1. held' = held
    BY <1>6 DEF HandlerRuns
  <2>2. CASE ~held /\ Watcher!WorkerEnds(Ticker, w)
    BY <2>1, <2>2, EndIsAStep
  <2>3. CASE Watcher!WorkerReports(Ticker, w, "suppressed") \/ Watcher!WorkerReports(Ticker, w, "retry")
    <3>1. \E o \in Watcher!Outcomes : Watcher!WorkerReports(Ticker, w, o)
      BY <2>3 DEF Watcher!Outcomes
    <3>2. QED
      BY <2>1, <3>1, TaskIsAStep
  <2>4. QED
    BY <1>6, <2>2, <2>3 DEF HandlerRuns
<1>7. ASSUME NEW checked \in BOOLEAN, ExitSells(checked) PROVE Watcher!Next /\ HeldIsWatched'
  <2>1. Watcher!UnregisterPosition(Ticker, NoWorker) /\ held' = FALSE
    BY <1>7 DEF ExitSells
  <2>2. Watcher!Strategy(Ticker) /\ watched' = watched \ {Ticker}
    BY <2>1 DEF Watcher!Strategy, Watcher!UnregisterPosition, Watcher!ForgetPosition
  <2>3. QED
    BY <2>1, <2>2 DEF Watcher!Next
<1>8. ASSUME NEW checked \in BOOLEAN, ExitFails(checked)
      PROVE  [Watcher!Next]_watcherVars /\ HeldIsWatched'
  <2>1. held' = held /\ Ticker \in watched
    BY <1>8 DEF ExitFails
  <2>2. CASE UNCHANGED watcherVars
    BY <1>1, <2>1, <2>2
  <2>3. CASE Watcher!RearmPosition(Ticker, "low")
    <3>1. Watcher!Strategy(Ticker) /\ watched' = watched
      BY <2>3 DEF Watcher!Strategy, Watcher!RearmPosition, Watcher!Asks
    <3>2. QED
      BY <2>1, <3>1 DEF Watcher!Next
  <2>4. QED
    BY <1>8, <2>1, <2>2, <2>3 DEF ExitFails
<1>9. CASE BookMoves \/ QuoteAges \/ SweepTriggers \/ ExitAborts \/ ExitLatches \/ UNCHANGED vars
  BY <1>1, <1>9 DEF BookMoves, QuoteAges, SweepTriggers, ExitAborts, ExitLatches, vars
<1>10. QED
  BY <1>2, <1>3, <1>4, <1>5, <1>6, <1>7, <1>8, <1>9 DEF Next, Handling, Exiting

-----------------------------------------------------------------------------
(* Types *)

LEMMA CachedIsAQuote == \A b \in Books : CachedAs(b) \in Bids \X AskSides
  BY ConstantsAssumption DEF CachedAs, Bids, AskSides

LEMMA ExitsAre ==
    /\ NoExit \in Exits /\ [NoExit EXCEPT !.on = TRUE] \in Exits /\ ~NoExit.on
    /\ \A e \in Exits : e.attempt \in Nat /\ e.dead \in Nat /\ e.on \in BOOLEAN
    /\ \A e \in Exits, n \in 0..ConfirmChecks :
         e.attempt < MaxAttempts => [e EXCEPT !.attempt = @ + 1, !.dead = n] \in Exits
<1>1. NoExit \in Exits /\ [NoExit EXCEPT !.on = TRUE] \in Exits /\ ~NoExit.on
  <2>1. 1 \in 1..MaxAttempts /\ 0 \in 0..ConfirmChecks
    BY ConstantsAssumption
  <2>2. NoExit \in Exits
    BY <2>1 DEF Exits, NoExit
  <2>3. \A e \in Exits : [e EXCEPT !.on = TRUE] \in Exits
    BY DEF Exits
  <2>4. ~NoExit.on
    BY DEF NoExit
  <2>5. QED
    BY <2>2, <2>3, <2>4
<1>2. \A e \in Exits : e.attempt \in Nat /\ e.dead \in Nat /\ e.on \in BOOLEAN
  BY ConstantsAssumption DEF Exits
<1>3. ASSUME NEW e \in Exits, NEW n \in 0..ConfirmChecks, e.attempt < MaxAttempts
      PROVE  [e EXCEPT !.attempt = @ + 1, !.dead = n] \in Exits
  <2>1. e.attempt \in 1..MaxAttempts /\ e.attempt + 1 \in 1..MaxAttempts
    BY <1>3, ConstantsAssumption DEF Exits
  <2>2. \A a \in 1..MaxAttempts : [e EXCEPT !.attempt = a, !.dead = n] \in Exits
    BY DEF Exits
  <2>3. QED
    BY <2>1, <2>2
<1>4. QED
  BY <1>1, <1>2, <1>3

LEMMA DispatchIs ==
    ASSUME TypeOK, Dispatch
    PROVE  exit' \in Exits /\ latched' \in BOOLEAN /\ (latched' => exit' = exit /\ latched)
<1>1. exit \in Exits /\ latched \in BOOLEAN
  BY DEF TypeOK
<1>2. CASE latched /\ ~Revived
  BY <1>1, <1>2, Zenon DEF Dispatch
<1>3. CASE ~(latched /\ ~Revived)
  <2>1. exit' = (IF exit.on THEN exit ELSE [NoExit EXCEPT !.on = TRUE]) /\ latched' = FALSE
    BY <1>3 DEF Dispatch
  <2>2. QED
    BY <1>1, <2>1, ExitsAre, Zenon
<1>4. QED
  BY <1>2, <1>3, Zenon

LEMMA AttemptIsAnExit ==
    ASSUME TypeOK, NEW checked \in BOOLEAN, MayAttempt(checked)
    PROVE  Attempted(checked) \in Exits
<1> DEFINE n == IF ~checked THEN exit.dead ELSE IF Dead THEN exit.dead + 1 ELSE 0
<1>1. exit \in Exits /\ exit.dead \in 0..ConfirmChecks
  BY DEF TypeOK, Exits
<1>2. n \in 0..ConfirmChecks
  BY <1>1, ConstantsAssumption DEF MayAttempt
<1>3. Attempted(checked) = IF exit.attempt < MaxAttempts
                           THEN [exit EXCEPT !.attempt = @ + 1, !.dead = n] ELSE NoExit
  BY DEF Attempted
<1> HIDE DEF n
<1>4. QED
  BY <1>1, <1>2, <1>3, ExitsAre

LEMMA TypeInit == ASSUME Init PROVE TypeOK
<1>1. Watcher!TypeOK
  BY ConstantsAssumption, SameTypes, SameInit, W!TypeInit DEF Init, W!NoWorkerAssumption
<1>2. exit \in Exits /\ quote \in Bids \X AskSides
  BY ExitsAre DEF Init, NoQuote, Bids, AskSides
<1>3. held \in BOOLEAN /\ latched \in BOOLEAN /\ fresh \in BOOLEAN
  BY DEF Init
<1>4. QED
  BY <1>1, <1>2, <1>3 DEF Init, TypeOK

\* The flags stay Boolean.
LEMMA FlagsStep ==
    ASSUME TypeOK, [Next]_vars
    PROVE  held' \in BOOLEAN /\ fresh' \in BOOLEAN
  BY DEF TypeOK, Next, BookMoves, Feed, TickerMessage, OrderbookMessage, QuoteAges, Enter, Poll,
     SweepTriggers, Exiting, ExitAborts, ExitLatches, ExitSells, ExitFails, Handling, WorkerMoves,
     HandlerRuns, vars

\* What a step does to the exit task and the latch.
LEMMA ExitStep ==
    ASSUME Inv, [Next]_vars
    PROVE  exit' \in Exits /\ latched' \in BOOLEAN /\ (latched' => ~exit'.on) /\ (exit'.on => held')
<1> DEFINE Goal == exit' \in Exits /\ latched' \in BOOLEAN /\ (latched' => ~exit'.on) /\ (exit'.on => held')
<1>0. exit \in Exits /\ latched \in BOOLEAN /\ (latched => ~exit.on) /\ (exit.on => held)
  BY DEF Inv, TypeOK, ExitHasPosition, ParkedIsLeftAlone
<1>1. ASSUME UNCHANGED <<exit, held, latched>> PROVE Goal
  BY <1>0, <1>1, Zenon
<1>2. ASSUME exit' = NoExit, latched' \in BOOLEAN PROVE Goal
  BY <1>2, ExitsAre, Zenon
<1>3. ASSUME held, held' = held, Dispatch PROVE Goal
  BY <1>0, <1>3, DispatchIs, Zenon DEF Inv
<1>4. CASE Enter
  <2>1. ~exit.on /\ exit' = exit /\ latched' = FALSE
    BY <1>4, Zenon DEF Enter
  <2>2. QED
    BY <1>0, <2>1, Zenon
<1>5. CASE ExitAborts
  BY <1>0, <1>2, <1>5, Zenon DEF ExitAborts
<1>6. CASE ExitLatches
  BY <1>2, <1>6, Zenon DEF ExitLatches
<1>7. ASSUME NEW checked \in BOOLEAN, ExitSells(checked) PROVE Goal
  BY <1>0, <1>2, <1>7, Zenon DEF ExitSells
<1>8. ASSUME NEW checked \in BOOLEAN, ExitFails(checked) PROVE Goal
  <2>1. exit' = Attempted(checked) /\ MayAttempt(checked) /\ exit.on /\ held /\ UNCHANGED <<held, latched>>
    BY <1>8, Zenon DEF ExitFails, MayAttempt
  <2>2. exit' \in Exits
    BY <2>1, AttemptIsAnExit DEF Inv
  <2>3. QED
    BY <1>0, <2>1, <2>2, Zenon
<1>9. CASE SweepTriggers
  BY <1>3, <1>9, Zenon DEF SweepTriggers
<1>10. ASSUME NEW w \in Workers, HandlerRuns(w) PROVE Goal
  BY <1>1, <1>3, <1>10, Zenon DEF HandlerRuns
<1>11. CASE BookMoves \/ Feed \/ QuoteAges \/ Poll \/ (\E w \in Workers : WorkerMoves(w)) \/ UNCHANGED vars
  BY <1>1, <1>11, Zenon DEF BookMoves, Feed, TickerMessage, OrderbookMessage, QuoteAges, Poll, WorkerMoves, vars
<1>12. QED
  BY <1>4, <1>5, <1>6, <1>7, <1>8, <1>9, <1>10, <1>11, Zenon DEF Next, Exiting, Handling

\* The book and the quote keep their types.
LEMMA FeedStep ==
    ASSUME TypeOK, [Next]_vars
    PROVE  book' \in Books /\ quote' \in Bids \X AskSides
<1>0. book \in Books /\ quote \in Bids \X AskSides
  BY DEF TypeOK
<1>1. book' \in Books
  BY <1>0 DEF Next, BookMoves, Feed, TickerMessage, OrderbookMessage, QuoteAges, Enter, Poll,
     SweepTriggers, Exiting, ExitAborts, ExitLatches, ExitSells, ExitFails, Handling, WorkerMoves,
     HandlerRuns, vars
<1>2. quote' = quote \/ quote' = CachedAs(book)
  BY DEF Next, BookMoves, Feed, TickerMessage, OrderbookMessage, QuoteAges, Enter, Poll,
     SweepTriggers, Exiting, ExitAborts, ExitLatches, ExitSells, ExitFails, Handling, WorkerMoves,
     HandlerRuns, vars
<1>3. QED
  BY <1>0, <1>1, <1>2, CachedIsAQuote

LEMMA InvInit == ASSUME Init PROVE Inv
  BY TypeInit, ExitsAre DEF Init, Inv, HeldIsWatched, ExitHasPosition, ParkedIsLeftAlone, Watcher!Init

LEMMA InvStep == ASSUME Inv, [Next]_vars PROVE Inv'
<1>1. Watcher!TypeOK'
  BY WatcherStep, WatcherTypes DEF Inv, TypeOK
<1>2. TypeOK'
  BY <1>1, FlagsStep, ExitStep, FeedStep DEF Inv, TypeOK
<1>3. QED
  BY <1>2, WatcherStep, ExitStep DEF Inv, ExitHasPosition, ParkedIsLeftAlone

-----------------------------------------------------------------------------
(* Results *)

(* Every variable of the composition keeps its type. *)
THEOREM TypeCorrect == Spec => []TypeOK
<1>1. Inv => TypeOK
  BY DEF Inv
<1>2. QED
  BY <1>1, InvInit, InvStep, PTL DEF Spec

(* A position declared unfillable is left alone: while the latch is on, no *)
(* exit task is at work on it, whoever asked for one and whenever.         *)
THEOREM LatchHolds == Spec => []ParkedIsLeftAlone
<1>1. Inv => ParkedIsLeftAlone
  BY DEF Inv
<1>2. QED
  BY <1>1, InvInit, InvStep, PTL DEF Spec

(* What the strategy holds is what the watcher watches, at every moment    *)
(* another task can run.                                                   *)
THEOREM WatcherKeepsUp == Spec => []HeldIsWatched
<1>1. Inv => HeldIsWatched
  BY DEF Inv
<1>2. QED
  BY <1>1, InvInit, InvStep, PTL DEF Spec

(* Feed, sweep, exit task and handler together use the watcher only in     *)
(* ways its own specification allows.                                      *)
THEOREM UsesTheWatcher == Spec => Watcher!Spec
<1>1. Init => Watcher!Init
  BY DEF Init
<1>2. Inv /\ [Next]_vars => [Watcher!Next]_(Watcher!vars)
  BY WatcherStep, SameSpec
<1>3. QED
  BY <1>1, <1>2, InvInit, InvStep, PTL DEF Spec, Watcher!Spec

(* So the ticker never has two exit handlers in flight here either, and a  *)
(* raised exit_in_progress has its owner.                                  *)
THEOREM OneHandlerAtATime == Spec => [](Watcher!ExclusiveExit /\ Watcher!FlagHasOwner)
<1>1. Init => W!Init
  BY SameInit DEF Init
<1>2. Inv /\ [Next]_vars => [W!Next]_(W!vars)
  BY WatcherStep, SameStep
<1>3. Spec => W!Spec
  BY <1>1, <1>2, InvInit, InvStep, PTL DEF Spec, W!Spec
<1>4. W!Spec => [](W!ExclusiveExit /\ W!FlagHasOwner)
  BY ConstantsAssumption, W!OneExitAtATime, W!FlagIsOwned, PTL DEF W!NoWorkerAssumption
<1>5. W!ExclusiveExit /\ W!FlagHasOwner => Watcher!ExclusiveExit /\ Watcher!FlagHasOwner
  BY DEF W!ExclusiveExit, W!FlagHasOwner, Watcher!ExclusiveExit, Watcher!FlagHasOwner
<1>6. QED
  BY <1>3, <1>4, <1>5, PTL
=============================================================================
