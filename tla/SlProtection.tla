---------------------------- MODULE SlProtection ----------------------------
(***************************************************************************)
(* How the parts that guard one held ticker fit together: the ticker feed  *)
(* and the quote cache, the stop-loss watcher (SlWatcher, whole), the      *)
(* watcher's exit handler, the held-position sweep that defers to the      *)
(* watcher, the panic exit task, and the "unfillable" latch that parks a   *)
(* position nobody will buy.                                               *)
(*                                                                         *)
(* The question here is who acts on a stop.  The sale itself, the          *)
(* database and the ledger are StopLossExit's: an attempt of the exit task *)
(* is one step that ends with the position sold or re-armed.               *)
(*                                                                         *)
(* Data.  A book is (bid, ask) in classes: a bid is none, zero (0c),       *)
(* penny (at or below sl_panic_no_bid_max_bid_cents but above 0) or live;  *)
(* an ask is none, floor (at or below sl_panic_sell_price), low (at or     *)
(* below the stop) or high.  Spoof protection is off (the default).        *)
(***************************************************************************)
EXTENDS Integers

CONSTANTS
    Ticker, Workers, NoWorker,
    Books,          \* the books the market may show, <<bid, ask>>
    MaxAttempts,    \* sl_panic_max_retries
    ConfirmChecks,  \* sl_panic_no_bid_confirm_checks
    FeedStalls      \* ticker messages may stay away for longer than a quote lasts

ASSUME ConstantsAssumption ==
    /\ {MaxAttempts, ConfirmChecks} \subseteq Nat \ {0}
    /\ FeedStalls \in BOOLEAN
    /\ NoWorker \notin Workers
    \* A zero or penny bid alone is left out: its synthetic ask would be 0 or 1.
    /\ Books \subseteq {"zero", "penny", "live"} \X {"floor", "low", "high"}
                  \cup {"none"} \X {"floor", "low", "high"}
                  \cup {<<"live", "none">>}

VARIABLES
    watched, state, exitInProgress, lastBestAsk, slot, task, shutdown,  \* SlWatcher
    held,     \* ticker in active_positions
    latched,  \* bracket._sl_unfillable
    book,     \* the market's book
    quote,    \* the ticker's quote in TickerCache, NoQuote before the first
    fresh,    \* the quote is younger than held_position_price_refresh_seconds
    exit      \* the exit task: [on, attempt, dead]

watcherVars == <<watched, state, exitInProgress, lastBestAsk, slot, task, shutdown>>
vars == <<watcherVars, held, latched, book, quote, fresh, exit>>

Watcher == INSTANCE SlWatcher WITH Tickers <- {Ticker}

NoQuote == <<"none", "none">>
NoExit == [on |-> FALSE, attempt |-> 1, dead |-> 0]

Bids == {"none", "zero", "penny", "live"}
AskSides == {"none", "floor", "low", "high"}

Exits == [on : BOOLEAN, attempt : 1..MaxAttempts, dead : 0..ConfirmChecks]

TypeOK ==
    /\ Watcher!TypeOK
    /\ held \in BOOLEAN
    /\ latched \in BOOLEAN
    /\ book \in Books
    /\ quote \in Bids \X AskSides
    /\ fresh \in BOOLEAN
    /\ exit \in Exits

Init ==
    /\ Watcher!Init
    /\ held = FALSE /\ latched = FALSE
    /\ book \in Books
    /\ quote = NoQuote /\ fresh = FALSE
    /\ exit = NoExit

-----------------------------------------------------------------------------
(* Helpers *)

AtStop(ask) == ask \in {"floor", "low"}
AsLow(ask)  == IF AtStop(ask) THEN "low" ELSE ask      \* SlWatcher's classes

\* A one-sided message is cached with the present side standing for the
\* missing one.  A bid without an ask is seen near settlement: it is at or
\* below the stop.
CachedAs(b) ==
    CASE b[2] = "none" -> <<b[1], IF b[1] = "live" THEN "low" ELSE "floor">>
      [] b[1] = "none" -> <<IF b[2] = "floor" THEN "penny" ELSE "live", b[2]>>
      [] OTHER         -> b

\* _sl_unfillable_revived: whatever the quote's age.
Revived == quote[1] = "live"
Dead    == quote[1] \in {"zero", "penny"} /\ quote[2] = "floor"

\* A slip: the latch is not looked at.
DispatchUnlatched ==
    /\ exit' = IF exit.on THEN exit ELSE [NoExit EXCEPT !.on = TRUE]
    /\ latched' = latched

\* _dispatch_stop_loss_exit
Dispatch ==
    IF latched /\ ~Revived
    THEN UNCHANGED <<exit, latched>>
    ELSE /\ exit' = IF exit.on THEN exit ELSE [NoExit EXCEPT !.on = TRUE]
         /\ latched' = FALSE

-----------------------------------------------------------------------------
(* The feed *)

BookMoves ==
    /\ book' \in Books \ {book}
    /\ UNCHANGED <<watcherVars, held, latched, quote, fresh, exit>>

\* One update of the watcher, as a message with this ask makes it; none when
\* the watcher does not have the ticker.
WatcherTold(ask) ==
    \/ Ticker \notin watched /\ UNCHANGED watcherVars
    \/ /\ Ticker \in watched
       /\ \/ AsLow(ask) # "low" /\ Watcher!MarketAboveStop(Ticker, AsLow(ask))
          \/ AsLow(ask) = "low" /\ (Watcher!TriggerIgnored(Ticker) \/ Watcher!TriggerFired(Ticker))

\* _handle_ticker: the cache first, then the watcher.
TickerMessage ==
    /\ quote' = CachedAs(book)
    /\ fresh' = TRUE
    /\ WatcherTold(book[2])
    /\ UNCHANGED <<held, latched, book, exit>>

\* An orderbook snapshot or delta: the watcher only, and only with an ask.
OrderbookMessage ==
    /\ book[2] # "none"
    /\ Ticker \in watched
    /\ WatcherTold(book[2])
    /\ UNCHANGED <<held, latched, book, quote, fresh, exit>>

\* No ticker message for a while.
QuoteAges ==
    /\ FeedStalls /\ fresh
    /\ fresh' = FALSE
    /\ UNCHANGED <<watcherVars, held, latched, book, quote, exit>>

-----------------------------------------------------------------------------
(* The strategy *)

\* An entry fills: a new bracket, registered with the watcher.
Enter ==
    /\ ~held /\ ~exit.on
    /\ book[2] = "high" /\ Ticker \notin watched
    /\ held' = TRUE /\ latched' = FALSE
    /\ Watcher!RegisterNew(Ticker)
    /\ UNCHANGED <<book, quote, fresh, exit>>

\* The watcher's loop sweeps.
Poll ==
    /\ Watcher!PollCycle
    /\ UNCHANGED <<held, latched, book, quote, fresh, exit>>

\* A worker's steps outside the handler.
WorkerMoves(w) ==
    /\ \/ Watcher!WorkerStarts(Ticker, w)
       \/ Watcher!WorkerCancelled(Ticker, w)
       \/ Watcher!Cleanup(Ticker, w)
    /\ UNCHANGED <<held, latched, book, quote, fresh, exit>>

\* A slip: the handler leaves the dispatch to the sweep.
HandlerOnlyReports(w) ==
    /\ task[Ticker][w] = "running"
    /\ \/ ~held /\ Watcher!WorkerEnds(Ticker, w)
       \/ held /\ Watcher!WorkerReports(Ticker, w, IF latched THEN "suppressed" ELSE "retry")
    /\ UNCHANGED <<held, latched, exit, book, quote, fresh>>

\* _execute_stop_loss_from_watcher, with the fast exit: no position, a
\* latched one, or a dispatch (which reports False, "retry").  The re-arm it
\* asks for when the latch goes is refused: its own call is in progress.
HandlerRuns(w) ==
    /\ task[Ticker][w] = "running"
    /\ \/ /\ ~held
          /\ Watcher!WorkerEnds(Ticker, w)
          /\ UNCHANGED <<latched, exit>>
       \/ /\ held /\ latched /\ ~Revived
          /\ Watcher!WorkerReports(Ticker, w, "suppressed")
          /\ UNCHANGED <<latched, exit>>
       \/ /\ held /\ ~(latched /\ ~Revived)
          /\ Watcher!WorkerReports(Ticker, w, "retry")
          /\ Dispatch
    /\ UNCHANGED <<held, book, quote, fresh>>

\* The sweep leaves a stop to the watcher: a fresh quote with a positive bid
\* is at the stop, and the watcher has the ticker.
Defers ==
    /\ held /\ fresh
    /\ quote[1] \in {"penny", "live"} /\ AtStop(quote[2])
    /\ Ticker \in watched

\* The books the sweep may go by: the fresh quote, and REST's when that is
\* missing or has a zero bid.
SweepSees ==
    (IF fresh THEN {quote} ELSE {}) \cup (IF ~fresh \/ quote[1] = "zero" THEN {book} ELSE {})

SweepTriggers ==
    /\ held
    /\ \E seen \in SweepSees : AtStop(seen[2])
    /\ ~Defers
    /\ Dispatch
    /\ UNCHANGED <<watcherVars, held, book, quote, fresh>>

-----------------------------------------------------------------------------
(* The exit task *)

\* The pre-submit check calls the exit off when a usable quote (up to 30 s
\* old) shows no ask at the stop.
ExitAborts ==
    /\ exit.on
    /\ quote # NoQuote /\ ~AtStop(quote[2])
    /\ exit' = NoExit
    /\ UNCHANGED <<watcherVars, held, latched, book, quote, fresh>>

\* The third reading in a row of a dead book parks the position.
ExitLatches ==
    /\ exit.on
    /\ Dead /\ exit.dead + 1 >= ConfirmChecks
    /\ latched' = TRUE
    /\ exit' = NoExit
    /\ UNCHANGED <<watcherVars, held, book, quote, fresh>>

\* A slip: the count of dead readings starts anew with every attempt.
AttemptedForgetting(checked) ==
    IF exit.attempt < MaxAttempts
    THEN [exit EXCEPT !.attempt = @ + 1, !.dead = 0]
    ELSE NoExit

\* A slip: the attempts are not bounded.
AttemptedForever(checked) ==
    [exit EXCEPT !.attempt = @ + 1,
                 !.dead = IF ~checked THEN @ ELSE IF Dead THEN @ + 1 ELSE 0]

\* After an attempt.  One made blindly leaves the run of dead readings as it
\* was.
Attempted(checked) ==
    IF exit.attempt < MaxAttempts
    THEN [exit EXCEPT !.attempt = @ + 1,
                      !.dead = IF ~checked THEN @ ELSE IF Dead THEN @ + 1 ELSE 0]
    ELSE NoExit

\* The check passes, or there is no usable quote and the sale goes ahead
\* without one ("degraded").
MayAttempt(checked) ==
    /\ exit.on
    /\ IF checked
       THEN /\ quote # NoQuote /\ AtStop(quote[2])
            /\ ~(Dead /\ exit.dead + 1 >= ConfirmChecks)
       ELSE quote = NoQuote \/ ~fresh

\* Sold: out of memory and out of the watcher.  It takes a buyer.
ExitSells(checked) ==
    /\ MayAttempt(checked)
    /\ held /\ book[1] \in {"penny", "live"}
    /\ held' = FALSE
    /\ exit' = NoExit
    /\ IF Ticker \in watched THEN Watcher!UnregisterPosition(Ticker, NoWorker)
                             ELSE UNCHANGED watcherVars
    /\ UNCHANGED <<latched, book, quote, fresh>>

\* Not (all) sold: registered and re-armed, and the next attempt follows.
ExitFails(checked) ==
    /\ MayAttempt(checked)
    /\ held
    /\ exit' = Attempted(checked)
    /\ \/ /\ Ticker \in watched
          /\ \/ Watcher!RearmPosition(Ticker, "low")
             \/ exitInProgress[Ticker] /\ UNCHANGED watcherVars
       \/ /\ Ticker \notin watched
          /\ watched' = {Ticker}
          /\ state' = [state EXCEPT ![Ticker] = "TRIGGERED"]
          /\ lastBestAsk' = [lastBestAsk EXCEPT ![Ticker] = "low"]
          /\ UNCHANGED <<exitInProgress, slot, task, shutdown>>
    /\ UNCHANGED <<held, latched, book, quote, fresh>>

Exiting ==
    \/ ExitAborts \/ ExitLatches
    \/ \E checked \in BOOLEAN : ExitSells(checked) \/ ExitFails(checked)

Feed == TickerMessage \/ OrderbookMessage
Handling(w) == HandlerRuns(w) \/ WorkerMoves(w)

Next ==
    \/ BookMoves \/ Feed \/ QuoteAges
    \/ Enter \/ Poll \/ SweepTriggers \/ Exiting
    \/ \E w \in Workers : Handling(w)

Spec == Init /\ [][Next]_vars

\* The feed delivers, the loops run, tasks make progress.  Nothing is
\* assumed of the market, nor of the fill of an order.
Fairness ==
    /\ WF_vars(TickerMessage)
    /\ WF_vars(Poll)
    /\ WF_vars(SweepTriggers)
    /\ WF_vars(Exiting)
    /\ \A w \in Workers : WF_vars(Handling(w))

FairSpec == Spec /\ Fairness

-----------------------------------------------------------------------------
(* Properties *)

\* The market is through the stop and there is a buyer.
StopStands == held /\ book[1] = "live" /\ AtStop(book[2])

NeverParked == []~latched
KeepsAnAsk  == [](book[2] # "none")
FeedKeepsUp == [](quote # NoQuote => fresh)

\* Between the watcher and the sweep, each of which leaves some stops to the
\* other, a stop that stands is not left lying, however the feed stalls: an
\* exit task gets to work on it, or the market moves away, or the position
\* is gone.  That takes a book with an ask and a position that has never
\* been parked; what happens to the others: DeferredIsServed, RevivedIsServed.
StopIsServed ==
    NeverParked /\ KeepsAnAsk => (StopStands ~> (exit.on \/ ~StopStands))

\* A position declared unfillable is left alone: while the latch is on, no
\* exit task is at work on it, whoever asked for one and whenever.
ParkedIsLeftAlone == latched => ~exit.on

DeadBook == <<"zero", "floor">>

\* The exit does not hammer a book nobody bids in for ever: while the feed
\* keeps up, the position is parked, unless it sells after all or the book
\* comes back.
DeadBookIsParked ==
    FeedKeepsUp =>
        ((held /\ book = DeadBook) ~> (latched \/ book # DeadBook \/ ~held))

\* "Cleared only when a live bid returns": the latch is to go, and the exit
\* to be tried again, when there is a buyer again below the stop.
RevivedIsServed == (StopStands /\ latched) ~> (exit.on \/ ~StopStands)

\* The market stays as the cached quote has it and the sweep keeps leaving
\* the stop to the watcher ("the watcher holds the same tick and will fire
\* immediately"): then the watcher fires.
DeferredIsServed ==
    (Defers /\ quote = CachedAs(book)) ~> (exit.on \/ ~Defers \/ quote # CachedAs(book))
=============================================================================
