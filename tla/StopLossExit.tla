---------------------------- MODULE StopLossExit ----------------------------
(***************************************************************************)
(* core/state_machine.py: the stop-loss exit of one ticker, end to end.    *)
(*                                                                         *)
(* A stop is noticed twice over, by the watcher's handler and by the held- *)
(* position sweep ("Phase C").  Either one charges the stop to the day's   *)
(* ledger and dispatches the exit task, which sells with retries behind a  *)
(* persistent idempotency record (the OrderAction row), asks the exchange  *)
(* what is left, and closes or re-queues the position.  Entries, adoption  *)
(* of untracked fills, crashes and restarts change the same state.         *)
(*                                                                         *)
(* Grain.  One action runs from one await to the next: it completes the    *)
(* database or HTTP call the task was waiting for and runs on to its next  *)
(* call.  Everything else may happen in between.                           *)
(*                                                                         *)
(* Scope.  LIVE mode, ENABLE_FAST_SL_EXIT with PANIC_FLATTEN (the default) *)
(* on a book that has a bid, no resting backstop or take-profit order (the *)
(* defaults), no chaser.  All contracts were bought by the bot, get_fills  *)
(* answers, so the app-owned quantity it computes is exact.  Every entry   *)
(* is for Q contracts (the doubling of recovery entries is not modelled),  *)
(* starts with no contract held.  Tasks hold on to the bracket object they *)
(* were given: a second one for the ticker (a new entry, an adoption) does *)
(* not appear before the exit task and the sweep are through with it.      *)
(***************************************************************************)
EXTENDS Integers

\* reply   the reply to a buy is lost
\* db      a write, or a transaction, fails
\* verify  a lookup of the positions fails
\* crash   the process dies
Faults == {"reply", "db", "verify", "crash"}

CONSTANTS
    Q,                \* contracts per entry
    MaxAttempts,      \* sl_panic_max_retries
    HedgeMax,         \* hedge_max_factor: the ledger's clamp, and no entry beyond
    SweepHasOwnPrice, \* the sweep's price may come from REST: it does not defer
    FaultKinds,       \* what may go wrong: a subset of Faults
    Budget            \* bound on entries and faults taken together

ASSUME ConstantsAssumption ==
    /\ {Q, MaxAttempts, HedgeMax} \subseteq Nat \ {0}
    /\ SweepHasOwnPrice \in BOOLEAN
    /\ FaultKinds \subseteq Faults
    /\ Budget \in Nat

VARIABLES
    \* the database
    row,      \* status of the OrderAction row "<ticker>:STOP_LOSS"
    dbQty,    \* PositionModel.quantity, 0 when there is no row
    count,    \* StopLossLedger.stop_loss_count
    \* the exchange and the market
    net,      \* contracts bought minus contracts sold
    settled,  \* the market has settled
    ask,      \* the best ask is at or below the stop ("low") or above ("high")
    \* the process
    up,       \* running, and restored
    held,     \* ticker in active_positions
    qty,      \* bracket.position_quantity
    app,      \* _app_owned_qty, qty when the ticker has no entry
    counted,  \* bracket._stop_loss_counted
    watch,    \* quantity the watcher holds, 0 when not registered
    cached,   \* the ticker's count in _positions_api_cache
    entry,    \* where _execute_entry stands
    handler,  \* where the watcher and its call of the handler stand
    sweep,    \* where the held-position sweep stands
    job,      \* the exit task: [pc, attempt, seen, left, mine]
    \* ghosts
    used,     \* entries and faults so far
    stops     \* positions sold off by a stop-loss

dbVars == <<row, dbQty, count>>
market == <<net, settled, ask>>
memory == <<held, qty, app, counted, watch>>
tasks  == <<entry, handler, sweep, job>>
vars == <<dbVars, market, up, memory, cached, tasks, used, stops>>

Statuses == {"none", "PENDING", "SUBMITTED", "SUCCEEDED", "FAILED"}
JobPcs == {"idle", "attempt", "missing", "select", "drop", "mark", "skip", "order", "gone",
           "record", "verify", "close", "requeue", "exhaust", "undo", "purge", "rollback"}
Jobs == [pc : JobPcs, attempt : 1..MaxAttempts, seen : Statuses, left : 0..Q, mine : 0..Q]
Unlisted == -1

TypeOK ==
    /\ row \in Statuses
    /\ dbQty \in 0..Q
    /\ count \in 0..HedgeMax
    /\ net \in 0..Q
    /\ settled \in BOOLEAN
    /\ ask \in {"low", "high"}
    /\ up \in BOOLEAN
    /\ held \in BOOLEAN
    /\ qty \in 0..Q
    /\ app \in 0..qty
    /\ counted \in BOOLEAN
    /\ watch \in 0..Q
    /\ cached \in Unlisted..Q
    /\ entry \in {"none", "filled", "registered"}
    /\ handler \in {"idle", "armed", "counting"}
    /\ sweep \in {"idle", "counting", "reading"}
    /\ job \in Jobs
    /\ used \in [Faults \cup {"entry"} -> 0..Budget]
    /\ stops \in 0..used.entry

NoJob == [pc |-> "idle", attempt |-> 1, seen |-> "none", left |-> 0, mine |-> 0]

Init ==
    /\ row = "none" /\ dbQty = 0 /\ count = 0
    /\ net = 0 /\ settled = FALSE /\ ask = "high"
    /\ up = TRUE /\ held = FALSE /\ qty = 0 /\ app = 0 /\ counted = FALSE /\ watch = 0
    /\ cached = Unlisted
    /\ entry = "none" /\ handler = "idle" /\ sweep = "idle" /\ job = NoJob
    /\ used = [f \in Faults \cup {"entry"} |-> 0] /\ stops = 0

-----------------------------------------------------------------------------
(* Helpers *)

Least(a, b) == IF a < b THEN a ELSE b

Exch == IF settled THEN 0 ELSE net        \* what get_positions reports
AppOwned(total) == Least(net, total)      \* _app_owned_qty_from_fills
Managed == Least(app, qty)                \* _managed_exit_quantity

Spent == used.entry + used.reply + used.db + used.verify + used.crash
Spend(f) == f \in FaultKinds /\ Spent < Budget /\ used' = [used EXCEPT ![f] = @ + 1]

\* An UPDATE finds no row to change when there is none.
Updated(status) == IF row = "none" THEN row ELSE status

\* A slip: the count is not clamped at zero.
DecrementedPastZero == count - 1

Incremented == Least(count + 1, HedgeMax)
Decremented == IF count > 0 THEN count - 1 ELSE count

\* Scope: no task holds on to an earlier bracket of the ticker.
BracketReleased == job.pc = "idle" /\ sweep = "idle"

Goto(pc) == [job EXCEPT !.pc = pc]
JobEnds == job' = NoJob

\* The loop of _run_panic_flatten_exit goes round, or runs out.
NextAttempt ==
    IF job.attempt < MaxAttempts
    THEN [job EXCEPT !.pc = "attempt", !.attempt = @ + 1]
    ELSE Goto("exhaust")

\* _dispatch_stop_loss_exit: one task per ticker.
Dispatched == IF job.pc = "idle" THEN Goto("attempt") ELSE job

\* The ticker leaves active_positions and the watcher, which cancels a call
\* of the handler that is still going.  app falls back to its default.
Forget ==
    /\ held' = FALSE
    /\ watch' = 0
    /\ app' = qty
    /\ handler' = "idle"
    /\ UNCHANGED <<qty, counted>>

\* _register_stop_loss_watcher for the new values of qty and app; with
\* nothing to manage it unregisters, with no position it does nothing.
Register(q, a) ==
    IF q = 0 THEN watch' = watch /\ handler' = handler
    ELSE /\ watch' = Least(a, q)
         /\ handler' = IF a = 0 THEN "idle" ELSE handler

\* The same, followed by rearm_position: refused while the handler runs.
RegisterArmed(q, a) ==
    IF q = 0 \/ a = 0 THEN Register(q, a)
    ELSE /\ watch' = Least(a, q)
         /\ handler' = IF handler = "counting" THEN handler ELSE "armed"

-----------------------------------------------------------------------------
(* The market *)

AskMoves ==
    /\ ask' = IF ask = "low" THEN "high" ELSE "low"
    /\ UNCHANGED <<dbVars, net, settled, up, memory, cached, tasks, used, stops>>

Settle ==
    /\ ~settled
    /\ settled' = TRUE
    /\ UNCHANGED <<dbVars, net, ask, up, memory, cached, tasks, used, stops>>

-----------------------------------------------------------------------------
(* Entries: the tail of _execute_entry *)

\* buy_yes fills.  A lost reply (it comes back as REJECTED), or a failed
\* insert of the ExecutedTrade, leaves the fill unknown to the strategy.
EntryFills ==
    /\ up /\ ~held /\ entry = "none" /\ BracketReleased
    /\ ~settled /\ net = 0 /\ ask = "high" /\ count < HedgeMax
    /\ Spent < Budget
    /\ net' = Q
    /\ \/ entry' = "filled" /\ used' = [used EXCEPT !.entry = @ + 1]
       \/ /\ entry' = "none" /\ Spent + 1 < Budget
          /\ \E f \in FaultKinds \cap {"reply", "db"} :
                used' = [used EXCEPT !.entry = @ + 1, ![f] = @ + 1]
    /\ UNCHANGED <<dbVars, settled, ask, up, memory, cached, handler, sweep, job, stops>>

\* The position goes live in memory and in the watcher...
EntryRegisters ==
    /\ entry = "filled"
    /\ entry' = "registered"
    /\ held' = TRUE
    /\ qty' = Q
    /\ app' = AppOwned(Q)
    /\ counted' = (held /\ counted)
    /\ Register(Q, AppOwned(Q))
    /\ UNCHANGED <<dbVars, market, up, cached, sweep, job, used, stops>>

\* A slip: the upsert has no insert branch.
EntryCommitsUpdateOnly ==
    /\ entry = "registered"
    /\ entry' = "none"
    /\ dbQty' = IF dbQty = 0 THEN 0 ELSE qty
    /\ row' = "none"
    /\ UNCHANGED <<count, market, up, memory, cached, handler, sweep, job, used, stops>>

\* ...before the database knows it, and before the previous position's
\* action record is deleted.  A failed commit is only logged.
EntryCommits ==
    /\ entry = "registered"
    /\ entry' = "none"
    /\ \/ dbQty' = qty /\ row' = "none" /\ UNCHANGED used
       \/ Spend("db") /\ UNCHANGED <<row, dbQty>>
    /\ UNCHANGED <<count, market, up, memory, cached, handler, sweep, job, stops>>

-----------------------------------------------------------------------------
(* The watcher and _execute_stop_loss_from_watcher *)

\* An ask at or below the stop, or a re-arm, makes the watcher call.
HandlerCalled ==
    /\ up /\ watch > 0
    /\ handler = "armed" \/ (handler = "idle" /\ ask = "low")

HandlerForgets ==
    /\ HandlerCalled
    /\ ~held
    /\ watch' = 0 /\ handler' = "idle"
    /\ UNCHANGED <<dbVars, market, up, held, qty, app, counted, cached, entry, sweep, job, used, stops>>

\* The handler takes over the watcher's quantity, and either has to charge
\* the stop to the ledger first or dispatches at once.
HandlerSees ==
    /\ HandlerCalled
    /\ held
    /\ qty' = watch
    /\ app' = Least(app, watch)
    /\ IF counted
       THEN handler' = "armed" /\ job' = Dispatched
       ELSE handler' = "counting" /\ job' = job
    /\ UNCHANGED <<dbVars, market, up, held, counted, watch, cached, entry, sweep, used, stops>>

\* A slip: the bracket is not marked as counted.
HandlerCountsUnmarked ==
    /\ handler = "counting"
    /\ \/ count' = Incremented /\ counted' = counted /\ job' = Dispatched /\ UNCHANGED used
       \/ Spend("db") /\ UNCHANGED <<count, counted, job>>
    /\ handler' = "armed"
    /\ UNCHANGED <<row, dbQty, market, up, held, qty, app, watch, cached, entry, sweep, stops>>

\* The increment has been written: mark the bracket, dispatch, and report
\* "retry" to the watcher.  A database error is an exception: retry as well.
HandlerCounts ==
    /\ handler = "counting"
    /\ \/ count' = Incremented /\ counted' = TRUE /\ job' = Dispatched /\ UNCHANGED used
       \/ Spend("db") /\ UNCHANGED <<count, counted, job>>
    /\ handler' = "armed"
    /\ UNCHANGED <<row, dbQty, market, up, held, qty, app, watch, cached, entry, sweep, stops>>

\* A tick above the stop disarms the watcher.
HandlerDisarmed ==
    /\ handler = "armed" /\ ask = "high"
    /\ handler' = "idle"
    /\ UNCHANGED <<dbVars, market, up, memory, cached, entry, sweep, job, used, stops>>

-----------------------------------------------------------------------------
(* The held-position sweep: _evaluate_held_positions *)

\* get_positions, at most once in 10 s.  The exchange may go on listing a
\* ticker that was traded and whose count is now zero.
SweepRefreshes ==
    /\ up /\ sweep = "idle"
    /\ cached' \in CASE Exch > 0 -> {Exch}
                   [] Exch = 0 /\ used.entry > 0 -> {0, Unlisted}
                   [] OTHER -> {Unlisted}
    /\ cached' # cached
    /\ UNCHANGED <<dbVars, market, up, memory, tasks, used, stops>>

\* A slip: only a position the database knows is adopted.
SweepAdoptsKnown ==
    /\ up /\ ~held /\ BracketReleased
    /\ cached > 0 /\ AppOwned(cached) > 0 /\ dbQty > 0
    /\ held' = TRUE
    /\ qty' = cached
    /\ app' = AppOwned(cached)
    /\ counted' = FALSE
    /\ Register(cached, AppOwned(cached))
    /\ UNCHANGED <<dbVars, market, up, cached, entry, sweep, job, used, stops>>

\* _adopt_untracked_exchange_fills.  Nothing here looks at the action row.
SweepAdopts ==
    /\ up /\ ~held /\ BracketReleased
    /\ cached > 0 /\ AppOwned(cached) > 0
    /\ held' = TRUE
    /\ qty' = cached
    /\ app' = AppOwned(cached)
    /\ counted' = FALSE
    /\ Register(cached, AppOwned(cached))
    /\ \/ dbQty' = cached /\ UNCHANGED used
       \/ Spend("db") /\ UNCHANGED dbQty
    /\ UNCHANGED <<row, count, market, up, cached, entry, sweep, job, stops>>

\* A listed position: its quantity is taken over.
SweepSyncs ==
    /\ up /\ sweep = "idle" /\ held
    /\ cached > 0
    /\ qty' = cached
    /\ app' = AppOwned(cached)
    /\ <<qty, app>>' # <<qty, app>>
    /\ UNCHANGED <<dbVars, market, up, held, counted, watch, cached, tasks, used, stops>>

\* _remove_active_position: memory first, then the database.
Remove ==
    /\ Forget
    /\ \/ dbQty' = 0 /\ UNCHANGED used
       \/ Spend("db") /\ UNCHANGED dbQty

\* Listed with count zero, or not listed and the market reports settlement.
SweepRemoves ==
    /\ up /\ sweep = "idle" /\ held
    /\ cached = 0 \/ (cached = Unlisted /\ settled)
    /\ Remove
    /\ UNCHANGED <<row, count, market, up, cached, entry, sweep, job, stops>>

\* Phase C acts on a price the watcher does not have, or on a ticker the
\* watcher does not have; otherwise it leaves the stop to the watcher.
SweepTriggers ==
    /\ up /\ sweep = "idle" /\ held
    /\ ask = "low"
    /\ SweepHasOwnPrice \/ watch = 0
    /\ Managed > 0
    /\ IF counted
       THEN sweep' = "idle" /\ job.pc = "idle" /\ job' = Dispatched
       ELSE sweep' = "counting" /\ job' = job
    /\ UNCHANGED <<dbVars, market, up, memory, cached, entry, handler, used, stops>>

\* A stop on a position of no contracts: it leaves active_positions (and
\* stays in the watcher).
SweepDropsEmpty ==
    /\ up /\ sweep = "idle" /\ held
    /\ ask = "low"
    /\ SweepHasOwnPrice \/ watch = 0
    /\ qty = 0
    /\ held' = FALSE
    /\ UNCHANGED <<dbVars, market, up, qty, app, counted, watch, cached, tasks, used, stops>>

SweepCounts ==
    /\ sweep = "counting"
    /\ \/ count' = Incremented /\ counted' = TRUE /\ job' = Dispatched /\ UNCHANGED used
       \/ Spend("db") /\ UNCHANGED <<count, counted, job>>
    /\ sweep' = "idle"
    /\ UNCHANGED <<row, dbQty, market, up, held, qty, app, watch, cached, entry, handler, stops>>

\* The price is back above the stop and no exit is in flight: look up the
\* action row...
SweepSeesRecovery ==
    /\ up /\ sweep = "idle" /\ held /\ counted
    /\ ask = "high" /\ job.pc = "idle"
    /\ sweep' = "reading"
    /\ UNCHANGED <<dbVars, market, up, memory, cached, entry, handler, job, used, stops>>

\* ...and take the count back, unless the stop went through.
SweepRollsBack ==
    /\ sweep = "reading"
    /\ sweep' = "idle"
    /\ \/ /\ row # "SUCCEEDED" /\ counted
          /\ count' = Decremented /\ counted' = FALSE
          /\ UNCHANGED used
       \/ /\ row = "SUCCEEDED" \/ ~counted
          /\ UNCHANGED <<count, counted, used>>
       \/ Spend("db") /\ UNCHANGED <<count, counted>>
    /\ UNCHANGED <<row, dbQty, market, up, held, qty, app, watch, cached, entry, handler, job, stops>>

-----------------------------------------------------------------------------
(* The exit task: _run_panic_flatten_exit and _execute_stop_loss *)

\* An exception out of _execute_stop_loss is logged and the loop goes on.
JobStepFails(pc) ==
    /\ job.pc = pc
    /\ Spend("db")
    /\ job' = NextAttempt
    /\ UNCHANGED <<dbVars, market, up, memory, cached, entry, handler, sweep, stops>>

\* The pre-submit check: a fresh quote above the stop calls the exit off; a
\* stale or missing one does not.
Revalidate == \/ ask = "high" /\ job' = Goto("rollback")
              \/ job' = Goto("select")

JobAttempts ==
    /\ job.pc = "attempt"
    /\ IF held /\ qty > 0 THEN Revalidate ELSE job' = Goto("missing")
    /\ UNCHANGED <<dbVars, market, up, memory, cached, entry, handler, sweep, used, stops>>

\* The position has gone from memory: ask the exchange before giving up.
JobMissing ==
    /\ job.pc = "missing"
    /\ \/ /\ Exch = 0
          /\ JobEnds
          /\ UNCHANGED <<qty, app, used>>
       \/ /\ Exch > 0
          /\ qty' = Exch /\ app' = AppOwned(Exch)
          /\ Revalidate
          /\ UNCHANGED used
       \/ /\ Spend("verify")
          /\ app' = Managed /\ qty' = qty
          /\ IF Managed = 0 THEN JobEnds ELSE Revalidate
    /\ UNCHANGED <<dbVars, market, up, held, counted, watch, cached, entry, handler, sweep, stops>>

\* A slip: PENDING is taken for an attempt in flight as well.
JobSelectsSkippingPending ==
    /\ job.pc = "select"
    /\ job' = CASE row = "SUCCEEDED" -> Goto("drop")
                [] row \in {"PENDING", "SUBMITTED"} -> IF held THEN NextAttempt ELSE NoJob
                [] OTHER -> [job EXCEPT !.pc = "mark", !.seen = row]
    /\ UNCHANGED <<dbVars, market, up, memory, cached, entry, handler, sweep, used, stops>>

\* The idempotency check.  SUBMITTED is taken for an attempt in flight.
JobSelects ==
    /\ job.pc = "select"
    /\ job' = CASE row = "SUCCEEDED" -> Goto("drop")
                [] row = "SUBMITTED" -> IF held THEN NextAttempt ELSE NoJob
                [] OTHER             -> [job EXCEPT !.pc = "mark", !.seen = row]
    /\ UNCHANGED <<dbVars, market, up, memory, cached, entry, handler, sweep, used, stops>>

\* SUCCEEDED: "already exited".  The position is dropped unsold and the
\* caller will take the count back.
JobDrops ==
    /\ job.pc = "drop"
    /\ dbQty' = 0
    /\ Forget
    /\ job' = Goto("undo")
    /\ UNCHANGED <<row, count, market, up, cached, entry, sweep, used, stops>>

\* Insert the record as SUBMITTED, or update it.  When the insert fails and
\* no record is found, the sale goes ahead without one.
JobMarks ==
    /\ job.pc = "mark"
    /\ \/ row' = (IF job.seen = "none" THEN "SUBMITTED" ELSE Updated("SUBMITTED")) /\ UNCHANGED used
       \/ job.seen = "none" /\ Spend("db") /\ UNCHANGED row
    /\ job' = Goto(IF Managed > 0 THEN "order" ELSE "skip")
    /\ UNCHANGED <<dbQty, count, market, up, memory, cached, entry, handler, sweep, stops>>

JobSkips ==
    /\ job.pc = "skip"
    /\ row' = Updated("PENDING")
    /\ job' = IF held THEN NextAttempt ELSE NoJob
    /\ UNCHANGED <<dbQty, count, market, up, memory, cached, entry, handler, sweep, used, stops>>

\* sell_yes, immediate-or-cancel and reduce-only: any number of contracts
\* fills, whether or not the reply says so.  A settled market answers 404.
JobOrders ==
    /\ job.pc = "order"
    /\ \/ /\ settled
          /\ job' = Goto("gone")
          /\ UNCHANGED <<net, stops>>
       \/ /\ ~settled
          /\ \E k \in 0..Least(Managed, net) :
                /\ net' = net - k
                /\ stops' = IF net > 0 /\ net = k THEN stops + 1 ELSE stops
          /\ job' = Goto("record")
    /\ UNCHANGED <<dbVars, settled, ask, up, memory, cached, entry, handler, sweep, used>>

\* sell_yes raised (it could not sign the request): FAILED, if that can be
\* written, so that the next attempt is not taken for a duplicate.
JobOrderRaises ==
    /\ job.pc = "order"
    /\ \/ row' = Updated("FAILED") /\ UNCHANGED used
       \/ Spend("db") /\ UNCHANGED row
    /\ job' = NextAttempt
    /\ UNCHANGED <<dbQty, count, market, up, memory, cached, entry, handler, sweep, stops>>

\* market_not_found: settled, so drop the position and the count.
JobGone ==
    /\ job.pc = "gone"
    /\ row' = Updated("SUCCEEDED") /\ dbQty' = 0
    /\ Forget
    /\ job' = Goto("undo")
    /\ UNCHANGED <<count, market, up, cached, entry, sweep, used, stops>>

\* The ExecutedTrade has been written.
JobRecords ==
    /\ job.pc = "record"
    /\ job' = Goto("verify")
    /\ UNCHANGED <<dbVars, market, up, memory, cached, entry, handler, sweep, used, stops>>

\* A slip: a failed lookup is taken for an empty answer.
JobVerifiesBlindly ==
    /\ job.pc = "verify"
    /\ \/ /\ job' = [job EXCEPT !.pc = IF Exch = 0 THEN "close" ELSE "requeue",
                                 !.left = Exch, !.mine = AppOwned(Exch)]
          /\ UNCHANGED used
       \/ Spend("verify") /\ job' = [job EXCEPT !.pc = "close", !.left = 0, !.mine = 0]
    /\ UNCHANGED <<dbVars, market, up, memory, cached, entry, handler, sweep, stops>>

\* _confirmed_remaining_stop_loss_qty: only an answer from the exchange can
\* close the position; without one nothing is taken to have been sold.
JobVerifies ==
    /\ job.pc = "verify"
    /\ \/ /\ job' = [job EXCEPT !.pc = IF Exch = 0 THEN "close" ELSE "requeue",
                                 !.left = Exch, !.mine = AppOwned(Exch)]
          /\ UNCHANGED used
       \/ Spend("verify") /\ job' = [job EXCEPT !.pc = "requeue", !.left = qty, !.mine = Managed]
    /\ UNCHANGED <<dbVars, market, up, memory, cached, entry, handler, sweep, stops>>

JobCloses ==
    /\ job.pc = "close"
    /\ row' = Updated("SUCCEEDED") /\ dbQty' = 0
    /\ Forget
    /\ JobEnds
    /\ UNCHANGED <<count, market, up, cached, entry, sweep, used, stops>>

\* Partly sold, or not known: PENDING, so that the next attempt may sell.
JobRequeues ==
    /\ job.pc = "requeue"
    /\ row' = Updated("PENDING")
    /\ dbQty' = IF dbQty = 0 THEN 0 ELSE job.left
    /\ qty' = job.left
    /\ app' = job.mine
    /\ RegisterArmed(job.left, job.mine)
    /\ job' = IF held THEN NextAttempt ELSE NoJob
    /\ UNCHANGED <<count, market, up, held, counted, cached, entry, sweep, used, stops>>

\* _handle_stop_loss_exhaustion
JobExhausts ==
    /\ job.pc = "exhaust"
    /\ \/ qty' = Exch /\ app' = AppOwned(Exch) /\ UNCHANGED used
       \/ Spend("verify") /\ qty' = qty /\ app' = Managed
    /\ RegisterArmed(qty', app')
    /\ job' = CASE app' > 0 -> Goto("rollback")
                [] app' = 0 /\ qty' > 0 -> Goto("purge")
                [] OTHER -> Goto("undo")
    /\ UNCHANGED <<dbVars, market, up, held, counted, cached, entry, sweep, stops>>

\* _decrement_stop_loss_count_for_market, whatever the flag says; an error
\* here ends the task.
JobUndoes ==
    /\ job.pc = "undo"
    /\ \/ count' = Decremented /\ counted' = FALSE /\ UNCHANGED used
       \/ Spend("db") /\ UNCHANGED <<count, counted>>
    /\ JobEnds
    /\ UNCHANGED <<row, dbQty, market, up, held, qty, app, watch, cached, entry, handler, sweep, stops>>

\* The same, and what is left is not the bot's: let go of it.
JobPurges ==
    /\ job.pc = "purge"
    /\ count' = Decremented /\ counted' = FALSE
    /\ held' = FALSE /\ watch' = 0 /\ app' = qty /\ qty' = qty /\ handler' = "idle"
    /\ dbQty' = 0
    /\ JobEnds
    /\ UNCHANGED <<row, market, up, cached, entry, sweep, used, stops>>

\* _rollback_stop_loss_count_if_counted
JobRollsBack ==
    /\ job.pc = "rollback"
    /\ \/ /\ count' = IF counted THEN Decremented ELSE count
          /\ counted' = FALSE
          /\ UNCHANGED used
       \/ counted /\ Spend("db") /\ UNCHANGED <<count, counted>>
    /\ JobEnds
    /\ UNCHANGED <<row, dbQty, market, up, held, qty, app, watch, cached, entry, handler, sweep, stops>>

-----------------------------------------------------------------------------
(* Crash and restart *)

Crash ==
    /\ up
    /\ Spend("crash")
    /\ up' = FALSE
    /\ held' = FALSE /\ qty' = 0 /\ app' = 0 /\ counted' = FALSE /\ watch' = 0
    /\ cached' = Unlisted
    /\ entry' = "none" /\ handler' = "idle" /\ sweep' = "idle" /\ job' = NoJob
    /\ UNCHANGED <<dbVars, market, stops>>

\* A slip: restored positions are not registered with the watcher.
RestartUnwatched(answered) ==
    /\ ~up
    /\ up' = TRUE
    /\ LET listed == IF answered THEN Exch ELSE 0
           total  == IF listed > dbQty THEN listed ELSE dbQty
       IN  held' = (total > 0) /\ qty' = total /\ app' = total
    /\ UNCHANGED <<dbVars, market, counted, watch, cached, tasks, used, stops>>

\* _restore_positions: the larger of what the exchange and the database say;
\* the database alone when the exchange does not answer.  The mark that the
\* stop has been counted is not restored.
Restart(answered) ==
    /\ ~up
    /\ up' = TRUE
    /\ LET listed == IF answered THEN Exch ELSE 0
           total  == IF listed > dbQty THEN listed ELSE dbQty
           mine   == IF answered THEN AppOwned(total) ELSE total
       IN  /\ held' = (total > 0)
           /\ qty' = total
           /\ app' = mine
           /\ watch' = mine
    /\ UNCHANGED <<dbVars, market, counted, cached, tasks, used, stops>>

-----------------------------------------------------------------------------
Entering == EntryFills \/ EntryRegisters \/ EntryCommits

Watching == HandlerForgets \/ HandlerSees \/ HandlerCounts \/ HandlerDisarmed

Sweeping ==
    \/ SweepRefreshes \/ SweepAdopts \/ SweepSyncs \/ SweepRemoves
    \/ SweepTriggers \/ SweepDropsEmpty \/ SweepCounts 
    \/ SweepSeesRecovery \/ SweepRollsBack

Exiting ==
    \/ \E pc \in {"select", "drop", "skip", "gone", "record", "close", "requeue"} : JobStepFails(pc)
    \/ job.seen # "none" /\ JobStepFails("mark")
    \/ JobAttempts \/ JobMissing \/ JobSelects \/ JobDrops \/ JobMarks \/ JobSkips
    \/ JobOrders \/ JobOrderRaises \/ JobGone \/ JobRecords \/ JobVerifies
    \/ JobCloses \/ JobRequeues \/ JobExhausts \/ JobUndoes \/ JobPurges \/ JobRollsBack

Next ==
    \/ AskMoves \/ Settle
    \/ Entering \/ Watching \/ Sweeping \/ Exiting
    \/ Crash \/ \E answered \in BOOLEAN : Restart(answered)

Spec == Init /\ [][Next]_vars

\* The loops run on, the watcher polls, database and HTTP calls come back,
\* and a crashed process is started again.  Nothing is assumed of the
\* market, nor of entries beginning.
Fairness ==
    /\ WF_vars(EntryRegisters \/ EntryCommits)
    /\ WF_vars(HandlerForgets \/ HandlerSees \/ HandlerCounts)
    /\ WF_vars(SweepRefreshes)
    /\ WF_vars(SweepAdopts)
    /\ WF_vars(SweepRemoves)
    /\ WF_vars(SweepTriggers)
    /\ WF_vars(SweepCounts)
    /\ WF_vars(SweepRollsBack)
    /\ WF_vars(Exiting)
    /\ WF_vars(\E answered \in BOOLEAN : Restart(answered))

FairSpec == Spec /\ Fairness

-----------------------------------------------------------------------------
(* Properties *)

\* The record says SUCCEEDED, which silences every later stop of the
\* ticker, only once the exchange holds none of the contracts - through lost
\* replies, failed lookups, failed writes and restarts.
SucceededMeansGone ==
    [][row' = "SUCCEEDED" /\ row # "SUCCEEDED" => Exch = 0]_vars

\* Contracts the strategy knows it holds are in the watcher's hands at every
\* moment, also while an exit is retried, given up or rolled back and right
\* after a restart: no path unregisters a position and keeps it.
WatchedWhileHeld ==
    held /\ Exch > 0 => watch > 0

\* As long as no write has failed and nothing has crashed, a restart could
\* restore every held position from the database alone: exits, removals,
\* adoption and re-entry never leave a live position without its row (once
\* its entry is written).
DbKnowsPosition ==
    used.db + used.crash = 0 =>
        (held /\ Exch > 0 /\ entry = "none" => dbQty > 0)

\* A position's stop-loss is charged to the ledger once, however often it is
\* noticed, called off and noticed again: the count sizes the next entry.
\* (A mark that could not be written, or did not survive a crash or the
\* removal of a re-entered position on a stale listing, is charged again.)
NeverOvercounted ==
    used.db + used.crash = 0 /\ used.entry = 1 =>
        settled \/ count <= stops + (IF counted \/ job.pc # "idle" THEN 1 ELSE 0)

\* What the delete in _execute_entry is for: a position whose entry is over
\* does not have a SUCCEEDED record of an earlier one.
FreshRecord ==
    held /\ Exch > 0 /\ entry = "none" /\ job.pc = "idle" => row # "SUCCEEDED"

\* A record left in SUBMITTED does not stay there while the stop stands.
SubmittedIsRetried ==
    (row = "SUBMITTED" /\ Exch > 0) ~> (row # "SUBMITTED" \/ Exch = 0 \/ ask = "high")

\* Contracts on the exchange the strategy does not know of (a lost reply, a
\* crash before the entry was written, a removal on a stale listing) are
\* taken in hand again.
HoldingIsAdopted == (Exch > 0) ~> (held \/ Exch = 0)

\* A stop that stands reaches the exchange as a sell order, whatever mix of
\* partial fills, aborted attempts and exhausted retries came before.  (Not
\* through a crash: SubmittedIsRetried.)
StopReachesExchange ==
    (up /\ held /\ Exch > 0 /\ ask = "low") ~>
        (job.pc = "order" \/ Exch = 0 \/ ask = "high" \/ used.crash > 0)
=============================================================================
