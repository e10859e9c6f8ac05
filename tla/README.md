# Verification of the temperature-bracket trading bot

This directory holds TLA+ models of the program in `../src`, the TLC
configurations that check them on small instances, and proofs checked by TLAPS.
Source paths below are relative to `src/`.

* [1. The system](#1-the-system)
* [2. What is modelled, module by module](#2-what-is-modelled)
* [3. The runs](#3-the-runs)
* [4. What the runs found](#4-disagreements-found)
* [5. What is proved](#5-what-is-proved)
* [6. What is only model-checked, and what is left out](#6-limits)
* [7. Plan](#7-plan)

How to run: `tlc -config SlWatcher.cfg SlWatcher` (likewise for the others, see
the table in section 3) and `tlapm SlWatcherProofs.tla` (likewise for the other seven
modules whose name ends in `Proofs`, see section 5).

## 1. The system

One asyncio process (`run.py`) trades YES contracts of Kalshi temperature
markets. It buys one bracket of a day's temperature market when its gates agree,
holds it, and sells when the ask falls to a stop, when a closeout rule says so,
or lets it settle. Everything runs on one event loop: concurrency is interleaving
at `await`s, between tasks that share the strategy object's dictionaries, the
database and the exchange.

| component | state it keeps | operations | talks to |
|---|---|---|---|
| `TemperatureStrategy` (`core/state_machine.py`) | `brackets`, `active_positions`, `_app_owned_qty`, flags on each bracket (`_stop_loss_counted`, `_sl_unfillable`, pending entry), exit and chaser tasks per ticker | strategy loop (entries, phases A-C), held-position loop, message handlers, exit tasks, restore, adoption | all others |
| stop-loss watcher (`execution/sl_watcher.py`) | watched positions with a state, one worker task per ticker | register, re-arm, unregister, market update, polling sweep, stop | calls the strategy's exit handler; called by message handlers, entries, exits |
| exit task (`_run_panic_flatten_exit`, `_execute_stop_loss`) | one task per ticker; the persistent `OrderAction` row; the `StopLossLedger` count | attempt, idempotency check, sell, verify, close / re-queue, exhaustion | executor, database, watcher |
| partial-fill chaser | one task and one resting buy per ticker | rest, re-price, apply fill, cancel | executor, the bracket |
| resting exit orders (`execution/sl_backstop.py`, `profit_take_sell.py`) | order ids per ticker | place, cancel, check fill, cancel orphans | executor; the exit task must cancel before it sells |
| live executor (`execution/live.py`) | HTTP client, credentials | buy, sell, limit orders, cancel, positions, fills | the exchange |
| paper executor (`execution/paper.py`) | simulated positions in the database | the same | database |
| quote cache (`data/ticker_cache.py`) | last quote and age, local book, pending asks of the spoof guard | set, get, apply snapshot / delta | written by the feed, read by everything |
| WebSocket manager (`data/websocket_manager.py`) | connection, subscriptions per channel, message ids | connect, subscribe, listen, reconnect | the feed's callbacks |
| event exposure (`core/event_exposure.py`) | none (reads positions) | cap of an event's exposure | entries, chaser |
| sunrise / morning-low gate (`core/sunrise_gate.py` and helpers) | temperature-rise latch, stored lows, caches | evaluate a city's gate | strategy loop, NWS |
| NWS gate, scheduler, brief (`nws/`) | forecasts and observations in a database, daily brief | poll, decide a pick | strategy loop |
| low-ticker closeout, intraday monitor | evaluated-today marks, high-water marks | evaluate, sell | exit path |
| settlement reconciler, trade outcomes | outcome rows | reconcile after settlement | exchange, database |
| start-up (`run.py`, `app/`) | configuration, instance lock, schema | validate, lock, migrate | - |
| scanners, monitor, reports, scripts | none | read-only tools | exchange, database |

What is hard, and what has to hold:

* **Watcher.** A tick, the polling sweep, a re-registration and a worker's own
  result can each want to start a worker. Never two exits of one ticker at once;
  never an `exit_in_progress` flag nobody will clear; no sale after the strategy
  took the ticker back; an armed ticker is served.
* **Exit.** The sale spans six awaits, each of which can fail, be overtaken or be
  the last thing the process did. The record, the memory, the watcher, the
  database row and the ledger must stay consistent with the exchange: no
  `SUCCEEDED` while contracts remain, no held position out of protection, no
  stop charged twice, a retry always possible.
* **Who acts.** The sweep leaves stops to the watcher, the watcher leaves parked
  tickers to a re-arm, the exit task leaves dead books alone: nothing may fall
  between.
* **Resting orders.** The stop-loss backstop and the take-profit act on their own on
  the exchange. Never two of a kind, nothing left on the book that could sell what
  nobody holds, never a sale beyond the position; an id whose order is gone must be
  forgotten. An unknown answer is not a "no", a 404 may be a fill.
* **Chaser.** A resting buy may fill before, while and after the exit cancels it.
  Never past the target, never a second buy, nothing bought into a closed position.
* **Entries.** Caps, ledger and pending marks are read before an order and
  written after the fill, in a cycle that may be cut off at its time budget.
* **Feed.** Quotes go stale, messages omit sides, connections drop.
* **Once-a-day logic.** Latches and marks outlive the data they came from, or a
  restart forgets them; a row is written by two threads.
* **Scheduled exits.** The half minute of a limit sell is open to everybody else who
  trades the ticker; confirmations and marks are kept by ticker, not by position.

`PROJECT.json` lists every hazard at its line, with the properties that catch it.

## 2. What is modelled

### `ExitGuard.tla` - what a watcher promises

Each ticker is in one of five phases (absent, quiet, armed, exiting, parked), with
the steps the strategy may rely on. Parked tickers are never launched without
being armed again; an exit in flight ends in armed, parked or absent, never in
quiet.

### `SlWatcher.tla` - the watcher

All of `execution/sl_watcher.py`. Variables are its fields: `watched` (the keys of
`_positions`), `state`, `exitInProgress`, `lastBestAsk`, `slot` (`_worker_tasks`),
`shutdown`, and `task`, the life of each asyncio task (created, running in the
handler, cancelling, done but its done-callback not yet run). A method that runs
under the lock does not await, so it is one action: `RegisterPosition`,
`RearmPosition`, `UnregisterPosition`, `MarketUpdate`, `PollCycle`, `Stop`. The
worker is split at its only suspension, `await self._exit_handler(...)`:
`WorkerStarts`, then `WorkerReports` or `WorkerEnds` or `WorkerCancelled`, then
`Cleanup`. Prices become the side of the stop they are on; outcomes of the handler
are the classes of `_normalize_result`.

### `StopLossExit.tla` - one ticker's exit, end to end

The strategy's handler, the held-position sweep, the exit task with its attempts,
the tail of an entry, adoption, removal, crash and restart, over the database
(`row`, `dbQty`, `count`), the exchange (`net`, `settled`, `ask`) and memory
(`held`, `qty`, `app`, `counted`, `watch`, `cached`). One action runs from an
await to the next; `job.pc` names the await the exit task waits at:

    attempt -> select -> mark -> order -> record -> verify -> close
                 |         |                          +-> requeue -> attempt ...
                 |         +-> skip                            ... -> exhaust
                 +-> drop (SUCCEEDED)      order -> gone (404)

`handler` and `sweep` name theirs. Faults are actions' alternatives that spend
from `Budget`: a lost buy reply, a failed write, a failed lookup, a crash. The
ghosts `used` and `stops` count faults and completed stop-losses.

The watcher is here an abstraction (registered with a quantity; idle, armed, in the
handler's await) of the behaviour `SlWatcher` has in full.

### `SlProtection.tla` - who acts on a stop

`SlWatcher` itself (INSTANCE), composed with the ticker and order-book messages,
the quote cache and its age, the watcher's handler, the sweep that defers to the
watcher, the exit task as attempts, and the unfillable latch. The sale is one step
here; the question is only who gets to make it. `MCSlProtection.tla` names the sets
of books.

### `RestingOrders.tla` - the sells that lie on the exchange

`execution/sl_backstop.py` and `execution/profit_take_sell.py`, with the strategy's
code that places, cancels and adopts their orders. `book[k][i]` is what order `i` of
kind `k` (`APP_BSP_` or `APP_PTS_`) still sells, `tracked[k]` the id the manager
remembers, `row` / `rowId[k]` what the position's row in the database says, `net` the
exchange's position (negative when oversold). `task` is where the entry, the exit and
the sweep each are; the managers' own locks are `lock[k]`. The pcs follow `place` and
`cancel`:

    clear (cancel the tracked, list, cancel the listed) -> post -> save -> ...
    cancel -> unsave -> ...

`Fill` is the exchange's. `SweepAsks` / `SweepHears` are `check_fill`, which takes no
lock: what it heard may be about an order that is no longer the tracked one. `Restart`
restores ids from the rows and adopts orders from the book.

### `Chaser.tla` - the rest of a partly filled entry

`_partial_fill_chase_loop` and what it calls: `Gate`, `Lists` / `Finds` (the live
book is the authority on duplicates), `Cancels`, `Harvests`, `Places`, `Polls`,
`Stops`; with the sweep, which keeps the same quantity in step with the exchange, the
exit that cancels the chaser, and crash and restart. `chaser.pc` names the await.
`Interrupts` is `task.cancel()` arriving at any of them.

### `Entries.tla` - what is bought, and how much

The watchlist task over the brackets of one event: `CycleStarts`, `Evaluates`, the
ledger's count (`Counts`), the size (`Decides`), the gates, the two caps (`Exposes`),
the order (`Posts`), the booking (`Logs`, `Books`). `bracket[t]` holds the fields that
decide whether a bracket is looked at again (`phase`, `crossed_buy`, `pending_entry`).
Beside it run the sweep (adopt, correct, remove) and one stop-loss exit per ticker,
which reads and writes the shared ledger row in two steps (`StopReads`,
`StopCounts`). `TimesOut` is `wait_for` cutting a cycle off at any await.

### `IntradayExit.tla` - exits by the clock

The intraday checkpoints, the exit on a fall from the high-water mark and the evening
close-out, with their marks (`evaluated`, `pending`, `armed`, `hwm`), and the limit
exit they share: `Places`, `Waits`, `Cancels`, `Panics`. Everybody else who may trade
the ticker meanwhile is an action of `World`.

### `StoredDecisions.tla` - decisions taken once a day

The AM-low decision and the daily brief: cache, stored row, forecast fetched on
demand, and the scheduler's two snapshot jobs in their own thread. One action is one
call to the database or the weather service.

### `MorningGate.tla` - gates with a memory

The rise latch and the day minimum of `core/sunrise_gate.py` and the falling-knife
guard of the bracket. Observations are published one by one; a fetch brings a prefix,
perhaps a shorter one than the last, or fails. One look at the bracket is one action
(the code does not await between these gates): `Look` fetches, decides, and
`passed` is its outcome.

### `MCStrategy.tla`

Checks `Entries`, `StoredDecisions`, `MorningGate` and `IntradayExit` in one run. The
four share no state here: `part` says which of them moves, the others stay as they
began, and every property is of one part. It is a sum, not a composition, and shows
nothing about the parts' interaction; section 5 says how the theorems about the
parts carry over to it. Within each module the others appear as
nondeterministic neighbours (any gate may block an entry; entries, adoption and the
stop-loss exit are one action each of `IntradayExit`).

## 3. The runs

| run | cfg, module | shows | distinct states |
|---|---|---|---|
| `watcher` | `SlWatcher.cfg`, `SlWatcher` | type, `ExclusiveExit`, `FlagHasOwner`, `NoExitAfterUnregister`; refines `ExitGuard`; `ArmedIsServed` | 7 k |
| `exit_safety` | `StopLossExitSafety.cfg`, `StopLossExit` | type, `WatchedWhileHeld`, `DbKnowsPosition`, `NeverOvercounted`, `SucceededMeansGone` | 7.1 M |
| `exit_live` | `StopLossExitLive.cfg`, `StopLossExit` | `HoldingIsAdopted`, `StopReachesExchange` | 470 k |
| `exit_stuck` | `StopLossExitStuck.cfg`, `StopLossExit` | violation of `SubmittedIsRetried` | |
| `exit_stale_record` | `StopLossExitStaleRecord.cfg`, `StopLossExit` | violation of `FreshRecord` | |
| `exit_twice` | `StopLossExitTwice.cfg`, `StopLossExit` | violation of `NeverOvercounted` | |
| `protection` | `SlProtection.cfg`, `MCSlProtection` | type, `ParkedIsLeftAlone`, `StopIsServed`, `DeadBookIsParked` | 40 k |
| `protection_revived` | `SlProtectionRevived.cfg`, `MCSlProtection` | violation of `RevivedIsServed` | |
| `protection_losing_ask` | `SlProtectionLosingAsk.cfg`, `MCSlProtection` | violation of `DeferredIsServed` | |
| `resting` | `RestingOrders.cfg`, `RestingOrders` | type, `StackedBackstop`, `StackedTakeProfit`, `NeverOversold`, `NoLingeringSell`, `StaleIdIsDropped` | 211 k |
| `chaser` | `Chaser.cfg`, `Chaser` | type, `OneRestingBuy`, `NeverPastTarget`, `NoStrayBuy`, `ClosedChaseEnds` | 1.4 M |
| `strategy` | `Strategy.cfg`, `MCStrategy` | entries: `PositionWithinCap`, `ExposureWithinCap`, `NoLostCandidate`, `CountFollowsStops`; decisions: `AmLowIsKept`, `BriefIsKept`; gates: `GateIsEarned`, `NoKnifeEntry`; exits by the clock: `SellsOnce`, `ExitIsConfirmed`, `DropsWhatIsGone` | 3.3 M |

**Bounds.**

* `watcher`: `Tickers = {t1}`, `Workers = {w1, w2, w3}`: tickers share only the
  polling sweep and shutdown; three identities allow a stale worker, its successor
  and that one's successor unfinished together, which is as deep as the reasoning
  about slots goes. The proofs cover every number of both. In the model a spawn
  waits for a free identity; asyncio has no such limit.
* `exit_safety`: `Q = 2` contracts, the smallest position that can be
  partly sold; `MaxAttempts = 2`, a retry and an exhaustion both occur;
  `HedgeMax = 2`, two stops and the clamp; `Budget = 3`, every combination of entries
  and faults up to three. `exit_live` has `Budget = 2`, since the liveness graph
  grows with it.
* `protection`: `MaxAttempts = 3`, `ConfirmChecks = 2`: the code's relation (5
  attempts, 3 readings) with an attempt to spare after the last reading. Books
  range over the classes the code's tests on bid and ask tell apart.
* `resting`: one entry of two contracts (one sold, one left), five order ids of a
  kind (more than the two faults and the restarts can leave on the book), one of the
  two managers on at a time, two faults of five kinds. Both managers at once and the adoption of
  a fill whose entry is still booking it (`Overlapping`) are off: section 4 says what
  they do.
* `chaser`: a target of three contracts, the least with which an order that is chased
  can fill in part and go on resting; two price levels, two placements with two ids,
  one entry, one fault of four kinds. Without the liveness property the instance with
  two entries and three placements was checked too (15 M states), and the proofs cover
  every number of them.
* `strategy`: two brackets of one event (symmetric), sizes 1 and 2 (`Factor = 2`),
  an event cap of 3 (a recovery and a first entry fit, two recoveries do not), two
  orders, three stop-losses (one more than the clamp), one lost reply or one cut (a
  database error, or a cycle cancelled at its budget), and for every entry up to two
  failed lookups of what is held (`MaxUnknown`); two days and three starts of the process; two dates, three degrees around the bracket's
  line and three observations a day, the least that show a rise confirmed twice; and
  for the exits by the clock two contracts, two checkpoints, two positions of one
  ticker on one day, so that marks left by the first meet the second, and any number
  of restarts. `LateStart = TRUE` is the default of
  `LOW_TICKER_CLOSEOUT_ON_LATE_START`; the other setting reaches the same states.

**Fairness**, and why the code gives it:

* tasks make progress (weak fairness of the worker, the exit task, the handler and
  the sweep's own continuations): the event loop runs every ready task, and HTTP and
  database calls time out, so each await returns or raises;
* the polling loop and the held-position loop run again and again
  (`WF(PollCycle)`, `WF(SweepTriggers)`, `WF(SweepAdopts)`, ...): both are `while`
  loops around a `try`, with a sleep;
* in `RestingOrders` the sweep asks each manager in every pass. The chance to ask
  comes and goes while other tasks work, hence `SF(SweepAsks(k))`: a pass happens
  every few seconds and these tasks are done in between;
* in `Chaser` only the chaser itself is fair (`WF(Chase)`): its calls are answered
  and its sleeps end;
* in `SlProtection`, a ticker message arrives again and again; `QuoteAges` lets them
  stay away for as long as a quote lasts;
* a crashed process is restarted (the deployment's service manager).

Nothing is assumed of the market, of orders filling, of entries beginning, or of
faults happening or not, beyond the budget. The faults' budget matters for
liveness: with failures for ever, nothing is ever sold.

**Antecedents.** `DbKnowsPosition` and `NeverOvercounted` hold as long as no write
has failed and nothing has crashed, because failed writes here are logged and not
retried; what then happens is the restart's and adoption's business
(`WatchedWhileHeld`, `HoldingIsAdopted`). `NeverOvercounted` also asks for a single
entry: with a second one, the sweep can remove the new position on a listing up to
ten seconds old and the adopted successor starts with its count mark cleared.
`StopReachesExchange` does not speak of what follows a crash: `exit_stuck` shows
why. `StopIsServed` is for books with an ask and positions never parked, the other
two runs show what happens to the rest; `DeadBookIsParked` asks the feed to keep up,
because an attempt made on an unusable quote does not count towards parking.

The properties of the newer modules name what may break them, as a count of faults
(`used`) or a ghost that records the one cause in question (`causes`, `drift`, `why`,
`back`, `overlap`, `stray`). Each such exception was first met as a counterexample
and is real; without it the property holds under every other fault of the run:

* `StackedBackstop`, `StackedTakeProfit`, `OneRestingBuy` charge every order beyond
  the first to failed calls, one or two each. Lost replies, crashes and lost writes
  alone do not stack orders.
* `NeverOversold`, `NoLingeringSell` exclude a failed cancel or listing and a crash:
  the exit does not look whether its cancel succeeded, and a restart posts again
  before a fill is noticed. Fills at every moment, lost replies and lost writes are in.
* `NeverPastTarget` excludes an order that fills after the chaser's last poll and
  before its next placement (the amount was computed before), a placement that was
  under way when the chaser was cancelled and, once there is a second entry, a fill
  that was counted twice: the chaser then ends early, its order stays, and the next
  entry buys beside it. `NoStrayBuy` excludes double counting from the first entry on.
* `PositionWithinCap` has no exception, but a bound: at most two of the three lookups
  that precede an order fail. With three and an unbooked fill the cap is passed
  (`MaxUnknown = 3`), because the code then goes on with what it remembers.
* `NoLostCandidate` excludes a cycle cut off at its budget and a failing database;
  both leave `crossed_buy` set with no position behind it.
* `CountFollowsStops` allows as much drift as other exits have counted between one
  exit's read of the row and its write, and one step more for each stop that is taken
  back after the clamp. (One step per pair of overlapping exits is not enough: an exit
  can sleep while several others finish. With two brackets TLC never met that; the
  attempt to prove it did.)
* `AmLowIsKept`, `BriefIsKept`: a decision changes within a day only across a restart
  with a row overwritten by the other thread, not written or not read; a brief's
  block only if the gate could not read the row.
* `GateIsEarned`: the rise may be an artefact of a list that went back. `NoKnifeEntry`:
  a spike while an entry was pending, or a sunrise gate that closed and opened again.

## 4. Disagreements found

The first five are violation runs; `PROJECT.json` quotes the lines.

1. **A `SUBMITTED` record is never retried** (`exit_stuck`). A crash between writing
   `SUBMITTED` and writing the result leaves a record that every later attempt, in
   any process, takes for an attempt in flight. `app/models.py:179-181` says the
   next cycle retries it.
2. **An adopted position keeps its predecessor's `SUCCEEDED` record**
   (`exit_stale_record`). Only `_execute_entry`'s success path deletes the record.
   After a stop, a buy with a lost reply is adopted, and its stop is taken for one
   already done: the position is dropped unsold.
3. **One stop is charged twice** (`exit_twice`). The handler and the sweep test
   `_stop_loss_counted`, await the increment, and then set it.
4. **A parked position is not tried again when a buyer returns**
   (`protection_revived`). The re-arm on revival sits in the handler, which a
   suppressed watcher does not call, and the sweep defers to the watcher.
5. **A book that loses its ask is left by both** (`protection_losing_ask`). The cache
   shows the bid as the ask, so the sweep sees a stop and defers; the watcher was
   told there is no ask.

Met while modelling, and part of the models as they are (the code's behaviour is
what is modelled, and the properties above name it as an exception):

* **The exit ignores a failed cancel of the backstop**
  (`core/state_machine.py:5915`), although the docstring at 1524 asks for success
  before a sell. The resting order and the exit can then both sell.
* **A listing that fails reads as an empty book**, which the "STRICT DEDUP" of
  `execution/profit_take_sell.py:174-177` relies on; two failures stack two orders.
* **Both managers on** sell the position twice over: neither counts the other's
  order. Only the exit's cancels stand between.
* **A sweep that adopts a fill whose entry is still booking it** rests an order, and
  the entry then replaces it by one for what it bought: what the first order sold in
  between is not subtracted (`SellsWhatIsHeld` is stated for `Overlapping = FALSE`).
* **A chaser cancelled while its placement is under way** leaves a buy resting after
  the close (`core/state_machine.py:4586-4599`, against its docstring at 3935-3938):
  the handler cancels the id it knows, and the reply with the new one is dropped.
* **What a placement fills at once is counted again by the next poll**: the placement
  counts it (`core/state_machine.py:4448-4451`) without remembering it in
  `last_known_fill_qty`, which the poll compares with (4535). The chaser may then take
  the target for reached and leave, with its order resting; the next entry of the
  ticker can pass the target with it. The proof attempt of `NeverPastTarget` found
  this; the run's target of two had been too small for it.
* **The chaser's falling-knife check never fires**: it reads `yes_asks` of the cached
  book (4276-4290), which the feed never fills. Its gate check (4652-4653) passes the
  name of a time zone where `datetime.now()` wants an object; the `TypeError` is
  swallowed.
* **A watchlist cycle cut off at its time budget** between `crossed_buy = True` and
  the outcome leaves the bracket out of consideration for the rest of the day, as
  does an error of the database there.
* **A stop-loss step that is taken back** does not bring back the brackets that were
  retired because of it, and after a clamp it takes back a step too many.
* **The intraday limit sell is not reduce-only** and the result of its cancel is not
  looked at: if somebody else trades the ticker in that half minute, or the cancel
  fails, more can be sold than is held.
* **The close-out marks a ticker before it sells it**: a failed exit is not repeated
  that day. A missing ask also uses a checkpoint up.
* **A snapshot job more than an hour late** is dropped, and with it every later one,
  until a restart: the job itself registers its successor (`nws/scheduler.py`). The
  AM-low snapshot has no catch-up at start-up, the brief has.

## 5. What is proved

Eight modules hold proofs, for every value of the constants that satisfies the named
assumption of the model (`NoWorkerAssumption`, `ConstantsAssumption`,
`GateAssumption`: sizes are natural numbers, sets of brackets and of degrees are
finite, and the like). TLC evaluates the same assumptions in the runs.

| module | theorem | statement |
|---|---|---|
| `SlWatcherProofs` | `TypeCorrect` | `Spec => []TypeOK` |
| | `OneExitAtATime` | `Spec => []ExclusiveExit` |
| | `FlagIsOwned` | `Spec => []FlagHasOwner` |
| | `UnregisterStopsExit` | `Spec => []NoExitAfterUnregister` |
| | `Implements` | `Spec => ImplementsGuard`, the refinement of `ExitGuard` |
| `StopLossExitProofs` | `TypeCorrect` | `Spec => []TypeOK` |
| | `HeldIsWatched` | `Spec => []WatchedWhileHeld` |
| | `SucceededIsEarned` | `Spec => SucceededMeansGone` |
| | `DbKeepsUp` | `Spec => []DbKnowsPosition` |
| | `ChargedOnce` | `Spec => []NeverOvercounted`, if `~SweepHasOwnPrice` |
| `SlProtectionProofs` | `TypeCorrect` | `Spec => []TypeOK` |
| | `LatchHolds` | `Spec => []ParkedIsLeftAlone` |
| | `WatcherKeepsUp` | `Spec => []HeldIsWatched` |
| | `UsesTheWatcher` | `Spec => Watcher!Spec`, the composition implements `SlWatcher` |
| | `OneHandlerAtATime` | `Spec => [](Watcher!ExclusiveExit /\ Watcher!FlagHasOwner)` |
| `RestingOrdersProofs` | `TypeCorrect` | `Spec => []TypeOK` |
| | `NeverStacksBackstops` | `Spec => []StackedBackstop` |
| | `NeverStacksTakeProfits` | `Spec => []StackedTakeProfit` |
| | `SellsWhatIsHeld` | `Spec => []NeverOversold`, if `OneManager` and `~Overlapping` |
| | `NothingLingers` | `Spec => []NoLingeringSell`, if `OneManager` and `~Overlapping` |
| `ChaserProofs` | `TypeCorrect` | `Spec => []TypeOK` |
| | `OneBuyOnTheBook` | `Spec => []OneRestingBuy` |
| | `WithinTarget` | `Spec => []NeverPastTarget` |
| | `NothingStrays` | `Spec => []NoStrayBuy` |
| `StrategyProofs` (`Entries`) | `TypeCorrect` | `Spec => []TypeOK` |
| | `LedgerFollows` | `Spec => []CountFollowsStops` |
| | `WithinCap` | `Spec => []PositionWithinCap`, if `MaxUnknown <= 2` |
| | `CandidatesAreKept` | `Spec => []NoLostCandidate` |
| | `EventWithinCap` | `Spec => []ExposureWithinCap` |
| `IntradayExitProofs` | `TypeCorrect` | `Spec => []TypeOK` |
| | `SoldOnce` | `Spec => []SellsOnce` |
| | `DroppedIsGone` | `Spec => DropsWhatIsGone` |
| | `SoldWhenConfirmed` | `Spec => ExitIsConfirmed` |
| `StrategyProofs` (`StoredDecisions`) | `StoredTyped` | `Stored!Spec => []Stored!TypeOK` |
| | `BlockIsKept` | `Stored!Spec => []Stored!BriefIsKept` |
| | `AmLowKept` | `Stored!Spec => []Stored!AmLowIsKept` |
| `MorningGateProofs` | `TypeCorrect` | `Spec => []TypeOK` |
| | `NoFallingKnife` | `Spec => []NoKnifeEntry` |
| | `MorningIsEarned` | `Spec => []GateIsEarned` |
| `StrategyProofs` (`MCStrategy`) | `PartsAreTyped`, `EntriesOfTheStrategy`, and one for each property of the other parts | the same of `AllSpec` |

Four of them have a hypothesis beside the assumptions, and each marks a line the code
really crosses: with `SweepHasOwnPrice` a stop is charged twice (`exit_twice`); with
three failed lookups per entry the position cap is passed (`MaxUnknown = 3`); and with
both managers on, or a sweep that adopts what an entry is still booking
(`Overlapping`), a resting order can be posted for more than is held (section 4).
`OneManager` says that every member of `Settings` is one manager; the two switches
(`SL_BACKSTOP_ENABLED`, `PROFIT_TAKE_SELL_ENABLED`) are off by default, and nothing in
the configuration keeps both from being set. The other theorems about resting orders
need neither hypothesis.

### The watcher

`ExclusiveExit` is not inductive: the polling sweep only looks at the task in the
slot, so from a state where a running task is not in its slot it would start a
second one. The inductive invariant `IInv` adds what rules those states out:

* `SlotOwnsExit` - a task that can still sell is the one in the slot of its ticker
  (hence at most one);
* `UnwatchedIsBlank` - an unregistered ticker has an empty slot, state IDLE and no
  flag, so registering starts from nothing;
* `SlotIsCurrent` - a task in a slot was not released, nor cancelled other than by
  the shutdown: cancelling and emptying the slot happen in one step;
* `FlagHasOwner` - itself needed, to know that a spawn raises a flag that is down.

Two lemmas carry most of the steps: `SpawnKeeps` (starting a worker in a free
identity) and `UnregisterKeeps` (emptying a slot). The refinement maps every step
to `Launch`, `Arm`, `Report`, ..., or a stutter (`GuardStep`), with `PhaseIs`
unfolding the phase of a ticker and `OneMoves` / `NoneMoves` turning equations about
phases into the abstract step.

### The exit

The proofs are in layers, each using the ones before it:

1. `TypeInv` - types, with `HoldingsAccounted` (every position bought is held or was
   stopped out), which bounds `stops`, and `MineWithinLeft`;
2. `HoldingInv` - what memory, watcher and exit task know of the exchange.
   `WatchedWhileHeld` alone is not inductive: a retry registers with the watcher what
   the task took for the bot's when it last looked, so the invariant has to say what
   the task knows between its awaits (`JobKnowsHolding`, `JobKnowsEnd`), also while
   the position is out of memory. `SucceededMeansGone` follows from `JobKnowsEnd`;
3. `DownMeansCrash`, for `DbKnowsPosition`;
4. `ChargeInv` - the ledger. `WatcherCharges` says who may charge a stop (the handler,
   which sees the mark unset; never a sweep that has no price of its own),
   `GoneIsGone` that whatever tells the strategy its position has gone is right,
   `UnheldIsFresh` that contracts out of memory were never there. A mark that goes
   without its charge, with a new bracket object, belongs to a position that was
   never charged.

### Protection

Every step of the composition is, for the watcher, one of its own or none at all
(`WatcherStep`), so `Spec => Watcher!Spec` and what is proved of the watcher for any
use of it holds here. What that takes is `HeldIsWatched`: the strategy and the watcher
agree on what is held, so a held ticker never has to be registered anew in the middle
of a message, which would be two watcher steps in one.

### The resting orders

Again three invariants, each using the ones before it:

* `TypeInv` - types, and that no more is ever held than one entry buys.
* `BookInv` - the stacking bounds alone are not inductive: a task about to post could
  have the book full already. So a task that is about to post holds its manager's lock
  (nobody else of that manager gets between its look at the book and its order), and
  there is room for its order (`Roomy`): what its look left on the book has cost a
  failed call each, or a failed listing for all of it (`LookMakesRoom`). Steps that
  put nothing on the book are dealt with once (`Harmless`, `HarmlessBook`).
* `CalmInv` - as long as no cancel or listing has failed and the process has not died
  (`Untroubled`, never regained), with one manager on: at most one order is on the
  book and is covered by what is held (`BookIs`); who is about to post has an empty
  book, the lock and a size that is held (`PostingIs`, `LockIs`); the exit sells when
  the book is empty and nobody is about to post (`ExitIs`); and what was bought and is
  not yet held is the entry's alone (`NewIs`, where `~Overlapping` is needed).
  `CalmMove` carries it through the steps that only move a task, `CalmBegins` and
  `CalmReturns` through the beginning and the end of a call to a manager.

### The chaser

Three invariants, each using the ones before it:

* `TypeInv` - types, that a chaser which replaces or takes back an order knows its id,
  and that no order holds more than it was placed for.
* `BookInv` - `OneRestingBuy` alone is not inductive: from a state about to place with
  one order resting it would stack a second. `RoomOnTheBook` says what the listing has
  left at each await: about to cancel, nothing but the order to be cancelled; after
  that, nothing but what a failed call has hidden (`Hidden` counts those calls). The
  placement that an exit cuts off starts from the same room.
* `CalmInv` - as long as none of the exceptions of `NeverPastTarget` has occurred
  (`Calm`, which is never regained), the one order on the book is the one the chaser
  remembers (`Own`), what is still wanted fits under the target on the exchange and in
  the bracket (`Amount`), everything filled has been counted between a poll and the
  next placement (`Kept`), and a sleeping chaser's next poll either counts what makes
  bracket and exchange agree again (`Owed`), or counts twice (`Ahead`, after the sweep
  was quicker). In the second case the chaser may leave its order behind, and
  `Twice` says so from then on.

`Working` and what a poll counts are folds over the open orders. The proofs need them
over one order or none; that a fold exists at all is shown with a least set of orders,
as for the sums of the entries.

### The entries

* *Ledger.* `LedgerInv` speaks of the ledger and the exits only, and every action that
  is not a stop-loss leaves it alone. What has to be counted is how many exits are
  between read and write; `Between` of an exit that has read is what the drift may
  grow by when it writes.
* *Hedge.* A size `Initial * 2 ^ n` is bounded by the last one because 2 ^ n is the number
  of subsets of `1..n` (`Powers`): the library has theorems about those, and none about
  powers.
* *Position cap.* Three lookups precede an order. One that answers compares what the
  exchange holds with the cap; from then to the order the position can only shrink
  (`CapIsChecked`), since one task buys, one ticker at a time. `MaxUnknown <= 2` makes
  sure that one answers.
* *Candidates.* `BusyIsCandidate`: up to the decision the bracket of the entry is not
  one that was lost, and afterwards its phase is written before the entry lets go.
* *Event cap.* The check sums what the strategy believes, so `HoldingsAreKnown` has to
  bound what each bracket holds by what is booked or about to be, and `RoomIsChecked`
  keeps room from the check to the order. Sums over brackets are folds, and induction
  over data is out of the prover's reach; the lemmas about sums (a sum grows with its
  terms, and by no more than the one term that moved) take instead a least set of
  brackets for which they are wrong (`WFMin` over the strict subsets of a finite set)
  and refute it.

### The exits by the clock, the stored decisions, the gates

* `IntradayExit`. `RestIsCovered` follows the one limit sell from the quantity it is
  placed for to the last of it that rests; `MarksAreOpen` says which confirmations can
  be under way; `MarksAreOwn` bounds each of them by the low reads of the position
  itself, once its grace period has been seen.
* `StoredDecisions`. The brief is safe because its row is written once: a job about to
  write has found none, and nobody else writes (`WritesOnce`, `CacheFollowsRow`,
  `BlockStands`). The AM-low decision has two writers and no such rule: within a
  process its locked cache keeps it (`LockHolds`), across processes the row does, as
  long as none of the recorded troubles has happened to it (`RowHolds`).
* `MorningGate`. `GuardHolds` follows a spike into the bracket's guard. `MorningInv` is
  what is remembered of the day: nothing before the window (`DayIsNew`), a minimum that
  was observed since the baseline (`MinWasObserved`, within the longest list fetched,
  since a list may go back), a latch that stands for a rise, a dip that is in the day
  minimum. That `Min` and `Max` return a least and a greatest degree is proved from the
  least interval `0..x`.

### The strategy

The four parts share no state, so a behaviour of `AllSpec` is one of every part: one
takes its steps and the others stutter (`StoredRuns`, `MorningRuns`, `ExitsRuns`,
`EntriesRuns`). The theorems about the entries and the stored decisions are in
`StrategyProofs` itself; for the other two parts it instantiates the modules with
their theorems, and the lemmas `MorningNext` and `ExitsNext` show that the instance
inside a proof module and the one `MCStrategy` checks are the same.

### How far the proofs and the runs agree

Every inductive invariant was checked by TLC before it was proved, on the instances of
section 3 (`MorningInv` with four observations a day, the chaser's `CalmInv` with two entries and
three placements, that of the resting orders with two entries). What the attempts
found was corrected in the models: the drift of the ledger (above), a cycle of the
watchlist that the model could cut off at an await the code had not reached, and
`NeverPastTarget`, which claimed too much of a second entry (section 4).

## 6. Limits

Every invariant and every action property of a passing run is also proved. Liveness is
only model-checked: all of it (`ArmedIsServed`, `HoldingIsAdopted`,
`StopReachesExchange`, `StopIsServed`, `DeadBookIsParked`, `StaleIdIsDropped`,
`ClosedChaseEnds`) is beyond the prover, which has no rule for fairness (ENABLED). What
a fold computes for every input would take induction over data, which is beyond it too;
the lemmas about sums go around that, as said above. The violation runs are
counterexamples and need no proof.

Deliberate simplifications, also in each module's header:

* `StopLossExit`: one ticker; LIVE mode with the default `PANIC_FLATTEN` exit; a book
  with a bid; no resting orders and no chaser (they have modules of their own);
  contracts all bought by the bot; entries of `Q` contracts that start with none held;
  `get_fills` answers. A task holds on to the bracket object it was given; a second
  object for the ticker appears only when the exit task and the sweep are idle
  (`BracketReleased`). A database step is atomic.
* `SlProtection`: spoof protection off (the default); a message whose only side is a
  bid of at most one cent is left out; entries begin with the ask above the stop.
* `RestingOrders`: LIVE mode, one ticker, contracts all bought by the bot; fills and
  positions are answered; what a manager does under its lock before it posts is one
  action; ids nobody remembers are reused.
* `Chaser`: one ticker, whose next entry comes after its last chaser ended; a poll of
  all open orders is one step; the duration limit ends a chase as a closed gate does.
* `Entries`: the brackets of one event; a failed entry leaves no chaser; the gates
  that compare a quote, an hour or a forecast with the configuration are one choice
  (any may block, one may raise); a position adopted while its entry is under way
  stays until that entry ends.
* `IntradayExit`: one ticker on one day; the stop-loss exit is one action; a pass is
  half a minute and a confirmation two of them; the checkpoints begin at noon and the
  close-out comes after them, as configured by default.
* `StoredDecisions`: midnight finds no call under way.
* `MorningGate`: one series that is not a warm one, SUNRISE mode with all three
  checks and the reachability gate on; whole degrees; brackets with two ends or with
  only a lower end.

Of a stop-loss exit, a resting order, a chaser and an entry of the same ticker, each
module has the others as a neighbour with the steps that touch its own state, not in
their full detail; the full product is out of TLC's reach.

Not modelled, and why:

* *Paper executor*: it fills at once and keeps its own books; none of the live
  exchange's asynchrony is in it.
* *WebSocket connection*: one task that reads in a loop. When its retries are used up
  `listen()` ends and `run.py` shuts the process down; what a silent feed does to the
  stops is `FeedStalls` in `SlProtection`.
* *Quote cache's book and spoof guard*: arithmetic on one message, off by default.
* *Ladder exit* (`_run_fast_sl_exit`) and contracts bought outside the bot.
* *NWS gate* (`nws/gate.py`): in SUNRISE mode it is not asked for KXLOW, otherwise it
  is one of the gates that may block. *Astronomy, calibration offsets, forecast-dip
  gates*: functions of one reading that keep nothing.
* *Settlement reconciler and trade outcomes*: bookkeeping after the fact, nothing
  trades on it.
* *Start-up, configuration, instance lock*: parsing keeps no state, the lock is the
  operating system's; what start-up restores is the restart action of each module.
* *Logging, scanners, monitor, reports, scripts*: output and read-only tools.

## 7. Plan

Done: watcher, exit, protection, resting orders, chaser, entries, exits by the clock,
stored decisions and gates with a memory, each with its safety proved.

Left, in order:

1. The product of `RestingOrders` and `StopLossExit` over one contract.
2. The ladder exit (`_run_fast_sl_exit`) as a second kind of exit task.
3. The settlement reconciler, as a writer of trade outcomes beside the exit.
