------------------------------ MODULE SlWatcher ------------------------------
(***************************************************************************)
(* execution/sl_watcher.py: the stop-loss watcher.                         *)
(*                                                                         *)
(* The strategy registers every held ticker; market updates and a polling  *)
(* loop start at most one asyncio task per ticker, and that task awaits    *)
(* the strategy's exit handler.                                            *)
(*                                                                         *)
(* Grain of atomicity.  Everything under self._lock runs without awaiting, *)
(* so the lock is never contended and a method is one step of the event    *)
(* loop.  The only suspension point is `await self._exit_handler(...)`:    *)
(* while one task waits there, every other method may run.  A task that is *)
(* cancelled receives CancelledError at that await, which no except clause *)
(* of _process_position catches.                                           *)
(*                                                                         *)
(* Data.  Only the side of the stop a price falls on matters here, so an   *)
(* ask is "low" (<= sl_price), "high", or "none" (the message had no ask;  *)
(* it then had a bid).  Bids, quantities and trigger prices are passed     *)
(* through to the handler and decide nothing in this file.                 *)
(***************************************************************************)
EXTENDS FiniteSets

CONSTANTS
    Tickers,   \* market tickers
    Workers,   \* task identities per ticker: a bound on unfinished tasks
    NoWorker   \* "no entry in _worker_tasks"

ASSUME NoWorkerAssumption == NoWorker \notin Workers

VARIABLES
    watched,         \* the keys of _positions
    state,           \* WatchedPosition.state
    exitInProgress,  \* WatchedPosition.exit_in_progress
    lastBestAsk,     \* WatchedPosition.last_best_ask
    slot,            \* _worker_tasks: ticker -> worker
    task,            \* ticker -> worker -> life cycle of the asyncio.Task
    shutdown         \* _shutdown.is_set()

vars == <<watched, state, exitInProgress, lastBestAsk, slot, task, shutdown>>
posVars == <<watched, state, exitInProgress, lastBestAsk>>

\* TERMINAL is absent: _process_position sets it and drops the position in
\* the same step, so no other task ever sees it.
States == {"IDLE", "TRIGGERED", "SUBMITTING", "RETRYING", "SUPPRESSED"}
Pending == {"TRIGGERED", "SUBMITTING", "RETRYING"}
Asks == {"none", "low", "high"}

\* free        not in use
\* created     create_task() called, the coroutine has not run yet
\* running     awaiting the exit handler
\* closing     as running, but the handler has unregistered its own ticker
\* cancelling  cancel() called, CancelledError not delivered yet
\* done        finished, the done-callback has not run yet
Lives == {"free", "created", "running", "closing", "cancelling", "done"}

TypeOK ==
    /\ watched \in SUBSET Tickers
    /\ state \in [Tickers -> States]
    /\ exitInProgress \in [Tickers -> BOOLEAN]
    /\ lastBestAsk \in [Tickers -> Asks]
    /\ slot \in [Tickers -> Workers \cup {NoWorker}]
    /\ task \in [Tickers -> [Workers -> Lives]]
    /\ shutdown \in BOOLEAN

Init ==
    /\ watched = {}
    /\ state = [t \in Tickers |-> "IDLE"]
    /\ exitInProgress = [t \in Tickers |-> FALSE]
    /\ lastBestAsk = [t \in Tickers |-> "none"]
    /\ slot = [t \in Tickers |-> NoWorker]
    /\ task = [t \in Tickers |-> [w \in Workers |-> "free"]]
    /\ shutdown = FALSE

-----------------------------------------------------------------------------
(* Helpers *)

\* not task.done()
Unfinished(t, w) == task[t][w] \in {"created", "running", "closing", "cancelling"}
SlotBusy(t) == slot[t] # NoWorker /\ Unfinished(t, slot[t])

HasFree(t)  == \E w \in Workers : task[t][w] = "free"
NextFree(t) == CHOOSE w \in Workers : task[t][w] = "free"

\* _positions.pop(ticker): an unregistered ticker remembers nothing.
ForgetPosition(t) ==
    /\ watched' = watched \ {t}
    /\ state' = [state EXCEPT ![t] = "IDLE"]
    /\ exitInProgress' = [exitInProgress EXCEPT ![t] = FALSE]
    /\ lastBestAsk' = [lastBestAsk EXCEPT ![t] = "none"]

\* A slip: the popped task is left to run.
AfterUnregisterNoCancel(t, caller) ==
    [w \in Workers |-> IF w = caller THEN "closing" ELSE task[t][w]]

\* What unregister_position does to the tasks of t when it is called from
\* worker `caller` (NoWorker: from any other task): the slot is emptied and
\* its task cancelled, unless it is the calling task itself.
AfterUnregister(t, caller) ==
    [w \in Workers |->
        CASE w = slot[t] /\ w # caller /\ Unfinished(t, w) -> "cancelling"
          [] w = caller                                    -> "closing"
          [] OTHER                                         -> task[t][w]]

-----------------------------------------------------------------------------
(* Calls of the strategy *)

RegisterNew(t) ==
    /\ t \notin watched
    /\ watched' = watched \cup {t}
    /\ UNCHANGED <<state, exitInProgress, lastBestAsk, slot, task, shutdown>>

\* Registering again arms the ticker at once when the last ask seen is
\* already through the stop.
RegisterAgain(t) ==
    /\ t \in watched
    /\ ~exitInProgress[t]
    /\ lastBestAsk[t] = "low"
    /\ state' = [state EXCEPT ![t] = "TRIGGERED"]
    /\ UNCHANGED <<watched, exitInProgress, lastBestAsk, slot, task, shutdown>>

RegisterPosition(t) == RegisterNew(t) \/ RegisterAgain(t)

\* rearm_position(t, trigger_price): refused while an exit is in progress.
\* The price, when given, is taken for the last ask.
RearmPosition(t, price) ==
    /\ t \in watched
    /\ ~exitInProgress[t]
    /\ state' = [state EXCEPT ![t] = "TRIGGERED"]
    /\ lastBestAsk' = [lastBestAsk EXCEPT ![t] = IF price = "none" THEN @ ELSE price]
    /\ UNCHANGED <<watched, exitInProgress, slot, task, shutdown>>

UnregisterPosition(t, caller) ==
    /\ t \in watched
    /\ caller # NoWorker => task[t][caller] \in {"running", "closing"}
    /\ ForgetPosition(t)
    /\ slot' = [slot EXCEPT ![t] = NoWorker]
    /\ task' = [task EXCEPT ![t] = AfterUnregister(t, caller)]
    /\ UNCHANGED shutdown

-----------------------------------------------------------------------------
(* on_market_update *)

SeeAsk(t, ask) ==
    lastBestAsk' = [lastBestAsk EXCEPT ![t] = IF ask = "none" THEN @ ELSE ask]

\* An update that does not show an ask at or below the stop disarms a ticker
\* whose exit is not in progress; so does one that shows no ask at all.
MarketAboveStop(t, ask) ==
    /\ t \in watched
    /\ ask # "low"
    /\ SeeAsk(t, ask)
    /\ state' = IF state[t] \in Pending /\ ~exitInProgress[t]
                THEN [state EXCEPT ![t] = "IDLE"]
                ELSE state
    /\ UNCHANGED <<watched, exitInProgress, slot, task, shutdown>>

\* Already armed, in progress or suppressed: the trigger is swallowed.
TriggerIgnored(t) ==
    /\ t \in watched
    /\ state[t] # "IDLE" \/ exitInProgress[t]
    /\ SeeAsk(t, "low")
    /\ UNCHANGED <<watched, state, exitInProgress, slot, task, shutdown>>

\* A fresh trigger starts a worker, unless one is still around.
TriggerFired(t) ==
    /\ t \in watched
    /\ state[t] = "IDLE" /\ ~exitInProgress[t]
    /\ SeeAsk(t, "low")
    /\ state' = [state EXCEPT ![t] = "TRIGGERED"]
    /\ \/ /\ SlotBusy(t)
          /\ UNCHANGED <<exitInProgress, slot, task>>
       \/ /\ ~SlotBusy(t)
          /\ HasFree(t)
          /\ exitInProgress' = [exitInProgress EXCEPT ![t] = TRUE]
          /\ slot' = [slot EXCEPT ![t] = NextFree(t)]
          /\ task' = [task EXCEPT ![t][NextFree(t)] = "created"]
    /\ UNCHANGED <<watched, shutdown>>

MarketUpdate(t) ==
    \/ \E ask \in {"none", "high"} : MarketAboveStop(t, ask)
    \/ TriggerIgnored(t)
    \/ TriggerFired(t)

-----------------------------------------------------------------------------
(* The polling loop *)

\* Slips in the sweep's filter: forgetting RETRYING, sweeping SUPPRESSED too,
\* not looking for a task that is still there.
DueForgettingRetries(t) ==
    /\ t \in watched /\ ~SlotBusy(t) /\ ~exitInProgress[t]
    /\ state[t] \in {"TRIGGERED", "SUBMITTING"}
    /\ HasFree(t)
DueWhenSuppressed(t) ==
    /\ t \in watched /\ ~SlotBusy(t) /\ ~exitInProgress[t]
    /\ state[t] # "IDLE"
    /\ HasFree(t)
DueWithoutSlotCheck(t) ==
    /\ t \in watched /\ ~exitInProgress[t]
    /\ state[t] \in Pending
    /\ HasFree(t)

\* The tickers _run_cycle_once starts a worker for.
Due(t) ==
    /\ t \in watched
    /\ ~SlotBusy(t)
    /\ ~exitInProgress[t]
    /\ state[t] \in Pending
    /\ HasFree(t)

PollCycle ==
    /\ ~shutdown
    /\ \E t \in Tickers : Due(t)
    /\ exitInProgress' = [t \in Tickers |-> exitInProgress[t] \/ Due(t)]
    /\ slot' = [t \in Tickers |-> IF Due(t) THEN NextFree(t) ELSE slot[t]]
    /\ task' = [t \in Tickers |->
                  IF Due(t) THEN [task[t] EXCEPT ![NextFree(t)] = "created"]
                            ELSE task[t]]
    /\ UNCHANGED <<watched, state, lastBestAsk, shutdown>>

-----------------------------------------------------------------------------
(* The worker: _process_position *)

WorkerStarts(t, w) ==
    /\ task[t][w] = "created"
    /\ task' = [task EXCEPT ![t][w] = "running"]
    /\ UNCHANGED <<posVars, slot, shutdown>>

\* The position left behind by _set_position_state; it is looked up by
\* ticker, so a worker writes to whatever registration it finds there.
ResultState(outcome) ==
    CASE outcome = "suppressed" -> "SUPPRESSED"
      [] outcome = "in_flight"  -> "SUBMITTING"
      [] outcome = "retry"      -> "RETRYING"

\* A slip: the result does not lower exit_in_progress.
WorkerKeepsFlag(t, w, outcome) ==
    /\ task[t][w] \in {"running", "closing"}
    /\ task[t][w] = "closing" => outcome = "retry"
    /\ state' = IF t \in watched
                THEN [state EXCEPT ![t] = ResultState(outcome)] ELSE state
    /\ task' = [task EXCEPT ![t][w] = "done"]
    /\ UNCHANGED <<watched, exitInProgress, lastBestAsk, slot, shutdown>>

\* The handler came back (or raised: every Exception counts as "retry")
\* without the position being over.  Once it has unregistered its own ticker
\* the strategy's handler can only end in True or in an exception.
WorkerReports(t, w, outcome) ==
    /\ task[t][w] \in {"running", "closing"}
    /\ task[t][w] = "closing" => outcome = "retry"
    /\ \/ /\ t \in watched
          /\ state' = [state EXCEPT ![t] = ResultState(outcome)]
          /\ exitInProgress' = [exitInProgress EXCEPT ![t] = FALSE]
       \/ /\ t \notin watched
          /\ UNCHANGED <<state, exitInProgress>>
    /\ task' = [task EXCEPT ![t][w] = "done"]
    /\ UNCHANGED <<watched, lastBestAsk, slot, shutdown>>

\* A slip: the position is marked terminal and kept.
WorkerEndsKeepingPosition(t, w) ==
    /\ task[t][w] \in {"running", "closing"}
    /\ state' = [state EXCEPT ![t] = "TERMINAL"]
    /\ exitInProgress' = [exitInProgress EXCEPT ![t] = FALSE]
    /\ task' = [task EXCEPT ![t][w] = "done"]
    /\ UNCHANGED <<watched, lastBestAsk, slot, shutdown>>

\* The handler returned True: TERMINAL, then unregister_position.
WorkerEnds(t, w) ==
    /\ task[t][w] \in {"running", "closing"}
    /\ ForgetPosition(t)
    /\ slot' = [slot EXCEPT ![t] = NoWorker]
    /\ task' = [task EXCEPT ![t] = [AfterUnregister(t, w) EXCEPT ![w] = "done"]]
    /\ UNCHANGED shutdown

\* CancelledError leaves _process_position; the position is not touched.
WorkerCancelled(t, w) ==
    /\ task[t][w] = "cancelling"
    /\ task' = [task EXCEPT ![t][w] = "done"]
    /\ UNCHANGED <<posVars, slot, shutdown>>

\* The done-callback of _spawn_worker: clear the slot only if it is still
\* this task's.
Cleanup(t, w) ==
    /\ task[t][w] = "done"
    /\ slot' = [slot EXCEPT ![t] = IF @ = w THEN NoWorker ELSE @]
    /\ task' = [task EXCEPT ![t][w] = "free"]
    /\ UNCHANGED <<posVars, shutdown>>

\* stop(): no more sweeps, and the tasks in the slots are cancelled.
Stop ==
    /\ ~shutdown
    /\ shutdown' = TRUE
    /\ task' = [t \in Tickers |-> [w \in Workers |->
                  IF w = slot[t] /\ Unfinished(t, w) THEN "cancelling"
                                                     ELSE task[t][w]]]
    /\ UNCHANGED <<posVars, slot>>

Outcomes == {"suppressed", "in_flight", "retry"}

Worker(t, w) ==
    \/ WorkerStarts(t, w)
    \/ \E outcome \in Outcomes : WorkerReports(t, w, outcome)
    \/ WorkerEnds(t, w)
    \/ WorkerCancelled(t, w)
    \/ Cleanup(t, w)

Strategy(t) ==
    \/ RegisterPosition(t)
    \/ \E price \in Asks : RearmPosition(t, price)
    \/ \E caller \in Workers \cup {NoWorker} : UnregisterPosition(t, caller)

Next ==
    \/ \E t \in Tickers : Strategy(t) \/ MarketUpdate(t)
    \/ PollCycle
    \/ \E t \in Tickers, w \in Workers : Worker(t, w)
    \/ Stop

Spec == Init /\ [][Next]_vars

\* run() sweeps every poll interval until stop(); the event loop runs every
\* ready task; the exit handler's database and HTTP calls all time out, so
\* it returns.  Nothing is assumed of the market or of the strategy's calls.
Fairness ==
    /\ WF_vars(PollCycle)
    /\ \A t \in Tickers, w \in Workers : WF_vars(Worker(t, w))

FairSpec == Spec /\ Fairness

-----------------------------------------------------------------------------
(* Properties *)

\* A ticker never has two exit handlers in flight, however registrations,
\* triggers, sweeps and results interleave: two would each sell the whole
\* position.  (A handler that has already unregistered its ticker is past
\* its sell.)
ExclusiveExit ==
    \A t \in Tickers : \A v, w \in Workers :
        /\ task[t][v] \in {"created", "running"}
        /\ task[t][w] \in {"created", "running"}
        => v = w

\* exit_in_progress makes every trigger, sweep and rearm stand back, so a
\* flag nobody is left to clear would leave the position unprotected: while
\* the process runs, the flag is only up when the ticker's own worker is
\* going to report.
FlagHasOwner ==
    \A t \in watched :
        exitInProgress[t] /\ ~shutdown =>
            /\ slot[t] # NoWorker
            /\ task[t][slot[t]] \in {"created", "running"}

\* A worker of a ticker the strategy has taken back cannot reach its sell:
\* it is cancelled, unless it is the one that took the ticker back.
NoExitAfterUnregister ==
    \A t \in Tickers \ watched : \A w \in Workers :
        task[t][w] \notin {"created", "running"}

\* The phase of a ticker as ExitGuard sees it.
Phase(t) ==
    IF t \notin watched THEN "absent"
    ELSE IF slot[t] # NoWorker /\ task[t][slot[t]] \in {"created", "running"} THEN "exiting"
    ELSE IF state[t] \in Pending THEN "armed"
    ELSE IF state[t] = "SUPPRESSED" THEN "parked"
    ELSE "quiet"

Guard == INSTANCE ExitGuard WITH
    phase <- [t \in Tickers |-> Phase(t)],
    stopped <- shutdown

\* The watcher implements the promise of ExitGuard: in particular a parked
\* (no-bid) ticker is never exited without being armed again first, and an
\* exit in flight is never forgotten into "quiet".
ImplementsGuard == Guard!Spec

\* An armed ticker is not left waiting: its exit is launched, or the market
\* or the strategy calls it off.
ArmedIsServed ==
    \A t \in Tickers : (Phase(t) = "armed") ~> (Phase(t) # "armed" \/ shutdown)
=============================================================================
