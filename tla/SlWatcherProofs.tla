--------------------------- MODULE SlWatcherProofs ---------------------------
(***************************************************************************)
(* Proofs about the stop-loss watcher, for any set of tickers and any set  *)
(* of task identities.                                                     *)
(*                                                                         *)
(* The argument rests on IInv: the slot of a ticker holds every task that  *)
(* can still reach a sell (SlotOwnsExit), an unregistered ticker has an    *)
(* empty slot and no memory (UnwatchedIsBlank), a task in a slot has not   *)
(* been released or cancelled (SlotIsCurrent), and the in-progress flag    *)
(* has its owner (FlagHasOwner).  ExclusiveExit alone is not inductive: a  *)
(* sweep could overwrite a slot that does not hold the running task.       *)
(***************************************************************************)
EXTENDS SlWatcher, TLAPS

SlotOwnsExit ==
    \A t \in Tickers : \A w \in Workers :
        task[t][w] \in {"created", "running"} => slot[t] = w

UnwatchedIsBlank ==
    \A t \in Tickers \ watched :
        slot[t] = NoWorker /\ state[t] = "IDLE" /\ ~exitInProgress[t]

SlotIsCurrent ==
    \A t \in Tickers : slot[t] # NoWorker =>
        /\ task[t][slot[t]] \in {"created", "running", "cancelling", "done"}
        /\ task[t][slot[t]] = "cancelling" => shutdown

IInv ==
    /\ TypeOK
    /\ SlotOwnsExit
    /\ UnwatchedIsBlank
    /\ SlotIsCurrent
    /\ FlagHasOwner

-----------------------------------------------------------------------------
(* A free identity, when there is one, is what NextFree returns. *)
LEMMA NextFreeIsFree ==
    ASSUME NEW t \in Tickers, HasFree(t)
    PROVE  NextFree(t) \in Workers /\ task[t][NextFree(t)] = "free"
  BY DEF HasFree, NextFree

(* The watcher's variables keep their types. *)
LEMMA TypeStep == TypeOK /\ [Next]_vars => TypeOK'
<1> SUFFICES ASSUME TypeOK, [Next]_vars PROVE TypeOK'
  OBVIOUS
<1> USE NoWorkerAssumption DEF TypeOK, States, Lives, Asks, Pending, posVars
<1>1. ASSUME NEW t \in Tickers, RegisterPosition(t) PROVE TypeOK'
  BY <1>1 DEF RegisterPosition, RegisterNew, RegisterAgain
<1>2. ASSUME NEW t \in Tickers, NEW p \in Asks, RearmPosition(t, p) PROVE TypeOK'
  BY <1>2 DEF RearmPosition
<1>3. ASSUME NEW t \in Tickers, NEW c \in Workers \cup {NoWorker}, UnregisterPosition(t, c)
      PROVE  TypeOK'
  BY <1>3 DEF UnregisterPosition, ForgetPosition, AfterUnregister
<1>4. ASSUME NEW t \in Tickers, MarketUpdate(t) PROVE TypeOK'
  <2>1. CASE \E ask \in {"none", "high"} : MarketAboveStop(t, ask)
    BY <2>1 DEF MarketAboveStop, SeeAsk
  <2>2. CASE TriggerIgnored(t)
    BY <2>2 DEF TriggerIgnored, SeeAsk
  <2>3. CASE TriggerFired(t)
    <3>1. CASE SlotBusy(t)
      BY <2>3, <3>1 DEF TriggerFired, SeeAsk
    <3>2. CASE ~SlotBusy(t)
      <4>1. NextFree(t) \in Workers
        BY <2>3, <3>2, NextFreeIsFree DEF TriggerFired
      <4>2. PICK n \in Workers : n = NextFree(t)
        BY <4>1
      <4>3. /\ state' = [state EXCEPT ![t] = "TRIGGERED"]
            /\ lastBestAsk' = [lastBestAsk EXCEPT ![t] = "low"]
            /\ exitInProgress' = [exitInProgress EXCEPT ![t] = TRUE]
            /\ slot' = [slot EXCEPT ![t] = n]
            /\ task' = [task EXCEPT ![t] = [task[t] EXCEPT ![n] = "created"]]
            /\ watched' = watched /\ shutdown' = shutdown
        BY <2>3, <3>2, <4>2 DEF TriggerFired, SeeAsk
      <4>4. task' \in [Tickers -> [Workers -> Lives]]
        BY <4>3
      <4>5. QED
        BY <4>3, <4>4
    <3>3. QED
      BY <3>1, <3>2
  <2>4. QED
    BY <1>4, <2>1, <2>2, <2>3 DEF MarketUpdate
<1>5. CASE PollCycle
  <2>1. \A t \in Tickers : Due(t) => NextFree(t) \in Workers
    BY NextFreeIsFree DEF Due
  <2>2. QED
    BY <1>5, <2>1 DEF PollCycle
<1>6. ASSUME NEW t \in Tickers, NEW w \in Workers, Worker(t, w) PROVE TypeOK'
  <2>1. CASE WorkerStarts(t, w)
    BY <2>1 DEF WorkerStarts
  <2>2. CASE \E outcome \in Outcomes : WorkerReports(t, w, outcome)
    <3>1. PICK o \in Outcomes : WorkerReports(t, w, o)
      BY <2>2
    <3>2. ResultState(o) \in States
      BY DEF ResultState, Outcomes
    <3>3. task' \in [Tickers -> [Workers -> Lives]]
      BY <3>1 DEF WorkerReports
    <3>4. state' \in [Tickers -> States]
      BY <3>1, <3>2 DEF WorkerReports
    <3>5. QED
      BY <3>1, <3>3, <3>4 DEF WorkerReports
  <2>3. CASE WorkerEnds(t, w)
    BY <2>3 DEF WorkerEnds, ForgetPosition, AfterUnregister
  <2>4. CASE WorkerCancelled(t, w)
    BY <2>4 DEF WorkerCancelled
  <2>5. CASE Cleanup(t, w)
    BY <2>5 DEF Cleanup
  <2>6. QED
    BY <1>6, <2>1, <2>2, <2>3, <2>4, <2>5 DEF Worker
<1>7. CASE Stop
  BY <1>7 DEF Stop
<1>8. CASE UNCHANGED vars
  BY <1>8 DEF vars
<1>9. QED
  BY <1>1, <1>2, <1>3, <1>4, <1>5, <1>6, <1>7, <1>8 DEF Next, Strategy

(* The initial state is well typed. *)
LEMMA TypeInit == Init => TypeOK
<1> SUFFICES ASSUME Init PROVE TypeOK
  OBVIOUS
<1>1. task \in [Tickers -> [Workers -> Lives]]
  BY DEF Init, Lives
<1>2. QED
  BY <1>1 DEF Init, TypeOK, States, Asks

(* Type correctness of the watcher: every field stays in its declared set. *)
THEOREM TypeCorrect == Spec => []TypeOK
<1> QED
  BY TypeInit, TypeStep, PTL DEF Spec

-----------------------------------------------------------------------------
(* The parts of IInv that TypeStep does not cover. *)
Rest == SlotOwnsExit /\ UnwatchedIsBlank /\ SlotIsCurrent /\ FlagHasOwner

(* Starting a worker in a slot that is not busy keeps the invariant. *)
LEMMA SpawnKeeps ==
    ASSUME IInv, NEW t \in Tickers, NEW n \in Workers,
           t \in watched, ~SlotBusy(t), task[t][n] = "free",
           slot' = [slot EXCEPT ![t] = n],
           task' = [task EXCEPT ![t] = [task[t] EXCEPT ![n] = "created"]],
           exitInProgress' = [exitInProgress EXCEPT ![t] = TRUE],
           state' = [state EXCEPT ![t] = "TRIGGERED"],
           watched' = watched, shutdown' = shutdown
    PROVE  Rest'
<1> USE NoWorkerAssumption DEF IInv, TypeOK
<1>1. SlotOwnsExit'
  BY DEF SlotOwnsExit, SlotBusy, Unfinished
<1>2. UnwatchedIsBlank'
  BY DEF UnwatchedIsBlank
<1>3. SlotIsCurrent'
  BY DEF SlotIsCurrent
<1>4. FlagHasOwner'
  BY DEF FlagHasOwner
<1>5. QED
  BY <1>1, <1>2, <1>3, <1>4 DEF Rest

(* Taking a ticker back, from its own worker or from elsewhere. *)
LEMMA UnregisterKeeps ==
    ASSUME IInv, NEW t \in Tickers, NEW c \in Workers \cup {NoWorker},
           NEW last \in {"closing", "done"},
           ForgetPosition(t),
           slot' = [slot EXCEPT ![t] = NoWorker],
           task' = [task EXCEPT ![t] =
                      [w \in Workers |-> IF w = c THEN last ELSE AfterUnregister(t, c)[w]]],
           shutdown' = shutdown
    PROVE  Rest'
<1> USE NoWorkerAssumption DEF IInv, TypeOK
<1>1. SlotOwnsExit'
  BY DEF SlotOwnsExit, AfterUnregister, Unfinished
<1>2. UnwatchedIsBlank'
  BY DEF UnwatchedIsBlank, ForgetPosition
<1>3. SlotIsCurrent'
  BY DEF SlotIsCurrent
<1>4. FlagHasOwner'
  BY DEF FlagHasOwner, ForgetPosition
<1>5. QED
  BY <1>1, <1>2, <1>3, <1>4 DEF Rest

(* The strengthened invariant is inductive. *)
LEMMA InvStep == IInv /\ [Next]_vars => IInv'
<1> SUFFICES ASSUME IInv, [Next]_vars PROVE IInv'
  OBVIOUS
<1>0. TypeOK /\ TypeOK'
  BY TypeStep DEF IInv
<1> USE NoWorkerAssumption DEF TypeOK, Rest
<1>1. ASSUME NEW t \in Tickers, RegisterPosition(t) PROVE Rest'
  BY <1>0, <1>1 DEF IInv, RegisterPosition, RegisterNew, RegisterAgain,
     SlotOwnsExit, UnwatchedIsBlank, SlotIsCurrent, FlagHasOwner
<1>2. ASSUME NEW t \in Tickers, NEW p \in Asks, RearmPosition(t, p) PROVE Rest'
  BY <1>0, <1>2 DEF IInv, RearmPosition,
     SlotOwnsExit, UnwatchedIsBlank, SlotIsCurrent, FlagHasOwner
<1>3. ASSUME NEW t \in Tickers, NEW c \in Workers \cup {NoWorker}, UnregisterPosition(t, c)
      PROVE  Rest'
  <2>1. AfterUnregister(t, c) = [w \in Workers |-> IF w = c THEN "closing"
                                                  ELSE AfterUnregister(t, c)[w]]
    BY DEF AfterUnregister
  <2>2. QED
    BY <1>0, <1>3, <2>1, UnregisterKeeps DEF UnregisterPosition
<1>4. ASSUME NEW t \in Tickers, MarketUpdate(t) PROVE Rest'
  <2>1. CASE \E ask \in {"none", "high"} : MarketAboveStop(t, ask)
    BY <1>0, <2>1 DEF IInv, MarketAboveStop,
       SlotOwnsExit, UnwatchedIsBlank, SlotIsCurrent, FlagHasOwner
  <2>2. CASE TriggerIgnored(t)
    BY <1>0, <2>2 DEF IInv, TriggerIgnored,
       SlotOwnsExit, UnwatchedIsBlank, SlotIsCurrent, FlagHasOwner
  <2>3. CASE TriggerFired(t)
    <3>1. CASE SlotBusy(t)
      BY <1>0, <2>3, <3>1 DEF IInv, TriggerFired,
         SlotOwnsExit, UnwatchedIsBlank, SlotIsCurrent, FlagHasOwner
    <3>2. CASE ~SlotBusy(t)
      <4>1. PICK n \in Workers : n = NextFree(t) /\ task[t][n] = "free"
        BY <2>3, <3>2, NextFreeIsFree DEF TriggerFired
      <4>2. /\ t \in watched /\ watched' = watched /\ shutdown' = shutdown
            /\ state' = [state EXCEPT ![t] = "TRIGGERED"]
            /\ exitInProgress' = [exitInProgress EXCEPT ![t] = TRUE]
            /\ slot' = [slot EXCEPT ![t] = n]
            /\ task' = [task EXCEPT ![t] = [task[t] EXCEPT ![n] = "created"]]
        BY <2>3, <3>2, <4>1 DEF TriggerFired
      <4>3. QED
        BY <1>0, <3>2, <4>1, <4>2, SpawnKeeps
    <3>3. QED
      BY <3>1, <3>2
  <2>4. QED
    BY <1>4, <2>1, <2>2, <2>3 DEF MarketUpdate
<1>5. ASSUME PollCycle PROVE Rest'
  <2>1. \A t \in Tickers : Due(t) =>
           NextFree(t) \in Workers /\ task[t][NextFree(t)] = "free"
    BY NextFreeIsFree DEF Due
  <2>2. \A t \in Tickers : Due(t) =>
           \A w \in Workers : task[t][w] \notin {"created", "running"}
    BY <1>0 DEF IInv, Due, SlotBusy, Unfinished, SlotOwnsExit
  <2>3. SlotOwnsExit'
    BY <1>0, <1>5, <2>1, <2>2 DEF IInv, PollCycle, SlotOwnsExit
  <2>4. UnwatchedIsBlank'
    BY <1>0, <1>5 DEF IInv, PollCycle, Due, UnwatchedIsBlank
  <2>5. SlotIsCurrent'
    BY <1>0, <1>5, <2>1 DEF IInv, PollCycle, SlotIsCurrent
  <2>6. FlagHasOwner'
    BY <1>0, <1>5, <2>1 DEF IInv, PollCycle, FlagHasOwner
  <2>7. QED
    BY <2>3, <2>4, <2>5, <2>6
<1>6. ASSUME NEW t \in Tickers, NEW w \in Workers, Worker(t, w) PROVE Rest'
  <2>1. CASE WorkerStarts(t, w)
    BY <1>0, <2>1 DEF IInv, WorkerStarts, posVars,
       SlotOwnsExit, UnwatchedIsBlank, SlotIsCurrent, FlagHasOwner
  <2>2. CASE \E outcome \in Outcomes : WorkerReports(t, w, outcome)
    <3>1. PICK o \in Outcomes : WorkerReports(t, w, o)
      BY <2>2
    <3>2. /\ watched' = watched /\ slot' = slot /\ shutdown' = shutdown
          /\ task' = [task EXCEPT ![t] = [task[t] EXCEPT ![w] = "done"]]
      BY <3>1 DEF WorkerReports
    <3>3. SlotOwnsExit'
      BY <1>0, <3>2 DEF IInv, SlotOwnsExit
    <3>4. UnwatchedIsBlank'
      BY <1>0, <3>1 DEF IInv, WorkerReports, UnwatchedIsBlank
    <3>5. SlotIsCurrent'
      BY <1>0, <3>2 DEF IInv, SlotIsCurrent
    <3>6. FlagHasOwner'
      BY <1>0, <3>1, <3>2 DEF IInv, WorkerReports, FlagHasOwner
    <3>7. QED
      BY <3>3, <3>4, <3>5, <3>6
  <2>3. CASE WorkerEnds(t, w)
    <3>1. [AfterUnregister(t, w) EXCEPT ![w] = "done"]
             = [v \in Workers |-> IF v = w THEN "done" ELSE AfterUnregister(t, w)[v]]
      BY DEF AfterUnregister
    <3>2. QED
      BY <1>0, <2>3, <3>1, UnregisterKeeps DEF WorkerEnds
  <2>4. CASE WorkerCancelled(t, w)
    BY <1>0, <2>4 DEF IInv, WorkerCancelled, posVars,
       SlotOwnsExit, UnwatchedIsBlank, SlotIsCurrent, FlagHasOwner
  <2>5. CASE Cleanup(t, w)
    BY <1>0, <2>5 DEF IInv, Cleanup, posVars,
       SlotOwnsExit, UnwatchedIsBlank, SlotIsCurrent, FlagHasOwner
  <2>6. QED
    BY <1>6, <2>1, <2>2, <2>3, <2>4, <2>5 DEF Worker
<1>7. ASSUME Stop PROVE Rest'
  BY <1>0, <1>7 DEF IInv, Stop, posVars, Unfinished,
     SlotOwnsExit, UnwatchedIsBlank, SlotIsCurrent, FlagHasOwner
<1>8. ASSUME UNCHANGED vars PROVE Rest'
  BY <1>8 DEF IInv, vars,
     SlotOwnsExit, UnwatchedIsBlank, SlotIsCurrent, FlagHasOwner
<1>9. Rest'
  BY <1>1, <1>2, <1>3, <1>4, <1>5, <1>6, <1>7, <1>8 DEF Next, Strategy
<1>10. QED
  BY <1>0, <1>9 DEF IInv

(* The strengthened invariant holds in every reachable state. *)
LEMMA InvCorrect == Spec => []IInv
<1>1. ASSUME Init PROVE IInv
  <2>1. TypeOK
    BY <1>1, TypeInit
  <2>2. QED
    BY <1>1, <2>1 DEF Init, IInv, SlotOwnsExit, UnwatchedIsBlank,
       SlotIsCurrent, FlagHasOwner
<1>2. QED
  BY <1>1, InvStep, PTL DEF Spec

-----------------------------------------------------------------------------
(* A ticker never has two exit handlers in flight. *)
THEOREM OneExitAtATime == Spec => []ExclusiveExit
<1>1. IInv => ExclusiveExit
  BY DEF IInv, SlotOwnsExit, ExclusiveExit
<1>2. QED
  BY <1>1, InvCorrect, PTL

(* While the process runs, exit_in_progress is only up when the ticker's   *)
(* own worker is still going to report.                                    *)
THEOREM FlagIsOwned == Spec => []FlagHasOwner
<1>1. IInv => FlagHasOwner
  BY DEF IInv
<1>2. QED
  BY <1>1, InvCorrect, PTL

(* A ticker the strategy has taken back has no worker that could sell. *)
THEOREM UnregisterStopsExit == Spec => []NoExitAfterUnregister
<1>1. IInv => NoExitAfterUnregister
  BY NoWorkerAssumption DEF IInv, SlotOwnsExit, UnwatchedIsBlank, NoExitAfterUnregister
<1>2. QED
  BY <1>1, InvCorrect, PTL

-----------------------------------------------------------------------------
(* Refinement: a step of the watcher that changes the phase of one ticker  *)
(* only is a move of ExitGuard, or a stutter.                              *)
LEMMA OneMoves ==
    ASSUME NEW t \in Tickers, NEW from, NEW to,
           \A u \in Tickers \ {t} : Phase(u)' = Phase(u),
           Phase(t) \in from, Phase(t)' = to, shutdown' = shutdown
    PROVE  Guard!Move(t, from, to)
  BY DEF Guard!Move

(* A step that changes no phase and no shutdown flag is a stutter of       *)
(* ExitGuard.                                                              *)
LEMMA NoneMoves ==
    ASSUME \A u \in Tickers : Phase(u)' = Phase(u), shutdown' = shutdown
    PROVE  UNCHANGED Guard!vars
  BY DEF Guard!vars

(* The phase of a ticker depends on that ticker's own fields only. *)
LEMMA PhaseFrame ==
    ASSUME NEW u \in Tickers, (u \in watched') = (u \in watched),
           slot'[u] = slot[u], state'[u] = state[u], task'[u] = task[u]
    PROVE  Phase(u)' = Phase(u)
  BY DEF Phase

(* The two ways a ticker changes phase when its slot is not looked at. *)
LEMMA PhaseIs ==
    ASSUME IInv, NEW t \in Tickers
    PROVE  /\ (Phase(t) = "absent") = (t \notin watched)
           /\ (Phase(t) = "exiting") =
                (t \in watched /\ slot[t] # NoWorker
                   /\ task[t][slot[t]] \in {"created", "running"})
           /\ Phase(t) \in {"absent", "quiet", "armed", "exiting", "parked"}
  BY DEF Phase

(* Every step of the watcher is a step of ExitGuard or a stutter. *)
LEMMA GuardStep == IInv /\ [Next]_vars => [Guard!Next]_(Guard!vars)
<1> SUFFICES ASSUME IInv, [Next]_vars PROVE Guard!Next \/ UNCHANGED Guard!vars
  OBVIOUS
<1>0. IInv' /\ TypeOK /\ TypeOK'
  BY InvStep DEF IInv
<1> USE NoWorkerAssumption
<1> DEFINE Same(t) == \A u \in Tickers \ {t} : Phase(u)' = Phase(u)
<1>m. ASSUME NEW t \in Tickers, shutdown' = shutdown, Same(t),
             \/ Phase(t)' = Phase(t)
             \/ Phase(t) = "absent" /\ Phase(t)' = "quiet"
             \/ Phase(t) # "absent" /\ Phase(t)' = "absent"
             \/ Phase(t) \in {"quiet", "parked"} /\ Phase(t)' = "armed"
             \/ Phase(t) = "armed" /\ Phase(t)' = "quiet"
             \/ Phase(t) = "exiting" /\ Phase(t)' \in {"armed", "parked"}
      PROVE  Guard!Next \/ UNCHANGED Guard!vars
  <2>1. CASE Phase(t)' = Phase(t)
    BY <1>m, <2>1, NoneMoves
  <2>2. CASE Phase(t) = "absent" /\ Phase(t)' = "quiet"
    BY <1>m, <2>2, OneMoves DEF Guard!Next, Guard!Watch
  <2>3. CASE Phase(t) # "absent" /\ Phase(t)' = "absent"
    <3>1. Phase(t) \in {"quiet", "armed", "exiting", "parked"}
      BY <2>3, PhaseIs
    <3>2. QED
      BY <1>m, <2>3, <3>1, OneMoves DEF Guard!Next, Guard!Forget
  <2>4. CASE Phase(t) \in {"quiet", "parked"} /\ Phase(t)' = "armed"
    BY <1>m, <2>4, OneMoves DEF Guard!Next, Guard!Arm
  <2>5. CASE Phase(t) = "armed" /\ Phase(t)' = "quiet"
    BY <1>m, <2>5, OneMoves DEF Guard!Next, Guard!StandDown
  <2>6. CASE Phase(t) = "exiting" /\ Phase(t)' \in {"armed", "parked"}
    BY <1>m, <2>6, OneMoves DEF Guard!Next, Guard!Report
  <2>7. QED
    BY <1>m, <2>1, <2>2, <2>3, <2>4, <2>5, <2>6
<1>l. ASSUME NEW S \in SUBSET Tickers, shutdown' = shutdown,
             \A t \in S : Phase(t) \in {"quiet", "armed"} /\ Phase(t)' = "exiting",
             \A t \in Tickers \ S : Phase(t)' = Phase(t)
      PROVE  Guard!Next
  BY <1>l DEF Guard!Next, Guard!Launch
<1> HIDE DEF Same
<1>1. ASSUME NEW t \in Tickers, RegisterPosition(t)
      PROVE  Guard!Next \/ UNCHANGED Guard!vars
  <2>1. Same(t) /\ shutdown' = shutdown
    BY <1>0, <1>1, PhaseFrame DEF Same, TypeOK, RegisterPosition, RegisterNew, RegisterAgain
  <2>2. CASE RegisterNew(t)
    <3>1. Phase(t) = "absent" /\ Phase(t)' = "quiet"
      BY <1>0, <2>2 DEF IInv, TypeOK, RegisterNew, Phase, UnwatchedIsBlank, Pending
    <3>2. QED
      BY <1>m, <2>1, <3>1
  <2>3. CASE RegisterAgain(t)
    <3>1. \/ Phase(t)' = Phase(t)
          \/ Phase(t) \in {"quiet", "parked"} /\ Phase(t)' = "armed"
      BY <1>0, <2>3 DEF IInv, TypeOK, RegisterAgain, Phase, Pending
    <3>2. QED
      BY <1>m, <2>1, <3>1
  <2>4. QED
    BY <1>1, <2>2, <2>3 DEF RegisterPosition
<1>2. ASSUME NEW t \in Tickers, NEW p \in Asks, RearmPosition(t, p)
      PROVE  Guard!Next \/ UNCHANGED Guard!vars
  <2>1. Same(t) /\ shutdown' = shutdown
    BY <1>0, <1>2, PhaseFrame DEF Same, TypeOK, RearmPosition
  <2>2. \/ Phase(t)' = Phase(t)
        \/ Phase(t) \in {"quiet", "parked"} /\ Phase(t)' = "armed"
    BY <1>0, <1>2 DEF IInv, TypeOK, RearmPosition, Phase, Pending
  <2>3. QED
    BY <1>m, <2>1, <2>2
<1>3. ASSUME NEW t \in Tickers, NEW c \in Workers \cup {NoWorker}, UnregisterPosition(t, c)
      PROVE  Guard!Next \/ UNCHANGED Guard!vars
  <2>1. Same(t) /\ shutdown' = shutdown
    BY <1>0, <1>3, PhaseFrame DEF Same, TypeOK, UnregisterPosition, ForgetPosition
  <2>2. Phase(t) # "absent" /\ Phase(t)' = "absent"
    BY <1>0, <1>3 DEF UnregisterPosition, ForgetPosition, Phase
  <2>3. QED
    BY <1>m, <2>1, <2>2
<1>4. ASSUME NEW t \in Tickers, MarketUpdate(t)
      PROVE  Guard!Next \/ UNCHANGED Guard!vars
  <2>1. CASE \E ask \in {"none", "high"} : MarketAboveStop(t, ask)
    <3>1. Same(t) /\ shutdown' = shutdown
      BY <1>0, <2>1, PhaseFrame DEF Same, TypeOK, MarketAboveStop
    <3>2. \/ Phase(t)' = Phase(t)
          \/ Phase(t) = "armed" /\ Phase(t)' = "quiet"
      BY <1>0, <2>1 DEF IInv, TypeOK, MarketAboveStop, Phase, Pending
    <3>3. QED
      BY <1>m, <3>1, <3>2
  <2>2. CASE TriggerIgnored(t)
    <3>1. Same(t) /\ Phase(t)' = Phase(t) /\ shutdown' = shutdown
      BY <2>2, PhaseFrame DEF Same, TriggerIgnored
    <3>2. QED
      BY <1>m, <3>1
  <2>3. CASE TriggerFired(t) /\ SlotBusy(t)
    <3>1. Same(t) /\ shutdown' = shutdown
      BY <1>0, <2>3, PhaseFrame DEF Same, TypeOK, TriggerFired
    <3>2. \/ Phase(t)' = Phase(t)
          \/ Phase(t) \in {"quiet", "parked"} /\ Phase(t)' = "armed"
      BY <1>0, <2>3 DEF IInv, TypeOK, TriggerFired, Phase, Pending
    <3>3. QED
      BY <1>m, <3>1, <3>2
  <2>4. CASE TriggerFired(t) /\ ~SlotBusy(t)
    <3>1. PICK n \in Workers : n = NextFree(t)
      BY <2>4, NextFreeIsFree DEF TriggerFired
    <3>2. /\ t \in watched /\ watched' = watched /\ shutdown' = shutdown
          /\ state[t] = "IDLE"
          /\ state' = [state EXCEPT ![t] = "TRIGGERED"]
          /\ slot' = [slot EXCEPT ![t] = n]
          /\ task' = [task EXCEPT ![t] = [task[t] EXCEPT ![n] = "created"]]
      BY <2>4, <3>1 DEF TriggerFired
    <3>3. \A u \in Tickers \ {t} : Phase(u)' = Phase(u)
      BY <1>0, <3>2, PhaseFrame DEF TypeOK
    <3>4. Phase(t)' = "exiting"
      BY <1>0, <3>2 DEF TypeOK, Phase
    <3>5. Phase(t) = "quiet"
      BY <1>0, <2>4, <3>2 DEF TypeOK, Phase, SlotBusy, Unfinished, Pending
    <3>6. QED
      BY <1>l, <3>2, <3>3, <3>4, <3>5
  <2>5. QED
    BY <1>4, <2>1, <2>2, <2>3, <2>4 DEF MarketUpdate
<1>5. ASSUME PollCycle PROVE Guard!Next
  <2> DEFINE S == {t \in Tickers : Due(t)}
  <2>1. \A t \in Tickers : Due(t) =>
           NextFree(t) \in Workers /\ task[t][NextFree(t)] = "free"
    BY NextFreeIsFree DEF Due
  <2>2. ASSUME NEW t \in S PROVE Phase(t) = "armed"
    BY <1>0, <2>2 DEF TypeOK, Due, Phase, SlotBusy, Unfinished
  <2>3. ASSUME NEW t \in S PROVE Phase(t)' = "exiting"
    BY <1>0, <1>5, <2>1, <2>3 DEF TypeOK, PollCycle, Due, Phase
  <2>4. ASSUME NEW t \in Tickers \ S PROVE Phase(t)' = Phase(t)
    BY <1>0, <1>5, <2>4, PhaseFrame DEF PollCycle
  <2>5. S \in SUBSET Tickers /\ shutdown' = shutdown
    BY <1>5 DEF PollCycle
  <2> HIDE DEF S
  <2>6. QED
    BY <1>l, <2>2, <2>3, <2>4, <2>5
<1>6. ASSUME NEW t \in Tickers, NEW w \in Workers, Worker(t, w)
      PROVE  Guard!Next \/ UNCHANGED Guard!vars
  <2>1. CASE WorkerStarts(t, w)
    <3>1. Same(t) /\ shutdown' = shutdown
      BY <1>0, <2>1, PhaseFrame DEF Same, TypeOK, WorkerStarts, posVars
    <3>2. Phase(t)' = Phase(t)
      BY <1>0, <2>1 DEF IInv, TypeOK, SlotOwnsExit, WorkerStarts, posVars, Phase
    <3>3. QED
      BY <1>m, <3>1, <3>2
  <2>2. CASE \E outcome \in Outcomes : WorkerReports(t, w, outcome)
    <3>1. PICK o \in Outcomes : WorkerReports(t, w, o)
      BY <2>2
    <3>2. Same(t) /\ shutdown' = shutdown
      BY <1>0, <3>1, PhaseFrame DEF Same, TypeOK, WorkerReports
    <3>3. /\ watched' = watched /\ slot' = slot
          /\ task' = [task EXCEPT ![t] = [task[t] EXCEPT ![w] = "done"]]
      BY <3>1 DEF WorkerReports
    <3>4. CASE t \notin watched
      <4>1. Phase(t)' = Phase(t)
        BY <3>3, <3>4 DEF Phase
      <4>2. QED
        BY <1>m, <3>2, <4>1
    <3>5. CASE t \in watched /\ task[t][w] = "running"
      <4>1. state'[t] = ResultState(o)
        BY <1>0, <3>1, <3>5 DEF TypeOK, WorkerReports
      <4>2. ResultState(o) \in Pending \cup {"SUPPRESSED"}
        BY DEF ResultState, Outcomes, Pending
      <4>3. Phase(t) = "exiting"
        BY <1>0, <3>5 DEF IInv, TypeOK, SlotOwnsExit, Phase
      <4>4. slot'[t] = w /\ task'[t][w] = "done"
        BY <1>0, <3>3, <3>5 DEF IInv, TypeOK, SlotOwnsExit
      <4>5. Phase(t)' \in {"armed", "parked"}
        BY <3>3, <3>5, <4>1, <4>2, <4>4 DEF Phase
      <4>6. QED
        BY <1>m, <3>2, <4>3, <4>5
    <3>6. CASE t \in watched /\ task[t][w] = "closing"
      <4>1. state'[t] = "RETRYING"
        BY <1>0, <3>1, <3>6 DEF TypeOK, WorkerReports, ResultState
      <4>2. slot[t] # w
        BY <1>0, <3>6 DEF IInv, TypeOK, SlotIsCurrent
      <4>3. slot[t] # NoWorker => task'[t][slot[t]] = task[t][slot[t]]
        BY <1>0, <3>3, <4>2 DEF TypeOK
      <4>4. \/ Phase(t)' = Phase(t)
            \/ Phase(t) \in {"quiet", "parked"} /\ Phase(t)' = "armed"
        <5>1. CASE Phase(t) = "exiting"
          <6>1. slot[t] # NoWorker /\ task[t][slot[t]] \in {"created", "running"}
            BY <5>1 DEF Phase
          <6>2. slot'[t] = slot[t] /\ task'[t][slot[t]] \in {"created", "running"}
            BY <3>3, <4>3, <6>1
          <6>3. Phase(t)' = "exiting"
            BY <3>3, <3>6, <6>1, <6>2 DEF Phase
          <6>4. QED
            BY <5>1, <6>3
        <5>2. CASE Phase(t) # "exiting"
          <6>1. Phase(t)' = "armed"
            BY <3>3, <3>6, <4>1, <4>3, <5>2 DEF Phase, Pending
          <6>2. Phase(t) \in {"quiet", "armed", "parked"}
            BY <3>6, <5>2 DEF Phase
          <6>3. QED
            BY <6>1, <6>2
        <5>3. QED
          BY <5>1, <5>2
      <4>5. QED
        BY <1>m, <3>2, <4>4
    <3>7. QED
      BY <3>1, <3>4, <3>5, <3>6 DEF WorkerReports
  <2>3. CASE WorkerEnds(t, w)
    <3>1. Same(t) /\ shutdown' = shutdown
      BY <1>0, <2>3, PhaseFrame DEF Same, TypeOK, WorkerEnds, ForgetPosition
    <3>2. Phase(t)' = "absent"
      BY <2>3 DEF WorkerEnds, ForgetPosition, Phase
    <3>3. QED
      BY <1>m, <3>1, <3>2
  <2>4. CASE WorkerCancelled(t, w)
    <3>1. Same(t) /\ shutdown' = shutdown
      BY <1>0, <2>4, PhaseFrame DEF Same, TypeOK, WorkerCancelled, posVars
    <3>2. Phase(t)' = Phase(t)
      BY <1>0, <2>4 DEF TypeOK, WorkerCancelled, posVars, Phase
    <3>3. QED
      BY <1>m, <3>1, <3>2
  <2>5. CASE Cleanup(t, w)
    <3>1. Same(t) /\ shutdown' = shutdown
      BY <1>0, <2>5, PhaseFrame DEF Same, TypeOK, Cleanup, posVars
    <3>2. Phase(t)' = Phase(t)
      BY <1>0, <2>5 DEF TypeOK, Cleanup, posVars, Phase
    <3>3. QED
      BY <1>m, <3>1, <3>2
  <2>6. QED
    BY <1>6, <2>1, <2>2, <2>3, <2>4, <2>5 DEF Worker
<1>7. ASSUME Stop PROVE Guard!Next
  <2>1. shutdown' = TRUE
    BY <1>7 DEF Stop
  <2>2. \A t \in Tickers : Phase(t)' \in Guard!Phases
    BY <1>0, PhaseIs DEF Guard!Phases, Phase
  <2>3. ASSUME NEW t \in Tickers, Phase(t) # "exiting" PROVE Phase(t)' = Phase(t)
    BY <1>0, <1>7, <2>3 DEF TypeOK, Stop, posVars, Phase, Unfinished
  <2>4. QED
    BY <2>1, <2>2, <2>3 DEF Guard!Next, Guard!Stop
<1>8. ASSUME UNCHANGED vars PROVE UNCHANGED Guard!vars
  <2>1. \A u \in Tickers : Phase(u)' = Phase(u)
    BY <1>8, PhaseFrame DEF vars
  <2>2. QED
    BY <1>8, <2>1, NoneMoves DEF vars
<1>9. QED
  BY <1>1, <1>2, <1>3, <1>4, <1>5, <1>6, <1>7, <1>8 DEF Next, Strategy

(* The watcher implements the promise of ExitGuard. *)
THEOREM Implements == Spec => ImplementsGuard
<1>1. ASSUME Init PROVE Guard!Init
  BY <1>1 DEF Init, Guard!Init, Phase
<1>2. QED
  BY <1>1, InvCorrect, GuardStep, PTL DEF Spec, ImplementsGuard, Guard!Spec
=============================================================================
