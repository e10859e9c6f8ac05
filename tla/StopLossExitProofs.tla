-------------------------- MODULE StopLossExitProofs --------------------------
(***************************************************************************)
(* Proofs about the stop-loss exit of one ticker, for any entry size, any  *)
(* number of attempts, any clamp, any kinds and any number of faults.      *)
(*                                                                         *)
(* The argument has four layers, each inductive given those before it:     *)
(*   TypeInv     the types, and every position bought accounted for;       *)
(*   HoldingInv  what memory, the watcher and the exit task know of the    *)
(*               exchange at each step (WatchedWhileHeld and               *)
(*               SucceededMeansGone);                                      *)
(*   DbKnowsPosition, with nothing more than that a dead process crashed;  *)
(*   ChargeInv   the ledger while there has been a single entry:           *)
(*               NeverOvercounted.                                         *)
(* The lemmas Constants, SpendCounts, NoJobIs, GotoIs, VerdictIs,          *)
(* NextAttemptIs and DispatchedIs say once what the operators of the model *)
(* do, so that the steps need not look into records.                       *)
(***************************************************************************)
EXTENDS StopLossExit, TLAPS

\* Every position bought is still held, or was sold off by a stop-loss.
HoldingsAccounted == stops + (IF net > 0 THEN 1 ELSE 0) = used.entry

\* What an exit found left includes what it found to be the bot's.
MineWithinLeft == job.mine <= job.left

TypeInv == TypeOK /\ HoldingsAccounted /\ MineWithinLeft

-----------------------------------------------------------------------------
(* What is assumed of the constants, in the form the provers can use. *)
LEMMA Constants ==
    /\ Q \in Nat /\ Q > 0
    /\ MaxAttempts \in Nat /\ MaxAttempts > 0
    /\ HedgeMax \in Nat /\ HedgeMax > 0
    /\ Budget \in Nat
    /\ FaultKinds \subseteq Faults
BY ConstantsAssumption

(* While the budget lasts, every count is below it. *)
LEMMA SpentBounds ==
    ASSUME used \in [Faults \cup {"entry"} -> 0..Budget], Spent < Budget
    PROVE  \A f \in Faults \cup {"entry"} : used[f] < Budget
BY Constants DEF Spent, Faults

(* A fault of one kind uses up the budget, and counts for that kind only. *)
LEMMA SpendCounts ==
    ASSUME used \in [Faults \cup {"entry"} -> 0..Budget], NEW f \in Faults, Spend(f)
    PROVE  /\ used' \in [Faults \cup {"entry"} -> 0..Budget]
           /\ used'[f] = used[f] + 1
           /\ used'.entry = used.entry
           /\ \A g \in Faults \ {f} : used'[g] = used[g]
<1>1. used[f] < Budget
  BY SpentBounds DEF Spend
<1>2. QED
  BY <1>1, Constants DEF Spend, Faults

(* The idle exit task. *)
LEMMA NoJobIs ==
    /\ NoJob \in Jobs
    /\ NoJob.pc = "idle" /\ NoJob.left = 0 /\ NoJob.mine = 0
BY Constants DEF NoJob, Jobs, JobPcs, Statuses

(* The exit task jumps. *)
LEMMA GotoIs ==
    ASSUME job \in Jobs, NEW pc \in JobPcs
    PROVE  /\ Goto(pc) \in Jobs
           /\ Goto(pc).pc = pc
           /\ Goto(pc).left = job.left /\ Goto(pc).mine = job.mine
BY DEF Goto, Jobs

(* The exit task writes down what it has seen. *)
LEMMA VerifiedIs ==
    ASSUME job \in Jobs, NEW pc \in JobPcs, NEW l \in 0..Q, NEW m \in 0..Q,
           job' = [job EXCEPT !.pc = pc, !.left = l, !.mine = m]
    PROVE  job' \in Jobs /\ job'.pc = pc /\ job'.left = l /\ job'.mine = m
BY DEF Jobs

(* After the sale: closed when the exchange has nothing left, otherwise    *)
(* another round, with what was answered or, without an answer, all of it. *)
LEMMA VerdictIs ==
    ASSUME job \in Jobs, JobVerifies,
           Exch \in 0..Q, AppOwned(Exch) \in 0..Exch, qty \in 0..Q, Managed \in 0..qty
    PROVE  /\ job' \in Jobs
           /\ \/ job'.pc = "close" /\ Exch = 0 /\ job'.left = Exch /\ job'.mine = AppOwned(Exch)
              \/ job'.pc = "requeue" /\ Exch > 0 /\ job'.left = Exch /\ job'.mine = AppOwned(Exch)
              \/ job'.pc = "requeue" /\ job'.left = qty /\ job'.mine = Managed
<1>1. CASE job' = [job EXCEPT !.pc = IF Exch = 0 THEN "close" ELSE "requeue",
                              !.left = Exch, !.mine = AppOwned(Exch)]
  <2>1. PICK pc \in {"close", "requeue"} : pc = IF Exch = 0 THEN "close" ELSE "requeue"
    OBVIOUS
  <2>2. PICK l \in 0..Q, m \in 0..Q : l = Exch /\ m = AppOwned(Exch)
    BY Constants
  <2>3. job' = [job EXCEPT !.pc = pc, !.left = l, !.mine = m]
    BY <1>1, <2>1, <2>2
  <2>4. pc \in JobPcs
    BY DEF JobPcs
  <2>5. job' \in Jobs /\ job'.pc = pc /\ job'.left = l /\ job'.mine = m
    BY <2>3, <2>4, VerifiedIs
  <2>6. QED
    BY <2>1, <2>2, <2>5
<1>2. CASE job' = [job EXCEPT !.pc = "requeue", !.left = qty, !.mine = Managed]
  <2>1. PICK m \in 0..Q : m = Managed
    BY Constants
  <2>2. job' = [job EXCEPT !.pc = "requeue", !.left = qty, !.mine = m]
    BY <1>2, <2>1
  <2>3. QED
    BY <2>1, <2>2, VerifiedIs DEF JobPcs
<1>3. QED
  BY <1>1, <1>2 DEF JobVerifies

(* The next attempt, or the end of the attempts. *)
LEMMA NextAttemptIs ==
    ASSUME job \in Jobs
    PROVE  /\ NextAttempt \in Jobs
           /\ NextAttempt.pc \in {"attempt", "exhaust"}
           /\ NextAttempt.left = job.left /\ NextAttempt.mine = job.mine
<1>1. CASE job.attempt < MaxAttempts
  <2>1. NextAttempt = [job EXCEPT !.pc = "attempt", !.attempt = job.attempt + 1]
    BY <1>1 DEF NextAttempt
  <2>2. job.attempt + 1 \in 1..MaxAttempts
    BY <1>1, Constants DEF Jobs
  <2>3. QED
    BY <2>1, <2>2 DEF Jobs, JobPcs
<1>2. CASE ~(job.attempt < MaxAttempts)
  BY <1>2, GotoIs DEF NextAttempt, JobPcs
<1>3. QED
  BY <1>1, <1>2

(* A dispatch starts an idle task, and leaves another alone. *)
LEMMA DispatchedIs ==
    ASSUME job \in Jobs
    PROVE  /\ Dispatched \in Jobs
           /\ Dispatched.left = job.left /\ Dispatched.mine = job.mine
           /\ IF job.pc = "idle" THEN Dispatched.pc = "attempt" ELSE Dispatched = job
BY GotoIs DEF Dispatched, JobPcs

-----------------------------------------------------------------------------
(* The initial state is well typed. *)
LEMMA TypeInit == Init => TypeInv
<1> SUFFICES ASSUME Init PROVE TypeInv
  OBVIOUS
<1>1. used \in [Faults \cup {"entry"} -> 0..Budget] /\ used.entry = 0
  BY Constants DEF Init, Faults
<1>2. {settled, up, held, counted} \subseteq BOOLEAN
  BY DEF Init
<1>3. QED
  BY <1>1, <1>2, NoJobIs, Constants
     DEF Init, TypeInv, TypeOK, HoldingsAccounted, MineWithinLeft, Statuses, Unlisted

(* The flags stay Boolean. *)
LEMMA FlagsStep ==
    ASSUME TypeOK, [Next]_vars
    PROVE  settled' \in BOOLEAN /\ up' \in BOOLEAN /\ held' \in BOOLEAN /\ counted' \in BOOLEAN
<1> USE DEF TypeOK, market, memory
<1>1. CASE AskMoves \/ Settle \/ Entering
  BY <1>1 DEF AskMoves, Settle, Entering, EntryFills, EntryRegisters, EntryCommits
<1>2. CASE Watching
  BY <1>2 DEF Watching, HandlerForgets, HandlerSees, HandlerCounts, HandlerDisarmed
<1>3. CASE Sweeping
  BY <1>3 DEF Sweeping, SweepRefreshes, SweepAdopts, SweepSyncs, SweepRemoves, Remove, Forget,
     SweepTriggers, SweepDropsEmpty, SweepCounts, SweepSeesRecovery, SweepRollsBack
<1>4. CASE Exiting
  BY <1>4 DEF Exiting, JobStepFails, JobAttempts, JobMissing, JobSelects, JobDrops, Forget,
     JobMarks, JobSkips, JobOrders, JobOrderRaises, JobGone, JobRecords, JobVerifies, JobCloses,
     JobRequeues, JobExhausts, JobUndoes, JobPurges, JobRollsBack
<1>5. CASE Crash
  BY <1>5 DEF Crash
<1>6. ASSUME NEW answered \in BOOLEAN, Restart(answered)
      PROVE  settled' \in BOOLEAN /\ up' \in BOOLEAN /\ held' \in BOOLEAN /\ counted' \in BOOLEAN
  <2>1. up' = TRUE /\ settled' = settled /\ counted' = counted
    BY <1>6 DEF Restart
  <2>2. held' \in BOOLEAN
    BY <1>6 DEF Restart
  <2>3. QED
    BY <2>1, <2>2
<1>7. CASE UNCHANGED vars
  BY <1>7 DEF vars
<1>8. QED
  BY <1>1, <1>2, <1>3, <1>4, <1>5, <1>6, <1>7 DEF Next

(* The variables keep their types. *)
LEMMA TypeStep == TypeInv /\ [Next]_vars => TypeInv'
<1> SUFFICES ASSUME TypeInv, [Next]_vars PROVE TypeInv'
  OBVIOUS
<1>0. settled' \in BOOLEAN /\ up' \in BOOLEAN /\ held' \in BOOLEAN /\ counted' \in BOOLEAN
  BY FlagsStep DEF TypeInv
<1> USE <1>0, Constants DEF TypeInv, TypeOK, HoldingsAccounted, MineWithinLeft, 
   Statuses, JobPcs, Unlisted, dbVars, market, memory, tasks
<1>1. CASE AskMoves
  BY <1>1 DEF AskMoves
<1>2. CASE Settle
  BY <1>2 DEF Settle
<1>3. CASE EntryFills
  <2>1. \A f \in Faults \cup {"entry"} : used[f] < Budget
    BY <1>3, SpentBounds DEF EntryFills
  <2>2. /\ used' \in [Faults \cup {"entry"} -> 0..Budget]
        /\ used'.entry = used.entry + 1
        /\ entry' \in {"none", "filled"}
    <3>1. CASE entry' = "filled" /\ used' = [used EXCEPT !.entry = @ + 1]
      BY <2>1, <3>1
    <3>2. ASSUME NEW f \in FaultKinds \cap {"reply", "db"}, entry' = "none",
                 used' = [used EXCEPT !.entry = @ + 1, ![f] = @ + 1]
          PROVE  /\ used' \in [Faults \cup {"entry"} -> 0..Budget]
                 /\ used'.entry = used.entry + 1
                 /\ entry' = "none"
      BY <2>1, <3>2 DEF Faults
    <3>3. QED
      BY <1>3, <3>1, <3>2 DEF EntryFills
  <2>3. net = 0 /\ net' = Q /\ stops' = stops
    BY <1>3 DEF EntryFills
  <2>4. HoldingsAccounted' /\ stops' \in 0..used'.entry
    BY <2>2, <2>3
  <2>5. MineWithinLeft' /\ TypeOK'
    <3>1. UNCHANGED <<dbVars, settled, ask, up, memory, cached, handler, sweep, job>>
      BY <1>3 DEF EntryFills
    <3>2. QED
      BY <2>2, <2>3, <2>4, <3>1
  <2>6. QED
    BY <2>4, <2>5
<1>4. CASE EntryRegisters
  BY <1>4 DEF EntryRegisters, AppOwned, Least, Register
<1>5. CASE EntryCommits
  BY <1>5, SpendCounts DEF EntryCommits, Faults
<1>6. CASE HandlerForgets
  BY <1>6 DEF HandlerForgets
<1>7. CASE HandlerSees
  BY <1>7, DispatchedIs DEF HandlerSees, Least
<1>8. CASE HandlerCounts
  BY <1>8, SpendCounts, DispatchedIs DEF HandlerCounts, Faults, Incremented, Least
<1>9. CASE HandlerDisarmed
  BY <1>9 DEF HandlerDisarmed
<1>10. CASE SweepRefreshes
  BY <1>10 DEF SweepRefreshes, Exch
<1>11. CASE SweepAdopts
  BY <1>11, SpendCounts DEF SweepAdopts, Faults, AppOwned, Least, Register
<1>12. CASE SweepSyncs
  BY <1>12 DEF SweepSyncs, AppOwned, Least
<1>13. CASE SweepRemoves
  BY <1>13, SpendCounts DEF SweepRemoves, Faults, Remove, Forget
<1>14. CASE SweepTriggers
  BY <1>14, DispatchedIs DEF SweepTriggers
<1>15. CASE SweepDropsEmpty
  BY <1>15 DEF SweepDropsEmpty
<1>16. CASE SweepCounts
  BY <1>16, SpendCounts, DispatchedIs DEF SweepCounts, Faults, Incremented, Least
<1>17. CASE SweepSeesRecovery
  BY <1>17 DEF SweepSeesRecovery
<1>18. CASE SweepRollsBack
  BY <1>18, SpendCounts DEF SweepRollsBack, Faults, Decremented
<1>20. ASSUME NEW pc \in JobPcs, JobStepFails(pc) PROVE TypeInv'
  BY <1>20, SpendCounts, NextAttemptIs DEF JobStepFails, Faults
<1>21. CASE JobAttempts
  BY <1>21, GotoIs DEF JobAttempts, Revalidate
<1>22. CASE JobMissing
  BY <1>22, SpendCounts, GotoIs, NoJobIs DEF JobMissing, Faults, Revalidate, JobEnds, Exch, AppOwned, Least, Managed
<1>23. CASE JobSelects
  <2>1. /\ job' \in Jobs
        /\ job'.mine <= job'.left
    <3>1. CASE row = "SUCCEEDED"
      BY <1>23, <3>1, GotoIs DEF JobSelects
    <3>2. CASE row = "SUBMITTED"
      BY <1>23, <3>2, NextAttemptIs, NoJobIs DEF JobSelects
    <3>3. CASE row \notin {"SUCCEEDED", "SUBMITTED"}
      <4>1. job' = [job EXCEPT !.pc = "mark", !.seen = row]
        BY <1>23, <3>3 DEF JobSelects
      <4>2. QED
        BY <4>1 DEF Jobs
    <3>4. QED
      BY <3>1, <3>2, <3>3
  <2>2. QED
    BY <1>23, <2>1 DEF JobSelects
<1>24. CASE JobDrops
  BY <1>24, GotoIs DEF JobDrops, Forget
<1>25. CASE JobMarks
  BY <1>25, SpendCounts, GotoIs DEF JobMarks, Faults, Updated
<1>26. CASE JobSkips
  BY <1>26, NextAttemptIs, NoJobIs DEF JobSkips, Updated
<1>27. CASE JobOrders
  BY <1>27, GotoIs DEF JobOrders, Least, Managed
<1>28. CASE JobOrderRaises
  BY <1>28, SpendCounts, NextAttemptIs DEF JobOrderRaises, Faults, Updated
<1>29. CASE JobGone
  BY <1>29, GotoIs DEF JobGone, Updated, Forget
<1>30. CASE JobRecords
  BY <1>30, GotoIs DEF JobRecords
<1>31. CASE JobVerifies
  <2>1. job' \in Jobs /\ job'.mine <= job'.left
    <3>1. Exch \in 0..Q /\ AppOwned(Exch) \in 0..Exch /\ Managed \in 0..qty
      BY DEF Exch, AppOwned, Managed, Least
    <3>2. QED
      BY <1>31, <3>1, VerdictIs
  <2>2. QED
    BY <1>31, <2>1, SpendCounts DEF JobVerifies, Faults
<1>32. CASE JobCloses
  BY <1>32, NoJobIs DEF JobCloses, Updated, Forget, JobEnds
<1>33. CASE JobRequeues
  <2>1. job.left \in 0..Q /\ job.mine \in 0..job.left
    BY DEF Jobs
  <2>2. job' \in Jobs /\ job'.mine <= job'.left
    BY <1>33, NextAttemptIs, NoJobIs DEF JobRequeues
  <2>3. watch' \in 0..Q /\ handler' \in {"idle", "armed", "counting"}
    BY <1>33, <2>1 DEF JobRequeues, RegisterArmed, Register, Least
  <2>4. QED
    BY <1>33, <2>1, <2>2, <2>3 DEF JobRequeues, Updated
<1>34. CASE JobExhausts
  BY <1>34, SpendCounts, GotoIs DEF JobExhausts, Faults, Exch, AppOwned, Managed, Least, RegisterArmed, Register
<1>35. CASE JobUndoes
  BY <1>35, SpendCounts, NoJobIs DEF JobUndoes, Faults, Decremented, JobEnds
<1>36. CASE JobPurges
  BY <1>36, NoJobIs DEF JobPurges, Decremented, JobEnds
<1>37. CASE JobRollsBack
  BY <1>37, SpendCounts, NoJobIs DEF JobRollsBack, Faults, Decremented, JobEnds
<1>38. CASE Crash
  BY <1>38, SpendCounts, NoJobIs DEF Crash, Faults
<1>39. ASSUME NEW answered \in BOOLEAN, Restart(answered) PROVE TypeInv'
  BY <1>39 DEF Restart, Exch, AppOwned, Least
<1>40. CASE UNCHANGED vars
  BY <1>40 DEF vars
<1>41. CASE Exiting
  BY <1>41, <1>20, <1>21, <1>22, <1>23, <1>24, <1>25, <1>26, <1>27, <1>28, <1>29, <1>30, <1>31, <1>32,
     <1>33, <1>34, <1>35, <1>36, <1>37 DEF Exiting
<1>42. QED
  BY <1>1, <1>2, <1>3, <1>4, <1>5, <1>6, <1>7, <1>8, <1>9, <1>10, <1>11, <1>12, <1>13,
     <1>14, <1>15, <1>16, <1>17, <1>18, <1>38, <1>39, <1>40, <1>41 DEF Next, Entering, Watching, Sweeping
(* Type correctness of the exit: every variable stays in its declared set, *)
(* in particular the bot never manages more than it holds (app <= qty) and *)
(* never counts more sold-off positions than it bought.                    *)
THEOREM TypeCorrect == Spec => []TypeOK
<1>1. TypeInv => TypeOK
  BY DEF TypeInv
<1>2. QED
  BY <1>1, TypeInit, TypeStep, PTL DEF Spec

-----------------------------------------------------------------------------
(* What memory, the watcher and the exit task know of the exchange.        *)
(* WatchedWhileHeld is not inductive: a retry registers what the task took *)
(* for the bot's when it last looked.                                      *)

\* A held position with contracts has contracts of the bot's.
AppCoversHolding == held /\ Exch > 0 => app > 0

\* The watcher has every position of the bot's, until the market settles.
WatcherHasApp == held /\ ~settled /\ app > 0 => watch > 0

\* Between its first look and its retry the task knows of what there is,
\* whether or not the position is still in memory.
AtWork == {"select", "mark", "skip", "order", "record", "verify", "requeue"}
JobKnowsHolding ==
    /\ job.pc \in AtWork /\ Exch > 0 => app > 0
    /\ job.pc = "requeue" /\ Exch > 0 => job.mine > 0

\* A task about to write SUCCEEDED has seen that nothing is left.
JobKnowsEnd ==
    /\ job.pc = "close" => Exch = 0
    /\ job.pc = "gone" => settled

\* A dead process does nothing.
DownIsIdle ==
    ~up => ~held /\ entry = "none" /\ handler = "idle" /\ sweep = "idle" /\ job.pc = "idle"

HoldingInv == AppCoversHolding /\ WatcherHasApp /\ JobKnowsHolding /\ JobKnowsEnd /\ DownIsIdle

(* Nothing is held, and nothing is under way, at the start. *)
LEMMA HoldingInit == Init => HoldingInv
BY NoJobIs DEF Init, HoldingInv, AppCoversHolding, WatcherHasApp, JobKnowsHolding,
   JobKnowsEnd, DownIsIdle, AtWork

(* Every step keeps what is known of the holding. *)
LEMMA HoldingStep == TypeInv /\ TypeInv' /\ HoldingInv /\ [Next]_vars => HoldingInv'
<1> SUFFICES ASSUME TypeInv, TypeInv', HoldingInv, [Next]_vars PROVE HoldingInv'
  OBVIOUS
<1> USE Constants DEF TypeInv, TypeOK, HoldingInv, AppCoversHolding, WatcherHasApp, JobKnowsHolding,
   JobKnowsEnd, DownIsIdle, Exch, AtWork, Unlisted, JobPcs, dbVars, market, memory, tasks
<1>1. CASE AskMoves
  BY <1>1 DEF AskMoves
<1>2. CASE Settle
  BY <1>2 DEF Settle
<1>3. CASE EntryFills
  BY <1>3 DEF EntryFills, BracketReleased
<1>4. CASE EntryRegisters
  BY <1>4 DEF EntryRegisters, AppOwned, Least, Register
<1>5. CASE EntryCommits
  BY <1>5 DEF EntryCommits
<1>6. CASE HandlerForgets
  BY <1>6 DEF HandlerForgets
<1>7. CASE HandlerSees
  BY <1>7, DispatchedIs DEF HandlerSees, HandlerCalled, Least
<1>8. CASE HandlerCounts
  BY <1>8, DispatchedIs DEF HandlerCounts
<1>9. CASE HandlerDisarmed
  BY <1>9 DEF HandlerDisarmed
<1>10. CASE SweepRefreshes
  BY <1>10 DEF SweepRefreshes
<1>11. CASE SweepAdopts
  BY <1>11 DEF SweepAdopts, AppOwned, Least, Register
<1>12. CASE SweepSyncs
  BY <1>12 DEF SweepSyncs, AppOwned, Least
<1>13. CASE SweepRemoves
  BY <1>13 DEF SweepRemoves, Remove, Forget
<1>14. CASE SweepTriggers
  BY <1>14, DispatchedIs DEF SweepTriggers
<1>15. CASE SweepDropsEmpty
  BY <1>15 DEF SweepDropsEmpty
<1>16. CASE SweepCounts
  BY <1>16, DispatchedIs DEF SweepCounts
<1>17. CASE SweepSeesRecovery
  BY <1>17 DEF SweepSeesRecovery
<1>18. CASE SweepRollsBack
  BY <1>18 DEF SweepRollsBack
<1>19. ASSUME NEW pc \in JobPcs \ {"idle"}, JobStepFails(pc) PROVE HoldingInv'
  BY <1>19, NextAttemptIs DEF JobStepFails
<1>20. CASE JobAttempts
  BY <1>20, GotoIs DEF JobAttempts, Revalidate
<1>21. CASE JobMissing
  BY <1>21, GotoIs, NoJobIs DEF JobMissing, Revalidate, JobEnds, AppOwned, Least, Managed
<1>22. CASE JobSelects
  BY <1>22, GotoIs, NextAttemptIs, NoJobIs DEF JobSelects, Jobs
<1>23. CASE JobDrops
  BY <1>23, GotoIs DEF JobDrops, Forget
<1>24. CASE JobMarks
  BY <1>24, GotoIs DEF JobMarks
<1>25. CASE JobSkips
  BY <1>25, NextAttemptIs, NoJobIs DEF JobSkips
<1>26. CASE JobOrders
  BY <1>26, GotoIs DEF JobOrders, Least, Managed
<1>27. CASE JobOrderRaises
  BY <1>27, NextAttemptIs DEF JobOrderRaises
<1>28. CASE JobGone
  BY <1>28, GotoIs DEF JobGone, Forget
<1>29. CASE JobRecords
  BY <1>29, GotoIs DEF JobRecords
<1>30. CASE JobVerifies
  <2>1. Exch \in 0..Q /\ AppOwned(Exch) \in 0..Exch /\ Managed \in 0..qty
    BY DEF AppOwned, Managed, Least
  <2>2. \/ job'.pc = "close" /\ Exch = 0
        \/ job'.pc = "requeue" /\ job'.mine = AppOwned(Exch)
        \/ job'.pc = "requeue" /\ job'.mine = Managed
    BY <1>30, <2>1, VerdictIs
  <2>3. QED
    BY <1>30, <2>2 DEF JobVerifies, AppOwned, Managed, Least
<1>31. CASE JobCloses
  BY <1>31, NoJobIs DEF JobCloses, Forget, JobEnds
<1>32. CASE JobRequeues
  BY <1>32, NextAttemptIs, NoJobIs DEF JobRequeues, RegisterArmed, Register, Least
<1>33. CASE JobExhausts
  BY <1>33, GotoIs DEF JobExhausts, AppOwned, Managed, Least, RegisterArmed, Register
<1>34. CASE JobUndoes
  BY <1>34, NoJobIs DEF JobUndoes, JobEnds
<1>35. CASE JobPurges
  BY <1>35, NoJobIs DEF JobPurges, JobEnds
<1>36. CASE JobRollsBack
  BY <1>36, NoJobIs DEF JobRollsBack, JobEnds
<1>37. CASE Crash
  BY <1>37, NoJobIs DEF Crash
<1>38. ASSUME NEW answered \in BOOLEAN, Restart(answered) PROVE HoldingInv'
  BY <1>38 DEF Restart, AppOwned, Least
<1>39. CASE UNCHANGED vars
  BY <1>39 DEF vars
<1>40. CASE Exiting
  BY <1>40, <1>19, <1>20, <1>21, <1>22, <1>23, <1>24, <1>25, <1>26, <1>27, <1>28, <1>29, <1>30,
     <1>31, <1>32, <1>33, <1>34, <1>35, <1>36 DEF Exiting
<1>41. QED
  BY <1>1, <1>2, <1>3, <1>4, <1>5, <1>6, <1>7, <1>8, <1>9, <1>10, <1>11, <1>12, <1>13, <1>14, <1>15,
     <1>16, <1>17, <1>18, <1>37, <1>38, <1>39, <1>40 DEF Next, Entering, Watching, Sweeping
(* The types and what is known of the holding, together, in every state. *)
LEMMA HoldingCorrect == Spec => [](TypeInv /\ HoldingInv)
<1>1. TypeInv /\ HoldingInv /\ [Next]_vars => (TypeInv /\ HoldingInv)'
  BY TypeStep, HoldingStep
<1>2. QED
  BY <1>1, TypeInit, HoldingInit, PTL DEF Spec

(* Contracts the strategy knows it holds are in the watcher's hands at     *)
(* every moment, whatever fails and whenever the process dies: every path  *)
(* of _execute_stop_loss, the sweep, the entry and the restart that keeps  *)
(* a position also keeps it registered.                                    *)
THEOREM HeldIsWatched == Spec => []WatchedWhileHeld
<1>1. TypeInv /\ HoldingInv => WatchedWhileHeld
  BY DEF TypeInv, TypeOK, HoldingInv, AppCoversHolding, WatcherHasApp, WatchedWhileHeld, Exch
<1>2. QED
  BY <1>1, HoldingCorrect, PTL

-----------------------------------------------------------------------------
(* Only a task that has seen the end writes SUCCEEDED. *)
LEMMA SucceededStep ==
    HoldingInv /\ [Next]_vars => (row' = "SUCCEEDED" /\ row # "SUCCEEDED" => Exch = 0)
<1> SUFFICES ASSUME HoldingInv, Next, row' = "SUCCEEDED", row # "SUCCEEDED" PROVE Exch = 0
  BY DEF vars, dbVars
<1> USE DEF HoldingInv, JobKnowsEnd, dbVars
<1>1. CASE JobCloses \/ JobGone
  BY <1>1 DEF JobCloses, JobGone, Exch
<1>2. ~(AskMoves \/ Settle \/ Entering \/ Watching \/ Sweeping)
  BY DEF AskMoves, Settle, Entering, EntryFills, EntryRegisters, EntryCommits,
     Watching, HandlerForgets, HandlerSees, HandlerCounts, HandlerDisarmed,
     Sweeping, SweepRefreshes, SweepAdopts, SweepSyncs, SweepRemoves, SweepTriggers,
     SweepDropsEmpty, SweepCounts, SweepSeesRecovery, SweepRollsBack
<1>3. ~(Crash \/ \E answered \in BOOLEAN : Restart(answered))
  BY DEF Crash, Restart
<1>4. ~(JobMarks \/ JobSkips \/ JobOrderRaises \/ JobRequeues)
  BY DEF JobMarks, JobSkips, JobOrderRaises, JobRequeues, Updated
<1>5. CASE Exiting
  BY <1>1, <1>4, <1>5 DEF Exiting, JobStepFails, JobAttempts, JobMissing, JobSelects, JobDrops,
     JobOrders, JobRecords, JobVerifies, JobExhausts, JobUndoes, JobPurges, JobRollsBack
<1>6. QED
  BY <1>2, <1>3, <1>5 DEF Next

(* The record says SUCCEEDED, which silences every later stop of the       *)
(* ticker, only once the exchange holds none of the contracts.             *)
THEOREM SucceededIsEarned == Spec => SucceededMeansGone
<1>1. HoldingInv /\ [Next]_vars => [row' = "SUCCEEDED" /\ row # "SUCCEEDED" => Exch = 0]_vars
  BY SucceededStep
<1>2. QED
  BY <1>1, HoldingCorrect, PTL DEF Spec, SucceededMeansGone
-----------------------------------------------------------------------------
\* A process that is down has crashed.
DownMeansCrash == ~up => used.crash > 0

(* The row of a held position survives every step that keeps the position. *)
LEMMA DbStep ==
    TypeInv /\ TypeInv' /\ HoldingInv /\ DbKnowsPosition /\ DownMeansCrash /\ [Next]_vars
        => DbKnowsPosition' /\ DownMeansCrash'
<1> SUFFICES ASSUME TypeInv, TypeInv', HoldingInv, DbKnowsPosition, DownMeansCrash, [Next]_vars
             PROVE  DbKnowsPosition' /\ DownMeansCrash'
  OBVIOUS
<1>nat. \A f \in Faults : used[f] \in Nat /\ used'[f] \in Nat
  BY Constants DEF TypeInv, TypeOK
<1>spend. ASSUME NEW f \in Faults, Spend(f)
       PROVE  /\ used'.db >= used.db /\ used'.crash >= used.crash
              /\ f = "db" => used'.db > 0
              /\ f = "crash" => used'.crash > 0
  <2>1. used'[f] = used[f] + 1 /\ \A g \in Faults \ {f} : used'[g] = used[g]
    BY <1>spend, SpendCounts DEF TypeInv, TypeOK
  <2>2. \A g \in Faults : used'[g] >= used[g] /\ (g = f => used'[g] > 0)
    BY <1>nat, <2>1
  <2>3. QED
    BY <2>2 DEF Faults
<1>types. used.db \in Nat /\ used.crash \in Nat /\ used'.db \in Nat /\ used'.crash \in Nat
  BY <1>nat DEF Faults
<1> USE <1>types, Constants DEF DbKnowsPosition, DownMeansCrash, TypeInv, TypeOK, MineWithinLeft,
   HoldingInv, AppCoversHolding, JobKnowsHolding, JobKnowsEnd, AtWork, Exch, Unlisted,
   dbVars, market, memory, tasks
<1>1. CASE AskMoves
  BY <1>1 DEF AskMoves
<1>2. CASE Settle
  BY <1>2 DEF Settle
<1>3. CASE EntryFills
  BY <1>3 DEF EntryFills
<1>4. CASE EntryRegisters
  BY <1>4 DEF EntryRegisters
<1>5. CASE EntryCommits
  BY <1>5, <1>spend DEF EntryCommits, Faults
<1>6. CASE HandlerForgets
  BY <1>6 DEF HandlerForgets
<1>7. CASE HandlerSees
  BY <1>7 DEF HandlerSees
<1>8. CASE HandlerCounts
  BY <1>8, <1>spend DEF HandlerCounts, Faults
<1>9. CASE HandlerDisarmed
  BY <1>9 DEF HandlerDisarmed
<1>10. CASE SweepRefreshes
  BY <1>10 DEF SweepRefreshes
<1>11. CASE SweepAdopts
  BY <1>11, <1>spend DEF SweepAdopts, Faults
<1>12. CASE SweepSyncs
  BY <1>12 DEF SweepSyncs
<1>13. CASE SweepRemoves
  BY <1>13, <1>spend DEF SweepRemoves, Remove, Forget, Faults
<1>14. CASE SweepTriggers
  BY <1>14 DEF SweepTriggers
<1>15. CASE SweepDropsEmpty
  BY <1>15 DEF SweepDropsEmpty
<1>16. CASE SweepCounts
  BY <1>16, <1>spend DEF SweepCounts, Faults
<1>17. CASE SweepSeesRecovery
  BY <1>17 DEF SweepSeesRecovery
<1>18. CASE SweepRollsBack
  BY <1>18, <1>spend DEF SweepRollsBack, Faults
<1>19. ASSUME NEW pc \in JobPcs, JobStepFails(pc) PROVE DbKnowsPosition' /\ DownMeansCrash'
  BY <1>19, <1>spend DEF JobStepFails, Faults
<1>20. CASE JobAttempts
  BY <1>20 DEF JobAttempts
<1>21. CASE JobMissing
  BY <1>21, <1>spend DEF JobMissing, Faults
<1>22. CASE JobSelects
  BY <1>22 DEF JobSelects
<1>23. CASE JobDrops
  BY <1>23 DEF JobDrops, Forget
<1>24. CASE JobMarks
  BY <1>24, <1>spend DEF JobMarks, Faults
<1>25. CASE JobSkips
  BY <1>25 DEF JobSkips
<1>26. CASE JobOrders
  BY <1>26 DEF JobOrders, Least, Managed
<1>27. CASE JobOrderRaises
  BY <1>27, <1>spend DEF JobOrderRaises, Faults
<1>28. CASE JobGone
  BY <1>28 DEF JobGone, Forget
<1>29. CASE JobRecords
  BY <1>29 DEF JobRecords
<1>30. CASE JobVerifies
  BY <1>30, <1>spend DEF JobVerifies, Faults
<1>31. CASE JobCloses
  BY <1>31 DEF JobCloses, Forget
<1>32. CASE JobRequeues
  BY <1>32 DEF JobRequeues, Jobs
<1>33. CASE JobExhausts
  BY <1>33, <1>spend DEF JobExhausts, Faults
<1>34. CASE JobUndoes
  BY <1>34, <1>spend DEF JobUndoes, Faults
<1>35. CASE JobPurges
  BY <1>35 DEF JobPurges
<1>36. CASE JobRollsBack
  BY <1>36, <1>spend DEF JobRollsBack, Faults
<1>37. CASE Crash
  BY <1>37, <1>spend DEF Crash, Faults
<1>38. ASSUME NEW answered \in BOOLEAN, Restart(answered) PROVE DbKnowsPosition' /\ DownMeansCrash'
  BY <1>38 DEF Restart
<1>39. CASE UNCHANGED vars
  BY <1>39 DEF vars
<1>40. CASE Exiting
  BY <1>40, <1>19, <1>20, <1>21, <1>22, <1>23, <1>24, <1>25, <1>26, <1>27, <1>28, <1>29, <1>30, <1>31, <1>32, <1>33, <1>34, <1>35, <1>36 DEF Exiting, JobPcs
<1>41. QED
  BY <1>1, <1>2, <1>3, <1>4, <1>5, <1>6, <1>7, <1>8, <1>9, <1>10, <1>11, <1>12, <1>13, <1>14, <1>15, <1>16, <1>17, <1>18, <1>37, <1>38, <1>39, <1>40 DEF Next, Entering, Watching, Sweeping
(* As long as no write has failed and nothing has crashed, a restart could *)
(* restore every held position from the database alone.                    *)
THEOREM DbKeepsUp == Spec => []DbKnowsPosition
<1>1. Init => DbKnowsPosition /\ DownMeansCrash
  BY DEF Init, DbKnowsPosition, DownMeansCrash
<1>2. QED
  BY <1>1, DbStep, HoldingCorrect, PTL DEF Spec

-----------------------------------------------------------------------------
(* The ledger.  NeverOvercounted is about the only entry, and rests on     *)
(* what the entry found and on who may charge a stop.                      *)

\* Before the first entry nothing has happened to the ticker.
BlankUntilEntry ==
    used.entry = 0 =>
        /\ net = 0 /\ cached = Unlisted
        /\ row = "none" /\ dbQty = 0 /\ count = 0
        /\ ~held /\ watch = 0 /\ ~counted
        /\ entry = "none" /\ handler = "idle" /\ sweep = "idle" /\ job.pc = "idle"

\* A sweep without a price of its own never charges a stop, and the handler
\* charges one that has not been charged.
WatcherCharges ==
    ~SweepHasOwnPrice /\ ~settled =>
        /\ sweep # "counting"
        /\ handler = "counting" => ~counted

\* What NeverOvercounted is about: one entry, no failed write, no crash.
Sole == used.entry <= 1 /\ used.db + used.crash = 0 /\ ~settled

\* Whatever tells the strategy that its only position has gone is right.
GoneIsGone ==
    Sole =>
        /\ cached = 0 => net = 0
        /\ row = "SUCCEEDED" => net = 0
        /\ job.pc \in {"drop", "purge"} => net = 0

\* So contracts that are not in memory were never there.
UnheldIsFresh ==
    Sole /\ net > 0 /\ ~held =>
        /\ count = 0 /\ ~counted
        /\ handler = "idle" /\ sweep = "idle" /\ job.pc = "idle"

\* The count is what has been sold off, and the stop marked as counted.
Mark == IF counted THEN 1 ELSE 0
CountIsMarked ==
    Sole /\ ~SweepHasOwnPrice =>
        /\ count <= stops + Mark
        /\ entry = "filled" => count <= Mark

ChargeInv == BlankUntilEntry /\ WatcherCharges /\ GoneIsGone /\ UnheldIsFresh /\ CountIsMarked

(* Nothing has been charged at the start. *)
LEMMA ChargeInit == Init => ChargeInv
BY NoJobIs DEF Init, ChargeInv, BlankUntilEntry, WatcherCharges, GoneIsGone, UnheldIsFresh,
   CountIsMarked, Mark, Unlisted

(* The budget is only ever spent, and the market settles for good: a       *)
(* history that is sole has been sole all along.                           *)
\* No count of entries or faults goes back.
Grows == \A f \in Faults \cup {"entry"} : used'[f] >= used[f]

LEMMA SoleStep ==
    ASSUME TypeInv, TypeInv', [Next]_vars
    PROVE  Sole' => Sole
<1>0. \A f \in Faults \cup {"entry"} : used[f] \in Nat /\ used'[f] \in Nat
  BY Constants DEF TypeInv, TypeOK
<1>1. settled => settled'
  <2> USE DEF market, TypeInv, TypeOK
  <2>1. CASE AskMoves \/ Settle \/ Entering
    BY <2>1 DEF AskMoves, Settle, Entering, EntryFills, EntryRegisters, EntryCommits
  <2>2. CASE Watching
    BY <2>2 DEF Watching, HandlerForgets, HandlerSees, HandlerCounts, HandlerDisarmed
  <2>3. CASE Sweeping
    BY <2>3 DEF Sweeping, SweepRefreshes, SweepAdopts, SweepSyncs, SweepRemoves,
       SweepTriggers, SweepDropsEmpty, SweepCounts, SweepSeesRecovery, SweepRollsBack
  <2>4. CASE Exiting
    BY <2>4 DEF Exiting, JobStepFails, JobAttempts, JobMissing, JobSelects, JobDrops,
       JobMarks, JobSkips, JobOrders, JobOrderRaises, JobGone, JobRecords, JobVerifies, JobCloses,
       JobRequeues, JobExhausts, JobUndoes, JobPurges, JobRollsBack
  <2>5. CASE Crash \/ \E answered \in BOOLEAN : Restart(answered)
    BY <2>5 DEF Crash, Restart
  <2>6. CASE UNCHANGED vars
    BY <2>6 DEF vars
  <2>7. QED
    BY <2>1, <2>2, <2>3, <2>4, <2>5, <2>6 DEF Next
<1>2. Grows
  <2>1. CASE used' = used
    BY <1>0, <2>1 DEF Grows
  <2>2. ASSUME Spend("db") \/ Spend("verify") \/ Spend("crash") PROVE Grows
    <3>1. PICK f \in Faults : Spend(f)
      BY <2>2 DEF Faults
    <3>2. QED
      BY <1>0, <3>1, SpendCounts DEF TypeInv, TypeOK, Grows
  <2>3. CASE EntryFills
    <3>1. CASE used' = [used EXCEPT !.entry = @ + 1]
      BY <1>0, <3>1 DEF TypeInv, TypeOK, Grows
    <3>2. ASSUME NEW f \in Faults, used' = [used EXCEPT !.entry = @ + 1, ![f] = @ + 1] PROVE Grows
      BY <1>0, <3>2 DEF TypeInv, TypeOK, Grows, Faults
    <3>3. QED
      BY <2>3, <3>1, <3>2 DEF EntryFills, Faults
  <2>4. CASE EntryRegisters \/ EntryCommits \/ Watching
    BY <2>1, <2>2, <2>4 DEF EntryRegisters, EntryCommits,
       Watching, HandlerForgets, HandlerSees, HandlerCounts, HandlerDisarmed
  <2>5. CASE Sweeping
    BY <2>1, <2>2, <2>5 DEF Sweeping, SweepRefreshes, SweepAdopts, SweepSyncs, SweepRemoves, Remove,
       SweepTriggers, SweepDropsEmpty, SweepCounts, SweepSeesRecovery, SweepRollsBack
  <2>6. CASE Exiting
    BY <2>1, <2>2, <2>6 DEF Exiting, JobStepFails, JobAttempts, JobMissing, JobSelects, JobDrops,
       JobMarks, JobSkips, JobOrders, JobOrderRaises, JobGone, JobRecords, JobVerifies, JobCloses,
       JobRequeues, JobExhausts, JobUndoes, JobPurges, JobRollsBack
  <2>7. CASE AskMoves \/ Settle \/ Crash \/ \E answered \in BOOLEAN : Restart(answered)
    BY <2>1, <2>2, <2>7 DEF AskMoves, Settle, Crash, Restart
  <2>8. CASE UNCHANGED vars
    BY <2>1, <2>8 DEF vars
  <2>9. QED
    BY <2>3, <2>4, <2>5, <2>6, <2>7, <2>8 DEF Next, Entering
<1>3. QED
  <2>1. /\ used'.entry >= used.entry /\ used'.db >= used.db /\ used'.crash >= used.crash
        /\ {used.entry, used.db, used.crash, used'.entry, used'.db, used'.crash} \subseteq Nat
    BY <1>0, <1>2 DEF Faults, Grows
  <2>2. QED
    BY <1>1, <2>1 DEF Sole

(* Every step keeps the ledger in line.  Only the handler charges: it sees *)
(* the mark unset, so the count has room.  A mark that goes without its    *)
(* charge (a new bracket) belongs to a position that was never charged.    *)
LEMMA ChargeStep == TypeInv /\ TypeInv' /\ HoldingInv /\ ChargeInv /\ [Next]_vars => ChargeInv'
<1> SUFFICES ASSUME TypeInv, TypeInv', HoldingInv, ChargeInv, [Next]_vars PROVE ChargeInv'
  OBVIOUS
<1>sole. Sole' => Sole
  BY SoleStep
<1>types. /\ used.entry \in Nat /\ used.db \in Nat /\ used.crash \in Nat
          /\ used'.entry \in Nat /\ used'.db \in Nat /\ used'.crash \in Nat
  BY Constants DEF TypeInv, TypeOK, Faults
<1>spend. /\ Sole' => ~Spend("db") /\ ~Spend("crash")
          /\ Spend("db") \/ Spend("crash") \/ Spend("verify") => used'.entry = used.entry
  BY <1>types, SpendCounts DEF TypeInv, TypeOK, Faults, Sole
<1> USE <1>types, <1>sole, Constants DEF ChargeInv, BlankUntilEntry, WatcherCharges, GoneIsGone, UnheldIsFresh,
   CountIsMarked, Mark, Sole, TypeInv, TypeOK, HoldingsAccounted, HoldingInv, AppCoversHolding,
   WatcherHasApp, JobKnowsEnd, DownIsIdle, Exch, Unlisted, JobPcs, dbVars, market, memory, tasks
<1>1. CASE AskMoves
  BY <1>1 DEF AskMoves
<1>2. CASE Settle
  BY <1>2 DEF Settle
<1>3. CASE EntryFills
  <2>1. used'.entry = used.entry + 1
    BY <1>3 DEF EntryFills, Faults
  <2>2. /\ ~held /\ job.pc = "idle" /\ sweep = "idle"
        /\ UNCHANGED <<dbVars, settled, ask, up, memory, cached, handler, sweep, job, stops>>
    BY <1>3 DEF EntryFills, BracketReleased
  <2>3. QED
    BY <2>1, <2>2
<1>4. CASE EntryRegisters
  BY <1>4 DEF EntryRegisters, AppOwned, Least, Register
<1>5. CASE EntryCommits
  BY <1>5, <1>spend DEF EntryCommits
<1>6. CASE HandlerForgets
  BY <1>6 DEF HandlerForgets, HandlerCalled
<1>7. CASE HandlerSees
  BY <1>7, DispatchedIs DEF HandlerSees, HandlerCalled
<1>8. CASE HandlerCounts
  BY <1>8, DispatchedIs, <1>spend DEF HandlerCounts, Incremented, Least
<1>9. CASE HandlerDisarmed
  BY <1>9 DEF HandlerDisarmed
<1>10. CASE SweepRefreshes
  BY <1>10 DEF SweepRefreshes
<1>11. CASE SweepAdopts
  BY <1>11, <1>spend DEF SweepAdopts, AppOwned, Least, Register, BracketReleased
<1>12. CASE SweepSyncs
  BY <1>12 DEF SweepSyncs
<1>13. CASE SweepRemoves
  BY <1>13, <1>spend DEF SweepRemoves, Remove, Forget
<1>14. CASE SweepTriggers
  BY <1>14, DispatchedIs DEF SweepTriggers, Managed, Least
<1>15. CASE SweepDropsEmpty
  BY <1>15 DEF SweepDropsEmpty
<1>16. CASE SweepCounts
  BY <1>16, DispatchedIs, <1>spend DEF SweepCounts, Incremented, Least
<1>17. CASE SweepSeesRecovery
  BY <1>17 DEF SweepSeesRecovery
<1>18. CASE SweepRollsBack
  BY <1>18, <1>spend DEF SweepRollsBack, Decremented
<1>19. ASSUME NEW pc \in JobPcs \ {"idle"}, JobStepFails(pc) PROVE ChargeInv'
  BY <1>19, <1>spend, NextAttemptIs DEF JobStepFails
<1>20. CASE JobAttempts
  BY <1>20, GotoIs DEF JobAttempts, Revalidate
<1>21. CASE JobMissing
  BY <1>21, <1>spend, GotoIs, NoJobIs DEF JobMissing, Revalidate, JobEnds
<1>22. CASE JobSelects
  BY <1>22, GotoIs, NextAttemptIs, NoJobIs DEF JobSelects, Jobs
<1>23. CASE JobDrops
  BY <1>23, GotoIs DEF JobDrops, Forget
<1>24. CASE JobMarks
  BY <1>24, <1>spend, GotoIs DEF JobMarks, Updated
<1>25. CASE JobSkips
  BY <1>25, NextAttemptIs, NoJobIs DEF JobSkips, Updated
<1>26. CASE JobOrders
  <2>1. /\ UNCHANGED <<dbVars, settled, up, memory, cached, entry, handler, sweep, used>>
        /\ job.pc = "order" /\ job'.pc \in {"gone", "record"}
    BY <1>26, GotoIs DEF JobOrders
  <2>2. net' <= net /\ stops' >= stops
    BY <1>26 DEF JobOrders, Least, Managed
  <2>3. {net, net', stops, stops', count} \subseteq Nat
    OBVIOUS
  <2>4. BlankUntilEntry' /\ WatcherCharges' /\ GoneIsGone' /\ UnheldIsFresh'
    BY <2>1, <2>2, <2>3
  <2>5. Mark' = Mark /\ Mark \in Nat
    BY <2>1
  <2>6. CountIsMarked'
    <3>1. SUFFICES ASSUME Sole', ~SweepHasOwnPrice
                   PROVE  count' <= stops' + Mark' /\ (entry' = "filled" => count' <= Mark')
      OBVIOUS
    <3>2. Sole
      BY <3>1
    <3>3. count <= stops + Mark /\ (entry = "filled" => count <= Mark)
      BY <3>1, <3>2
    <3>4. count' = count /\ entry' = entry
      BY <2>1
    <3> HIDE <1>types, <1>sole DEF ChargeInv, TypeInv, HoldingInv, Mark, Sole
    <3>5. QED
      BY <2>2, <2>3, <2>5, <3>3, <3>4
  <2>7. QED
    BY <2>4, <2>6
<1>27. CASE JobOrderRaises
  BY <1>27, <1>spend, NextAttemptIs DEF JobOrderRaises, Updated
<1>28. CASE JobGone
  BY <1>28, GotoIs DEF JobGone, Forget
<1>29. CASE JobRecords
  BY <1>29, GotoIs DEF JobRecords
<1>30. CASE JobVerifies
  <2>1. Exch \in 0..Q /\ AppOwned(Exch) \in 0..Exch /\ Managed \in 0..qty
    BY DEF AppOwned, Managed, Least
  <2>2. job.pc = "verify" /\ job'.pc \in {"close", "requeue"}
    BY <1>30, <2>1, VerdictIs DEF JobVerifies
  <2>3. /\ UNCHANGED <<dbVars, market, up, memory, cached, entry, handler, sweep, stops>>
        /\ used'.entry = used.entry
    BY <1>30, <1>spend DEF JobVerifies
  <2>4. QED
    BY <2>2, <2>3
<1>31. CASE JobCloses
  BY <1>31, NoJobIs DEF JobCloses, Updated, Forget, JobEnds
<1>32. CASE JobRequeues
  BY <1>32, NextAttemptIs, NoJobIs DEF JobRequeues, Updated, RegisterArmed, Register, Least
<1>33. CASE JobExhausts
  <2>1. /\ UNCHANGED <<dbVars, market, up, held, counted, cached, entry, sweep, stops>>
        /\ job.pc = "exhaust" /\ used'.entry = used.entry
    BY <1>33, <1>spend DEF JobExhausts
  <2>2. job'.pc \in {"rollback", "purge", "undo"} /\ (job'.pc = "purge" => app' = 0 /\ qty' > 0)
    BY <1>33, GotoIs DEF JobExhausts
  <2>3. \/ qty' = Exch /\ app' = AppOwned(Exch)
        \/ qty' = qty /\ app' = Managed
    BY <1>33 DEF JobExhausts
  <2>4. app' = 0 /\ qty' > 0 /\ Sole => net = 0
    BY <2>1, <2>3 DEF AppOwned, Managed, Least
  <2>5. handler' = "counting" => handler = "counting"
    BY <1>33 DEF JobExhausts, RegisterArmed, Register
  <2>6. QED
    BY <2>1, <2>2, <2>4, <2>5
<1>34. CASE JobUndoes
  BY <1>34, <1>spend, NoJobIs DEF JobUndoes, Decremented, JobEnds
<1>35. CASE JobPurges
  BY <1>35, NoJobIs DEF JobPurges, Decremented, JobEnds
<1>36. CASE JobRollsBack
  BY <1>36, <1>spend, NoJobIs DEF JobRollsBack, Decremented, JobEnds
<1>37. CASE Crash
  <2>1. ~Sole' /\ used'.entry = used.entry
    <3>1. Spend("crash")
      BY <1>37 DEF Crash
    <3>2. used' \in [Faults \cup {"entry"} -> 0..Budget]
          /\ used'["crash"] = used["crash"] + 1 /\ used'.entry = used.entry
      BY <3>1, SpendCounts DEF Faults
    <3>3. QED
      BY <3>2
  <2>2. BlankUntilEntry' /\ WatcherCharges'
    BY <1>37, <2>1, NoJobIs DEF Crash
  <2>3. GoneIsGone' /\ UnheldIsFresh' /\ CountIsMarked'
    BY <2>1
  <2>4. QED
    BY <2>2, <2>3
<1>38. ASSUME NEW answered \in BOOLEAN, Restart(answered) PROVE ChargeInv'
  BY <1>38 DEF Restart, AppOwned, Least
<1>39. CASE UNCHANGED vars
  BY <1>39 DEF vars
<1>40. CASE Exiting
  BY <1>40, <1>19, <1>20, <1>21, <1>22, <1>23, <1>24, <1>25, <1>26, <1>27, <1>28, <1>29, <1>30, <1>31, <1>32, <1>33, <1>34, <1>35, <1>36 DEF Exiting
<1>41. QED
  BY <1>1, <1>2, <1>3, <1>4, <1>5, <1>6, <1>7, <1>8, <1>9, <1>10, <1>11, <1>12, <1>13, <1>14, <1>15, <1>16, <1>17, <1>18, <1>37, <1>38, <1>39, <1>40 DEF Next, Entering, Watching, Sweeping

(* A position's stop-loss is charged to the ledger once, however often it  *)
(* is noticed, called off and noticed again, as long as the sweep has no   *)
(* price of its own.  (With one it is charged twice: run exit_twice.)      *)
THEOREM ChargedOnce ==
    ASSUME ~SweepHasOwnPrice
    PROVE  Spec => []NeverOvercounted
<1>1. TypeInv /\ ChargeInv => NeverOvercounted
  BY Constants DEF TypeInv, TypeOK, ChargeInv, CountIsMarked, Mark, Sole, NeverOvercounted
<1>2. TypeInv /\ HoldingInv /\ ChargeInv /\ [Next]_vars => (TypeInv /\ HoldingInv /\ ChargeInv)'
  BY TypeStep, HoldingStep, ChargeStep
<1>3. QED
  BY <1>1, <1>2, TypeInit, HoldingInit, ChargeInit, PTL DEF Spec
=============================================================================
