---------------------------- MODULE RestingOrders ----------------------------
(***************************************************************************)
(* execution/sl_backstop.py and execution/profit_take_sell.py: the resting *)
(* sells that lie on the exchange beside a held position, with the code of *)
(* core/state_machine.py that places, cancels and adopts them, and the     *)
(* limit-order calls of execution/live.py.                                 *)
(*                                                                         *)
(* Three tasks of the process use the two managers at once: the entry that *)
(* registers a position, the exit that has to take the orders back before  *)
(* it sells, and the held-position sweep, which also adopts, restores and  *)
(* removes positions.  The exchange fills an order when it likes.          *)
(*                                                                         *)
(* Grain.  One action runs from one await to the next, with one exception: *)
(* the calls a manager makes before it posts (cancel the tracked order,    *)
(* list the book, cancel what is listed) are made under its lock, concern  *)
(* orders nobody else touches, and are one action; a fill between two of   *)
(* them has the same effect as one before.                                 *)
(*                                                                         *)
(* Scope.  LIVE mode, one ticker, every contract bought by the bot, fills  *)
(* and positions are answered when asked for.  An order id of the exchange *)
(* that nobody remembers any more is used again.                           *)
(***************************************************************************)
EXTENDS Integers, FiniteSets, FiniteSetsExt

Kinds == {"bsp", "pts"}    \* APP_BSP_ backstop, APP_PTS_ take-profit
Tasks == {"entry", "exit", "sweep"}

\* reply   the reply to a placement, or to a buy, is lost
\* cancel  a cancel is answered with an error, carried out or not
\* list    the listing of the open orders fails
\* db      a write fails
\* crash   the process dies
Faults == {"reply", "cancel", "list", "db", "crash"}

CONSTANTS
    Q,            \* contracts per entry
    Ids,          \* order ids of a kind: 1..Ids
    Settings,     \* the sets of managers that may be switched on
    Overlapping,  \* the sweep may adopt a fill whose entry is still booking it
    MaxEntries,   \* bound on entries
    FaultKinds,   \* what may go wrong: a subset of Faults
    Budget        \* bound on faults taken together

ASSUME ConstantsAssumption ==
    /\ {Q, Ids, MaxEntries} \subseteq Nat \ {0}
    /\ Settings \subseteq SUBSET Kinds
    /\ Overlapping \in BOOLEAN
    /\ FaultKinds \subseteq Faults
    /\ Budget \in Nat

VARIABLES
    enabled,  \* the managers that are switched on
    \* the exchange
    book,     \* book[k][i]: contracts of order i of kind k still resting
    net,      \* contracts bought minus contracts sold
    \* the database
    row,      \* there is a PositionModel row
    rowId,    \* its sl_backstop_order_id and profit_take_sell_order_id
    \* the process
    up,       \* "down", "restoring" or "running"
    held,     \* the ticker is in active_positions
    qty,      \* the app-owned part of its quantity
    tracked,  \* tracked[k]: _order_ids of manager k, 0 for no order
    lock,     \* lock[k]: the task that holds manager k's lock
    task,     \* where each task stands
    checking, \* the order id whose status check_fill waits for, by kind
    \* ghosts
    used,     \* faults so far
    entries   \* entries so far

exchange == <<book, net>>
database == <<row, rowId>>
process == <<up, held, qty, tracked, lock, task, checking>>
vars == <<enabled, exchange, database, process, used, entries>>

Nobody == "nobody"
Order == 0..Ids            \* 0 for none
Pcs == {"idle", "bought", "clear", "post", "save", "commit", "cancel", "unsave",
        "sell", "verify", "delete", "requeue", "erase", "again", "run"}

NoTask == [pc |-> "idle", kind |-> "bsp", n |-> 0, id |-> 0, then |-> "idle"]

TypeOK ==
    /\ enabled \in Settings
    /\ book \in [Kinds -> [1..Ids -> 0..Q]]
    /\ net \in Int
    /\ row \in BOOLEAN
    /\ rowId \in [Kinds -> Order]
    /\ up \in {"down", "restoring", "running"}
    /\ held \in BOOLEAN
    /\ qty \in 0..(Q * MaxEntries)
    /\ tracked \in [Kinds -> Order]
    /\ lock \in [Kinds -> Tasks \cup {Nobody}]
    /\ task \in [Tasks -> [pc : Pcs, kind : Kinds, n : 0..(Q * MaxEntries), id : Order, then : Pcs]]
    /\ checking \in [Kinds -> Order]
    /\ used \in [Faults -> 0..Budget]
    /\ entries \in 0..MaxEntries

Init ==
    /\ enabled \in Settings
    /\ book = [k \in Kinds |-> [i \in 1..Ids |-> 0]] /\ net = 0
    /\ row = FALSE /\ rowId = [k \in Kinds |-> 0]
    /\ up = "running" /\ held = FALSE /\ qty = 0
    /\ tracked = [k \in Kinds |-> 0]
    /\ lock = [k \in Kinds |-> Nobody]
    /\ task = [t \in Tasks |-> NoTask]
    /\ checking = [k \in Kinds |-> 0]
    /\ used = [f \in Faults |-> 0] /\ entries = 0

-----------------------------------------------------------------------------
(* Faults, and what the exchange answers *)

Spent == used.reply + used.cancel + used.list + used.db + used.crash
SpendMany(f, n) ==
    /\ n = 0 \/ f \in FaultKinds
    /\ Spent + n <= Budget
    /\ used' = [used EXCEPT ![f] = @ + n]
Spend(f) == SpendMany(f, 1)
NoFault == UNCHANGED used

\* A slip: a negative position is passed on.
ListedAsIs == net

Listed == IF net > 0 THEN net ELSE 0          \* get_positions
Open(k) == {i \in 1..Ids : book[k][i] > 0}    \* list_open_sell_orders, by prefix
Gone(k, i) == book[k][i] = 0                  \* filled, cancelled or not found

\* cancel_order of the orders in S: a gone one is answered 404, a success.
Without(k, S) == [book EXCEPT ![k] = [i \in 1..Ids |-> IF i \in S THEN 0 ELSE @[i]]]

\* The ids of kind k that nothing refers to, one of which the exchange hands out.
Fresh(k) ==
    (1..Ids) \ (Open(k) \cup {tracked[k], rowId[k], checking[k]}
                  \cup {task[t].id : t \in {u \in Tasks : task[u].kind = k}})
NewId(k) == Min(Fresh(k))

-----------------------------------------------------------------------------
(* Moving a task on.  _place_sl_backstop and _cancel_sl_backstop go over    *)
(* the managers that are on, the backstop's first, and then return to their *)
(* caller, which goes on at `then`.                                         *)

First == IF "bsp" \in enabled THEN "bsp" ELSE "pts"
IsLast(k) == k = "pts" \/ "pts" \notin enabled

Step(t, pc) == task' = [task EXCEPT ![t].pc = pc] /\ UNCHANGED lock
End(t) == task' = [task EXCEPT ![t] = NoTask] /\ UNCHANGED lock

\* place takes the manager's lock without an await if it is free.
Enters(t, pc, k, locks) ==
    lock' = IF pc = "clear" /\ locks[k] = Nobody THEN [locks EXCEPT ![k] = t] ELSE locks

Begin(t, pc, n, then) ==
    IF pc = "clear" /\ n = 0
    THEN task' = [task EXCEPT ![t] = [NoTask EXCEPT !.pc = then]] /\ UNCHANGED lock
    ELSE /\ task' = [task EXCEPT ![t] = [pc |-> pc, kind |-> First, n |-> n, id |-> 0, then |-> then]]
         /\ Enters(t, pc, First, lock)

Placing(t, n, then) == Begin(t, "clear", n, then)
Cancelling(t, n, then) == Begin(t, "cancel", n, then)

Unlocked(t) == [k \in Kinds |-> IF lock[k] = t THEN Nobody ELSE lock[k]]
Returns(t) ==
    /\ task' = [task EXCEPT ![t] = [NoTask EXCEPT !.pc = task[t].then, !.n = task[t].n]]
    /\ lock' = Unlocked(t)

\* On to the next manager, or back to the caller; the lock is released.
NextManager(t, pc) ==
    IF IsLast(task[t].kind)
    THEN Returns(t)
    ELSE /\ task' = [task EXCEPT ![t].pc = pc, ![t].kind = "pts", ![t].id = 0]
         /\ Enters(t, pc, "pts", Unlocked(t))

At(t, pc) == up # "down" /\ task[t].pc = pc

-----------------------------------------------------------------------------
(* place *)

\* The tracked order cannot be confirmed cancelled: place gives up and keeps
\* the id.
PlaceGivesUp(t, done) ==
    LET k == task[t].kind IN
    /\ At(t, "clear") /\ lock[k] \in {t, Nobody}
    /\ tracked[k] # 0
    /\ Spend("cancel")
    /\ book' = IF done THEN Without(k, {tracked[k]}) ELSE book
    /\ NextManager(t, "clear")
    /\ UNCHANGED <<enabled, net, database, up, held, qty, tracked, checking, entries>>

\* The tracked order is cancelled (or gone already), the book is listed and
\* what is listed is cancelled, as far as it goes: `left` are the orders that
\* survive, one for each cancel that fails, or all of them when the listing
\* fails, which reads as an empty one.  Another listing may fail after it.
Others(k) == Open(k) \ {tracked[k]}

\* A slip: only the tracked order is cancelled.
ReconcilesTracked(k, left, lists, again) ==
    /\ left = Others(k) /\ lists = 0 /\ again = 0
    /\ NoFault
    /\ book' = Without(k, {tracked[k]} \ {0})
    /\ tracked' = [tracked EXCEPT ![k] = 0]

Reconciles(k, left, lists, again) ==
    LET cancels == IF lists = 1 THEN 0 ELSE Cardinality(left) IN
    /\ left \subseteq Others(k)
    /\ lists = 1 => left = Others(k)
    /\ cancels > 0 => "cancel" \in FaultKinds
    /\ lists + again > 0 => "list" \in FaultKinds
    /\ Spent + cancels + lists + again <= Budget
    /\ used' = [used EXCEPT !.cancel = @ + cancels, !.list = @ + lists + again]
    /\ book' = Without(k, Open(k) \ left)
    /\ tracked' = [tracked EXCEPT ![k] = 0]

\* A slip: the second listing is not looked at.
Unverified(k, left, again) == TRUE

\* The take-profit's manager lists the book again before it posts, and gives
\* up when the listing shows an order.
Verified(k, left, again) == k = "pts" => left = {} \/ again = 1

PlaceClears(t, left, lists, again) ==
    LET k == task[t].kind IN
    /\ At(t, "clear") /\ lock[k] \in {t, Nobody}
    /\ again = 1 => k = "pts"
    /\ Reconciles(k, left, lists, again)
    /\ IF Verified(k, left, again)
       THEN task' = [task EXCEPT ![t].pc = "post"] /\ lock' = [lock EXCEPT ![k] = t]
       ELSE NextManager(t, "clear")
    /\ UNCHANGED <<enabled, net, database, up, held, qty, checking, entries>>

\* place_limit_sell.  A lost reply is an order nobody tracks.
PlacePosts(t, reply) ==
    LET k == task[t].kind
        i == NewId(k) IN
    /\ At(t, "post")
    /\ reply # "refused" => Fresh(k) # {}
    /\ \/ /\ reply = "resting" /\ NoFault
          /\ book' = [book EXCEPT ![k][i] = Min({task[t].n, Q})]
          /\ tracked' = [tracked EXCEPT ![k] = i]
          /\ task' = [task EXCEPT ![t].pc = "save", ![t].id = i]
          /\ lock' = Unlocked(t)
       \/ /\ reply = "lost" /\ Spend("reply")
          /\ book' = [book EXCEPT ![k][i] = Min({task[t].n, Q})]
          /\ UNCHANGED tracked /\ NextManager(t, "clear")
       \/ /\ reply = "refused" /\ NoFault
          /\ UNCHANGED <<book, tracked>> /\ NextManager(t, "clear")
    /\ UNCHANGED <<enabled, net, database, up, held, qty, checking, entries>>

\* _persist_backstop_order_id, _persist_profit_take_order_id: best effort,
\* and without effect when there is no row.
Persisted(k, i) == IF row THEN [rowId EXCEPT ![k] = i] ELSE rowId

PlaceSaves(t, written) ==
    LET k == task[t].kind IN
    /\ At(t, "save")
    /\ IF written THEN NoFault /\ rowId' = Persisted(k, task[t].id)
                  ELSE Spend("db") /\ UNCHANGED rowId
    /\ NextManager(t, "clear")
    /\ UNCHANGED <<enabled, exchange, row, up, held, qty, tracked, checking, entries>>

-----------------------------------------------------------------------------
(* cancel *)

CancelSucceeds(t, left, lists) ==
    LET k == task[t].kind IN
    /\ At(t, "cancel") /\ lock[k] = Nobody
    /\ Reconciles(k, left, lists, 0)
    /\ Step(t, "unsave")
    /\ UNCHANGED <<enabled, net, database, up, held, qty, checking, entries>>

\* It fails: the listing that follows may still reach the order, but the id
\* is kept, False is returned and the other manager is not asked.
CancelFails(t, lists, again) ==
    LET k == task[t].kind IN
    /\ At(t, "cancel") /\ lock[k] = Nobody
    /\ tracked[k] # 0
    /\ "cancel" \in FaultKinds /\ (lists > 0 => "list" \in FaultKinds)
    /\ Spent + 1 + lists + again <= Budget
    /\ used' = [used EXCEPT !.cancel = @ + 1 + again, !.list = @ + lists]
    /\ book' = IF lists > 0 THEN book
               ELSE Without(k, Open(k) \ (IF again > 0 THEN {tracked[k]} ELSE {}))
    /\ Returns(t)
    /\ UNCHANGED <<enabled, net, database, up, held, qty, tracked, checking, entries>>

CancelSaves(t, written) ==
    LET k == task[t].kind IN
    /\ At(t, "unsave")
    /\ IF written THEN NoFault /\ rowId' = Persisted(k, 0)
                  ELSE Spend("db") /\ UNCHANGED rowId
    /\ NextManager(t, "cancel")
    /\ UNCHANGED <<enabled, exchange, row, up, held, qty, tracked, checking, entries>>

-----------------------------------------------------------------------------
(* The entry *)

\* Scope: the ticker is bought again only when no task is left over from the
\* position before.
EntryBuys ==
    /\ up = "running" /\ task = [t \in Tasks |-> NoTask] /\ ~held
    /\ entries < MaxEntries /\ net = 0
    /\ entries' = entries + 1
    /\ net' = net + Q
    /\ Step("entry", "bought")
    /\ UNCHANGED <<enabled, book, database, up, held, qty, tracked, checking, used>>

\* The fill is noticed: the position is registered and its orders placed; the
\* row is written afterwards.  A lost reply reads as a rejection.
EntryRegisters(lost) ==
    /\ At("entry", "bought")
    /\ IF lost
       THEN /\ Spend("reply") /\ Step("entry", "idle")
            /\ UNCHANGED <<held, qty>>
       ELSE /\ NoFault /\ held' = TRUE /\ qty' = Listed
            /\ Placing("entry", Listed, "commit")
    /\ UNCHANGED <<enabled, exchange, database, up, tracked, checking, entries>>

\* The position's row, with the ids tracked by now (also after an adoption).
Commits(t, written) ==
    /\ At(t, "commit")
    /\ IF written THEN NoFault /\ row' = TRUE /\ rowId' = tracked
                  ELSE Spend("db") /\ UNCHANGED database
    /\ End(t)
    /\ UNCHANGED <<enabled, exchange, up, held, qty, tracked, checking, entries>>

-----------------------------------------------------------------------------
(* The exit *)

\* A slip: the exit sells without taking the resting orders back.
ExitStartsAtOnce ==
    /\ up = "running" /\ task["exit"].pc = "idle"
    /\ held /\ qty > 0
    /\ task' = [task EXCEPT !["exit"] = [NoTask EXCEPT !.pc = "sell", !.n = qty]]
    /\ UNCHANGED <<enabled, exchange, database, up, held, qty, tracked, lock, checking, used, entries>>

ExitStarts ==
    /\ up = "running" /\ task["exit"].pc = "idle"
    /\ held /\ qty > 0
    /\ Cancelling("exit", qty, "sell")
    /\ UNCHANGED <<enabled, exchange, database, up, held, qty, tracked, checking, used, entries>>

\* An immediate-or-cancel, reduce-only sell, whatever the cancel returned.
ExitSells(n) ==
    /\ At("exit", "sell")
    /\ n <= task["exit"].n /\ n <= Listed
    /\ net' = net - n
    /\ Step("exit", "verify")
    /\ UNCHANGED <<enabled, book, database, up, held, qty, tracked, checking, used, entries>>

ExitVerifies ==
    /\ At("exit", "verify")
    /\ task' = [task EXCEPT !["exit"].pc = IF Listed = 0 THEN "delete" ELSE "requeue",
                            !["exit"].n = Listed]
    /\ UNCHANGED <<enabled, exchange, database, up, held, qty, tracked, lock, checking, used, entries>>

\* A write that fails is retried by a later attempt.
ExitWriteFails ==
    /\ At("exit", "delete") \/ At("exit", "requeue")
    /\ Spend("db")
    /\ End("exit")
    /\ UNCHANGED <<enabled, exchange, database, up, held, qty, tracked, checking, entries>>

ExitCloses ==
    /\ At("exit", "delete")
    /\ row' = FALSE /\ rowId' = [k \in Kinds |-> 0]
    /\ held' = FALSE /\ qty' = 0
    /\ Cancelling("exit", 0, "idle")
    /\ UNCHANGED <<enabled, exchange, up, tracked, checking, used, entries>>

ExitRequeues ==
    /\ At("exit", "requeue")
    /\ qty' = task["exit"].n
    /\ Placing("exit", task["exit"].n, "idle")
    /\ UNCHANGED <<enabled, exchange, database, up, held, tracked, checking, used, entries>>

-----------------------------------------------------------------------------
(* The held-position sweep *)

SweepIdle == up = "running" /\ task["sweep"].pc = "idle" /\ checking = [k \in Kinds |-> 0]

SweepAdopts ==
    /\ SweepIdle /\ ~held /\ net > 0
    /\ Overlapping \/ task["entry"].pc = "idle"
    /\ held' = TRUE /\ qty' = Listed
    /\ Placing("sweep", Listed, "commit")
    /\ UNCHANGED <<enabled, exchange, database, up, tracked, checking, used, entries>>

\* _reconcile_resting_exit_orders: check_fill takes no lock.
SweepAsks(k) ==
    /\ SweepIdle /\ held /\ k \in enabled /\ tracked[k] # 0
    /\ checking' = [checking EXCEPT ![k] = tracked[k]]
    /\ UNCHANGED <<enabled, exchange, database, up, held, qty, tracked, lock, task, used, entries>>

\* A slip: gone orders are not recognised.
AnswersNever(k) == FALSE

AnswersGone(k) == Gone(k, checking[k])

\* The answer is about the id that was asked for; what is dropped is the id
\* tracked by now.
SweepHears(k) ==
    /\ up = "running" /\ checking[k] # 0
    /\ checking' = [checking EXCEPT ![k] = 0]
    /\ IF AnswersGone(k)
       THEN /\ tracked' = [tracked EXCEPT ![k] = 0]
            /\ rowId' = Persisted(k, 0)
       ELSE UNCHANGED <<tracked, rowId>>
    /\ UNCHANGED <<enabled, exchange, row, up, held, qty, lock, task, used, entries>>

\* The quantity follows the listing, unless the listing says zero.
SweepSyncs ==
    /\ SweepIdle /\ held /\ net # 0 /\ qty # Listed
    /\ qty' = Listed
    /\ UNCHANGED <<enabled, exchange, database, up, held, tracked, lock, task, checking, used, entries>>

\* _remove_active_position
SweepRemoves ==
    /\ SweepIdle /\ held /\ net = 0
    /\ held' = FALSE /\ qty' = 0
    /\ Cancelling("sweep", 0, "erase")
    /\ UNCHANGED <<enabled, exchange, database, up, tracked, checking, used, entries>>

SweepErases(written) ==
    /\ At("sweep", "erase")
    /\ IF written THEN NoFault /\ row' = FALSE /\ rowId' = [k \in Kinds |-> 0]
                  ELSE Spend("db") /\ UNCHANGED database
    /\ End("sweep")
    /\ UNCHANGED <<enabled, exchange, up, held, qty, tracked, checking, entries>>

-----------------------------------------------------------------------------
(* Crash, restart, fills *)

Crash ==
    /\ up # "down" /\ Spend("crash")
    /\ up' = "down" /\ held' = FALSE /\ qty' = 0
    /\ tracked' = [k \in Kinds |-> 0]
    /\ lock' = [k \in Kinds |-> Nobody]
    /\ task' = [t \in Tasks |-> NoTask]
    /\ checking' = [k \in Kinds |-> 0]
    /\ UNCHANGED <<enabled, exchange, database, entries>>

\* _restore_positions: what the exchange lists, with the row's ids, and then
\* once more what the rows say, which places the orders a second time.  The
\* lookup of the positions may fail; then the rows alone count.
Restart(answered) ==
    LET live == answered /\ net > 0 IN
    /\ up = "down"
    /\ up' = "restoring"
    /\ held' = (live \/ row) /\ qty' = IF live \/ row THEN Listed ELSE 0
    /\ tracked' = [k \in Kinds |-> IF row /\ k \in enabled THEN rowId[k] ELSE 0]
    /\ IF live \/ row THEN Placing("sweep", Listed, IF live /\ row THEN "again" ELSE "run")
                      ELSE Step("sweep", "run")
    /\ UNCHANGED <<enabled, exchange, database, checking, used, entries>>

RestoresAgain ==
    /\ At("sweep", "again")
    /\ qty' = Listed
    /\ Placing("sweep", Listed, "run")
    /\ UNCHANGED <<enabled, exchange, database, up, held, tracked, checking, used, entries>>

Restored ==
    /\ At("sweep", "run")
    /\ up' = "running"
    /\ End("sweep")
    /\ UNCHANGED <<enabled, exchange, database, held, qty, tracked, checking, used, entries>>

\* Somebody buys from a resting order; the exchange does not ask whether the
\* contracts are there, the orders are not reduce-only.
Fill(k, i, n) ==
    /\ n \in 1..book[k][i]
    /\ book' = [book EXCEPT ![k][i] = @ - n]
    /\ net' = net - n
    /\ UNCHANGED <<enabled, database, process, used, entries>>

-----------------------------------------------------------------------------
Place(t) ==
    \/ \E done \in BOOLEAN : PlaceGivesUp(t, done)
    \/ \E left \in SUBSET (1..Ids), lists, again \in 0..1 :
           PlaceClears(t, left, lists, again)
    \/ \E reply \in {"resting", "lost", "refused"} : PlacePosts(t, reply)
    \/ \E written \in BOOLEAN : PlaceSaves(t, written)

Cancel(t) ==
    \/ \E left \in SUBSET (1..Ids), lists \in 0..1 : CancelSucceeds(t, left, lists)
    \/ \E lists, again \in 0..1 : CancelFails(t, lists, again)
    \/ \E written \in BOOLEAN : CancelSaves(t, written)

Entry == EntryBuys \/ \E b \in BOOLEAN : EntryRegisters(b) \/ Commits("entry", b)

Exit ==
    \/ ExitStarts \/ (\E n \in 0..Q : ExitSells(n)) \/ ExitVerifies
    \/ ExitWriteFails \/ ExitCloses \/ ExitRequeues

Sweep ==
    \/ SweepAdopts \/ SweepSyncs \/ SweepRemoves
    \/ \E k \in Kinds : SweepAsks(k) \/ SweepHears(k)
    \/ \E b \in BOOLEAN : SweepErases(b) \/ Commits("sweep", b)

Process ==
    \/ \E t \in Tasks : Place(t) \/ Cancel(t)
    \/ Entry \/ Exit \/ Sweep
    \/ (\E answered \in BOOLEAN : Restart(answered)) \/ RestoresAgain \/ Restored

Next ==
    \/ Process \/ Crash
    \/ \E k \in Kinds, i \in 1..Ids, n \in 1..Q : Fill(k, i, n)

Spec == Init /\ [][Next]_vars

\* The sweep comes round to each manager in every pass, its calls are
\* answered.  Nothing is assumed of the market, the entries and the exits.
Fairness ==
    /\ \A k \in Kinds : SF_vars(SweepAsks(k)) /\ WF_vars(SweepHears(k))
    /\ WF_vars(Place("sweep")) /\ WF_vars(Cancel("sweep"))
    /\ WF_vars(\E b \in BOOLEAN : SweepErases(b) \/ Commits("sweep", b))

FairSpec == Spec /\ Fairness

-----------------------------------------------------------------------------
(* Properties *)

Failures == used.cancel + used.list
Untroubled == Failures + used.crash = 0

\* A backstop is replaced, also after lost replies, restarts and ids that
\* went stale, without leaving the old one on the book: every order beyond
\* the first has cost a failed cancel or a failed listing (SlBackstopManager.
\* place goes on after either).
StackedBackstop == Cardinality(Open("bsp")) <= 1 + Failures

\* The take-profit's manager looks at the book a second time before it posts:
\* every order beyond the first has cost a failed listing at the second look
\* and another failure before it.  (That a listing which fails reads as an
\* empty book is all that stands between the code and its "STRICT DEDUP".)
StackedTakeProfit ==
    LET stacked == Cardinality(Open("pts")) - 1
    IN  stacked <= used.list /\ 2 * stacked <= Failures

\* With one manager on, no crash and no failed cancel or listing, resting
\* sells and the exit's own sells together never sell more than is held,
\* whatever replies and writes are lost and wherever a fill comes between.
NeverOversold == Untroubled => net >= 0

Quiet == up = "running" /\ task = [t \in Tasks |-> NoTask]

\* Once a position is closed and no task is on its way, nothing of it is left
\* on the book that could sell contracts nobody holds ("guarantees no
\* lingering pending sell survives a position close").
NoLingeringSell ==
    Untroubled /\ Quiet /\ ~held /\ net <= 0 => \A k \in Kinds : Open(k) = {}

Stale(k) == up = "running" /\ held /\ tracked[k] # 0 /\ Gone(k, tracked[k])
SomeStale == \E k \in Kinds : Stale(k)

\* An id whose order is gone does not stay with the manager of a held
\* position, where it would be cancelled in place of the live order.
StaleIdIsDropped == SomeStale ~> ~SomeStale
=============================================================================
