------------------------------- MODULE Chaser -------------------------------
(***************************************************************************)
(* The partial-fill chaser of core/state_machine.py: an entry that filled  *)
(* only in part leaves behind a task that works one resting buy for the    *)
(* rest, re-pegs it when the bid moves, and counts what it fills, while    *)
(* the held-position sweep keeps the same quantity in step with the        *)
(* exchange and the stop-loss exit may sell the position at any time.      *)
(*                                                                         *)
(* Grain.  One action of the chaser runs from one await to the next; the   *)
(* bookkeeping of a fill (_chase_apply_fill) belongs to the step that      *)
(* counts it, and a poll that asks for every open order is one step.       *)
(*                                                                         *)
(* Scope.  One ticker, whose next entry comes after its last chaser ended. *)
(* The falling-knife check of the loop reads yes_asks of the cached book,  *)
(* which the feed never fills, so it ends nothing here.  The duration      *)
(* limit ends a chase the way a closed gate does.                          *)
(***************************************************************************)
EXTENDS Integers, FiniteSets, FiniteSetsExt

CONSTANTS
    Target,     \* INITIAL_CONTRACT_COUNT
    Cap,        \* the most a position may hold: hedge_policy's third result
    Bids,       \* price levels of a bid; the largest is the ceiling
    Ids,        \* order ids: 1..Ids
    MaxPlaced,  \* bound on placements
    MaxEntries, \* bound on entries
    FaultKinds, \* what may go wrong
    Budget      \* bound on faults

\* reply   the reply to a placement is lost
\* cancel  a cancel fails
\* list    a listing of the open orders fails
\* crash   the process dies
Faults == {"reply", "cancel", "list", "crash"}

\* late     an order filled where the chaser does not look any more: after
\*          its last poll and before its next placement, or to the end
\* twice    a fill was counted that the position already showed, or on a
\*          position already closed
\* inflight the chaser was cancelled while a placement was on its way
Causes == {"late", "twice", "inflight"}

ASSUME ConstantsAssumption ==
    /\ {Target, Cap, Ids, MaxPlaced, MaxEntries} \subseteq Nat \ {0}
    /\ Cap >= Target
    /\ Bids \subseteq Nat \ {0} /\ Bids # {}
    /\ FaultKinds \subseteq Faults
    /\ Budget \in Nat

VARIABLES
    net,      \* contracts held on the exchange
    orders,   \* orders[i]: price, what still rests and what is filled
    up,       \* the process runs
    held,     \* the ticker is in active_positions
    qty,      \* bracket.position_quantity
    chaser,   \* the chaser task and its local variables
    exit,     \* "idle", "await" (the chaser's end), "sell" or "verify"
    causes,   \* ghost: the causes met so far
    used,     \* ghost: faults so far
    placed,   \* ghost: placements so far
    entries   \* ghost: entries so far

exchange == <<net, orders>>
position == <<up, held, qty>>
ghosts == <<causes, used, placed, entries>>
vars == <<exchange, position, chaser, exit, ghosts>>

NoOrder == [price |-> 0, rest |-> 0, filled |-> 0]

\* n: remaining   id: resting_order_id   last: last_known_fill_qty
\* bid, size: what is to be placed   old: the order to be replaced
\* closed: the phase of its bracket is CLOSED
NoChaser == [pc |-> "idle", n |-> 0, id |-> 0, last |-> 0, bid |-> 0, size |-> 0,
             old |-> 0, closed |-> FALSE]

TypeOK ==
    /\ net \in Nat
    /\ orders \in [1..Ids -> [price : Bids \cup {0}, rest : 0..Target, filled : 0..Target]]
    /\ up \in BOOLEAN /\ held \in BOOLEAN
    /\ qty \in Nat
    /\ chaser \in [pc : {"idle", "gate", "skip", "list", "cancel", "harvest", "place",
                         "sleep", "stop"},
                   n : 0..Target, id : 0..Ids, last : Nat, bid : Bids \cup {0},
                   size : 0..Target, old : 0..Ids, closed : BOOLEAN]
    /\ exit \in {"idle", "await", "sell", "verify"}
    /\ causes \subseteq Causes
    /\ used \in [Faults -> 0..Budget]
    /\ placed \in 0..MaxPlaced /\ entries \in 0..MaxEntries

Init ==
    /\ net = 0 /\ orders = [i \in 1..Ids |-> NoOrder]
    /\ up = TRUE /\ held = FALSE /\ qty = 0
    /\ chaser = NoChaser /\ exit = "idle"
    /\ causes = {} /\ used = [f \in Faults |-> 0]
    /\ placed = 0 /\ entries = 0

-----------------------------------------------------------------------------
Spent == used.reply + used.cancel + used.list + used.crash
Spend(f) ==
    /\ f \in FaultKinds /\ Spent < Budget
    /\ used' = [used EXCEPT ![f] = @ + 1]

\* A call that is answered, or one that fails with fault f.
Answered(ok, f) == IF ok THEN UNCHANGED used ELSE Spend(f)

Open == {i \in 1..Ids : orders[i].rest > 0}
Working == MapThenSumSet(LAMBDA i : orders[i].rest, Open)
FilledBy(s) == MapThenSumSet(LAMBDA i : orders[i].filled, s)
Listing(ok) == IF ok THEN Open ELSE {}       \* a failed listing reads as empty
Without(i) == [orders EXCEPT ![i].rest = 0]  \* cancel_order
Plus(n) == IF n > 0 THEN n ELSE 0
Lower(a, b) == IF a < b THEN a ELSE b

\* Ids of orders nobody will ask about again are used again.
Forgotten == {i \in 1..Ids : orders[i].rest = 0 /\ i \notin {chaser.id, chaser.old}}
Running == chaser.pc # "idle"

\* A slip: the chaser ends and leaves its order behind.
StoppedAtOnce(c) == NoChaser

\* What the chaser does when it ends early: cancel the order it remembers.
Stopped(c) == IF c.id # 0 THEN [c EXCEPT !.pc = "stop"] ELSE NoChaser

\* Slips: the end of the position is not looked at, or how much it holds.
TopUnclamped(c, q) ==
    IF c.closed THEN Stopped(c) ELSE [c EXCEPT !.pc = "gate", !.n = Target - q, !.old = 0]
TopRegardless(c, q) ==
    IF Target <= q THEN Stopped(c) ELSE [c EXCEPT !.pc = "gate", !.n = Target - q]

\* The head of the loop, up to the question whether the gate is open.
Top(c, q) ==
    IF c.closed \/ Target <= q THEN Stopped(c)
    ELSE [c EXCEPT !.pc = "gate", !.n = Target - q, !.old = 0]

\* A fill is counted on the position the chaser belongs to.
Counted(c, n) == IF c.closed THEN qty ELSE qty + n
Seen(c, n) == IF n > 0 /\ (c.closed \/ qty + n > net) THEN {"twice"} ELSE {}

-----------------------------------------------------------------------------
(* The entry, the market, the sweep *)

\* An immediate-or-cancel entry; what it lacks is left to a chaser.
Enter(n) ==
    /\ up /\ ~held /\ ~Running /\ exit = "idle" /\ net = 0
    /\ entries < MaxEntries /\ entries' = entries + 1
    /\ net' = n /\ held' = TRUE /\ qty' = n
    /\ chaser' = Top(NoChaser, n)
    /\ UNCHANGED <<orders, up, exit, causes, used, placed>>

\* Between its last poll and its next placement the chaser does not look; nor
\* does a poll see an order that is filled to the end.
Unlooked(i, n) ==
    \/ chaser.pc \in {"gate", "skip", "list", "cancel", "harvest", "place"}
    \/ chaser.pc = "sleep" /\ n = orders[i].rest

Fill(i, n) ==
    /\ n \in 1..orders[i].rest
    /\ net' = net + n
    /\ orders' = [orders EXCEPT ![i].rest = @ - n, ![i].filled = @ + n]
    /\ causes' = causes \cup IF Unlooked(i, n) THEN {"late"} ELSE {}
    /\ UNCHANGED <<position, chaser, exit, used, placed, entries>>

\* The position is sold by another order, or settles.
SoldElsewhere ==
    /\ net > 0
    /\ net' = 0
    /\ UNCHANGED <<orders, position, chaser, exit, ghosts>>

\* The phase of the bracket becomes CLOSED.
Closed(c) == IF c.pc = "idle" THEN c ELSE [c EXCEPT !.closed = TRUE]

SweepSyncs ==
    /\ up /\ held /\ net > 0 /\ qty # net
    /\ qty' = net
    /\ UNCHANGED <<exchange, up, held, chaser, exit, ghosts>>

SweepRemoves ==
    /\ up /\ held /\ net = 0 /\ exit = "idle"
    /\ held' = FALSE /\ qty' = 0 /\ chaser' = Closed(chaser)
    /\ UNCHANGED <<exchange, up, exit, ghosts>>

SweepAdopts ==
    /\ up /\ ~held /\ net > 0
    /\ held' = TRUE /\ qty' = net
    /\ UNCHANGED <<exchange, up, chaser, exit, ghosts>>

-----------------------------------------------------------------------------
(* _partial_fill_chase_loop *)

\* The gate answers; then the price and the size of the bid are chosen.  A
\* cycle without a bid in the cache is slept away.
Gate(open) ==
    /\ chaser.pc = "gate"
    /\ \/ /\ ~open \/ Cap <= qty
          /\ chaser' = Stopped(chaser)
       \/ /\ open
          /\ chaser' = [chaser EXCEPT !.pc = "skip"]
       \/ /\ open /\ Cap > qty
          /\ \E b \in Bids :
                chaser' = [chaser EXCEPT !.pc = "list", !.bid = b,
                                         !.size = Lower(chaser.n, Cap - qty)]
    /\ UNCHANGED <<exchange, position, exit, ghosts>>

Skip ==
    /\ chaser.pc = "skip"
    /\ chaser' = Top(chaser, qty)
    /\ UNCHANGED <<exchange, position, exit, ghosts>>

\* Slips: only the remembered order is looked for, or none is taken back.
FindsRemembered(found) == IF chaser.id \in found THEN "sleep" ELSE "place"
FindsLower(found) ==
    IF \A i \in found : orders[i].price < chaser.bid THEN "place" ELSE "sleep"

\* The best of the orders found decides: keep it, replace it, or place one.
Finds(found) ==
    IF found = {} THEN "place"
    ELSE IF chaser.bid > Max({orders[i].price : i \in found}) THEN "cancel" ELSE "sleep"

\* The open orders of the ticker are listed and one of them remembered.
Lists(ok) ==
    LET found == Listing(ok) IN
    /\ chaser.pc = "list" /\ Answered(ok, "list")
    /\ \E i \in IF found = {} THEN {chaser.id} ELSE found,
          best \in {j \in found : \A k \in found : orders[k].price <= orders[j].price}
                     \cup IF found = {} THEN {0} ELSE {} :
           chaser' = [chaser EXCEPT !.pc = Finds(found), !.id = i,
                                    !.old = IF Finds(found) = "cancel" THEN best ELSE 0]
    /\ UNCHANGED <<exchange, position, exit, causes, placed, entries>>

\* Whether or not the cancel succeeds, the old order is taken for gone.
Cancels(ok) ==
    /\ chaser.pc = "cancel" /\ Answered(ok, "cancel")
    /\ orders' = IF ok THEN Without(chaser.old) ELSE orders
    /\ chaser' = [chaser EXCEPT !.pc = "harvest"]
    /\ UNCHANGED <<net, position, exit, causes, placed, entries>>

\* What the replaced order filled and nobody counted yet.  The size of the
\* next order has been chosen before.
Harvests ==
    LET new == Plus(orders[chaser.old].filled - chaser.last) IN
    /\ chaser.pc = "harvest"
    /\ qty' = Counted(chaser, new)
    /\ causes' = causes \cup Seen(chaser, new)
    /\ chaser' = IF new >= chaser.n
                 THEN NoChaser
                 ELSE [chaser EXCEPT !.pc = "place", !.n = @ - new, !.last = 0,
                                     !.id = 0, !.old = 0]
    /\ UNCHANGED <<exchange, up, held, exit, used, placed, entries>>

\* The order the exchange makes of a placement, of which f fill at once.
Book(i, f) ==
    /\ placed < MaxPlaced /\ placed' = placed + 1
    /\ orders' = [orders EXCEPT ![i] = [price |-> chaser.bid, rest |-> chaser.size - f, filled |-> f]]
    /\ net' = net + f

\* place_limit_buy.  A lost reply reads as a rejection.
Places(reply, f) ==
    /\ chaser.pc = "place" /\ f \in 0..chaser.size
    /\ \/ /\ reply = "done" /\ Forgotten # {} /\ Book(Min(Forgotten), f)
          /\ qty' = Counted(chaser, f)
          /\ chaser' = IF f >= chaser.n
                       THEN NoChaser
                       ELSE [chaser EXCEPT !.pc = "sleep", !.id = Min(Forgotten),
                                           !.last = 0, !.n = @ - f]
          /\ UNCHANGED <<used, causes>>
       \/ /\ reply = "lost" /\ Forgotten # {} /\ Book(Min(Forgotten), f) /\ Spend("reply")
          /\ chaser' = [chaser EXCEPT !.pc = "sleep", !.id = 0]
          /\ UNCHANGED <<qty, causes>>
       \/ /\ reply = "refused" /\ f = 0
          /\ chaser' = [chaser EXCEPT !.pc = "sleep", !.id = 0]
          /\ UNCHANGED <<exchange, qty, placed, used, causes>>
    /\ UNCHANGED <<up, held, exit, entries>>

\* What the open orders have filled together.  The chaser leaves as soon as
\* it believes the target reached, whatever still rests.
Polls(ok) ==
    LET new == Plus(FilledBy(Listing(ok)) - chaser.last)
        q == Counted(chaser, new)
        c == [chaser EXCEPT !.n = Plus(@ - new), !.last = @ + new] IN
    /\ chaser.pc = "sleep" /\ Answered(ok, "list")
    /\ qty' = q
    /\ causes' = causes \cup Seen(chaser, new)
    /\ chaser' = IF c.n = 0 \/ (Target <= q /\ ~c.closed) THEN NoChaser ELSE Top(c, q)
    /\ UNCHANGED <<exchange, up, held, exit, placed, entries>>

\* The last cancel of a chaser that ends, or of its CancelledError handler.
Stops(ok) ==
    /\ chaser.pc = "stop" /\ Answered(ok, "cancel")
    /\ orders' = IF ok THEN Without(chaser.id) ELSE orders
    /\ chaser' = NoChaser
    /\ UNCHANGED <<net, position, exit, causes, placed, entries>>

-----------------------------------------------------------------------------
(* The stop-loss exit.  The watcher's way cancels the chaser and does not   *)
(* wait for it (_dispatch_stop_loss_exit takes the task off the table, so   *)
(* that _execute_stop_loss does not find it); the others wait.              *)

\* The cancellation arrives at the await the chaser is at.  A placement on
\* its way may be carried out, and then nobody knows its order.
Interrupts ==
    \/ /\ chaser' = Stopped(chaser)
       /\ causes' = causes \cup IF chaser.pc = "place" THEN {"inflight"} ELSE {}
       /\ UNCHANGED <<orders, net, placed>>
    \/ /\ chaser.pc = "place" /\ Forgotten # {}
       /\ \E f \in 0..chaser.size : Book(Min(Forgotten), f)
       /\ chaser' = Stopped(chaser)
       /\ causes' = causes \cup {"inflight"}

ExitStarts(waits) ==
    /\ up /\ held /\ qty > 0 /\ exit = "idle"
    /\ Interrupts
    /\ exit' = IF waits THEN "await" ELSE "sell"
    /\ UNCHANGED <<position, used, entries>>

ExitResumes ==
    /\ exit = "await" /\ ~Running
    /\ exit' = "sell"
    /\ UNCHANGED <<exchange, position, chaser, ghosts>>

ExitSells(n) ==
    /\ exit = "sell" /\ n <= qty /\ n <= net
    /\ net' = net - n
    /\ exit' = "verify"
    /\ UNCHANGED <<orders, position, chaser, ghosts>>

\* What is left decides: the position is closed, or its quantity corrected.
ExitVerifies ==
    /\ exit = "verify"
    /\ held' = (held /\ net > 0) /\ qty' = net
    /\ chaser' = IF net > 0 THEN chaser ELSE Closed(chaser)
    /\ exit' = "idle"
    /\ UNCHANGED <<exchange, up, ghosts>>

\* The process dies; the order stays.  A restart resumes the chase of a
\* position short of its target.
Crash ==
    /\ up /\ Spend("crash")
    /\ up' = FALSE /\ held' = FALSE /\ qty' = 0
    /\ chaser' = NoChaser /\ exit' = "idle"
    /\ UNCHANGED <<exchange, causes, placed, entries>>

Restart ==
    /\ ~up
    /\ up' = TRUE /\ held' = (net > 0) /\ qty' = net
    /\ chaser' \in IF net > 0 THEN {Top(NoChaser, net), NoChaser} ELSE {NoChaser}
    /\ UNCHANGED <<exchange, exit, ghosts>>

-----------------------------------------------------------------------------
Chase ==
    \/ \E b \in BOOLEAN : Gate(b) \/ Lists(b) \/ Cancels(b) \/ Polls(b) \/ Stops(b)
    \/ \E r \in {"done", "lost", "refused"}, f \in 0..Target : Places(r, f)
    \/ Skip \/ Harvests

Exit ==
    \/ \E b \in BOOLEAN : ExitStarts(b)
    \/ \E n \in 0..Cap : ExitSells(n)
    \/ ExitResumes \/ ExitVerifies

Sweep == SweepSyncs \/ SweepRemoves \/ SweepAdopts

Next ==
    \/ \E n \in 1..Target : Enter(n)
    \/ \E i \in 1..Ids, n \in 1..Target : Fill(i, n)
    \/ SoldElsewhere \/ Sweep \/ Chase \/ Exit \/ Crash \/ Restart

Spec == Init /\ [][Next]_vars

\* Every call of the chaser is answered and its sleeps end.  Nothing is
\* assumed of the market, the sweep or the exit.
Fairness == WF_vars(Chase)

FairSpec == Spec /\ Fairness

-----------------------------------------------------------------------------
(* Properties *)

Failures == used.reply + used.cancel + used.list

\* "the live book [...] is what guarantees we never stack duplicates": the
\* chaser has one order on the book, also across a crash, a later chase, a
\* lost reply and a placement nobody waited for; each one more has cost a
\* failed listing or a failed cancel.
OneRestingBuy ==
    Cardinality(Open) <= 1 + used.list + used.cancel

\* "NEVER buys past it": what is held and what is still worked for add up to
\* no more than the target, unless an order filled while the chaser did not
\* look, or a call failed.  (The amount of the next order is fixed before the
\* old one's last fills are counted, and an order that filled to the end is
\* not listed any more.)  A fill that was counted twice ends a chase early and
\* leaves its order to whoever buys next.
NeverPastTarget ==
    /\ "late" \notin causes /\ "inflight" \notin causes
    /\ entries > 1 => "twice" \notin causes
    /\ Failures + used.crash = 0
    => net + Working <= Target

\* "so we never buy more into a position we already exited": once the position
\* is gone and its tasks have ended, no buy is left on the book, unless a fill
\* was counted twice, one came unseen, or a placement was cut off.
NothingRests == ~held /\ exit = "idle" /\ ~Running /\ up => Open = {}
NoStrayBuy == causes = {} /\ Failures + used.crash = 0 => NothingRests

\* The chaser of a position that was closed ends, whatever is adopted, entered
\* or filled meanwhile.
ClosedChaseEnds == chaser.closed ~> ~Running
=============================================================================
