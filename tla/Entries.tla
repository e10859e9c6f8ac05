------------------------------- MODULE Entries -------------------------------
(***************************************************************************)
(* The entry strategy of core/state_machine.py: the watchlist task that    *)
(* goes over the brackets of an event, the policy that sizes a (recovery)  *)
(* entry, the caps an order has to pass, and the stop-loss ledger that     *)
(* counts the steps; with core/event_exposure.py and buy_yes of            *)
(* execution/live.py.                                                      *)
(*                                                                         *)
(* Beside the watchlist task run the held-position sweep, which adopts,    *)
(* corrects and removes positions, and the stop-loss exits, one per        *)
(* ticker, which count their step in the ledger row that all tickers of a  *)
(* series and day share.                                                   *)
(*                                                                         *)
(* Grain.  One action runs from one await to the next.  Awaits with        *)
(* nothing between them but a decision to give up (the gates, the fresh    *)
(* quote, the lookup of the positions) are one action, and so are a lookup *)
(* and what is done with its answer in the same breath: the fills after    *)
(* the positions, the order after the executor's lookup, the row after the *)
(* quantity.                                                               *)
(*                                                                         *)
(* Scope.  The tickers are the brackets of one event; every contract was   *)
(* bought by the bot; a failed entry leaves no chaser behind.  The gates   *)
(* before an entry (prices, spread, hours, sunrise, observed and forecast  *)
(* lows, NWS window) decide on data from outside: here any of them may     *)
(* block, and one may raise.  A position that is adopted while an entry of *)
(* its ticker is under way stays until that entry ends.                    *)
(***************************************************************************)
EXTENDS Integers, FiniteSets, FiniteSetsExt

CONSTANTS
    Tickers,      \* the brackets of one event
    Initial,      \* INITIAL_CONTRACT_COUNT
    Factor,       \* HEDGE_MAX_FACTOR
    EventMax,     \* EVENT_MAX_CONTRACTS
    FailClosed,   \* an exposure or a position that cannot be verified blocks
    MaxOrders,    \* bound on orders that reach the exchange
    MaxStops,     \* bound on the stop-losses of the day
    Together,     \* bound: the sets of faults that may come together, each once
    MaxUnknown    \* bound on the lookups of what is held that fail for one entry

\* reply  the reply to an order is lost
\* cut    a read or a write of the database fails, or the cycle is cancelled
\*        after 30 s, wherever it is
\* Lookups of the positions and of the fills may fail in every cycle, and a
\* gate may raise out of any.
Faults == {"reply", "cut"}

ASSUME ConstantsAssumption ==
    /\ IsFiniteSet(Tickers) /\ "none" \notin Tickers
    /\ {Initial, Factor, EventMax, MaxOrders, MaxStops} \subseteq Nat \ {0}
    /\ MaxStops >= Factor
    /\ FailClosed \in BOOLEAN
    /\ Together \subseteq SUBSET Faults
    /\ MaxUnknown \in Nat

VARIABLES
    net,      \* contracts held on the exchange, by ticker
    row,      \* quantity of the PositionModel row, 0 for no row
    count,    \* stop_loss_count of the series and day
    bracket,  \* brackets[t]
    held,     \* the tickers in active_positions
    entry,    \* the watchlist task and its local variables
    stop,     \* the stop-loss exit of a ticker
    \* ghosts
    stops,    \* stop-losses counted today
    undone,   \* and those taken back
    drift,    \* steps the ledger may be off: written over, or clamped and taken back
    orders,   \* orders that reached the exchange
    used      \* faults so far

database == <<row, count>>
ghosts == <<stops, undone, drift, orders, used>>
vars == <<net, database, bracket, held, entry, stop, ghosts>>

-----------------------------------------------------------------------------
(* hedge_policy *)

Higher(a, b) == IF a > b THEN a ELSE b
Lower(a, b) == IF a < b THEN a ELSE b

NextQty(n) == Initial * 2 ^ n
IsAllowed(n) == n < Factor

\* A slip: the step after the last one is counted in.
MaxQtyLoose == NextQty(Factor)
MaxQty == NextQty(Factor - 1)

-----------------------------------------------------------------------------
NewBracket == [phase |-> "MONITORING", crossed |-> FALSE, pending |-> FALSE, qty |-> 0]

\* n: proposed_qty   have: existing_position_qty   verified: _position_verified
\* todo: the rest of the cycle   seen: _entry_step_seen   f: what was filled
\* unknown: failed lookups of what is held
Watching == [pc |-> "idle", t |-> "none", count |-> 0, n |-> 0, have |-> 0,
             verified |-> FALSE, f |-> 0, todo |-> {}, seen |-> {}, unknown |-> 0]

NoStop == [pc |-> "idle", read |-> 0]

Pcs == {"idle", "next", "count", "decide", "gates", "exposure", "post", "log", "book"}

Brackets == [phase : {"MONITORING", "HOLDING"}, crossed : BOOLEAN, pending : BOOLEAN, qty : Nat]
EntryTasks == [pc : Pcs, t : Tickers \cup {"none"}, count : 0..Factor, n : 0..MaxQty, have : Nat,
               verified : BOOLEAN, f : 0..MaxQty, todo : SUBSET Tickers, seen : SUBSET (0..Factor),
               unknown : 0..MaxUnknown]
Stops == [pc : {"idle", "inc", "sell", "dec"}, read : 0..Factor]

TypeOK ==
    /\ net \in [Tickers -> Nat]
    /\ row \in [Tickers -> Nat]
    /\ count \in 0..Factor
    /\ bracket \in [Tickers -> Brackets]
    /\ held \subseteq Tickers
    /\ entry \in EntryTasks
    /\ stop \in [Tickers -> Stops]
    /\ stops \in 0..MaxStops /\ undone \in 0..stops /\ drift \in Nat
    /\ orders \in 0..MaxOrders
    /\ used \subseteq Faults

\* The bot may start in the middle of a day, with steps already counted.
Init ==
    /\ net = [t \in Tickers |-> 0] /\ row = [t \in Tickers |-> 0]
    /\ count \in 0..Factor /\ stops = count
    /\ bracket = [t \in Tickers |-> NewBracket]
    /\ held = {}
    /\ entry = Watching
    /\ stop = [t \in Tickers |-> NoStop]
    /\ undone = 0 /\ drift = 0 /\ orders = 0
    /\ used = {}

Spend(f) ==
    /\ f \notin used
    /\ used' = used \cup {f}
    /\ \E S \in Together : used' \subseteq S
Answered(ok, f) == IF ok THEN UNCHANGED used ELSE Spend(f)

Total == MapThenSumSet(LAMBDA t : net[t], Tickers)

-----------------------------------------------------------------------------
(* The watchlist cycle, up to the order *)

At(pc) == entry.pc = pc
Go(pc) == entry' = [entry EXCEPT !.pc = pc]

\* On to the next bracket.
Done == entry' = [Watching EXCEPT !.pc = "next", !.todo = entry.todo, !.seen = entry.seen]

\* The bracket of the entry under way.
Mark(phase, crossed, pending) ==
    bracket' = [bracket EXCEPT ![entry.t].phase = phase, ![entry.t].crossed = crossed,
                               ![entry.t].pending = pending]
Same == bracket[entry.t]

\* An entry that is given up is tried again by a later cycle.
GivesUp == Mark("MONITORING", Same.crossed, TRUE) /\ Done

CycleStarts ==
    /\ At("idle")
    /\ entry' = [Watching EXCEPT !.pc = "next", !.todo = Tickers]
    /\ UNCHANGED <<net, database, bracket, held, stop, ghosts>>

CycleEnds ==
    /\ At("next") /\ entry.todo = {}
    /\ entry' = Watching
    /\ UNCHANGED <<net, database, bracket, held, stop, ghosts>>

\* should_evaluate_entry
IsCandidate(b) == (~b.crossed \/ b.pending) /\ b.phase = "MONITORING"

\* Any gate may block any bracket.
Skips(t) ==
    /\ At("next") /\ t \in entry.todo
    /\ entry' = [entry EXCEPT !.todo = @ \ {t}]
    /\ UNCHANGED <<net, database, bracket, held, stop, ghosts>>

Evaluates(t) ==
    /\ At("next") /\ t \in entry.todo
    /\ IsCandidate(bracket[t])
    /\ entry' = [entry EXCEPT !.pc = "count", !.t = t, !.todo = @ \ {t}]
    /\ UNCHANGED <<net, database, bracket, held, stop, ghosts>>

\* The rest of the cycle is given up too.
GateRaises ==
    /\ At("next") /\ entry.todo # {}
    /\ entry' = Watching
    /\ UNCHANGED <<net, database, bracket, held, stop, ghosts>>

\* _get_stop_loss_count_for_market
Counts(read) ==
    /\ At("count") /\ Answered(read, "cut")
    /\ entry' = IF read THEN [entry EXCEPT !.pc = "decide", !.count = count] ELSE Watching
    /\ UNCHANGED <<net, database, bracket, held, stop, stops, undone, drift, orders>>

\* The lookups before the order: the guard's, the entry's, the executor's.
Looks(ok) == ok \/ entry.unknown < MaxUnknown
Unknown(ok) == IF ok THEN entry.unknown ELSE entry.unknown + 1

\* What is held, as the guard of the watchlist knows it.
Live(ok) == Higher(Same.qty, IF ok THEN net[entry.t] ELSE 0)
AppOwned(ok, fills) == Lower(IF fills THEN net[entry.t] ELSE Same.qty, Live(ok))

Retires == Mark(Same.phase, TRUE, FALSE)

Yields == Mark(Same.phase, TRUE, TRUE)

Decides(ok, fills) ==
    LET known == AppOwned(ok, fills)
        n == NextQty(entry.count)
        has == entry.count = 0 /\ known >= n
        fits == known + n <= MaxQty IN
    /\ At("decide")
    /\ (ok \/ fills) /\ Looks(ok /\ fills)
    /\ \/ /\ IF IsAllowed(entry.count) THEN has \/ ~fits ELSE has
          /\ Done /\ UNCHANGED bracket
       \/ /\ ~has /\ ~IsAllowed(entry.count)
          /\ Retires /\ Done
       \/ /\ ~has /\ IsAllowed(entry.count) /\ fits
          /\ \/ /\ entry.count \in entry.seen
                /\ Yields /\ Done
             \/ /\ entry.count \notin entry.seen
                /\ Mark(Same.phase, TRUE, Same.pending)
                /\ entry' = [entry EXCEPT !.pc = "gates", !.n = n, !.seen = @ \cup {entry.count},
                                            !.unknown = Unknown(ok /\ fills)]
    /\ UNCHANGED <<net, database, held, stop, ghosts>>

-----------------------------------------------------------------------------
(* _execute_entry *)

\* The gates are asked once more, and a fresh quote; then the cap on the
\* position is checked as far as it can be verified.
Refused(verdict) ==
    /\ At("gates")
    /\ \/ verdict = "closed" /\ Mark("MONITORING", FALSE, Same.pending) /\ Done
       \/ verdict = "no quote" /\ GivesUp
    /\ UNCHANGED <<net, database, held, stop, ghosts>>

Checks(ok) ==
    LET have == Live(ok) IN
    /\ At("gates") /\ Looks(ok)
    /\ IF have + entry.n > MaxQty
       THEN GivesUp
       ELSE /\ entry' = [entry EXCEPT !.pc = "exposure", !.have = have, !.verified = ok,
                                     !.unknown = Unknown(ok)]
            /\ UNCHANGED bracket
    /\ UNCHANGED <<net, database, held, stop, ghosts>>

\* The rows and the positions in memory, the larger for each ticker; what the
\* exchange says of the ticker itself replaces both.
Recorded(t) == Higher(row[t], IF t \in held THEN bracket[t].qty ELSE 0)

\* A slip: only what is bought itself is added up.
HoldingOwn(t) == IF t = entry.t THEN entry.have ELSE 0
Holding(t) == IF t = entry.t /\ entry.verified THEN entry.have ELSE Recorded(t)
Exposure == MapThenSumSet(LAMBDA t : Holding(t), Tickers)

\* event_exposure_allows_buy
Exposes(read) ==
    /\ At("exposure") /\ Answered(read, "cut")
    /\ IF (read /\ Exposure + entry.n > EventMax) \/ (~read /\ FailClosed)
       THEN GivesUp
       ELSE Go("post") /\ UNCHANGED bracket
    /\ UNCHANGED <<net, database, held, stop, stops, undone, drift, orders>>

\* buy_yes asks the exchange itself, and falls back to what it was told.
Known(ok) == IF ok THEN net[entry.t] ELSE entry.have

Refuses(ok) == Known(ok) + entry.n > MaxQty \/ (~ok /\ FailClosed)

\* An immediate-or-cancel order for entry.n; f of them are filled.
Buys(f) ==
    /\ f \in 0..entry.n
    /\ orders < MaxOrders /\ orders' = orders + 1
    /\ net' = [net EXCEPT ![entry.t] = @ + f]

\* buy_yes.  Between its lookup and its order contracts can only go away.  A
\* lost reply reads as a rejection.
Rejects(ok) ==
    /\ At("post") /\ Refuses(ok) /\ Looks(ok)
    /\ entry' = [entry EXCEPT !.pc = "log", !.unknown = 0]
    /\ UNCHANGED <<net, database, bracket, held, stop, ghosts>>

Posts(f, ok, replied) ==
    /\ At("post") /\ ~Refuses(ok) /\ Buys(f)
    /\ Looks(ok) /\ Answered(replied, "reply")
    /\ entry' = [entry EXCEPT !.pc = "log", !.unknown = 0, !.f = IF replied THEN f ELSE 0]
    /\ UNCHANGED <<database, bracket, held, stop, stops, undone, drift>>

\* A slip: an entry that failed is not tried again.
ForgetsFailure == Mark("MONITORING", Same.crossed, Same.pending) /\ Done
AfterFailure == GivesUp

\* The trade is logged first; when that fails the cycle ends here.
Logs(written) ==
    /\ At("log") /\ Answered(written, "cut")
    /\ IF ~written THEN entry' = Watching /\ UNCHANGED bracket
       ELSE IF entry.f = 0 THEN AfterFailure
       ELSE Mark("HOLDING", Same.crossed, FALSE) /\ Go("book")
    /\ UNCHANGED <<net, database, held, stop, stops, undone, drift, orders>>

\* The quantity: what was known plus the fill, or more if the exchange says
\* so.  A row that is not written is not missed by anybody.
Books(ok, written) ==
    LET qty == Higher(entry.have + entry.f, IF ok THEN net[entry.t] ELSE 0) IN
    /\ At("book") /\ Answered(written, "cut")
    /\ bracket' = [bracket EXCEPT ![entry.t].qty = qty]
    /\ held' = held \cup {entry.t}
    /\ row' = IF written THEN [row EXCEPT ![entry.t] = qty] ELSE row
    /\ Done
    /\ UNCHANGED <<net, count, stop, stops, undone, drift, orders>>

\* wait_for cancels the cycle at the await it is at; an order on its way,
\* past the executor's lookup, may be carried out.
TimesOut ==
    /\ ~At("idle") /\ Spend("cut")
    /\ entry' = Watching
    /\ \/ UNCHANGED <<net, orders>>
       \/ /\ At("post")
          /\ \E f \in 1..entry.n, ok \in BOOLEAN : ~Refuses(ok) /\ Looks(ok) /\ Buys(f)
    /\ UNCHANGED <<database, bracket, held, stop, stops, undone, drift>>

-----------------------------------------------------------------------------
(* The held-position sweep, and the market *)

Busy(t) == entry.t = t

SweepAdopts(t) ==
    /\ net[t] > 0 /\ bracket[t].phase # "HOLDING"
    /\ bracket' = [bracket EXCEPT ![t].phase = "HOLDING", ![t].crossed = TRUE, ![t].qty = net[t]]
    /\ held' = held \cup {t}
    /\ row' = [row EXCEPT ![t] = net[t]]
    /\ UNCHANGED <<net, count, entry, stop, ghosts>>

SweepSyncs(t) ==
    /\ t \in held /\ net[t] > 0 /\ bracket[t].qty # net[t]
    /\ bracket' = [bracket EXCEPT ![t].qty = net[t]]
    /\ UNCHANGED <<net, database, held, entry, stop, ghosts>>

\* The position is gone: its bracket is dropped and discovered anew.
Closes(t) ==
    /\ held' = held \ {t}
    /\ row' = [row EXCEPT ![t] = 0]
    /\ bracket' = [bracket EXCEPT ![t] = NewBracket]

SweepRemoves(t) ==
    /\ t \in held /\ net[t] = 0 /\ ~Busy(t)
    /\ Closes(t)
    /\ UNCHANGED <<net, count, entry, stop, ghosts>>

\* The contracts are sold by hand, or a resting order sells them.
SoldElsewhere(t) ==
    /\ net[t] > 0
    /\ net' = [net EXCEPT ![t] = 0]
    /\ UNCHANGED <<database, bracket, held, entry, stop, ghosts>>

-----------------------------------------------------------------------------
(* The stop-loss exit: it counts its step, sells, and takes the step back   *)
(* when there was nothing left to sell.  The ledger row is read and written *)
(* with awaits between.                                                     *)

\* A slip: the count is not clamped.
StepUpUnclamped(n) == n + 1
StepUp(n) == Lower(n + 1, Factor)

\* A slip: the count may fall below zero.
StepDownUnclamped(n) == n - 1
StepDown(n) == Higher(n - 1, 0)

\* What other exits have done to the count since it was read.
Between(read) == IF read > count THEN read - count ELSE count - read

StopReads(t) ==
    /\ t \in held /\ stop[t].pc = "idle" /\ ~Busy(t)
    /\ stops + Cardinality({u \in Tickers : stop[u].pc = "inc"}) < MaxStops
    /\ stop' = [stop EXCEPT ![t] = [pc |-> "inc", read |-> count]]
    /\ UNCHANGED <<net, database, bracket, held, entry, ghosts>>

StopCounts(t) ==
    /\ stop[t].pc = "inc"
    /\ count' = StepUp(stop[t].read)
    /\ stops' = stops + 1
    /\ drift' = drift + Between(stop[t].read)
    /\ stop' = [stop EXCEPT ![t].pc = "sell"]
    /\ UNCHANGED <<net, row, bracket, held, entry, undone, orders, used>>

StopSells(t) ==
    /\ stop[t].pc = "sell" /\ net[t] > 0 /\ ~Busy(t)
    /\ net' = [net EXCEPT ![t] = 0]
    /\ stop' = [stop EXCEPT ![t] = NoStop]
    /\ Closes(t)
    /\ UNCHANGED <<count, entry, ghosts>>

StopFindsNothing(t) ==
    /\ stop[t].pc = "sell" /\ net[t] = 0
    /\ stop' = [stop EXCEPT ![t] = [pc |-> "dec", read |-> count]]
    /\ UNCHANGED <<net, database, bracket, held, entry, ghosts>>

\* A step that was clamped when it was counted is taken back in full.
StopTakesBack(t) ==
    /\ stop[t].pc = "dec"
    /\ count' = StepDown(stop[t].read)
    /\ undone' = undone + 1
    /\ drift' = drift + Between(stop[t].read) + IF stops - undone > Factor THEN 1 ELSE 0
    /\ stop' = [stop EXCEPT ![t] = NoStop]
    /\ UNCHANGED <<net, row, bracket, held, entry, stops, orders, used>>

-----------------------------------------------------------------------------
Watch ==
    \/ CycleStarts \/ CycleEnds \/ GateRaises \/ TimesOut
    \/ \E t \in Tickers : Skips(t) \/ Evaluates(t)
    \/ \E ok \in BOOLEAN :
          \/ Counts(ok) \/ Checks(ok) \/ Exposes(ok) \/ Rejects(ok) \/ Logs(ok)
          \/ \E b \in BOOLEAN : Decides(ok, b) \/ Books(ok, b)
          \/ \E f \in 0..MaxQty, replied \in BOOLEAN : Posts(f, ok, replied)
    \/ \E verdict \in {"closed", "no quote"} : Refused(verdict)

Sweep(t) == SweepAdopts(t) \/ SweepSyncs(t) \/ SweepRemoves(t)

Stop(t) ==
    \/ StopReads(t) \/ StopCounts(t) \/ StopSells(t)
    \/ StopFindsNothing(t) \/ StopTakesBack(t)

Next ==
    \/ Watch
    \/ \E t \in Tickers : Sweep(t) \/ Stop(t) \/ SoldElsewhere(t)

Spec == Init /\ [][Next]_vars

-----------------------------------------------------------------------------
(* Properties *)

\* Contracts nobody booked: the reply was lost, or the cycle was cut off.
Unbooked == used \cap {"reply", "cut"} # {}

\* "last allowed buy": the step of factor - 1 is the largest.  No sequence of
\* entries, recoveries and adoptions makes a position larger than the last step
\* of the hedge, also with contracts that were never booked (a lost reply, a
\* cycle cut off): before an order the code looks three times what is held, and
\* one answer is enough.
PositionWithinCap == \A t \in Tickers : net[t] <= Initial * 2 ^ (Factor - 1)

\* The contracts of all brackets of the event together stay within the cap of
\* the event, also when one is being bought while another is adopted, sold or
\* corrected, as long as every fill is booked.
ExposureWithinCap == Total > EventMax => Unbooked

\* A bracket that has crossed and is not waiting is never evaluated again: it
\* holds a position, is being bought, or the day's steps are used up.  Only a
\* cycle that is cut off or a failing database loses a candidate.  (A step
\* that is taken back later does not bring back the brackets it has retired.)
IsLost(t) ==
    /\ bracket[t].phase = "MONITORING" /\ bracket[t].crossed /\ ~bracket[t].pending
    /\ ~Busy(t)
NoLostCandidate ==
    \A t \in Tickers :
        IsLost(t) => "cut" \in used \/ stops >= Factor

\* The ledger follows the stop-losses of all tickers: each step it is off is
\* one that another exit counted between the read and the write of the row and
\* that was written over, or one taken back after the count had been clamped.
CountFollowsStops ==
    LET steps == Lower(stops - undone, Factor)
    IN  count - steps <= drift /\ steps - count <= drift
=============================================================================
