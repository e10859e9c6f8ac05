--------------------------- MODULE StrategyProofs ---------------------------
(***************************************************************************)
(* Theorems about the strategy (MCStrategy.tla): about the entries         *)
(* (Entries.tla), for any set of brackets, any hedge and any event cap,    *)
(* about the decisions stored once a day (StoredDecisions.tla), and, at    *)
(* the end, about the behaviours of all its parts.                         *)
(*                                                                         *)
(*   LedgerInv      the ledger and the exits that write it.  It needs      *)
(*                  nothing of the rest of the state, so every action that *)
(*                  is not a stop-loss leaves it alone; what has to be     *)
(*                  counted is how many exits are between their steps.     *)
(*   TypeInv        types, and where the watchlist task is.                *)
(*   CapInv         what the three lookups before an order leave behind.   *)
(*   CandidatesInv  what the brackets remember of an entry given up.       *)
(*   ExposureInv    the strategy knows of every contract that is held, and *)
(*                  from the check to the order there is room for it.      *)
(*                                                                         *)
(* A step 2 ^ n of the hedge is bounded through the subsets of 1..n: the   *)
(* library knows how many there are, the arithmetic of powers it does not. *)
(* The contracts of an event are a sum over its brackets: what is needed   *)
(* of sums is proved from a least set of brackets that has it wrong.       *)
(***************************************************************************)
EXTENDS MCStrategy, FiniteSetTheorems, WellFoundedInduction, TLAPS

-----------------------------------------------------------------------------
(* Arithmetic *)

\* 2 ^ n is the number of subsets of 1..n: a natural number, not 0, and no
\* smaller for a larger n.
LEMMA Powers ==
    /\ \A n \in Nat : 2 ^ n \in Nat /\ 2 ^ n >= 1
    /\ \A m, n \in Nat : m <= n => 2 ^ m <= 2 ^ n
<1> DEFINE P(n) == Cardinality(SUBSET (1..n))
<1>1. ASSUME NEW n \in Nat PROVE IsFiniteSet(SUBSET (1..n)) /\ P(n) = 2 ^ n
  <2>1. IsFiniteSet(1..n) /\ Cardinality(1..n) = n
    BY FS_Interval
  <2>2. QED
    BY <2>1, FS_SUBSET
<1>2. ASSUME NEW n \in Nat PROVE 2 ^ n \in Nat /\ 2 ^ n >= 1
  <2>1. P(n) \in Nat /\ (P(n) = 0 <=> SUBSET (1..n) = {})
    BY <1>1, FS_CardinalityType, FS_EmptySet
  <2>2. {} \in SUBSET (1..n)
    OBVIOUS
  <2>3. P(n) \in Nat /\ P(n) >= 1
    BY <2>1, <2>2
  <2>4. QED
    BY <1>1, <2>3
<1>3. ASSUME NEW m \in Nat, NEW n \in Nat, m <= n PROVE 2 ^ m <= 2 ^ n
  <2>1. SUBSET (1..m) \subseteq SUBSET (1..n)
    BY <1>3
  <2>2. P(m) <= P(n)
    BY <1>1, <2>1, FS_Subset
  <2>3. QED
    BY <1>1, <2>2
<1>4. QED
  BY <1>2, <1>3

\* The steps of the hedge are natural numbers, the last the largest.
LEMMA Quantities ==
    /\ MaxQty \in Nat
    /\ \A n \in Nat : NextQty(n) \in Nat /\ (IsAllowed(n) => NextQty(n) <= MaxQty)
<1>1. Initial \in Nat /\ Factor - 1 \in Nat
  BY ConstantsAssumption
<1>2. \A i, p \in Nat : i * p \in Nat
  OBVIOUS
<1>3. \A i, p, q \in Nat : p <= q => i * p <= i * q
  BY Z3
<1>4. ASSUME NEW n \in Nat PROVE NextQty(n) \in Nat
  BY <1>1, <1>2, Powers DEF NextQty
<1>5. MaxQty \in Nat
  BY <1>1, <1>4 DEF MaxQty
<1>6. ASSUME NEW n \in Nat, IsAllowed(n) PROVE NextQty(n) <= MaxQty
  <2>1. n <= Factor - 1
    BY <1>6, ConstantsAssumption DEF IsAllowed
  <2>2. 2 ^ n \in Nat /\ 2 ^ (Factor - 1) \in Nat /\ 2 ^ n <= 2 ^ (Factor - 1)
    BY <1>1, <2>1, Powers
  <2>3. QED
    BY <1>1, <1>3, <2>2 DEF NextQty, MaxQty
<1>7. QED
  BY <1>4, <1>5, <1>6

-----------------------------------------------------------------------------
(* The records *)

LEMMA EntryTasksAre ==
    /\ Watching \in EntryTasks
    /\ \A e \in EntryTasks :
         /\ e.pc \in Pcs /\ e.t \in Tickers \cup {"none"} /\ e.count \in 0..Factor /\ e.n \in 0..MaxQty
         /\ e.have \in Nat /\ e.verified \in BOOLEAN /\ e.f \in 0..MaxQty /\ e.todo \in SUBSET Tickers
         /\ e.seen \in SUBSET (0..Factor) /\ e.unknown \in 0..MaxUnknown
    /\ \A e \in EntryTasks, pc \in Pcs : [e EXCEPT !.pc = pc] \in EntryTasks
    /\ \A e \in EntryTasks, T \in SUBSET Tickers : [e EXCEPT !.todo = T] \in EntryTasks
<1> USE ConstantsAssumption, Quantities
<1>1. Watching \in EntryTasks
  <2>1. 0 \in 0..Factor /\ 0 \in 0..MaxQty /\ 0 \in 0..MaxUnknown /\ 0 \in Nat
    OBVIOUS
  <2>2. QED
    BY <2>1 DEF Watching, EntryTasks, Pcs
<1>2. QED
  BY <1>1 DEF EntryTasks

LEMMA EntryTasksBecome ==
    ASSUME NEW e \in EntryTasks
    PROVE  /\ \A T \in SUBSET Tickers, S \in SUBSET (0..Factor) :
                [e EXCEPT !.pc = "next", !.todo = T, !.seen = S] \in EntryTasks
           /\ \A T \in SUBSET Tickers : [e EXCEPT !.pc = "next", !.todo = T] \in EntryTasks
           /\ \A T \in SUBSET Tickers, t \in Tickers :
                [e EXCEPT !.pc = "count", !.t = t, !.todo = T] \in EntryTasks
           /\ \A c \in 0..Factor : [e EXCEPT !.pc = "decide", !.count = c] \in EntryTasks
           /\ \A n \in 0..MaxQty, S \in SUBSET (0..Factor), u \in 0..MaxUnknown :
                [e EXCEPT !.pc = "gates", !.n = n, !.seen = S, !.unknown = u] \in EntryTasks
           /\ \A h \in Nat, b \in BOOLEAN, u \in 0..MaxUnknown :
                [e EXCEPT !.pc = "exposure", !.have = h, !.verified = b, !.unknown = u] \in EntryTasks
           /\ \A u \in 0..MaxUnknown : [e EXCEPT !.pc = "log", !.unknown = u] \in EntryTasks
           /\ \A u \in 0..MaxUnknown, f \in 0..MaxQty :
                [e EXCEPT !.pc = "log", !.unknown = u, !.f = f] \in EntryTasks
  BY DEF EntryTasks, Pcs

LEMMA BracketsAre ==
    /\ NewBracket \in Brackets
    /\ \A b \in Brackets : b.qty \in Nat /\ b.crossed \in BOOLEAN /\ b.pending \in BOOLEAN
                           /\ b.phase \in {"MONITORING", "HOLDING"}
    /\ \A b \in Brackets, q \in Nat : [b EXCEPT !.qty = q] \in Brackets
    /\ \A b \in Brackets, q \in Nat :
         [b EXCEPT !.phase = "HOLDING", !.crossed = TRUE, !.qty = q] \in Brackets
    /\ \A b \in Brackets, p \in {"MONITORING", "HOLDING"}, c \in BOOLEAN, d \in BOOLEAN :
         [b EXCEPT !.phase = p, !.crossed = c, !.pending = d] \in Brackets
  BY DEF Brackets, NewBracket

LEMMA StopsAre ==
    /\ NoStop \in Stops
    /\ \A s \in Stops : s.read \in 0..Factor /\ s.pc \in {"idle", "inc", "sell", "dec"}
    /\ \A c \in 0..Factor : [pc |-> "inc", read |-> c] \in Stops /\ [pc |-> "dec", read |-> c] \in Stops
    /\ \A s \in Stops : [s EXCEPT !.pc = "sell"] \in Stops
  BY ConstantsAssumption DEF Stops, NoStop

\* What a step writes into the bracket of the entry under way.
LEMMA MarkIs ==
    ASSUME bracket \in [Tickers -> Brackets], entry.t \in Tickers,
           NEW p \in {"MONITORING", "HOLDING"}, NEW c \in BOOLEAN, NEW d \in BOOLEAN, Mark(p, c, d)
    PROVE  /\ bracket' \in [Tickers -> Brackets]
           /\ bracket'[entry.t].phase = p /\ bracket'[entry.t].crossed = c /\ bracket'[entry.t].pending = d
           /\ \A t \in Tickers \ {entry.t} : bracket'[t] = bracket[t]
<1>1. bracket' = [bracket EXCEPT ![entry.t] = [bracket[entry.t] EXCEPT !.phase = p, !.crossed = c, !.pending = d]]
  BY DEF Mark
<1>2. bracket'[entry.t] = [bracket[entry.t] EXCEPT !.phase = p, !.crossed = c, !.pending = d]
  BY <1>1
<1>3. bracket[entry.t] \in Brackets
  OBVIOUS
<1>4. bracket'[entry.t].phase = p /\ bracket'[entry.t].crossed = c /\ bracket'[entry.t].pending = d
  BY <1>2, <1>3 DEF Brackets
<1>5. QED
  BY <1>1, <1>3, <1>4, BracketsAre

-----------------------------------------------------------------------------
(* The ledger.  It depends on nothing else: the stop-losses of all tickers   *)
(* share it, and the watchlist task only reads it.                           *)

Counting == {t \in Tickers : stop[t].pc = "inc"}
Counted == {t \in Tickers : stop[t].pc \in {"sell", "dec"}}

LedgerTypes ==
    /\ count \in 0..Factor /\ stop \in [Tickers -> Stops]
    /\ stops \in 0..MaxStops /\ undone \in 0..stops /\ drift \in Nat

\* A step that may be taken back has been counted, and an exit that is about
\* to count has its place.
StopsAreBacked ==
    /\ Cardinality(Counted) <= stops - undone
    /\ stops + Cardinality(Counting) <= MaxStops

\* No count that was ever read is above the number of stop-losses.
CountsAreEarned == count <= stops /\ \A t \in Tickers : stop[t].read <= stops

\* An exit may go on as r: the numbers allow it.
MayBecome(t, r) ==
    /\ count' \in 0..Factor /\ stops' \in 0..MaxStops /\ undone' \in 0..stops' /\ drift' \in Nat
    /\ stops <= stops' /\ r.read <= stops' /\ count' <= stops'
    /\ Cardinality(Counted) + (IF r.pc \in {"sell", "dec"} THEN 1 ELSE 0)
         - (IF stop[t].pc \in {"sell", "dec"} THEN 1 ELSE 0) <= stops' - undone'
    /\ stops' + Cardinality(Counting) + (IF r.pc = "inc" THEN 1 ELSE 0)
         - (IF stop[t].pc = "inc" THEN 1 ELSE 0) <= MaxStops

LedgerInv == LedgerTypes /\ StopsAreBacked /\ CountsAreEarned /\ CountFollowsStops

\* The sets an exit moves between.
LEMMA StopMoves ==
    ASSUME NEW t \in Tickers, stop \in [Tickers -> Stops], NEW r \in Stops, stop' = [stop EXCEPT ![t] = r]
    PROVE  /\ IsFiniteSet(Counting) /\ IsFiniteSet(Counted)
           /\ Cardinality(Counting) \in Nat /\ Cardinality(Counted) \in Nat
           /\ Cardinality(Counting') = Cardinality(Counting)
                + (IF r.pc = "inc" THEN 1 ELSE 0) - (IF stop[t].pc = "inc" THEN 1 ELSE 0)
           /\ Cardinality(Counted') = Cardinality(Counted)
                + (IF r.pc \in {"sell", "dec"} THEN 1 ELSE 0)
                - (IF stop[t].pc \in {"sell", "dec"} THEN 1 ELSE 0)
<1>1. IsFiniteSet(Counting) /\ IsFiniteSet(Counted)
  <2>1. Counting \in SUBSET Tickers /\ Counted \in SUBSET Tickers
    BY DEF Counting, Counted
  <2>2. QED
    BY <2>1, ConstantsAssumption, FS_Subset
<1>2. Cardinality(Counting) \in Nat /\ Cardinality(Counted) \in Nat
  BY <1>1, FS_CardinalityType
<1>3. \A u \in Tickers : stop'[u] = IF u = t THEN r ELSE stop[u]
  OBVIOUS
<1>4. Cardinality(Counting') = Cardinality(Counting)
                + (IF r.pc = "inc" THEN 1 ELSE 0) - (IF stop[t].pc = "inc" THEN 1 ELSE 0)
  <2>1. Counting' = IF r.pc = "inc" THEN Counting \cup {t} ELSE Counting \ {t}
    BY <1>3 DEF Counting
  <2>2. t \in Counting <=> stop[t].pc = "inc"
    BY DEF Counting
  <2>3. Cardinality(Counting \cup {t}) = IF t \in Counting THEN Cardinality(Counting) ELSE Cardinality(Counting) + 1
    BY <1>1, FS_AddElement
  <2>4. Cardinality(Counting \ {t}) = IF t \in Counting THEN Cardinality(Counting) - 1 ELSE Cardinality(Counting)
    BY <1>1, FS_RemoveElement
  <2>5. QED
    BY <1>2, <2>1, <2>2, <2>3, <2>4
<1>5. Cardinality(Counted') = Cardinality(Counted)
                + (IF r.pc \in {"sell", "dec"} THEN 1 ELSE 0)
                - (IF stop[t].pc \in {"sell", "dec"} THEN 1 ELSE 0)
  <2>1. Counted' = IF r.pc \in {"sell", "dec"} THEN Counted \cup {t} ELSE Counted \ {t}
    BY <1>3 DEF Counted
  <2>2. t \in Counted <=> stop[t].pc \in {"sell", "dec"}
    BY DEF Counted
  <2>3. Cardinality(Counted \cup {t}) = IF t \in Counted THEN Cardinality(Counted) ELSE Cardinality(Counted) + 1
    BY <1>1, FS_AddElement
  <2>4. Cardinality(Counted \ {t}) = IF t \in Counted THEN Cardinality(Counted) - 1 ELSE Cardinality(Counted)
    BY <1>1, FS_RemoveElement
  <2>5. QED
    BY <1>2, <2>1, <2>2, <2>3, <2>4
<1>6. QED
  BY <1>1, <1>2, <1>4, <1>5

LEMMA LedgerInit == ASSUME Init PROVE LedgerInv
<1>1. Counting = {} /\ Counted = {}
  BY DEF Init, NoStop, Counting, Counted
<1>2. Cardinality(Counting) = 0 /\ Cardinality(Counted) = 0
  BY <1>1, FS_EmptySet
<1>3. LedgerTypes
  BY StopsAre, ConstantsAssumption DEF Init, LedgerTypes
<1>4. count <= stops /\ (\A t \in Tickers : stop[t].read = 0)
  BY <1>3, ConstantsAssumption DEF Init, NoStop, LedgerTypes
<1>5. StopsAreBacked /\ CountsAreEarned /\ CountFollowsStops
  BY <1>2, <1>3, <1>4, ConstantsAssumption
     DEF Init, StopsAreBacked, CountsAreEarned, CountFollowsStops, LedgerTypes, Lower
<1>6. QED
  BY <1>3, <1>5 DEF LedgerInv

LEMMA LedgerStep == ASSUME LedgerInv, [Next]_vars PROVE LedgerInv'
<1>0. /\ count \in 0..Factor /\ stop \in [Tickers -> Stops] /\ stops \in 0..MaxStops
      /\ undone \in 0..stops /\ drift \in Nat /\ Factor \in Nat /\ MaxStops \in Nat
  BY ConstantsAssumption DEF LedgerInv, LedgerTypes
<1>1. ASSUME UNCHANGED <<count, stop, stops, undone, drift>> PROVE LedgerInv'
  BY <1>1 DEF LedgerInv, LedgerTypes, StopsAreBacked, CountsAreEarned, CountFollowsStops, Counting, Counted
<1>2. CASE Watch \/ UNCHANGED vars \/ (\E t \in Tickers : Sweep(t) \/ SoldElsewhere(t))
  BY <1>1, <1>2 DEF Watch, Sweep, SoldElsewhere, CycleStarts, CycleEnds, GateRaises, TimesOut, Skips,
     Evaluates, Counts, Checks, Exposes, Rejects, Logs, Decides, Books, Posts, Refused, SweepAdopts,
     SweepSyncs, SweepRemoves, database, ghosts, vars
<1>2a. /\ Cardinality(Counted) <= stops - undone /\ stops + Cardinality(Counting) <= MaxStops
       /\ Cardinality(Counted) \in Nat /\ Cardinality(Counting) \in Nat
       /\ count <= stops /\ \A u \in Tickers : stop[u].read <= stops
       /\ \A u \in Tickers : stop[u] \in Stops /\ stop[u].read \in 0..Factor
       /\ IsFiniteSet(Counted)
  <2>1. Counting \in SUBSET Tickers /\ Counted \in SUBSET Tickers
    BY DEF Counting, Counted
  <2>2. Cardinality(Counted) \in Nat /\ Cardinality(Counting) \in Nat /\ IsFiniteSet(Counted)
    BY <2>1, ConstantsAssumption, FS_Subset, FS_CardinalityType
  <2>3. QED
    BY <1>0, <2>2, StopsAre DEF LedgerInv, StopsAreBacked, CountsAreEarned
\* It is enough to look at the exit that moves, and at the four numbers.
<1>2b. ASSUME NEW t \in Tickers, NEW r \in Stops, stop' = [stop EXCEPT ![t] = r],
              MayBecome(t, r), CountFollowsStops'
       PROVE  LedgerInv'
  <2>1. stop' \in [Tickers -> Stops]
    BY <1>0, <1>2b
  <2>2. /\ Cardinality(Counting') = Cardinality(Counting)
                + (IF r.pc = "inc" THEN 1 ELSE 0) - (IF stop[t].pc = "inc" THEN 1 ELSE 0)
        /\ Cardinality(Counted') = Cardinality(Counted)
                + (IF r.pc \in {"sell", "dec"} THEN 1 ELSE 0)
                - (IF stop[t].pc \in {"sell", "dec"} THEN 1 ELSE 0)
    BY <1>0, <1>2b, StopMoves
  <2>3. StopsAreBacked'
    BY <1>0, <1>2a, <1>2b, <2>2 DEF StopsAreBacked, MayBecome
  <2>4. \A u \in Tickers : stop'[u].read <= stops'
    <3>1. ASSUME NEW u \in Tickers PROVE stop'[u].read <= stops'
      <4>1. CASE u = t
        BY <1>0, <1>2b, <4>1 DEF MayBecome
      <4>2. CASE u # t
        BY <1>0, <1>2a, <1>2b, <4>2 DEF MayBecome
      <4>3. QED
        BY <4>1, <4>2
    <3>2. QED
      BY <3>1
  <2>5. LedgerTypes'
    BY <1>2b, <2>1 DEF LedgerTypes, MayBecome
  <2>6. CountsAreEarned'
    BY <1>2b, <2>4 DEF CountsAreEarned, MayBecome
  <2>7. QED
    BY <1>2b, <2>3, <2>5, <2>6 DEF LedgerInv
<1>3. ASSUME NEW t \in Tickers, StopReads(t) PROVE LedgerInv'
  <2>1. /\ stop' = [stop EXCEPT ![t] = [pc |-> "inc", read |-> count]] /\ stop[t].pc = "idle"
        /\ UNCHANGED <<count, stops, undone, drift>>
        /\ stops + Cardinality(Counting) < MaxStops
    BY <1>3 DEF StopReads, database, ghosts, Counting
  <2>2. [pc |-> "inc", read |-> count] \in Stops
    BY <1>0, StopsAre
  <2>3. CountFollowsStops'
    BY <2>1 DEF LedgerInv, CountFollowsStops
  <2>4. MayBecome(t, [pc |-> "inc", read |-> count])
    BY <1>0, <1>2a, <2>1 DEF MayBecome
  <2>5. QED
    BY <1>2b, <2>1, <2>2, <2>3, <2>4
<1>4. ASSUME NEW t \in Tickers, StopCounts(t) PROVE LedgerInv'
  <2> DEFINE n == stop[t].read
  <2>1. /\ stop' = [stop EXCEPT ![t] = [stop[t] EXCEPT !.pc = "sell"]] /\ stop[t].pc = "inc"
        /\ count' = StepUp(n) /\ stops' = stops + 1 /\ undone' = undone /\ drift' = drift + Between(n)
    BY <1>4 DEF StopCounts
  <2>2. /\ [stop[t] EXCEPT !.pc = "sell"] \in Stops
        /\ [stop[t] EXCEPT !.pc = "sell"].pc = "sell" /\ [stop[t] EXCEPT !.pc = "sell"].read = n
    BY <1>2a, StopsAre DEF Stops
  <2>3. n \in 0..Factor /\ n <= stops
    BY <1>2a
  <2>4. Cardinality(Counting) >= 1
    <3>1. t \in Counting /\ IsFiniteSet(Counting)
      BY <2>1, ConstantsAssumption, FS_Subset DEF Counting
    <3>2. QED
      BY <1>2a, <3>1, FS_EmptySet
  <2> HIDE DEF n
  <2>5. count' \in 0..Factor /\ count' <= stops' /\ drift' \in Nat /\ stops' \in 0..MaxStops
    BY <1>0, <1>2a, <2>1, <2>3, <2>4 DEF StepUp, Lower, Between
  <2>6. CountFollowsStops'
    BY <1>0, <2>1, <2>3 DEF LedgerInv, CountFollowsStops, StepUp, Lower, Between
  <2>7. MayBecome(t, [stop[t] EXCEPT !.pc = "sell"])
    BY <1>0, <1>2a, <2>1, <2>2, <2>3, <2>5 DEF MayBecome
  <2>8. QED
    BY <1>2b, <2>1, <2>2, <2>6, <2>7
<1>5. ASSUME NEW t \in Tickers, StopSells(t) PROVE LedgerInv'
  <2>1. stop' = [stop EXCEPT ![t] = NoStop] /\ stop[t].pc = "sell" /\ UNCHANGED <<count, stops, undone, drift>>
    BY <1>5 DEF StopSells, ghosts
  <2>2. NoStop \in Stops /\ NoStop.pc = "idle" /\ NoStop.read = 0
    BY StopsAre DEF NoStop
  <2>3. CountFollowsStops'
    BY <2>1 DEF LedgerInv, CountFollowsStops
  <2>4. MayBecome(t, NoStop)
    BY <1>0, <1>2a, <2>1, <2>2 DEF MayBecome
  <2>5. QED
    BY <1>2b, <2>1, <2>2, <2>3, <2>4
<1>6. ASSUME NEW t \in Tickers, StopFindsNothing(t) PROVE LedgerInv'
  <2>1. /\ stop' = [stop EXCEPT ![t] = [pc |-> "dec", read |-> count]] /\ stop[t].pc = "sell"
        /\ UNCHANGED <<count, stops, undone, drift>>
    BY <1>6 DEF StopFindsNothing, database, ghosts
  <2>2. [pc |-> "dec", read |-> count] \in Stops
    BY <1>0, StopsAre
  <2>3. CountFollowsStops'
    BY <2>1 DEF LedgerInv, CountFollowsStops
  <2>4. MayBecome(t, [pc |-> "dec", read |-> count])
    BY <1>0, <1>2a, <2>1 DEF MayBecome
  <2>5. QED
    BY <1>2b, <2>1, <2>2, <2>3, <2>4
<1>7. ASSUME NEW t \in Tickers, StopTakesBack(t) PROVE LedgerInv'
  <2> DEFINE n == stop[t].read
             m == IF stops - undone > Factor THEN 1 ELSE 0
  <2>1. /\ stop' = [stop EXCEPT ![t] = NoStop] /\ stop[t].pc = "dec"
        /\ count' = StepDown(n) /\ stops' = stops /\ undone' = undone + 1
        /\ drift' = drift + Between(n) + m
    BY <1>7 DEF StopTakesBack
  <2>2. NoStop \in Stops /\ NoStop.pc = "idle" /\ NoStop.read = 0
    BY StopsAre DEF NoStop
  <2>3. n \in 0..Factor /\ n <= stops
    BY <1>2a
  <2>4. Cardinality(Counted) >= 1
    <3>1. t \in Counted
      BY <2>1 DEF Counted
    <3>2. QED
      BY <1>2a, <3>1, FS_EmptySet
  <2>5. stops - undone >= 1 /\ m \in {0, 1} /\ (m = 0 => stops - undone <= Factor)
    BY <1>0, <1>2a, <2>4
  <2> HIDE DEF n, m
  <2>6. count' \in 0..Factor /\ count' <= stops' /\ drift' \in Nat /\ undone' \in 0..stops'
    BY <1>0, <2>1, <2>3, <2>5 DEF StepDown, Higher, Between
  <2>7. CountFollowsStops'
    BY <1>0, <2>1, <2>3, <2>5 DEF LedgerInv, CountFollowsStops, StepDown, Higher, Lower, Between, m
  <2>8. MayBecome(t, NoStop)
    BY <1>0, <1>2a, <2>1, <2>2, <2>5, <2>6 DEF MayBecome
  <2>9. QED
    BY <1>2b, <2>1, <2>2, <2>7, <2>8
<1>8. QED
  BY <1>2, <1>3, <1>4, <1>5, <1>6, <1>7 DEF Next, Stop

(* The ledger follows the stop-losses of all tickers: each step it is off  *)
(* is one that was written over, or taken back after a clamp.              *)
THEOREM LedgerFollows == Spec => []CountFollowsStops
<1>1. LedgerInv => CountFollowsStops
  BY DEF LedgerInv
<1>2. LedgerInv /\ [Next]_vars => LedgerInv'
  BY LedgerStep
<1>3. Init => LedgerInv
  BY LedgerInit
<1>4. QED
  BY <1>1, <1>2, <1>3, PTL DEF Spec

-----------------------------------------------------------------------------
(* Types *)

\* The watchlist task is at a bracket exactly when it is beyond "next"; up to
\* the decision no lookup has failed.
AtBracket ==
    /\ entry.pc \in {"idle", "next"} <=> entry.t = "none"
    /\ entry.pc \in {"idle", "next", "count", "decide"} => entry.unknown = 0

TypeInv == TypeOK /\ AtBracket /\ LedgerInv

\* Where a step of the watchlist task leaves it.
Leaves(pc, t) == entry' \in EntryTasks /\ entry'.pc = pc /\ entry'.t = t

LEMMA WatchingIs ==
    /\ entry' = Watching => Leaves("idle", "none") /\ entry'.unknown = 0 /\ entry'.count = 0
    /\ \A T \in SUBSET Tickers :
         entry' = [Watching EXCEPT !.pc = "next", !.todo = T] =>
           Leaves("next", "none") /\ entry'.unknown = 0 /\ entry'.count = 0
    /\ entry \in EntryTasks /\ Done => Leaves("next", "none") /\ entry'.unknown = 0 /\ entry'.count = 0
<1>1. Watching \in EntryTasks /\ Watching.pc = "idle" /\ Watching.t = "none" /\ Watching.unknown = 0 /\ Watching.count = 0
  BY EntryTasksAre DEF Watching
<1>2. ASSUME NEW T \in SUBSET Tickers, entry' = [Watching EXCEPT !.pc = "next", !.todo = T]
      PROVE  Leaves("next", "none") /\ entry'.unknown = 0 /\ entry'.count = 0
  <2>1. entry' \in EntryTasks
    BY <1>1, <1>2, EntryTasksBecome
  <2>2. entry'.pc = "next" /\ entry'.t = "none" /\ entry'.unknown = 0 /\ entry'.count = 0
    BY <1>2 DEF Watching
  <2>3. QED
    BY <2>1, <2>2 DEF Leaves
<1>3. ASSUME entry \in EntryTasks, Done PROVE Leaves("next", "none") /\ entry'.unknown = 0 /\ entry'.count = 0
  <2>1. entry' = [Watching EXCEPT !.pc = "next", !.todo = entry.todo, !.seen = entry.seen]
    BY <1>3 DEF Done
  <2>2. entry' \in EntryTasks
    BY <1>1, <1>3, <2>1, EntryTasksAre, EntryTasksBecome
  <2>3. entry'.pc = "next" /\ entry'.t = "none" /\ entry'.unknown = 0 /\ entry'.count = 0
    BY <2>1 DEF Watching
  <2>4. QED
    BY <2>2, <2>3 DEF Leaves
<1>4. QED
  BY <1>1, <1>2, <1>3 DEF Leaves

\* The fields a step does not name stay.
LEMMA EntryGoes ==
    ASSUME entry \in EntryTasks
    PROVE
      /\ \A T \in SUBSET Tickers :
           entry' = [entry EXCEPT !.todo = T] =>
             Leaves(entry.pc, entry.t) /\ entry'.unknown = entry.unknown /\ entry'.count = entry.count
      /\ \A T \in SUBSET Tickers, t \in Tickers :
           entry' = [entry EXCEPT !.pc = "count", !.t = t, !.todo = T] =>
             Leaves("count", t) /\ entry'.unknown = entry.unknown /\ entry'.count = entry.count
      /\ \A c \in 0..Factor :
           entry' = [entry EXCEPT !.pc = "decide", !.count = c] =>
             Leaves("decide", entry.t) /\ entry'.count = c /\ entry'.unknown = entry.unknown
      /\ \A n \in 0..MaxQty, S \in SUBSET (0..Factor), u \in 0..MaxUnknown :
           entry' = [entry EXCEPT !.pc = "gates", !.n = n, !.seen = S, !.unknown = u] =>
             Leaves("gates", entry.t) /\ entry'.n = n /\ entry'.unknown = u /\ entry'.count = entry.count
      /\ \A h \in Nat, b \in BOOLEAN, u \in 0..MaxUnknown :
           entry' = [entry EXCEPT !.pc = "exposure", !.have = h, !.verified = b, !.unknown = u] =>
             Leaves("exposure", entry.t) /\ entry'.have = h /\ entry'.unknown = u /\ entry'.count = entry.count /\ entry'.n = entry.n
      /\ \A pc \in Pcs :
           entry' = [entry EXCEPT !.pc = pc] =>
             Leaves(pc, entry.t) /\ entry'.count = entry.count /\ entry'.n = entry.n /\ entry'.have = entry.have /\ entry'.unknown = entry.unknown
      /\ \A u \in 0..MaxUnknown :
           entry' = [entry EXCEPT !.pc = "log", !.unknown = u] =>
             Leaves("log", entry.t) /\ entry'.unknown = u /\ entry'.count = entry.count
      /\ \A u \in 0..MaxUnknown, f \in 0..MaxQty :
           entry' = [entry EXCEPT !.pc = "log", !.unknown = u, !.f = f] =>
             Leaves("log", entry.t) /\ entry'.unknown = u /\ entry'.count = entry.count
<1>1. ASSUME NEW T \in SUBSET Tickers,
             entry' = [entry EXCEPT !.todo = T]
      PROVE  Leaves(entry.pc, entry.t) /\ entry'.unknown = entry.unknown /\ entry'.count = entry.count
  <2>1. entry' \in EntryTasks
    BY <1>1, EntryTasksAre, EntryTasksBecome
  <2>2. QED
    BY <1>1, <2>1 DEF EntryTasks, Leaves
<1>2. ASSUME NEW T \in SUBSET Tickers, NEW t \in Tickers,
             entry' = [entry EXCEPT !.pc = "count", !.t = t, !.todo = T]
      PROVE  Leaves("count", t) /\ entry'.unknown = entry.unknown /\ entry'.count = entry.count
  <2>1. entry' \in EntryTasks
    BY <1>2, EntryTasksAre, EntryTasksBecome
  <2>2. QED
    BY <1>2, <2>1 DEF EntryTasks, Leaves
<1>3. ASSUME NEW c \in 0..Factor,
             entry' = [entry EXCEPT !.pc = "decide", !.count = c]
      PROVE  Leaves("decide", entry.t) /\ entry'.count = c /\ entry'.unknown = entry.unknown
  <2>1. entry' \in EntryTasks
    BY <1>3, EntryTasksAre, EntryTasksBecome
  <2>2. QED
    BY <1>3, <2>1 DEF EntryTasks, Leaves
<1>4. ASSUME NEW n \in 0..MaxQty, NEW S \in SUBSET (0..Factor), NEW u \in 0..MaxUnknown,
             entry' = [entry EXCEPT !.pc = "gates", !.n = n, !.seen = S, !.unknown = u]
      PROVE  Leaves("gates", entry.t) /\ entry'.n = n /\ entry'.unknown = u /\ entry'.count = entry.count
  <2>1. entry' \in EntryTasks
    BY <1>4, EntryTasksAre, EntryTasksBecome
  <2>2. QED
    BY <1>4, <2>1 DEF EntryTasks, Leaves
<1>5. ASSUME NEW h \in Nat, NEW b \in BOOLEAN, NEW u \in 0..MaxUnknown,
             entry' = [entry EXCEPT !.pc = "exposure", !.have = h, !.verified = b, !.unknown = u]
      PROVE  Leaves("exposure", entry.t) /\ entry'.have = h /\ entry'.unknown = u /\ entry'.count = entry.count /\ entry'.n = entry.n
  <2>1. entry' \in EntryTasks
    BY <1>5, EntryTasksAre, EntryTasksBecome
  <2>2. QED
    BY <1>5, <2>1 DEF EntryTasks, Leaves
<1>6. ASSUME NEW pc \in Pcs,
             entry' = [entry EXCEPT !.pc = pc]
      PROVE  Leaves(pc, entry.t) /\ entry'.count = entry.count /\ entry'.n = entry.n /\ entry'.have = entry.have /\ entry'.unknown = entry.unknown
  <2>1. entry' \in EntryTasks
    BY <1>6, EntryTasksAre, EntryTasksBecome
  <2>2. QED
    BY <1>6, <2>1 DEF EntryTasks, Leaves
<1>7. ASSUME NEW u \in 0..MaxUnknown,
             entry' = [entry EXCEPT !.pc = "log", !.unknown = u]
      PROVE  Leaves("log", entry.t) /\ entry'.unknown = u /\ entry'.count = entry.count
  <2>1. entry' \in EntryTasks
    BY <1>7, EntryTasksAre, EntryTasksBecome
  <2>2. QED
    BY <1>7, <2>1 DEF EntryTasks, Leaves
<1>8. ASSUME NEW u \in 0..MaxUnknown, NEW f \in 0..MaxQty,
             entry' = [entry EXCEPT !.pc = "log", !.unknown = u, !.f = f]
      PROVE  Leaves("log", entry.t) /\ entry'.unknown = u /\ entry'.count = entry.count
  <2>1. entry' \in EntryTasks
    BY <1>8, EntryTasksAre, EntryTasksBecome
  <2>2. QED
    BY <1>8, <2>1 DEF EntryTasks, Leaves
<1>9. QED
  BY <1>1, <1>2, <1>3, <1>4, <1>5, <1>6, <1>7, <1>8

\* What has a type besides the ledger.
EntryTypes ==
    /\ net \in [Tickers -> Nat] /\ row \in [Tickers -> Nat]
    /\ bracket \in [Tickers -> Brackets] /\ held \subseteq Tickers
    /\ entry \in EntryTasks /\ orders \in 0..MaxOrders /\ used \subseteq Faults

LEMMA SpendIs == ASSUME used \subseteq Faults, NEW f \in Faults, NEW ok, Spend(f) \/ Answered(ok, f) PROVE used' \subseteq Faults
  BY DEF Spend, Answered

LEMMA LooksIs ==
    ASSUME entry \in EntryTasks, NEW ok \in BOOLEAN, Looks(ok)
    PROVE  /\ Unknown(ok) \in 0..MaxUnknown
           /\ ok => Unknown(ok) = entry.unknown
           /\ ~ok => Unknown(ok) = entry.unknown + 1
  BY EntryTasksAre, ConstantsAssumption DEF Looks, Unknown

\* An order within the entry's quantity.
LEMMA BuysIs ==
    ASSUME EntryTypes, entry.t \in Tickers, NEW f \in Nat, Buys(f)
    PROVE  /\ net' \in [Tickers -> Nat] /\ orders' \in 0..MaxOrders
           /\ f <= entry.n /\ net'[entry.t] = net[entry.t] + f
           /\ \A t \in Tickers \ {entry.t} : net'[t] = net[t]
<1>1. entry.n \in Nat
  BY EntryTasksAre, Quantities DEF EntryTypes
<1>2. net' = [net EXCEPT ![entry.t] = net[entry.t] + f] /\ f <= entry.n
  BY <1>1 DEF Buys
<1>3. orders' \in 0..MaxOrders
  BY ConstantsAssumption DEF Buys, EntryTypes
<1>4. QED
  BY <1>2, <1>3 DEF EntryTypes

LEMMA WatchTypes ==
    ASSUME EntryTypes, AtBracket, count \in 0..Factor, Watch
    PROVE  EntryTypes' /\ AtBracket'
<1>0. /\ net \in [Tickers -> Nat] /\ row \in [Tickers -> Nat]
      /\ bracket \in [Tickers -> Brackets] /\ held \subseteq Tickers
      /\ entry \in EntryTasks /\ orders \in 0..MaxOrders /\ used \subseteq Faults
      /\ entry.t \in Tickers \cup {"none"} /\ entry.unknown \in 0..MaxUnknown
      /\ entry.todo \in SUBSET Tickers /\ entry.seen \in SUBSET (0..Factor) /\ entry.count \in 0..Factor
      /\ entry.n \in 0..MaxQty /\ entry.have \in Nat /\ entry.f \in 0..MaxQty /\ MaxQty \in Nat
      /\ 0 \in 0..MaxUnknown /\ "none" \notin Tickers
  BY EntryTasksAre, Quantities, ConstantsAssumption DEF EntryTypes
<1>00. entry.t \in Tickers => bracket[entry.t] \in Brackets /\ bracket[entry.t].crossed \in BOOLEAN
            /\ bracket[entry.t].pending \in BOOLEAN /\ bracket[entry.t].phase \in {"MONITORING", "HOLDING"}
            /\ bracket[entry.t].qty \in Nat /\ net[entry.t] \in Nat
  BY <1>0, BracketsAre
<1> USE <1>0 DEF Faults, Pcs
\* It is enough to say where the task goes, and that the rest keeps its type.
<1>1. ASSUME net' \in [Tickers -> Nat], row' \in [Tickers -> Nat], bracket' \in [Tickers -> Brackets],
             held' \subseteq Tickers, orders' \in 0..MaxOrders, used' \subseteq Faults,
             NEW pc, NEW t, Leaves(pc, t), pc \in {"idle", "next"} <=> t = "none",
             pc \in {"idle", "next", "count", "decide"} => entry'.unknown = 0
      PROVE  EntryTypes' /\ AtBracket'
  BY <1>1 DEF Leaves, EntryTypes, AtBracket
<1>2. CASE CycleStarts
  <2>1. entry' = [Watching EXCEPT !.pc = "next", !.todo = Tickers]
    BY <1>2 DEF CycleStarts
  <2>2. Leaves("next", "none") /\ entry'.unknown = 0
    BY <2>1, WatchingIs
  <2>3. QED
    BY <1>1, <1>2, <2>2 DEF CycleStarts, database, ghosts
<1>3. CASE CycleEnds \/ GateRaises
  <2>1. Leaves("idle", "none") /\ entry'.unknown = 0
    BY <1>3, WatchingIs DEF CycleEnds, GateRaises
  <2>2. QED
    BY <1>1, <1>3, <2>1 DEF CycleEnds, GateRaises, database, ghosts
<1>4. CASE TimesOut
  <2>1. Leaves("idle", "none") /\ entry'.unknown = 0
    BY <1>4, WatchingIs DEF TimesOut
  <2>2. used' \subseteq Faults
    BY <1>4, SpendIs DEF TimesOut
  <2>3. net' \in [Tickers -> Nat] /\ orders' \in 0..MaxOrders
    <3>1. CASE UNCHANGED <<net, orders>>
      BY <3>1
    <3>2. ASSUME At("post"), NEW f \in 1..entry.n, Buys(f) PROVE net' \in [Tickers -> Nat] /\ orders' \in 0..MaxOrders
      BY <3>2, BuysIs DEF At, AtBracket, EntryTypes
    <3>3. QED
      BY <1>4, <3>1, <3>2 DEF TimesOut
  <2>4. QED
    BY <1>1, <1>4, <2>1, <2>2, <2>3 DEF TimesOut, database
<1>5. ASSUME NEW t \in Tickers, Skips(t) PROVE EntryTypes' /\ AtBracket'
  <2>1. entry' = [entry EXCEPT !.todo = entry.todo \ {t}]
    BY <1>5 DEF Skips
  <2>2. entry.todo \ {t} \in SUBSET Tickers /\ entry.pc = "next" /\ entry.t = "none" /\ entry.unknown = 0
    BY <1>5 DEF Skips, At, AtBracket
  <2>3. Leaves(entry.pc, entry.t) /\ entry'.unknown = entry.unknown
    BY <2>1, <2>2, EntryGoes
  <2>4. QED
    BY <1>1, <1>5, <2>2, <2>3 DEF Skips, database, ghosts
<1>6. ASSUME NEW t \in Tickers, Evaluates(t) PROVE EntryTypes' /\ AtBracket'
  <2>1. entry' = [entry EXCEPT !.pc = "count", !.t = t, !.todo = entry.todo \ {t}] /\ entry.pc = "next"
    BY <1>6 DEF Evaluates, At
  <2>2. entry.todo \ {t} \in SUBSET Tickers /\ entry.unknown = 0
    BY <2>1 DEF AtBracket
  <2>3. Leaves("count", t) /\ entry'.unknown = entry.unknown
    BY <2>1, <2>2, EntryGoes
  <2>4. QED
    BY <1>1, <1>6, <2>2, <2>3 DEF Evaluates, database, ghosts
<1>7. ASSUME NEW read \in BOOLEAN, Counts(read) PROVE EntryTypes' /\ AtBracket'
  <2>1. entry.t \in Tickers /\ entry.unknown = 0 /\ used' \subseteq Faults
    BY <1>7, SpendIs DEF Counts, At, AtBracket
  <2>2. CASE read
    <3>1. Leaves("decide", entry.t) /\ entry'.unknown = 0
      BY <1>7, <2>1, <2>2, EntryGoes DEF Counts
    <3>2. QED
      BY <1>1, <1>7, <2>1, <3>1 DEF Counts, database
  <2>3. CASE ~read
    <3>1. Leaves("idle", "none") /\ entry'.unknown = 0
      BY <1>7, <2>3, WatchingIs DEF Counts
    <3>2. QED
      BY <1>1, <1>7, <2>1, <3>1 DEF Counts, database
  <2>4. QED
    BY <2>2, <2>3
\* A step that marks the bracket and goes on to the next one.
<1>8. ASSUME entry.t \in Tickers, NEW p \in {"MONITORING", "HOLDING"}, NEW c \in BOOLEAN, NEW d \in BOOLEAN,
             Mark(p, c, d)
      PROVE  bracket' \in [Tickers -> Brackets]
  BY <1>8, MarkIs
<1>9. ASSUME entry.t \in Tickers, GivesUp
      PROVE  bracket' \in [Tickers -> Brackets] /\ Leaves("next", "none") /\ entry'.unknown = 0
  BY <1>00, <1>8, <1>9, WatchingIs DEF GivesUp, Same
<1>10. ASSUME NEW ok \in BOOLEAN, NEW fills \in BOOLEAN, Decides(ok, fills) PROVE EntryTypes' /\ AtBracket'
  <2>1. entry.t \in Tickers /\ entry.unknown = 0 /\ UNCHANGED <<net, row, held, orders, used>>
    BY <1>10 DEF Decides, At, AtBracket, database, ghosts
  <2>2. CASE Done /\ UNCHANGED bracket
    BY <1>1, <2>1, <2>2, WatchingIs
  <2>3. CASE (Retires \/ Yields) /\ Done
    BY <1>00, <1>1, <1>8, <2>1, <2>3, WatchingIs DEF Retires, Yields, Same
  <2>4. CASE /\ IsAllowed(entry.count) /\ Mark(Same.phase, TRUE, Same.pending)
             /\ entry' = [entry EXCEPT !.pc = "gates", !.n = NextQty(entry.count),
                                       !.seen = entry.seen \cup {entry.count},
                                       !.unknown = Unknown(ok /\ fills)]
             /\ Looks(ok /\ fills)
    <3>1. NextQty(entry.count) \in 0..MaxQty
      BY <2>4, Quantities, ConstantsAssumption
    <3>2. Unknown(ok /\ fills) \in 0..MaxUnknown
      BY <2>4, LooksIs
    <3>3. entry.seen \cup {entry.count} \in SUBSET (0..Factor)
      OBVIOUS
    <3>4. Leaves("gates", entry.t)
      BY <2>4, <3>1, <3>2, <3>3, EntryGoes
    <3>5. bracket' \in [Tickers -> Brackets]
      BY <1>00, <1>8, <2>1, <2>4 DEF Same
    <3>6. QED
      BY <1>1, <2>1, <3>4, <3>5
  <2>5. QED
    BY <1>10, <2>2, <2>3, <2>4 DEF Decides
<1>11. ASSUME NEW v \in {"closed", "no quote"}, Refused(v) PROVE EntryTypes' /\ AtBracket'
  <2>1. entry.t \in Tickers /\ UNCHANGED <<net, row, held, orders, used>>
    BY <1>11 DEF Refused, At, AtBracket, database, ghosts
  <2>2. bracket' \in [Tickers -> Brackets] /\ Leaves("next", "none") /\ entry'.unknown = 0
    BY <1>00, <1>8, <1>9, <1>11, <2>1, WatchingIs DEF Refused, Same
  <2>3. QED
    BY <1>1, <2>1, <2>2
<1>12. ASSUME NEW ok \in BOOLEAN, Checks(ok) PROVE EntryTypes' /\ AtBracket'
  <2>1. entry.t \in Tickers /\ UNCHANGED <<net, row, held, orders, used>>
    BY <1>12 DEF Checks, At, AtBracket, database, ghosts
  <2>2. CASE GivesUp
    BY <1>1, <1>9, <2>1, <2>2
  <2>3. CASE /\ entry' = [entry EXCEPT !.pc = "exposure", !.have = Live(ok), !.verified = ok,
                                       !.unknown = Unknown(ok)]
             /\ UNCHANGED bracket
    <3>1. Live(ok) \in Nat
      BY <1>00, <2>1 DEF Live, Higher, Same
    <3>2. Unknown(ok) \in 0..MaxUnknown
      BY <1>12, LooksIs DEF Checks
    <3>3. Leaves("exposure", entry.t)
      BY <2>3, <3>1, <3>2, EntryGoes
    <3>4. QED
      BY <1>1, <2>1, <2>3, <3>3
  <2>4. QED
    BY <1>12, <2>2, <2>3 DEF Checks
<1>13. ASSUME NEW read \in BOOLEAN, Exposes(read) PROVE EntryTypes' /\ AtBracket'
  <2>1. entry.t \in Tickers /\ UNCHANGED <<net, row, held, orders>> /\ used' \subseteq Faults
    BY <1>13, SpendIs DEF Exposes, At, AtBracket, database
  <2>2. CASE GivesUp
    BY <1>1, <1>9, <2>1, <2>2
  <2>3. CASE Go("post") /\ UNCHANGED bracket
    <3>1. Leaves("post", entry.t)
      BY <2>3, EntryGoes DEF Go
    <3>2. QED
      BY <1>1, <2>1, <2>3, <3>1
  <2>4. QED
    BY <1>13, <2>2, <2>3 DEF Exposes
<1>14. ASSUME NEW ok \in BOOLEAN, Rejects(ok) PROVE EntryTypes' /\ AtBracket'
  <2>1. entry.t \in Tickers /\ UNCHANGED <<net, row, bracket, held, orders, used>>
        /\ entry' = [entry EXCEPT !.pc = "log", !.unknown = 0]
    BY <1>14 DEF Rejects, At, AtBracket, database, ghosts
  <2>2. Leaves("log", entry.t)
    BY <2>1, EntryGoes
  <2>3. QED
    BY <1>1, <2>1, <2>2
<1>15. ASSUME NEW f \in 0..MaxQty, NEW ok \in BOOLEAN, NEW replied \in BOOLEAN, Posts(f, ok, replied)
       PROVE  EntryTypes' /\ AtBracket'
  <2>1. /\ entry.t \in Tickers /\ UNCHANGED <<row, bracket, held>> /\ used' \subseteq Faults /\ Buys(f)
        /\ entry' = [entry EXCEPT !.pc = "log", !.unknown = 0, !.f = IF replied THEN f ELSE 0]
    BY <1>15, SpendIs DEF Posts, At, AtBracket, database
  <2>2. Leaves("log", entry.t)
    <3>1. (IF replied THEN f ELSE 0) \in 0..MaxQty
      OBVIOUS
    <3>2. QED
      BY <2>1, <3>1, EntryGoes
  <2>3. net' \in [Tickers -> Nat] /\ orders' \in 0..MaxOrders
    BY <2>1, BuysIs
  <2>4. QED
    BY <1>1, <2>1, <2>2, <2>3
<1>16. ASSUME NEW written \in BOOLEAN, Logs(written) PROVE EntryTypes' /\ AtBracket'
  <2>1. entry.t \in Tickers /\ UNCHANGED <<net, row, held, orders>> /\ used' \subseteq Faults
    BY <1>16, SpendIs DEF Logs, At, AtBracket, database
  <2>2. CASE entry' = Watching /\ UNCHANGED bracket
    BY <1>1, <2>1, <2>2, WatchingIs
  <2>3. CASE GivesUp
    BY <1>1, <1>9, <2>1, <2>3
  <2>4. CASE Mark("HOLDING", Same.crossed, FALSE) /\ Go("book")
    <3>1. Leaves("book", entry.t)
      BY <2>4, EntryGoes DEF Go
    <3>2. QED
      BY <1>00, <1>1, <1>8, <2>1, <2>4, <3>1 DEF Same
  <2>5. QED
    BY <1>16, <2>2, <2>3, <2>4 DEF Logs, AfterFailure
<1>17. ASSUME NEW ok \in BOOLEAN, NEW written \in BOOLEAN, Books(ok, written) PROVE EntryTypes' /\ AtBracket'
  <2> DEFINE q == Higher(entry.have + entry.f, IF ok THEN net[entry.t] ELSE 0)
  <2>1. /\ entry.t \in Tickers /\ UNCHANGED <<net, orders>> /\ used' \subseteq Faults /\ Done
        /\ bracket' = [bracket EXCEPT ![entry.t] = [bracket[entry.t] EXCEPT !.qty = q]]
        /\ held' = held \cup {entry.t}
        /\ row' = IF written THEN [row EXCEPT ![entry.t] = q] ELSE row
    BY <1>17, SpendIs DEF Books, At, AtBracket
  <2>2. q \in Nat
    BY <1>00, <2>1 DEF Higher
  <2> HIDE DEF q
  <2>3. bracket' \in [Tickers -> Brackets] /\ row' \in [Tickers -> Nat]
    BY <1>00, <2>1, <2>2, BracketsAre
  <2>4. QED
    BY <1>1, <2>1, <2>3, WatchingIs
<1>20. QED
  BY <1>2, <1>3, <1>4, <1>5, <1>6, <1>7, <1>10, <1>11, <1>12, <1>13, <1>14, <1>15, <1>16, <1>17 DEF Watch

LEMMA OthersTypes ==
    ASSUME EntryTypes, AtBracket, NEW t \in Tickers, Sweep(t) \/ Stop(t) \/ SoldElsewhere(t)
    PROVE  EntryTypes' /\ UNCHANGED <<entry, orders, used>>
<1> USE BracketsAre DEF EntryTypes
<1>1. CASE SweepAdopts(t)
  BY <1>1 DEF SweepAdopts, ghosts
<1>2. CASE SweepSyncs(t)
  BY <1>2 DEF SweepSyncs, database, ghosts
<1>3. CASE SweepRemoves(t)
  BY <1>3 DEF SweepRemoves, Closes, ghosts
<1>4. CASE SoldElsewhere(t)
  BY <1>4 DEF SoldElsewhere, database, ghosts
<1>5. CASE StopReads(t) \/ StopFindsNothing(t)
  BY <1>5 DEF StopReads, StopFindsNothing, database, ghosts
<1>6. CASE StopCounts(t) \/ StopTakesBack(t)
  BY <1>6 DEF StopCounts, StopTakesBack
<1>7. CASE StopSells(t)
  BY <1>7 DEF StopSells, Closes, ghosts
<1>8. QED
  BY <1>1, <1>2, <1>3, <1>4, <1>5, <1>6, <1>7 DEF Sweep, Stop

LEMMA TypeSplits == TypeOK <=> EntryTypes /\ LedgerTypes
  BY DEF TypeOK, EntryTypes, LedgerTypes

LEMMA TypeInit == ASSUME Init PROVE TypeInv
<1>1. EntryTypes
  <2>1. net \in [Tickers -> Nat] /\ row \in [Tickers -> Nat]
    BY DEF Init
  <2>2. bracket \in [Tickers -> Brackets] /\ entry \in EntryTasks
    BY EntryTasksAre, BracketsAre DEF Init
  <2>3. orders \in 0..MaxOrders
    BY ConstantsAssumption DEF Init
  <2>4. held \subseteq Tickers /\ used \subseteq Faults
    BY DEF Init
  <2>5. QED
    BY <2>1, <2>2, <2>3, <2>4 DEF EntryTypes
<1>2. AtBracket
  BY DEF Init, Watching, AtBracket
<1>3. QED
  BY <1>1, <1>2, LedgerInit, TypeSplits DEF TypeInv, LedgerInv

LEMMA TypeStep == ASSUME TypeInv, [Next]_vars PROVE TypeInv'
<1>1. EntryTypes /\ AtBracket /\ count \in 0..Factor
  BY TypeSplits DEF TypeInv, LedgerTypes
<1>2. LedgerInv'
  BY LedgerStep DEF TypeInv
<1>3. EntryTypes' /\ AtBracket'
  <2>1. CASE Watch
    BY <1>1, <2>1, WatchTypes
  <2>2. ASSUME NEW t \in Tickers, Sweep(t) \/ Stop(t) \/ SoldElsewhere(t) PROVE EntryTypes' /\ AtBracket'
    BY <1>1, <2>2, OthersTypes DEF AtBracket
  <2>3. CASE UNCHANGED vars
    BY <1>1, <2>3 DEF vars, database, ghosts, EntryTypes, AtBracket
  <2>4. QED
    BY <2>1, <2>2, <2>3 DEF Next
<1>4. TypeOK'
  BY <1>2, <1>3 DEF TypeOK, EntryTypes, LedgerTypes, LedgerInv
<1>5. QED
  BY <1>2, <1>3, <1>4 DEF TypeInv

(* Every variable keeps its type. *)
THEOREM TypeCorrect == Spec => []TypeOK
<1>1. TypeInv => TypeOK
  BY DEF TypeInv
<1>2. QED
  BY <1>1, TypeInit, TypeStep, PTL DEF Spec

-----------------------------------------------------------------------------
(* The cap on a position                                                    *)

\* One of the lookups before an order has answered, and since then the
\* position has only become smaller.
CapIsChecked ==
    /\ At("gates") => /\ entry.unknown <= 1
                      /\ entry.unknown = 0 => net[entry.t] + entry.n <= MaxQty
    /\ At("exposure") \/ At("post") =>
          (entry.unknown <= 1 => net[entry.t] + entry.n <= MaxQty)

CapInv == PositionWithinCap /\ CapIsChecked

LEMMA CapInit == ASSUME Init PROVE CapInv
<1>1. \A t \in Tickers : net[t] = 0
  BY DEF Init
<1>2. MaxQty >= 0
  BY Quantities
<1>3. PositionWithinCap
  BY <1>1, <1>2 DEF PositionWithinCap, MaxQty, NextQty
<1>4. CapIsChecked
  BY DEF Init, Watching, CapIsChecked, At
<1>5. QED
  BY <1>3, <1>4 DEF CapInv

LEMMA CapStep ==
    ASSUME MaxUnknown <= 2, TypeInv, CapInv, [Next]_vars
    PROVE  CapInv'
<1>0. /\ EntryTypes /\ AtBracket /\ net \in [Tickers -> Nat] /\ entry \in EntryTasks
      /\ entry.unknown \in 0..MaxUnknown /\ MaxUnknown \in Nat /\ entry.n \in Nat /\ entry.have \in Nat
      /\ MaxQty \in Nat /\ entry.n \in 0..MaxQty /\ entry.count \in 0..Factor
      /\ entry.t \in Tickers \cup {"none"}
      /\ \A t \in Tickers : net[t] \in Nat /\ net[t] <= MaxQty
  BY TypeSplits, EntryTasksAre, Quantities, ConstantsAssumption
     DEF TypeInv, EntryTypes, CapInv, PositionWithinCap, MaxQty, NextQty
<1>1. net' \in [Tickers -> Nat]
  <2>1. TypeInv'
    BY TypeStep
  <2>2. QED
    BY <2>1 DEF TypeInv, TypeOK
<1> HIDE DEF MaxQty
\* The two parts, for the next state.
<1>2. ASSUME \A t \in Tickers : net'[t] <= MaxQty PROVE PositionWithinCap'
  BY <1>2 DEF PositionWithinCap, MaxQty, NextQty
<1>3. ASSUME \A t \in Tickers : net'[t] <= net[t] PROVE PositionWithinCap'
  <2>1. ASSUME NEW t \in Tickers PROVE net'[t] <= MaxQty
    BY <1>0, <1>1, <1>3
  <2>2. QED
    BY <1>2, <2>1
<1>4. ASSUME NEW pc, NEW t, Leaves(pc, t), pc \notin {"gates", "exposure", "post"} PROVE CapIsChecked'
  BY <1>4 DEF Leaves, CapIsChecked, At
\* A step that only makes positions smaller and is not the watchlist task's.
<1>5. ASSUME UNCHANGED entry, \A t \in Tickers : net'[t] <= net[t] PROVE CapInv'
  <2>1. At("gates") \/ At("exposure") \/ At("post") => entry.t \in Tickers
    BY <1>0 DEF AtBracket, At
  <2>2. ASSUME entry.t \in Tickers, net[entry.t] + entry.n <= MaxQty
        PROVE  net'[entry.t] + entry.n <= MaxQty
    BY <1>0, <1>1, <1>5, <2>2
  <2>3. CapIsChecked'
    BY <1>5, <2>1, <2>2 DEF CapInv, CapIsChecked, At
  <2>4. QED
    BY <1>3, <1>5, <2>3 DEF CapInv
\* A step of the watchlist task without an order.
<1>6. ASSUME UNCHANGED net, CapIsChecked' PROVE CapInv'
  BY <1>0, <1>3, <1>6 DEF CapInv
<1>7. ASSUME UNCHANGED net, NEW pc, NEW t, Leaves(pc, t), pc \notin {"gates", "exposure", "post"} PROVE CapInv'
  BY <1>4, <1>6, <1>7
<1>8. CASE CycleStarts \/ CycleEnds \/ GateRaises
  <2>1. Leaves("next", "none") \/ Leaves("idle", "none")
    BY <1>8, WatchingIs DEF CycleStarts, CycleEnds, GateRaises
  <2>2. QED
    BY <1>7, <1>8, <2>1 DEF CycleStarts, CycleEnds, GateRaises
\* An order that passed the executor's own lookup fits.
<1>9. ASSUME NEW ok \in BOOLEAN, NEW f \in Nat, At("post"), ~Refuses(ok), Looks(ok), Buys(f)
      PROVE  PositionWithinCap'
  <2>1. entry.t \in Tickers
    BY <1>0, <1>9 DEF AtBracket, At
  <2>2. net[entry.t] + entry.n <= MaxQty
    <3>1. CASE ok
      BY <1>0, <1>9, <2>1, <3>1 DEF Refuses, Known
    <3>2. CASE ~ok
      <4>1. entry.unknown <= 1
        BY <1>0, <1>9, <3>2 DEF Looks
      <4>2. QED
        BY <1>9, <4>1 DEF CapInv, CapIsChecked
    <3>3. QED
      BY <3>1, <3>2
  <2>3. /\ f <= entry.n /\ net'[entry.t] = net[entry.t] + f
        /\ \A t \in Tickers \ {entry.t} : net'[t] = net[t]
    BY <1>0, <1>9, <2>1, BuysIs
  <2>4. net'[entry.t] <= MaxQty
    BY <1>0, <2>1, <2>2, <2>3
  <2>5. \A t \in Tickers : net'[t] <= MaxQty
    BY <1>0, <2>3, <2>4
  <2>6. QED
    BY <1>2, <2>5
<1>10. CASE TimesOut
  <2>1. CapIsChecked'
    BY <1>4, <1>10, WatchingIs DEF TimesOut
  <2>2. CASE UNCHANGED net
    BY <1>6, <2>1, <2>2
  <2>3. ASSUME At("post"), NEW f \in 1..entry.n, NEW ok \in BOOLEAN, ~Refuses(ok), Looks(ok), Buys(f)
        PROVE  PositionWithinCap'
    <3>1. f \in Nat
      BY <1>0
    <3>2. QED
      BY <1>9, <2>3, <3>1
  <2>4. QED
    BY <1>10, <2>1, <2>2, <2>3 DEF TimesOut, CapInv
<1>11. ASSUME NEW t \in Tickers, Skips(t) \/ Evaluates(t) PROVE CapInv'
  <2>1. entry.pc = "next" /\ UNCHANGED net
    BY <1>11 DEF Skips, Evaluates, At
  <2>2. entry.todo \ {t} \in SUBSET Tickers
    BY <1>0, EntryTasksAre
  <2>3. Leaves(entry.pc, entry.t) \/ Leaves("count", t)
    BY <1>0, <1>11, <2>2, EntryGoes DEF Skips, Evaluates
  <2>4. QED
    BY <1>7, <2>1, <2>3
<1>12. ASSUME NEW read \in BOOLEAN, Counts(read) PROVE CapInv'
  <2>1. count \in 0..Factor
    BY DEF TypeInv, LedgerInv, LedgerTypes
  <2>2. Leaves("decide", entry.t) \/ Leaves("idle", "none")
    BY <1>0, <1>12, <2>1, EntryGoes, WatchingIs DEF Counts
  <2>3. QED
    BY <1>7, <1>12, <2>2 DEF Counts
<1>13. ASSUME NEW ok \in BOOLEAN, NEW fills \in BOOLEAN, Decides(ok, fills) PROVE CapInv'
  <2>1. UNCHANGED net /\ entry.t \in Tickers /\ entry.unknown = 0 /\ Looks(ok /\ fills)
    BY <1>0, <1>13 DEF Decides, At, AtBracket
  <2>2. CASE Done
    BY <1>0, <1>7, <2>1, <2>2, WatchingIs
  <2>3. CASE /\ IsAllowed(entry.count) /\ AppOwned(ok, fills) + NextQty(entry.count) <= MaxQty
             /\ entry' = [entry EXCEPT !.pc = "gates", !.n = NextQty(entry.count),
                                       !.seen = entry.seen \cup {entry.count},
                                       !.unknown = Unknown(ok /\ fills)]
    <3>1. NextQty(entry.count) \in 0..MaxQty
      BY <1>0, <2>3, Quantities, ConstantsAssumption
    <3>2. (ok /\ fills) \in BOOLEAN
      OBVIOUS
    <3>3. /\ Unknown(ok /\ fills) \in 0..MaxUnknown
          /\ (ok /\ fills) => Unknown(ok /\ fills) = entry.unknown
          /\ ~(ok /\ fills) => Unknown(ok /\ fills) = entry.unknown + 1
      BY <1>0, <2>1, <3>2, LooksIs
    <3>4. entry.seen \cup {entry.count} \in SUBSET (0..Factor)
      BY <1>0, EntryTasksAre
    <3>5. /\ Leaves("gates", entry.t) /\ entry'.n = NextQty(entry.count)
          /\ entry'.unknown = Unknown(ok /\ fills)
      <4> DEFINE m == NextQty(entry.count)
                 S == entry.seen \cup {entry.count}
                 u == Unknown(ok /\ fills)
      <4>1. m \in 0..MaxQty /\ S \in SUBSET (0..Factor) /\ u \in 0..MaxUnknown
        BY <3>1, <3>3, <3>4
      <4>2. entry' = [entry EXCEPT !.pc = "gates", !.n = m, !.seen = S, !.unknown = u]
        BY <2>3
      <4> HIDE DEF m, S, u
      <4>3. Leaves("gates", entry.t) /\ entry'.n = m /\ entry'.unknown = u
        BY <1>0, <4>1, <4>2, EntryGoes
      <4>4. QED
        BY <4>3 DEF m, u
    <3>6. entry'.unknown <= 1
      BY <2>1, <3>3, <3>5
    <3>7. ASSUME ok, fills PROVE net[entry.t] + NextQty(entry.count) <= MaxQty
      <4>1. bracket[entry.t].qty \in Nat /\ net[entry.t] \in Nat
        BY <1>0, <2>1, BracketsAre DEF EntryTypes
      <4>2. AppOwned(ok, fills) = net[entry.t]
        BY <3>7, <4>1 DEF AppOwned, Live, Lower, Higher, Same
      <4>3. QED
        BY <2>3, <4>2
    <3>8. entry'.unknown = 0 => ok /\ fills
      BY <2>1, <3>3, <3>5
    <3>9. CapIsChecked'
      BY <2>1, <3>5, <3>6, <3>7, <3>8 DEF CapIsChecked, At, Leaves
    <3>10. QED
      BY <1>6, <2>1, <3>9
  <2>4. QED
    BY <1>13, <2>2, <2>3 DEF Decides
<1>14. ASSUME NEW v \in {"closed", "no quote"}, Refused(v) PROVE CapInv'
  BY <1>0, <1>7, <1>14, WatchingIs DEF Refused, GivesUp
<1>15. ASSUME NEW ok \in BOOLEAN, Checks(ok) PROVE CapInv'
  <2>1. UNCHANGED net /\ entry.t \in Tickers /\ Looks(ok) /\ At("gates")
    BY <1>0, <1>15 DEF Checks, At, AtBracket
  <2>2. CASE GivesUp
    BY <1>0, <1>7, <2>1, <2>2, WatchingIs DEF GivesUp
  <2>3. CASE /\ Live(ok) + entry.n <= MaxQty
             /\ entry' = [entry EXCEPT !.pc = "exposure", !.have = Live(ok), !.verified = ok,
                                       !.unknown = Unknown(ok)]
    <3>1. bracket[entry.t].qty \in Nat /\ net[entry.t] \in Nat
      BY <1>0, <2>1, BracketsAre DEF EntryTypes
    <3>2. Live(ok) \in Nat /\ (ok => net[entry.t] <= Live(ok))
      BY <3>1 DEF Live, Higher, Same
    <3>3. /\ Unknown(ok) \in 0..MaxUnknown
          /\ ok => Unknown(ok) = entry.unknown
          /\ ~ok => Unknown(ok) = entry.unknown + 1
      BY <1>0, <2>1, LooksIs
    <3>4. Leaves("exposure", entry.t) /\ entry'.unknown = Unknown(ok) /\ entry'.n = entry.n
      BY <1>0, <2>3, <3>2, <3>3, EntryGoes
    <3>5. entry'.unknown <= 1 => net[entry.t] + entry.n <= MaxQty
      <4>1. CASE ok
        <5>1. Live(ok) + entry.n <= MaxQty /\ net[entry.t] <= Live(ok)
          BY <2>3, <3>2, <4>1
        <5>2. QED
          BY <1>0, <3>1, <3>2, <5>1
      <4>2. CASE ~ok
        <5>1. entry'.unknown <= 1 => entry.unknown = 0
          BY <1>0, <3>3, <3>4, <4>2
        <5>2. QED
          BY <2>1, <5>1 DEF CapInv, CapIsChecked
      <4>3. QED
        BY <4>1, <4>2
    <3>6. CapIsChecked'
      BY <2>1, <3>4, <3>5 DEF CapIsChecked, At, Leaves
    <3>7. QED
      BY <1>6, <2>1, <3>6
  <2>4. Live(ok) \in Nat
    <3>1. bracket[entry.t].qty \in Nat /\ net[entry.t] \in Nat
      BY <1>0, <2>1, BracketsAre DEF EntryTypes
    <3>2. QED
      BY <3>1 DEF Live, Higher, Same
  <2>5. Live(ok) + entry.n > MaxQty \/ Live(ok) + entry.n <= MaxQty
    BY <1>0, <2>4
  <2>6. QED
    BY <1>15, <2>2, <2>3, <2>5 DEF Checks
<1>16. ASSUME NEW read \in BOOLEAN, Exposes(read) PROVE CapInv'
  <2>1. UNCHANGED net /\ entry.t \in Tickers /\ At("exposure")
    BY <1>0, <1>16 DEF Exposes, At, AtBracket
  <2>2. CASE GivesUp
    BY <1>0, <1>7, <2>1, <2>2, WatchingIs DEF GivesUp
  <2>3. CASE Go("post")
    <3>1. Leaves("post", entry.t) /\ entry'.n = entry.n /\ entry'.unknown = entry.unknown
      BY <1>0, <2>3, EntryGoes DEF Go, Pcs
    <3>2. CapIsChecked'
      BY <2>1, <3>1 DEF CapInv, CapIsChecked, At, Leaves
    <3>3. QED
      BY <1>6, <2>1, <3>2
  <2>4. QED
    BY <1>16, <2>2, <2>3 DEF Exposes
<1>17. ASSUME NEW ok \in BOOLEAN, Rejects(ok) PROVE CapInv'
  <2>1. Leaves("log", entry.t)
    <3>1. 0 \in 0..MaxUnknown
      BY <1>0
    <3>2. QED
      BY <1>0, <1>17, <3>1, EntryGoes DEF Rejects
  <2>2. QED
    BY <1>7, <1>17, <2>1 DEF Rejects
<1>18. ASSUME NEW f \in 0..MaxQty, NEW ok \in BOOLEAN, NEW replied \in BOOLEAN, Posts(f, ok, replied)
       PROVE  CapInv'
  <2>1. Leaves("log", entry.t)
    <3>1. 0 \in 0..MaxUnknown /\ (IF replied THEN f ELSE 0) \in 0..MaxQty
      BY <1>0
    <3>2. entry' = [entry EXCEPT !.pc = "log", !.unknown = 0, !.f = IF replied THEN f ELSE 0]
      BY <1>18 DEF Posts
    <3>3. QED
      BY <1>0, <3>1, <3>2, EntryGoes
  <2>2. PositionWithinCap'
    BY <1>9, <1>18 DEF Posts
  <2>3. QED
    BY <1>4, <2>1, <2>2 DEF CapInv
<1>19. ASSUME NEW written \in BOOLEAN, Logs(written) PROVE CapInv'
  <2>1. Leaves("idle", "none") \/ Leaves("next", "none") \/ Leaves("book", entry.t)
    BY <1>0, <1>19, WatchingIs, EntryGoes DEF Logs, AfterFailure, GivesUp, Go, Pcs
  <2>2. QED
    BY <1>7, <1>19, <2>1 DEF Logs
<1>20. ASSUME NEW ok \in BOOLEAN, NEW written \in BOOLEAN, Books(ok, written) PROVE CapInv'
  BY <1>0, <1>7, <1>20, WatchingIs DEF Books
<1>21. ASSUME NEW t \in Tickers, Sweep(t) \/ Stop(t) \/ SoldElsewhere(t) PROVE CapInv'
  <2>1. UNCHANGED entry
    BY <1>0, <1>21, OthersTypes
  <2>2. UNCHANGED net \/ net' = [net EXCEPT ![t] = 0]
    BY <1>21 DEF Sweep, SweepAdopts, SweepSyncs, SweepRemoves, Stop, StopReads, StopCounts, StopSells,
       StopFindsNothing, StopTakesBack, SoldElsewhere
  <2>3. \A u \in Tickers : net'[u] <= net[u]
    BY <1>0, <2>2
  <2>4. QED
    BY <1>5, <2>1, <2>3
<1>22. CASE UNCHANGED vars
  BY <1>0, <1>5, <1>22 DEF vars
<1>23. CASE Watch
  BY <1>8, <1>10, <1>11, <1>12, <1>13, <1>14, <1>15, <1>16, <1>17, <1>18, <1>19, <1>20, <1>23 DEF Watch
<1>24. QED
  BY <1>21, <1>22, <1>23 DEF Next

(* "last allowed buy": no sequence of entries, recoveries, adoptions, lost  *)
(* replies and cancelled cycles makes a position larger than the last step  *)
(* of the hedge, as long as one of the three lookups before each order is   *)
(* answered.                                                                *)
THEOREM WithinCap == ASSUME MaxUnknown <= 2 PROVE Spec => []PositionWithinCap
<1>1. TypeInv /\ CapInv => PositionWithinCap
  BY DEF CapInv
<1>2. Init => TypeInv /\ CapInv
  BY TypeInit, CapInit
<1>3. TypeInv /\ CapInv /\ [Next]_vars => (TypeInv /\ CapInv)'
  BY TypeStep, CapStep
<1>4. QED
  BY <1>1, <1>2, <1>3, PTL DEF Spec

-----------------------------------------------------------------------------
(* The candidates                                                           *)

IsForgotten(b) == b.phase = "MONITORING" /\ b.crossed /\ ~b.pending

\* Until the decision, the bracket of the entry is a candidate or was adopted;
\* once an order is filled it holds a position.
BusyIsCandidate ==
    /\ At("count") \/ At("decide") => ~IsForgotten(bracket[entry.t])
    /\ At("book") => bracket[entry.t].phase = "HOLDING"

IsExcused == "cut" \in used \/ stops >= Factor

CandidatesInv == NoLostCandidate /\ BusyIsCandidate /\ entry.count <= stops

LEMMA LostIs ==
    NoLostCandidate <=> \A t \in Tickers : IsForgotten(bracket[t]) /\ entry.t # t => IsExcused
  BY DEF NoLostCandidate, IsLost, Busy, IsForgotten, IsExcused

LEMMA CandidatesInit == ASSUME Init PROVE CandidatesInv
<1>1. \A t \in Tickers : ~IsForgotten(bracket[t])
  BY DEF Init, NewBracket, IsForgotten
<1>2. entry.pc = "idle" /\ entry.count = 0
  BY DEF Init, Watching
<1>3. entry.count <= stops
  BY <1>2, LedgerInit, ConstantsAssumption DEF LedgerInv, LedgerTypes
<1>4. QED
  BY <1>1, <1>2, <1>3, LostIs DEF CandidatesInv, BusyIsCandidate, At

\* Faults and stop-losses are only added.
LEMMA ExcuseStays ==
    ASSUME TypeInv, [Next]_vars
    PROVE  used \subseteq used' /\ stops <= stops' /\ (IsExcused => IsExcused')
<1>0. stops \in Nat /\ Factor \in Nat
  BY ConstantsAssumption DEF TypeInv, LedgerInv, LedgerTypes
<1>1. (UNCHANGED used \/ \E f \in Faults : Spend(f)) /\ (UNCHANGED stops \/ stops' = stops + 1)
  <2>1. CASE Watch
    BY <2>1 DEF Watch, CycleStarts, CycleEnds, GateRaises, TimesOut, Skips, Evaluates, Counts, Checks,
       Exposes, Rejects, Logs, Decides, Books, Posts, Refused, Answered, ghosts, Faults
  <2>2. ASSUME NEW t \in Tickers, Sweep(t) \/ SoldElsewhere(t)
        PROVE  UNCHANGED used /\ UNCHANGED stops
    BY <2>2 DEF Sweep, SweepAdopts, SweepSyncs, SweepRemoves, SoldElsewhere, ghosts
  <2>3. ASSUME NEW t \in Tickers, Stop(t)
        PROVE  UNCHANGED used /\ (UNCHANGED stops \/ stops' = stops + 1)
    BY <2>3 DEF Stop, StopReads, StopCounts, StopSells, StopFindsNothing, StopTakesBack, ghosts
  <2>4. CASE UNCHANGED vars
    BY <2>4 DEF vars, ghosts
  <2>5. QED
    BY <2>1, <2>2, <2>3, <2>4 DEF Next
<1>2. used \subseteq used'
  BY <1>1 DEF Spend
<1>3. stops <= stops' /\ stops' \in Nat
  BY <1>0, <1>1
<1>4. QED
  BY <1>0, <1>2, <1>3 DEF IsExcused

LEMMA CandidatesStep ==
    ASSUME TypeInv, CandidatesInv, [Next]_vars
    PROVE  CandidatesInv'
<1>0. /\ EntryTypes /\ AtBracket /\ entry \in EntryTasks /\ bracket \in [Tickers -> Brackets]
      /\ entry.t \in Tickers \cup {"none"} /\ "none" \notin Tickers
      /\ entry.count \in 0..Factor /\ count \in 0..Factor /\ Factor \in Nat /\ stops \in Nat /\ stops' \in Nat
      /\ stops <= stops' /\ count <= stops /\ entry.count <= stops
      /\ entry.todo \in SUBSET Tickers
  <2>1. TypeInv'
    BY TypeStep
  <2>2. stops \in Nat /\ stops' \in Nat /\ count \in 0..Factor /\ count <= stops /\ Factor \in Nat
    BY <2>1, ConstantsAssumption DEF TypeInv, LedgerInv, LedgerTypes, CountsAreEarned
  <2>3. QED
    BY <2>2, TypeSplits, EntryTasksAre, ExcuseStays, ConstantsAssumption
       DEF TypeInv, EntryTypes, CandidatesInv
<1>1. entry.t \in Tickers =>
         /\ bracket[entry.t] \in Brackets /\ bracket[entry.t].crossed \in BOOLEAN
         /\ bracket[entry.t].pending \in BOOLEAN /\ bracket[entry.t].phase \in {"MONITORING", "HOLDING"}
  BY <1>0, BracketsAre
<1>2. IsExcused => IsExcused'
  BY ExcuseStays
<1>3. \A t \in Tickers : IsForgotten(bracket[t]) /\ entry.t # t => IsExcused
  BY LostIs DEF CandidatesInv
\* The task leaves its bracket, which is a candidate or a position, or the
\* loss has its excuse.
<1>4. ASSUME NEW pc, Leaves(pc, "none"), pc \in {"idle", "next"}, entry'.count <= stops',
             \A t \in Tickers : t # entry.t => bracket'[t] = bracket[t],
             entry.t \in Tickers => ~IsForgotten(bracket'[entry.t]) \/ IsExcused'
      PROVE  CandidatesInv'
  <2>1. \A t \in Tickers : IsForgotten(bracket'[t]) /\ entry'.t # t => IsExcused'
    BY <1>2, <1>3, <1>4
  <2>2. NoLostCandidate'
    BY <2>1 DEF NoLostCandidate, IsLost, Busy, IsForgotten, IsExcused
  <2>3. BusyIsCandidate'
    BY <1>4 DEF BusyIsCandidate, At, Leaves
  <2>4. QED
    BY <1>4, <2>2, <2>3 DEF CandidatesInv
\* The task stays at its bracket.
<1>5. ASSUME NEW pc, NEW t0, Leaves(pc, t0), entry.t \in {t0, "none"}, entry'.count <= stops',
             \A t \in Tickers : t # t0 => bracket'[t] = bracket[t],
             pc \in {"count", "decide"} => ~IsForgotten(bracket'[t0]),
             pc = "book" => bracket'[t0].phase = "HOLDING"
      PROVE  CandidatesInv'
  <2>1. \A t \in Tickers : IsForgotten(bracket'[t]) /\ entry'.t # t => IsExcused'
    BY <1>0, <1>2, <1>3, <1>5 DEF Leaves
  <2>2. NoLostCandidate'
    BY <2>1 DEF NoLostCandidate, IsLost, Busy, IsForgotten, IsExcused
  <2>3. BusyIsCandidate'
    BY <1>5 DEF BusyIsCandidate, At, Leaves
  <2>4. QED
    BY <1>5, <2>2, <2>3 DEF CandidatesInv
<1>6. 0 <= stops' /\ entry.count <= stops' /\ count <= stops'
  BY <1>0
\* What is marked.
<1>7. ASSUME entry.t \in Tickers, NEW p \in {"MONITORING", "HOLDING"}, NEW c \in BOOLEAN, NEW d \in BOOLEAN,
             Mark(p, c, d)
      PROVE  /\ \A t \in Tickers : t # entry.t => bracket'[t] = bracket[t]
             /\ IsForgotten(bracket'[entry.t]) <=> p = "MONITORING" /\ c /\ ~d
             /\ bracket'[entry.t].phase = p
  BY <1>0, <1>7, MarkIs DEF IsForgotten
<1>8. ASSUME entry.t \in Tickers, GivesUp PROVE CandidatesInv'
  <2>1. Mark("MONITORING", bracket[entry.t].crossed, TRUE) /\ Done
    BY <1>8 DEF GivesUp, Same
  <2>2. Leaves("next", "none") /\ entry'.count = 0
    BY <1>0, <2>1, WatchingIs
  <2>3. /\ \A t \in Tickers : t # entry.t => bracket'[t] = bracket[t]
        /\ ~IsForgotten(bracket'[entry.t])
    BY <1>1, <1>7, <1>8, <2>1
  <2>4. QED
    BY <1>4, <1>6, <2>2, <2>3
\* On to the order, or through it: the bracket is not marked.
<1>9. ASSUME NEW pc, Leaves(pc, entry.t), pc \notin {"count", "decide", "book"},
             entry'.count = entry.count, UNCHANGED bracket
      PROVE  CandidatesInv'
  BY <1>5, <1>6, <1>9
<1>10. CASE CycleStarts \/ CycleEnds \/ GateRaises
  <2>1. entry.t = "none" /\ UNCHANGED bracket
    BY <1>0, <1>10 DEF CycleStarts, CycleEnds, GateRaises, At, AtBracket
  <2>2. (Leaves("next", "none") \/ Leaves("idle", "none")) /\ entry'.count = 0
    BY <1>10, WatchingIs DEF CycleStarts, CycleEnds, GateRaises
  <2>3. QED
    BY <1>0, <1>4, <1>6, <2>1, <2>2
\* A cycle that is cut off.
<1>11. ASSUME Spend("cut"), entry' = Watching, UNCHANGED bracket PROVE CandidatesInv'
  <2>1. Leaves("idle", "none") /\ entry'.count = 0
    BY <1>11, WatchingIs
  <2>2. IsExcused'
    BY <1>11 DEF Spend, IsExcused
  <2>3. QED
    BY <1>4, <1>6, <1>11, <2>1, <2>2
<1>12. CASE TimesOut
  BY <1>11, <1>12 DEF TimesOut
<1>13. ASSUME NEW t \in Tickers, Skips(t) PROVE CandidatesInv'
  <2>1. /\ entry' = [entry EXCEPT !.todo = entry.todo \ {t}] /\ UNCHANGED bracket
        /\ entry.pc = "next" /\ entry.t = "none"
    BY <1>0, <1>13 DEF Skips, At, AtBracket
  <2>2. Leaves(entry.pc, entry.t) /\ entry'.count = entry.count
    <3> DEFINE T == entry.todo \ {t}
    <3>1. T \in SUBSET Tickers /\ entry' = [entry EXCEPT !.todo = T]
      BY <1>0, <2>1
    <3> HIDE DEF T
    <3>2. entry' = [entry EXCEPT !.todo = T] => Leaves(entry.pc, entry.t) /\ entry'.count = entry.count
      BY <1>0, <3>1, EntryGoes
    <3>3. QED
      BY <3>1, <3>2
  <2>3. QED
    BY <1>0, <1>4, <1>6, <2>1, <2>2
<1>14. ASSUME NEW t \in Tickers, Evaluates(t) PROVE CandidatesInv'
  <2>1. /\ entry' = [entry EXCEPT !.pc = "count", !.t = t, !.todo = entry.todo \ {t}] /\ UNCHANGED bracket
        /\ entry.t = "none" /\ IsCandidate(bracket[t])
    BY <1>0, <1>14 DEF Evaluates, At, AtBracket
  <2>2. Leaves("count", t) /\ entry'.count = entry.count
    <3>1. entry.todo \ {t} \in SUBSET Tickers
      BY <1>0
    <3>2. QED
      BY <1>0, <2>1, <3>1, EntryGoes
  <2>3. ~IsForgotten(bracket'[t])
    BY <2>1 DEF IsCandidate, IsForgotten
  <2>4. QED
    BY <1>5, <1>6, <2>1, <2>2, <2>3
<1>15. ASSUME NEW read \in BOOLEAN, Counts(read) PROVE CandidatesInv'
  <2>1. entry.t \in Tickers /\ UNCHANGED bracket /\ ~IsForgotten(bracket[entry.t])
    BY <1>0, <1>15 DEF Counts, At, AtBracket, CandidatesInv, BusyIsCandidate
  <2>2. CASE read
    <3>1. Leaves("decide", entry.t) /\ entry'.count = count
      BY <1>0, <1>15, <2>2, EntryGoes DEF Counts
    <3>2. QED
      BY <1>5, <1>6, <2>1, <3>1
  <2>3. CASE ~read
    BY <1>11, <1>15, <2>1, <2>3 DEF Counts, Answered
  <2>4. QED
    BY <2>2, <2>3
<1>16. ASSUME NEW ok \in BOOLEAN, NEW fills \in BOOLEAN, Decides(ok, fills) PROVE CandidatesInv'
  <2>1. entry.t \in Tickers /\ ~IsForgotten(bracket[entry.t])
    BY <1>0, <1>16 DEF Decides, At, AtBracket, CandidatesInv, BusyIsCandidate
  <2>2. Done => Leaves("next", "none") /\ entry'.count = 0
    BY <1>0, WatchingIs
  <2>3. CASE Done /\ UNCHANGED bracket
    BY <1>4, <1>6, <2>1, <2>2, <2>3
  <2>4. CASE ~IsAllowed(entry.count) /\ Retires /\ Done
    <3>1. entry.count >= Factor
      BY <1>0, <2>4 DEF IsAllowed
    <3>2. stops >= Factor
      BY <1>0, <3>1
    <3>3. IsExcused'
      BY <1>2, <3>2 DEF IsExcused
    <3>4. \A t \in Tickers : t # entry.t => bracket'[t] = bracket[t]
      BY <1>1, <1>7, <2>1, <2>4 DEF Retires, Same
    <3>5. QED
      BY <1>4, <1>6, <2>2, <2>4, <3>3, <3>4
  <2>5. CASE Yields /\ Done
    <3>1. /\ \A t \in Tickers : t # entry.t => bracket'[t] = bracket[t]
          /\ ~IsForgotten(bracket'[entry.t])
      BY <1>1, <1>7, <2>1, <2>5 DEF Yields, Same
    <3>2. QED
      BY <1>4, <1>6, <2>2, <2>5, <3>1
  <2>6. CASE /\ IsAllowed(entry.count) /\ Mark(Same.phase, TRUE, Same.pending)
             /\ entry' = [entry EXCEPT !.pc = "gates", !.n = NextQty(entry.count),
                                       !.seen = entry.seen \cup {entry.count},
                                       !.unknown = Unknown(ok /\ fills)]
             /\ Looks(ok /\ fills)
    <3> DEFINE m == NextQty(entry.count)
               S == entry.seen \cup {entry.count}
               u == Unknown(ok /\ fills)
    <3>1. m \in 0..MaxQty
      BY <1>0, <2>6, Quantities, ConstantsAssumption
    <3>2. S \in SUBSET (0..Factor)
      BY <1>0, EntryTasksAre
    <3>3. u \in 0..MaxUnknown
      BY <1>0, <2>6, LooksIs
    <3>4. entry' = [entry EXCEPT !.pc = "gates", !.n = m, !.seen = S, !.unknown = u]
      BY <2>6
    <3> HIDE DEF m, S, u
    <3>5. Leaves("gates", entry.t) /\ entry'.count = entry.count
      BY <1>0, <3>1, <3>2, <3>3, <3>4, EntryGoes
    <3>6. \A t \in Tickers : t # entry.t => bracket'[t] = bracket[t]
      BY <1>1, <1>7, <2>1, <2>6 DEF Same
    <3>7. QED
      BY <1>5, <1>6, <3>5, <3>6
  <2>7. QED
    BY <1>16, <2>3, <2>4, <2>5, <2>6 DEF Decides
<1>17. ASSUME NEW v \in {"closed", "no quote"}, Refused(v) PROVE CandidatesInv'
  <2>1. entry.t \in Tickers
    BY <1>0, <1>17 DEF Refused, At, AtBracket
  <2>2. CASE Mark("MONITORING", FALSE, Same.pending) /\ Done
    <3>1. Leaves("next", "none") /\ entry'.count = 0
      BY <1>0, <2>2, WatchingIs
    <3>2. /\ \A t \in Tickers : t # entry.t => bracket'[t] = bracket[t]
          /\ ~IsForgotten(bracket'[entry.t])
      BY <1>1, <1>7, <2>1, <2>2 DEF Same
    <3>3. QED
      BY <1>4, <1>6, <3>1, <3>2
  <2>3. QED
    BY <1>8, <1>17, <2>1, <2>2 DEF Refused
<1>18. ASSUME NEW ok \in BOOLEAN, Checks(ok) PROVE CandidatesInv'
  <2>1. entry.t \in Tickers
    BY <1>0, <1>18 DEF Checks, At, AtBracket
  <2>2. CASE /\ entry' = [entry EXCEPT !.pc = "exposure", !.have = Live(ok), !.verified = ok,
                                       !.unknown = Unknown(ok)]
             /\ UNCHANGED bracket
    <3>1. Live(ok) \in Nat
      <4>1. bracket[entry.t].qty \in Nat /\ net[entry.t] \in Nat
        BY <1>0, <2>1, BracketsAre DEF EntryTypes
      <4>2. QED
        BY <4>1 DEF Live, Higher, Same
    <3>2. Unknown(ok) \in 0..MaxUnknown
      BY <1>0, <1>18, LooksIs DEF Checks
    <3>3. Leaves("exposure", entry.t) /\ entry'.count = entry.count
      BY <1>0, <2>2, <3>1, <3>2, EntryGoes
    <3>4. QED
      BY <1>9, <2>2, <3>3
  <2>3. QED
    BY <1>8, <1>18, <2>1, <2>2 DEF Checks
<1>19. ASSUME NEW read \in BOOLEAN, Exposes(read) PROVE CandidatesInv'
  <2>1. entry.t \in Tickers
    BY <1>0, <1>19 DEF Exposes, At, AtBracket
  <2>2. CASE Go("post") /\ UNCHANGED bracket
    <3>1. Leaves("post", entry.t) /\ entry'.count = entry.count
      BY <1>0, <2>2, EntryGoes DEF Go, Pcs
    <3>2. QED
      BY <1>9, <2>2, <3>1
  <2>3. QED
    BY <1>8, <1>19, <2>1, <2>2 DEF Exposes
<1>20. ASSUME NEW ok \in BOOLEAN, Rejects(ok) PROVE CandidatesInv'
  <2>1. 0 \in 0..MaxUnknown
    BY ConstantsAssumption
  <2>2. Leaves("log", entry.t) /\ entry'.count = entry.count
    BY <1>0, <1>20, <2>1, EntryGoes DEF Rejects
  <2>3. QED
    BY <1>9, <1>20, <2>2 DEF Rejects
<1>21. ASSUME NEW f \in 0..MaxQty, NEW ok \in BOOLEAN, NEW replied \in BOOLEAN, Posts(f, ok, replied)
       PROVE  CandidatesInv'
  <2>1. 0 \in 0..MaxUnknown /\ (IF replied THEN f ELSE 0) \in 0..MaxQty
    BY ConstantsAssumption, Quantities
  <2>2. /\ entry' = [entry EXCEPT !.pc = "log", !.unknown = 0, !.f = IF replied THEN f ELSE 0]
        /\ UNCHANGED bracket
    BY <1>21 DEF Posts
  <2>3. Leaves("log", entry.t) /\ entry'.count = entry.count
    BY <1>0, <2>1, <2>2, EntryGoes
  <2>4. QED
    BY <1>9, <2>2, <2>3
<1>22. ASSUME NEW written \in BOOLEAN, Logs(written) PROVE CandidatesInv'
  <2>1. entry.t \in Tickers
    BY <1>0, <1>22 DEF Logs, At, AtBracket
  <2>2. CASE ~written
    BY <1>11, <1>22, <2>2 DEF Logs, Answered
  <2>3. CASE Mark("HOLDING", Same.crossed, FALSE) /\ Go("book")
    <3>1. Leaves("book", entry.t) /\ entry'.count = entry.count
      BY <1>0, <2>3, EntryGoes DEF Go, Pcs
    <3>2. /\ \A t \in Tickers : t # entry.t => bracket'[t] = bracket[t]
          /\ bracket'[entry.t].phase = "HOLDING"
      BY <1>1, <1>7, <2>1, <2>3 DEF Same
    <3>3. QED
      BY <1>5, <1>6, <3>1, <3>2
  <2>4. QED
    BY <1>8, <1>22, <2>1, <2>2, <2>3 DEF Logs, AfterFailure
<1>23. ASSUME NEW ok \in BOOLEAN, NEW written \in BOOLEAN, Books(ok, written) PROVE CandidatesInv'
  <2>1. entry.t \in Tickers /\ bracket[entry.t].phase = "HOLDING" /\ Done
    BY <1>0, <1>23 DEF Books, At, AtBracket, CandidatesInv, BusyIsCandidate
  <2>2. PICK q : bracket' = [bracket EXCEPT ![entry.t] = [bracket[entry.t] EXCEPT !.qty = q]]
    BY <1>23 DEF Books
  <2>3. bracket'[entry.t].phase = "HOLDING"
    BY <1>0, <1>1, <2>1, <2>2 DEF Brackets
  <2>4. \A t \in Tickers : t # entry.t => bracket'[t] = bracket[t]
    BY <1>0, <2>1, <2>2
  <2>5. Leaves("next", "none") /\ entry'.count = 0
    BY <1>0, <2>1, WatchingIs
  <2>6. QED
    BY <1>4, <1>6, <2>3, <2>4, <2>5 DEF IsForgotten
\* The other tasks adopt a bracket, correct its quantity, or begin it anew
\* when no entry is at it.
<1>24. ASSUME UNCHANGED entry, NEW t \in Tickers, \A u \in Tickers : u # t => bracket'[u] = bracket[u],
              \/ bracket'[t].phase = "HOLDING"
              \/ ~IsForgotten(bracket'[t]) /\ entry.t # t
              \/ IsForgotten(bracket'[t]) = IsForgotten(bracket[t]) /\ bracket'[t].phase = bracket[t].phase
       PROVE  CandidatesInv'
  <2>1. \A u \in Tickers : IsForgotten(bracket'[u]) /\ entry'.t # u => IsExcused'
    BY <1>2, <1>3, <1>24 DEF IsForgotten
  <2>2. NoLostCandidate'
    BY <2>1 DEF NoLostCandidate, IsLost, Busy, IsForgotten, IsExcused
  <2>3. At("count") \/ At("decide") \/ At("book") => entry.t \in Tickers
    BY <1>0 DEF AtBracket, At
  <2>4. BusyIsCandidate'
    BY <1>24, <2>3 DEF CandidatesInv, BusyIsCandidate, IsForgotten, At
  <2>5. QED
    BY <1>6, <1>24, <2>2, <2>4 DEF CandidatesInv
<1>25. ASSUME NEW t \in Tickers, Sweep(t) \/ Stop(t) \/ SoldElsewhere(t) PROVE CandidatesInv'
  <2>1. UNCHANGED entry
    BY <1>0, <1>25, OthersTypes
  <2>2. bracket[t] \in Brackets
    BY <1>0
  <2>3. CASE UNCHANGED bracket
    BY <1>24, <2>1, <2>3
  <2>4. CASE SweepAdopts(t)
    <3>1. bracket' = [bracket EXCEPT ![t] = [bracket[t] EXCEPT !.phase = "HOLDING", !.crossed = TRUE, !.qty = net[t]]]
      BY <2>4 DEF SweepAdopts
    <3>2. bracket'[t].phase = "HOLDING" /\ \A u \in Tickers : u # t => bracket'[u] = bracket[u]
      BY <1>0, <2>2, <3>1 DEF Brackets
    <3>3. QED
      BY <1>24, <2>1, <3>2
  <2>5. CASE SweepSyncs(t)
    <3>1. bracket' = [bracket EXCEPT ![t] = [bracket[t] EXCEPT !.qty = net[t]]]
      BY <2>5 DEF SweepSyncs
    <3>2. /\ bracket'[t].phase = bracket[t].phase /\ bracket'[t].crossed = bracket[t].crossed
          /\ bracket'[t].pending = bracket[t].pending
          /\ \A u \in Tickers : u # t => bracket'[u] = bracket[u]
      BY <1>0, <2>2, <3>1 DEF Brackets
    <3>3. IsForgotten(bracket'[t]) = IsForgotten(bracket[t])
      BY <3>2 DEF IsForgotten
    <3>4. QED
      BY <1>24, <2>1, <3>2, <3>3
  <2>6. CASE Closes(t) /\ entry.t # t
    <3>1. bracket'[t] = NewBracket /\ \A u \in Tickers : u # t => bracket'[u] = bracket[u]
      BY <1>0, <2>6 DEF Closes
    <3>2. ~IsForgotten(bracket'[t])
      BY <3>1 DEF NewBracket, IsForgotten
    <3>3. QED
      BY <1>24, <2>1, <2>6, <3>1, <3>2
  <2>7. QED
    BY <1>25, <2>3, <2>4, <2>5, <2>6 DEF Sweep, SweepRemoves, Stop, StopReads, StopCounts, StopSells,
       StopFindsNothing, StopTakesBack, SoldElsewhere, Busy
<1>26. CASE UNCHANGED vars
  BY <1>2, <1>26 DEF CandidatesInv, NoLostCandidate, IsLost, Busy, BusyIsCandidate, IsForgotten, At,
     vars, ghosts
<1>27. CASE Watch
  BY <1>10, <1>12, <1>13, <1>14, <1>15, <1>16, <1>17, <1>18, <1>19, <1>20, <1>21, <1>22, <1>23, <1>27
     DEF Watch
<1>28. QED
  BY <1>25, <1>26, <1>27 DEF Next

(* A bracket that has crossed and is not waiting is being bought, holds a   *)
(* position, or the steps of the day are used up; only a cycle that is cut  *)
(* off or a failing database loses a candidate.                             *)
THEOREM CandidatesAreKept == Spec => []NoLostCandidate
<1>1. TypeInv /\ CandidatesInv => NoLostCandidate
  BY DEF CandidatesInv
<1>2. Init => TypeInv /\ CandidatesInv
  BY TypeInit, CandidatesInit
<1>3. TypeInv /\ CandidatesInv /\ [Next]_vars => (TypeInv /\ CandidatesInv)'
  BY TypeStep, CandidatesStep
<1>4. QED
  BY <1>1, <1>2, <1>3, PTL DEF Spec

-----------------------------------------------------------------------------
(* Sums over the brackets *)

Pick(s) == CHOOSE x \in s : TRUE

\* g holds the sums of h over the subsets of X.
Sums(g, h, X) ==
    /\ g \in [SUBSET X -> Nat]
    /\ \A s \in SUBSET X : g[s] = IF s = {} THEN 0 ELSE h[Pick(s)] + g[s \ {Pick(s)}]

\* A family of sets of brackets has a least member.  The inductions here go by
\* it: from a least set of brackets for which a claim is wrong.
LEMMA LeastSet ==
    ASSUME NEW U, U \subseteq SUBSET Tickers, U # {}
    PROVE  \E X \in U : \A Y \in U : Y \subseteq X => Y = X
<1>1. IsWellFoundedOn(StrictSubsetOrdering(Tickers), FiniteSubsetsOf(Tickers))
  BY FS_StrictSubsetOrderingWellFounded
<1>2. U \subseteq FiniteSubsetsOf(Tickers)
  BY ConstantsAssumption, FS_Subset DEF FiniteSubsetsOf
<1>3. \E X \in U : \A Y \in U : ~ (<<Y, X>> \in StrictSubsetOrdering(Tickers))
  BY <1>1, <1>2, WFMin
<1>4. \A X, Y \in U : Y \subseteq X /\ Y # X => <<Y, X>> \in StrictSubsetOrdering(Tickers)
  BY DEF StrictSubsetOrdering
<1>5. QED
  BY <1>3, <1>4

LEMMA PickIs == \A s : s # {} => Pick(s) \in s /\ s \ {Pick(s)} \subseteq s /\ s \ {Pick(s)} # s
  BY DEF Pick

\* What is larger everywhere has the larger sums.
LEMMA SumsGrow ==
    ASSUME NEW h \in [Tickers -> Nat], NEW k \in [Tickers -> Nat], \A t \in Tickers : h[t] <= k[t],
           NEW X \in SUBSET Tickers, NEW Z \in SUBSET Tickers,
           NEW g, Sums(g, h, X), NEW f, Sums(f, k, Z)
    PROVE  \A s \in SUBSET (X \cap Z) : g[s] <= f[s]
<1> DEFINE U == {s \in SUBSET (X \cap Z) : ~ (g[s] <= f[s])}
<1>1. SUFFICES ASSUME U # {} PROVE FALSE
  OBVIOUS
<1>2. PICK s \in U : \A r \in U : r \subseteq s => r = s
  <2>1. U \subseteq SUBSET Tickers
    OBVIOUS
  <2> HIDE DEF U
  <2>2. QED
    BY <1>1, <2>1, LeastSet
<1>3. s \in SUBSET X /\ s \in SUBSET Z /\ s \in SUBSET (X \cap Z) /\ ~ (g[s] <= f[s])
  OBVIOUS
<1>4. CASE s = {}
  <2>1. g[s] = 0 /\ f[s] = 0
    BY <1>3, <1>4 DEF Sums
  <2>2. QED
    BY <1>3, <2>1
<1>5. CASE s # {}
  <2> DEFINE r == s \ {Pick(s)}
  <2>1. Pick(s) \in Tickers /\ r \subseteq s /\ r # s
    BY <1>3, <1>5, PickIs
  <2>2. r \in SUBSET X /\ r \in SUBSET Z /\ g[r] <= f[r]
    BY <1>2, <1>3, <2>1
  <2>3. g[s] = h[Pick(s)] + g[r] /\ f[s] = k[Pick(s)] + f[r]
    BY <1>3, <1>5 DEF Sums
  <2>4. g[r] \in Nat /\ f[r] \in Nat /\ h[Pick(s)] \in Nat /\ k[Pick(s)] \in Nat
    BY <2>1, <2>2 DEF Sums
  <2>5. h[Pick(s)] <= k[Pick(s)]
    BY <2>1
  <2>6. g[s] <= f[s]
    BY <2>2, <2>3, <2>4, <2>5
  <2>7. QED
    BY <1>3, <2>6
<1>6. QED
  BY <1>4, <1>5

\* There are such sums.
LEMMA SumsExist ==
    ASSUME NEW h \in [Tickers -> Nat]
    PROVE  \E g : Sums(g, h, Tickers)
<1> DEFINE U == {X \in SUBSET Tickers : ~ \E g : Sums(g, h, X)}
<1>1. SUFFICES ASSUME U # {} PROVE FALSE
  OBVIOUS
<1>2. PICK X \in U : \A Y \in U : Y \subseteq X => Y = X
  <2>1. U \subseteq SUBSET Tickers
    OBVIOUS
  <2> HIDE DEF U
  <2>2. QED
    BY <1>1, <2>1, LeastSet
<1>3. X \in SUBSET Tickers /\ ~ \E g : Sums(g, h, X)
  OBVIOUS
<1> DEFINE F(s) == CHOOSE g : Sums(g, h, s)
<1>4. ASSUME NEW s \in SUBSET X, s # X PROVE Sums(F(s), h, s)
  <2>1. \E g : Sums(g, h, s)
    BY <1>2, <1>3, <1>4
  <2>2. QED
    BY <2>1
<1>5. \A s \in SUBSET X : s # X => F(s)[s] \in Nat
  BY <1>4 DEF Sums
<1>6. ASSUME NEW s \in SUBSET X, s # X, NEW r \in SUBSET s PROVE F(s)[r] = F(r)[r]
  <2>1. r \in SUBSET X /\ r # X /\ r \in SUBSET Tickers /\ s \in SUBSET Tickers
    BY <1>3, <1>6
  <2>2. Sums(F(s), h, s) /\ Sums(F(r), h, r)
    BY <1>4, <1>6, <2>1
  <2> HIDE DEF F
  <2>3. \A t \in Tickers : h[t] <= h[t]
    OBVIOUS
  <2>4. F(s)[r] <= F(r)[r]
    <3>1. \A q \in SUBSET (s \cap r) : F(s)[q] <= F(r)[q]
      BY <2>1, <2>2, <2>3, SumsGrow
    <3>2. QED
      BY <3>1
  <2>5. F(r)[r] <= F(s)[r]
    <3>1. \A q \in SUBSET (r \cap s) : F(r)[q] <= F(s)[q]
      BY <2>1, <2>2, <2>3, SumsGrow
    <3>2. QED
      BY <3>1
  <2>6. F(s)[r] \in Nat /\ F(r)[r] \in Nat
    BY <2>2 DEF Sums
  <2>7. QED
    BY <2>4, <2>5, <2>6
<1> DEFINE V(s) == IF s = {} THEN 0 ELSE h[Pick(s)] + F(s \ {Pick(s)})[s \ {Pick(s)}]
           G == [s \in SUBSET X |-> V(s)]
<1>7. ASSUME NEW s \in SUBSET X PROVE V(s) \in Nat
  <2>1. CASE s # {}
    <3>1. Pick(s) \in Tickers /\ s \ {Pick(s)} \in SUBSET X /\ s \ {Pick(s)} # X
      BY <1>3, <2>1, PickIs
    <3>2. h[Pick(s)] \in Nat /\ F(s \ {Pick(s)})[s \ {Pick(s)}] \in Nat
      BY <1>5, <3>1
    <3> HIDE DEF F
    <3>3. QED
      BY <2>1, <3>2
  <2>2. QED
    BY <2>1
<1>8. ASSUME NEW r \in SUBSET X, r # X PROVE F(r)[r] = V(r)
  <2>1. Sums(F(r), h, r)
    BY <1>4, <1>8
  <2>2. CASE r = {}
    <3> HIDE DEF F
    <3>1. QED
      BY <2>1, <2>2 DEF Sums
  <2>3. CASE r # {}
    <3>1. F(r)[r] = h[Pick(r)] + F(r)[r \ {Pick(r)}]
      <4> HIDE DEF F
      <4>1. QED
        BY <2>1, <2>3 DEF Sums
    <3>2. F(r)[r \ {Pick(r)}] = F(r \ {Pick(r)})[r \ {Pick(r)}]
      <4>1. r \ {Pick(r)} \in SUBSET r
        OBVIOUS
      <4>2. QED
        BY <1>6, <1>8, <4>1
    <3> HIDE DEF F
    <3>3. QED
      BY <2>3, <3>1, <3>2
  <2>4. QED
    BY <2>2, <2>3
<1>9. Sums(G, h, X)
  <2>1. G \in [SUBSET X -> Nat]
    <3> HIDE DEF V
    <3>1. QED
      BY <1>7
  <2>2. ASSUME NEW s \in SUBSET X PROVE G[s] = IF s = {} THEN 0 ELSE h[Pick(s)] + G[s \ {Pick(s)}]
    <3>1. CASE s = {}
      BY <3>1
    <3>2. CASE s # {}
      <4>1. s \ {Pick(s)} \in SUBSET X /\ s \ {Pick(s)} # X
        BY <3>2, PickIs
      <4>2. G[s \ {Pick(s)}] = F(s \ {Pick(s)})[s \ {Pick(s)}]
        <5>1. G[s \ {Pick(s)}] = V(s \ {Pick(s)})
          BY <4>1
        <5> HIDE DEF V, G, F
        <5>2. QED
          BY <1>8, <4>1, <5>1
      <4>3. G[s] = h[Pick(s)] + F(s \ {Pick(s)})[s \ {Pick(s)}]
        BY <3>2
      <4> HIDE DEF V, G, F
      <4>4. QED
        BY <3>2, <4>2, <4>3
    <3>3. QED
      BY <3>1, <3>2
  <2> HIDE DEF G
  <2>3. QED
    BY <2>1, <2>2 DEF Sums
<1>10. QED
  BY <1>3, <1>9

\* When one bracket has f more, a sum has at most f more.
LEMMA SumsMove ==
    ASSUME NEW h \in [Tickers -> Nat], NEW k \in [Tickers -> Nat], NEW t \in Tickers, NEW f \in Nat,
           k[t] <= h[t] + f, \A u \in Tickers : u # t => k[u] <= h[u],
           NEW g, Sums(g, h, Tickers), NEW e, Sums(e, k, Tickers)
    PROVE  e[Tickers] <= g[Tickers] + f
<1> DEFINE More(s) == IF t \in s THEN f ELSE 0
           U == {s \in SUBSET Tickers : ~ (e[s] <= g[s] + More(s))}
<1>1. ASSUME U # {} PROVE FALSE
  <2>1. PICK s \in U : \A r \in U : r \subseteq s => r = s
    <3>1. U \subseteq SUBSET Tickers
      OBVIOUS
    <3> HIDE DEF U
    <3>2. QED
      BY <1>1, <3>1, LeastSet
  <2>2. s \in SUBSET Tickers /\ ~ (e[s] <= g[s] + More(s))
    OBVIOUS
  <2>3. CASE s = {}
    <3>1. g[s] = 0 /\ e[s] = 0 /\ More(s) = 0
      BY <2>2, <2>3 DEF Sums
    <3>2. QED
      BY <2>2, <3>1
  <2>4. CASE s # {}
    <3> DEFINE p == Pick(s)
               r == s \ {p}
    <3>1. p \in Tickers /\ p \in s /\ r \subseteq s /\ r # s
      BY <2>2, <2>4, PickIs
    <3>2. r \in SUBSET Tickers /\ e[r] <= g[r] + More(r)
      BY <2>1, <2>2, <3>1
    <3>3. g[s] = h[p] + g[r] /\ e[s] = k[p] + e[r]
      BY <2>2, <2>4 DEF Sums
    <3>4. g[r] \in Nat /\ e[r] \in Nat /\ h[p] \in Nat /\ k[p] \in Nat
      BY <3>1, <3>2 DEF Sums
    <3>5. More(r) \in Nat /\ More(s) \in Nat
      OBVIOUS
    <3>6. CASE p = t
      <4>1. More(r) = 0 /\ More(s) = f /\ k[p] <= h[p] + f
        BY <3>1, <3>6
      <4> HIDE DEF More, p, r
      <4>2. e[s] <= g[s] + More(s)
        BY <3>2, <3>3, <3>4, <4>1
      <4>3. QED
        BY <2>2, <4>2
    <3>7. CASE p # t
      <4>1. More(r) = More(s) /\ k[p] <= h[p]
        BY <3>1, <3>7
      <4> HIDE DEF More, p, r
      <4>2. e[s] <= g[s] + More(s)
        BY <3>2, <3>3, <3>4, <3>5, <4>1
      <4>3. QED
        BY <2>2, <4>2
    <3>8. QED
      BY <3>6, <3>7
  <2>5. QED
    BY <2>3, <2>4
<1>2. e[Tickers] <= g[Tickers] + More(Tickers)
  BY <1>1
<1>3. QED
  BY <1>2

\* The library defines a sum by such a function.
IsSum(g, h) == g = [s \in SUBSET Tickers |-> IF s = {} THEN 0 ELSE h[Pick(s)] + g[s \ {Pick(s)}]]
IsHolding(g) == g = [s \in SUBSET Tickers |-> IF s = {} THEN 0 ELSE Holding(Pick(s)) + g[s \ {Pick(s)}]]

LEMMA SumsAre ==
    ASSUME NEW h \in [Tickers -> Nat], NEW g
    PROVE  IsSum(g, h) <=> Sums(g, h, Tickers)
<1>1. ASSUME Sums(g, h, Tickers) PROVE IsSum(g, h)
  BY <1>1 DEF Sums, IsSum
<1>2. ASSUME IsSum(g, h) PROVE Sums(g, h, Tickers)
  <2> DEFINE U == {s \in SUBSET Tickers : g[s] \notin Nat}
  <2>1. \A s \in SUBSET Tickers : g[s] = IF s = {} THEN 0 ELSE h[Pick(s)] + g[s \ {Pick(s)}]
    BY <1>2 DEF IsSum
  <2>2. ASSUME U # {} PROVE FALSE
    <3>1. PICK s \in U : \A r \in U : r \subseteq s => r = s
      <4>1. U \subseteq SUBSET Tickers
        OBVIOUS
      <4> HIDE DEF U
      <4>2. QED
        BY <2>2, <4>1, LeastSet
    <3>2. s \in SUBSET Tickers /\ g[s] \notin Nat
      OBVIOUS
    <3>3. s # {}
      BY <2>1, <3>2
    <3>4. Pick(s) \in Tickers /\ s \ {Pick(s)} \in SUBSET Tickers /\ g[s \ {Pick(s)}] \in Nat
      BY <3>1, <3>2, <3>3, PickIs
    <3>5. g[s] = h[Pick(s)] + g[s \ {Pick(s)}]
      BY <2>1, <3>2, <3>3
    <3>6. QED
      BY <3>2, <3>4, <3>5
  <2>3. DOMAIN g = SUBSET Tickers /\ g = [s \in SUBSET Tickers |-> g[s]]
    BY <1>2 DEF IsSum
  <2>4. g \in [SUBSET Tickers -> Nat]
    BY <2>2, <2>3
  <2>5. QED
    BY <2>1, <2>4 DEF Sums
<1>3. QED
  BY <1>1, <1>2

SumOf(h) == (CHOOSE g : IsSum(g, h))[Tickers]

LEMMA SumIs ==
    ASSUME NEW h \in [Tickers -> Nat]
    PROVE  \E g : Sums(g, h, Tickers) /\ SumOf(h) = g[Tickers]
<1>1. \E g : IsSum(g, h)
  BY SumsExist, SumsAre
<1>2. IsSum(CHOOSE g : IsSum(g, h), h)
  BY <1>1
<1>3. QED
  BY <1>2, SumsAre DEF SumOf

LEMMA TotalIs == Total = SumOf(net) /\ Total' = SumOf(net')
<1>1. Total = SumOf(net)
  BY Zenon DEF Total, MapThenSumSet, MapThenFoldSet, IsSum, Pick, SumOf
<1>2. Total' = SumOf(net')
  BY Zenon DEF Total, MapThenSumSet, MapThenFoldSet, IsSum, Pick, SumOf
<1>3. QED
  BY <1>1, <1>2

LEMMA ExposureIs ==
    ASSUME NEW h \in [Tickers -> Nat], \A t \in Tickers : h[t] = Holding(t)
    PROVE  Exposure = SumOf(h)
<1>1. Exposure = (CHOOSE g : IsHolding(g))[Tickers]
  BY Zenon DEF Exposure, MapThenSumSet, MapThenFoldSet, IsHolding, Pick
<1>2. ASSUME NEW g PROVE IsHolding(g) <=> IsSum(g, h)
  <2>1. \A s \in SUBSET Tickers : s # {} => Holding(Pick(s)) = h[Pick(s)]
    BY PickIs
  <2>2. [s \in SUBSET Tickers |-> IF s = {} THEN 0 ELSE Holding(Pick(s)) + g[s \ {Pick(s)}]]
      = [s \in SUBSET Tickers |-> IF s = {} THEN 0 ELSE h[Pick(s)] + g[s \ {Pick(s)}]]
    BY <2>1
  <2>3. QED
    BY <2>2 DEF IsHolding, IsSum
<1>3. \E g : IsHolding(g)
  BY <1>2, SumsExist, SumsAre
<1>4. IsSum(CHOOSE g : IsHolding(g), h)
  BY <1>2, <1>3
<1>5. PICK g : Sums(g, h, Tickers) /\ SumOf(h) = g[Tickers]
  BY SumIs
<1>6. PICK e : Sums(e, h, Tickers) /\ Exposure = e[Tickers]
  BY <1>1, <1>4, SumsAre
<1>7. Tickers \in SUBSET (Tickers \cap Tickers) /\ Tickers \in SUBSET Tickers /\ \A t \in Tickers : h[t] <= h[t]
  OBVIOUS
<1>8. g[Tickers] <= e[Tickers] /\ e[Tickers] <= g[Tickers]
  <2>1. \A s \in SUBSET (Tickers \cap Tickers) : g[s] <= e[s]
    BY <1>5, <1>6, <1>7, SumsGrow
  <2>2. \A s \in SUBSET (Tickers \cap Tickers) : e[s] <= g[s]
    BY <1>5, <1>6, <1>7, SumsGrow
  <2>3. QED
    BY <1>7, <2>1, <2>2
<1>9. g[Tickers] \in Nat /\ e[Tickers] \in Nat
  BY <1>5, <1>6, <1>7 DEF Sums
<1>10. QED
  BY <1>5, <1>6, <1>8, <1>9

-----------------------------------------------------------------------------
(* The cap of the event *)

\* What was filled for t and is not booked yet.
Unwritten(t) == IF entry.t = t /\ (At("log") \/ At("book")) THEN entry.f ELSE 0

\* The strategy knows of every contract, and so does the entry of its own
\* bracket; from the check of the event to the order there is room for it.
HoldingsAreKnown ==
    /\ \A t \in Tickers : /\ net[t] <= bracket[t].qty + Unwritten(t)
                          /\ net[t] > 0 => t \in held \/ Unwritten(t) > 0
    /\ At("exposure") \/ At("post") => net[entry.t] <= entry.have
    /\ At("log") \/ At("book") => net[entry.t] <= entry.have + entry.f

RoomIsChecked ==
    /\ Total <= EventMax
    /\ At("post") => Total + entry.n <= EventMax

ExposureInv == ~Unbooked => HoldingsAreKnown /\ RoomIsChecked

LEMMA SumsCompare ==
    ASSUME NEW h \in [Tickers -> Nat], NEW k \in [Tickers -> Nat]
    PROVE  /\ SumOf(h) \in Nat
           /\ (\A t \in Tickers : h[t] <= k[t]) => SumOf(h) <= SumOf(k)
           /\ \A t \in Tickers, f \in Nat :
                 k[t] <= h[t] + f /\ (\A u \in Tickers : u # t => k[u] <= h[u]) => SumOf(k) <= SumOf(h) + f
           /\ (\A t \in Tickers : h[t] = 0) => SumOf(h) = 0
<1>1. PICK g : Sums(g, h, Tickers) /\ SumOf(h) = g[Tickers]
  BY SumIs
<1>2. PICK e : Sums(e, k, Tickers) /\ SumOf(k) = e[Tickers]
  BY SumIs
<1>3. Tickers \in SUBSET Tickers /\ Tickers \in SUBSET (Tickers \cap Tickers)
  OBVIOUS
<1>4. SumOf(h) \in Nat
  BY <1>1, <1>3 DEF Sums
<1>5. ASSUME \A t \in Tickers : h[t] <= k[t] PROVE SumOf(h) <= SumOf(k)
  <2>1. \A s \in SUBSET (Tickers \cap Tickers) : g[s] <= e[s]
    BY <1>1, <1>2, <1>3, <1>5, SumsGrow
  <2>2. QED
    BY <1>1, <1>2, <1>3, <2>1
<1>6. ASSUME NEW t \in Tickers, NEW f \in Nat, k[t] <= h[t] + f, \A u \in Tickers : u # t => k[u] <= h[u]
      PROVE  SumOf(k) <= SumOf(h) + f
  BY <1>1, <1>2, <1>6, SumsMove
<1>7. ASSUME \A t \in Tickers : h[t] = 0 PROVE SumOf(h) = 0
  <2> DEFINE z == [s \in SUBSET Tickers |-> 0]
  <2>1. Sums(z, h, Tickers)
    <3>1. z \in [SUBSET Tickers -> Nat]
      OBVIOUS
    <3>2. ASSUME NEW s \in SUBSET Tickers
          PROVE  z[s] = IF s = {} THEN 0 ELSE h[Pick(s)] + z[s \ {Pick(s)}]
      <4>1. s # {} => h[Pick(s)] = 0
        BY <1>7, PickIs
      <4>2. QED
        BY <4>1
    <3> HIDE DEF z
    <3>3. QED
      BY <3>1, <3>2 DEF Sums
  <2>2. \A t \in Tickers : h[t] <= h[t]
    OBVIOUS
  <2>3. z[Tickers] = 0
    BY <1>3
  <2> HIDE DEF z
  <2>4. \A s \in SUBSET (Tickers \cap Tickers) : g[s] <= z[s]
    BY <1>1, <1>3, <2>1, <2>2, SumsGrow
  <2>5. SumOf(h) <= 0
    BY <1>1, <1>3, <2>3, <2>4
  <2>6. QED
    BY <1>4, <2>5
<1>8. QED
  BY <1>4, <1>5, <1>6, <1>7

\* What was found to be held covers what is.
LEMMA ExposureCovers ==
    ASSUME net \in [Tickers -> Nat], \A t \in Tickers : Holding(t) \in Nat /\ net[t] <= Holding(t)
    PROVE  Total <= Exposure
<1> DEFINE h == [t \in Tickers |-> Holding(t)]
<1>1. h \in [Tickers -> Nat] /\ (\A t \in Tickers : h[t] = Holding(t)) /\ \A t \in Tickers : net[t] <= h[t]
  OBVIOUS
<1> HIDE DEF h
<1>2. Exposure = SumOf(h)
  BY <1>1, ExposureIs
<1>3. SumOf(net) <= SumOf(h)
  BY <1>1, SumsCompare
<1>4. QED
  BY <1>2, <1>3, TotalIs

\* The fields that tell what is held.
LEMMA EntryKeeps ==
    ASSUME entry \in EntryTasks
    PROVE
      /\ \A pc \in Pcs :
           entry' = [entry EXCEPT !.pc = pc] =>
             Leaves(pc, entry.t) /\ entry'.have = entry.have /\ entry'.n = entry.n /\ entry'.f = entry.f
      /\ \A u \in 0..MaxUnknown :
           entry' = [entry EXCEPT !.pc = "log", !.unknown = u] =>
             Leaves("log", entry.t) /\ entry'.have = entry.have /\ entry'.f = entry.f
      /\ \A u \in 0..MaxUnknown, f \in 0..MaxQty :
           entry' = [entry EXCEPT !.pc = "log", !.unknown = u, !.f = f] =>
             Leaves("log", entry.t) /\ entry'.have = entry.have /\ entry'.f = f
<1>1. ASSUME NEW pc \in Pcs, entry' = [entry EXCEPT !.pc = pc]
      PROVE  Leaves(pc, entry.t) /\ entry'.have = entry.have /\ entry'.n = entry.n /\ entry'.f = entry.f
  BY <1>1, EntryGoes DEF EntryTasks
<1>2. ASSUME NEW u \in 0..MaxUnknown, entry' = [entry EXCEPT !.pc = "log", !.unknown = u]
      PROVE  Leaves("log", entry.t) /\ entry'.have = entry.have /\ entry'.f = entry.f
  BY <1>2, EntryGoes DEF EntryTasks
<1>3. ASSUME NEW u \in 0..MaxUnknown, NEW f \in 0..MaxQty,
             entry' = [entry EXCEPT !.pc = "log", !.unknown = u, !.f = f]
      PROVE  Leaves("log", entry.t) /\ entry'.have = entry.have /\ entry'.f = f
  BY <1>3, EntryGoes DEF EntryTasks
<1>4. QED
  BY <1>1, <1>2, <1>3

LEMMA QtysStay ==
    ASSUME bracket \in [Tickers -> Brackets], entry.t \in Tickers,
           NEW p, NEW c, NEW d, Mark(p, c, d)
    PROVE  \A t \in Tickers : bracket'[t].qty = bracket[t].qty
<1>1. bracket' = [bracket EXCEPT ![entry.t] = [bracket[entry.t] EXCEPT !.phase = p, !.crossed = c, !.pending = d]]
  BY DEF Mark
<1>2. bracket[entry.t] \in Brackets
  OBVIOUS
<1>3. bracket'[entry.t].qty = bracket[entry.t].qty
  BY <1>1, <1>2 DEF Brackets
<1>4. QED
  BY <1>1, <1>3

LEMMA ExposureInit == ASSUME Init PROVE ExposureInv
<1>1. /\ net \in [Tickers -> Nat] /\ (\A t \in Tickers : net[t] = 0) /\ EventMax \in Nat
      /\ entry.pc = "idle" /\ entry.t = "none"
  BY ConstantsAssumption DEF Init, Watching
<1>2. Total = 0
  BY <1>1, SumsCompare, TotalIs
<1>3. RoomIsChecked
  BY <1>1, <1>2 DEF RoomIsChecked, At
<1>4. HoldingsAreKnown
  <2>1. \A t \in Tickers : Unwritten(t) = 0 /\ bracket[t].qty = 0
    BY <1>1 DEF Init, Unwritten, At, NewBracket
  <2>2. QED
    BY <1>1, <2>1 DEF HoldingsAreKnown, At
<1>5. QED
  BY <1>3, <1>4 DEF ExposureInv

\* The sweep, the market and the exits only make positions smaller, and what
\* they write into a bracket is what is held.
LEMMA ExposureOthers ==
    ASSUME TypeInv, TypeInv', HoldingsAreKnown, RoomIsChecked, NEW t \in Tickers,
           Sweep(t) \/ SoldElsewhere(t) \/ Stop(t)
    PROVE  HoldingsAreKnown' /\ RoomIsChecked'
<1>0. /\ net \in [Tickers -> Nat] /\ net' \in [Tickers -> Nat] /\ bracket \in [Tickers -> Brackets]
      /\ bracket' \in [Tickers -> Brackets]
      /\ entry \in EntryTasks /\ entry.have \in Nat /\ entry.f \in Nat /\ entry.n \in Nat
      /\ entry.t \in Tickers \cup {"none"} /\ EventMax \in Nat
      /\ \A u \in Tickers : net[u] \in Nat /\ net'[u] \in Nat
      /\ \A u \in Tickers : bracket[u].qty \in Nat /\ bracket'[u].qty \in Nat
  <2>1. /\ net \in [Tickers -> Nat] /\ net' \in [Tickers -> Nat] /\ bracket \in [Tickers -> Brackets]
        /\ bracket' \in [Tickers -> Brackets] /\ entry \in EntryTasks
    BY DEF TypeInv, TypeOK
  <2>2. entry.have \in Nat /\ entry.f \in 0..MaxQty /\ entry.n \in 0..MaxQty /\ MaxQty \in Nat
        /\ entry.t \in Tickers \cup {"none"}
    BY <2>1, EntryTasksAre, Quantities
  <2>3. \A u \in Tickers : bracket[u].qty \in Nat /\ bracket'[u].qty \in Nat
    BY <2>1, BracketsAre
  <2>4. EventMax \in Nat
    BY ConstantsAssumption
  <2>5. QED
    BY <2>1, <2>2, <2>3, <2>4
<1>1. UNCHANGED entry
  BY DEF Sweep, SweepAdopts, SweepSyncs, SweepRemoves, SoldElsewhere, Stop, StopReads, StopCounts,
     StopSells, StopFindsNothing, StopTakesBack
<1>2. \A u \in Tickers : Unwritten(u) \in Nat /\ Unwritten(u)' = Unwritten(u)
  BY <1>0, <1>1 DEF Unwritten, At
\* It is enough to look at the ticker itself.
<1>3. ASSUME net'[t] <= net[t], \A u \in Tickers : u # t => net'[u] = net[u],
             \A u \in Tickers : u # t => bracket'[u] = bracket[u],
             \A u \in Tickers : u # t => (u \in held' <=> u \in held),
             net'[t] <= bracket'[t].qty + Unwritten(t),
             net'[t] > 0 => t \in held' \/ Unwritten(t) > 0
      PROVE  HoldingsAreKnown' /\ RoomIsChecked'
  <2>1. \A u \in Tickers : net'[u] <= net[u]
    BY <1>0, <1>3
  <2>2. Total' <= Total /\ Total \in Nat /\ Total' \in Nat
    BY <1>0, <2>1, SumsCompare, TotalIs
  <2>3. RoomIsChecked'
    BY <1>0, <1>1, <2>2 DEF RoomIsChecked, At
  <2>4. ASSUME NEW u \in Tickers
        PROVE  /\ net'[u] <= bracket'[u].qty + Unwritten(u)'
               /\ net'[u] > 0 => u \in held' \/ Unwritten(u)' > 0
    <3>1. CASE u = t
      BY <1>2, <1>3, <3>1
    <3>2. CASE u # t
      BY <1>2, <1>3, <3>2 DEF HoldingsAreKnown
    <3>3. QED
      BY <3>1, <3>2
  <2>5. entry.t \in Tickers => net'[entry.t] <= net[entry.t]
    BY <2>1
  <2>6. At("exposure") \/ At("post") \/ At("log") \/ At("book") => entry.t \in Tickers
    BY <1>0 DEF TypeInv, AtBracket, At
  <2>7. At("exposure") \/ At("post") => net'[entry.t] <= entry.have
    BY <1>0, <2>5, <2>6 DEF HoldingsAreKnown
  <2>8. At("log") \/ At("book") => net'[entry.t] <= entry.have + entry.f
    BY <1>0, <2>5, <2>6 DEF HoldingsAreKnown
  <2>9. HoldingsAreKnown'
    BY <1>1, <2>4, <2>7, <2>8 DEF HoldingsAreKnown, At
  <2>10. QED
    BY <2>3, <2>9
<1>4. net[t] <= bracket[t].qty + Unwritten(t) /\ (net[t] > 0 => t \in held \/ Unwritten(t) > 0)
  BY DEF HoldingsAreKnown
<1>5. CASE SweepAdopts(t)
  <2>1. /\ bracket' = [bracket EXCEPT ![t] = [bracket[t] EXCEPT !.phase = "HOLDING", !.crossed = TRUE, !.qty = net[t]]]
        /\ held' = held \cup {t} /\ net' = net
    BY <1>5 DEF SweepAdopts
  <2>2. bracket[t] \in Brackets
    BY <1>0
  <2>3. bracket'[t].qty = net[t] /\ \A u \in Tickers : u # t => bracket'[u] = bracket[u]
    BY <1>0, <2>1, <2>2 DEF Brackets
  <2>4. QED
    BY <1>0, <1>2, <1>3, <2>1, <2>3
<1>6. CASE SweepSyncs(t)
  <2>1. /\ bracket' = [bracket EXCEPT ![t] = [bracket[t] EXCEPT !.qty = net[t]]]
        /\ held' = held /\ net' = net /\ t \in held
    BY <1>6 DEF SweepSyncs, database
  <2>2. bracket[t] \in Brackets
    BY <1>0
  <2>3. bracket'[t].qty = net[t] /\ \A u \in Tickers : u # t => bracket'[u] = bracket[u]
    BY <1>0, <2>1, <2>2 DEF Brackets
  <2>4. QED
    BY <1>0, <1>2, <1>3, <2>1, <2>3
\* The position is closed: nothing is left.
<1>7. ASSUME net'[t] = 0, \A u \in Tickers : u # t => net'[u] = net[u], Closes(t)
      PROVE  HoldingsAreKnown' /\ RoomIsChecked'
  <2>1. /\ \A u \in Tickers : u # t => bracket'[u] = bracket[u]
        /\ \A u \in Tickers : u # t => (u \in held' <=> u \in held)
    BY <1>0, <1>7 DEF Closes
  <2>2. net'[t] <= net[t] /\ net'[t] <= bracket'[t].qty + Unwritten(t) /\ ~ (net'[t] > 0)
    BY <1>0, <1>2, <1>7
  <2>3. QED
    BY <1>3, <1>7, <2>1, <2>2
<1>8. CASE SweepRemoves(t)
  BY <1>0, <1>7, <1>8 DEF SweepRemoves
<1>9. CASE StopSells(t)
  BY <1>0, <1>7, <1>9 DEF StopSells
<1>10. CASE SoldElsewhere(t)
  <2>1. net'[t] = 0 /\ (\A u \in Tickers : u # t => net'[u] = net[u]) /\ UNCHANGED <<bracket, held>>
    BY <1>0, <1>10 DEF SoldElsewhere
  <2>2. QED
    BY <1>0, <1>2, <1>3, <2>1
<1>11. CASE StopReads(t) \/ StopCounts(t) \/ StopFindsNothing(t) \/ StopTakesBack(t)
  <2>1. UNCHANGED <<net, bracket, held>>
    BY <1>11 DEF StopReads, StopCounts, StopFindsNothing, StopTakesBack
  <2>2. net'[t] <= net[t]
    BY <1>0, <2>1
  <2>3. QED
    BY <1>3, <1>4, <2>1, <2>2
<1>12. QED
  BY <1>5, <1>6, <1>8, <1>9, <1>10, <1>11 DEF Sweep, Stop

\* The watchlist task, while every fill is booked.
LEMMA ExposureWatch ==
    ASSUME TypeInv, TypeInv', HoldingsAreKnown, RoomIsChecked, Watch, used = {}, used' = {}
    PROVE  HoldingsAreKnown' /\ RoomIsChecked'
<1>0. /\ net \in [Tickers -> Nat] /\ net' \in [Tickers -> Nat] /\ row \in [Tickers -> Nat]
      /\ bracket \in [Tickers -> Brackets]
      /\ entry \in EntryTasks /\ entry.have \in Nat /\ entry.f \in 0..MaxQty /\ entry.n \in 0..MaxQty
      /\ MaxQty \in Nat /\ entry.f \in Nat /\ entry.n \in Nat
      /\ entry.t \in Tickers \cup {"none"} /\ "none" \notin Tickers /\ EventMax \in Nat
      /\ \A u \in Tickers : net[u] \in Nat /\ net'[u] \in Nat /\ row[u] \in Nat /\ bracket[u].qty \in Nat
      /\ entry.unknown \in 0..MaxUnknown /\ 0 \in 0..MaxUnknown
      /\ entry.pc \in {"idle", "next"} <=> entry.t = "none"
  <2>1. /\ net \in [Tickers -> Nat] /\ net' \in [Tickers -> Nat] /\ bracket \in [Tickers -> Brackets]
        /\ row \in [Tickers -> Nat] /\ entry \in EntryTasks
        /\ entry.pc \in {"idle", "next"} <=> entry.t = "none"
    BY DEF TypeInv, TypeOK, AtBracket
  <2>2. entry.have \in Nat /\ entry.f \in 0..MaxQty /\ entry.n \in 0..MaxQty /\ MaxQty \in Nat
        /\ entry.t \in Tickers \cup {"none"} /\ entry.unknown \in 0..MaxUnknown
    BY <2>1, EntryTasksAre, Quantities
  <2>3. \A u \in Tickers : bracket[u].qty \in Nat
    BY <2>1, BracketsAre
  <2>4. EventMax \in Nat /\ "none" \notin Tickers /\ 0 \in 0..MaxUnknown
    BY ConstantsAssumption
  <2>5. QED
    BY <2>1, <2>2, <2>3, <2>4
\* No read and no write fails, no reply is lost, no cycle is cut off.
<1>1. \A ok \in BOOLEAN, f \in Faults : Answered(ok, f) => ok
  BY DEF Answered, Spend
<1>2. ~TimesOut
  BY DEF TimesOut, Spend
<1>3. /\ \A u \in Tickers : net[u] <= bracket[u].qty + Unwritten(u)
      /\ \A u \in Tickers : net[u] > 0 => u \in held \/ Unwritten(u) > 0
      /\ At("exposure") \/ At("post") => net[entry.t] <= entry.have
      /\ At("log") \/ At("book") => net[entry.t] <= entry.have + entry.f
      /\ Total <= EventMax /\ (At("post") => Total + entry.n <= EventMax)
  BY DEF HoldingsAreKnown, RoomIsChecked
<1>4. \A u \in Tickers : Unwritten(u) \in Nat /\ (~At("log") /\ ~At("book") => Unwritten(u) = 0)
                         /\ (entry.f = 0 => Unwritten(u) = 0)
  BY <1>0 DEF Unwritten
<1>5. ASSUME UNCHANGED net PROVE Total' = Total
  BY <1>5, TotalIs
\* A step to where nothing is under way.
<1>6. ASSUME UNCHANGED <<net, held>>, \A u \in Tickers : bracket'[u].qty = bracket[u].qty,
             \A u \in Tickers : Unwritten(u) = 0,
             NEW pc, NEW t, Leaves(pc, t), pc \notin {"exposure", "post", "log", "book"}
      PROVE  HoldingsAreKnown' /\ RoomIsChecked'
  <2>1. ~At("exposure")' /\ ~At("post")' /\ ~At("log")' /\ ~At("book")'
    BY <1>6 DEF Leaves, At
  <2>2. \A u \in Tickers : Unwritten(u)' = 0
    BY <2>1 DEF Unwritten
  <2>3. HoldingsAreKnown'
    BY <1>3, <1>6, <2>1, <2>2 DEF HoldingsAreKnown
  <2>4. RoomIsChecked'
    BY <1>3, <1>5, <1>6, <2>1 DEF RoomIsChecked
  <2>5. QED
    BY <2>3, <2>4
<1>7. CASE CycleStarts \/ CycleEnds \/ GateRaises
  <2>1. UNCHANGED <<net, held, bracket>> /\ ~At("log") /\ ~At("book")
    BY <1>7 DEF CycleStarts, CycleEnds, GateRaises, At
  <2>2. Leaves("next", "none") \/ Leaves("idle", "none")
    BY <1>7, WatchingIs DEF CycleStarts, CycleEnds, GateRaises
  <2>3. QED
    BY <1>4, <1>6, <2>1, <2>2
<1>8. ASSUME NEW t \in Tickers, Skips(t) \/ Evaluates(t) PROVE HoldingsAreKnown' /\ RoomIsChecked'
  <2>1. entry.pc = "next" /\ UNCHANGED <<net, held, bracket>>
    BY <1>8 DEF Skips, Evaluates, At
  <2>2. entry.todo \ {t} \in SUBSET Tickers
    BY <1>0, EntryTasksAre
  <2>3. Leaves(entry.pc, entry.t) \/ Leaves("count", t)
    BY <1>0, <1>8, <2>2, EntryGoes DEF Skips, Evaluates
  <2>4. ~At("log") /\ ~At("book")
    BY <2>1 DEF At
  <2>5. QED
    BY <1>4, <1>6, <2>1, <2>3, <2>4
<1>9. ASSUME NEW read \in BOOLEAN, Counts(read) PROVE HoldingsAreKnown' /\ RoomIsChecked'
  <2>1. count \in 0..Factor /\ UNCHANGED <<net, held, bracket>> /\ ~At("log") /\ ~At("book")
    BY <1>9 DEF TypeInv, LedgerInv, LedgerTypes, Counts, At
  <2>2. Leaves("decide", entry.t) \/ Leaves("idle", "none")
    BY <1>0, <1>9, <2>1, EntryGoes, WatchingIs DEF Counts
  <2>3. QED
    BY <1>4, <1>6, <2>1, <2>2
\* A bracket that is marked keeps its quantity.
<1>10. ASSUME entry.t \in Tickers, NEW p, NEW c, NEW d, Mark(p, c, d)
       PROVE  \A u \in Tickers : bracket'[u].qty = bracket[u].qty
  BY <1>0, <1>10, QtysStay
<1>11. ASSUME UNCHANGED <<net, held>>, entry.t \in Tickers, \A u \in Tickers : Unwritten(u) = 0,
              GivesUp \/ (Done /\ UNCHANGED bracket) \/ (Done /\ \E p, c, d : Mark(p, c, d))
       PROVE  HoldingsAreKnown' /\ RoomIsChecked'
  <2>1. \A u \in Tickers : bracket'[u].qty = bracket[u].qty
    BY <1>10, <1>11 DEF GivesUp
  <2>2. Leaves("next", "none")
    BY <1>0, <1>11, WatchingIs DEF GivesUp
  <2>3. QED
    BY <1>6, <1>11, <2>1, <2>2
<1>12. ASSUME NEW ok \in BOOLEAN, NEW fills \in BOOLEAN, Decides(ok, fills)
       PROVE  HoldingsAreKnown' /\ RoomIsChecked'
  <2>1. /\ UNCHANGED <<net, held>> /\ entry.t \in Tickers /\ ~At("log") /\ ~At("book")
        /\ entry.unknown = 0 /\ Looks(ok /\ fills)
    BY <1>0, <1>12 DEF Decides, At, TypeInv, AtBracket
  <2>2. CASE Done /\ (UNCHANGED bracket \/ Retires \/ Yields)
    BY <1>4, <1>11, <2>1, <2>2 DEF Retires, Yields
  <2>3. CASE /\ IsAllowed(entry.count) /\ Mark(Same.phase, TRUE, Same.pending)
             /\ entry' = [entry EXCEPT !.pc = "gates", !.n = NextQty(entry.count),
                                       !.seen = entry.seen \cup {entry.count},
                                       !.unknown = Unknown(ok /\ fills)]
    <3> DEFINE m == NextQty(entry.count)
               S == entry.seen \cup {entry.count}
               u == Unknown(ok /\ fills)
    <3>1. entry.count \in 0..Factor /\ entry.seen \in SUBSET (0..Factor) /\ Factor \in Nat
      BY <1>0, EntryTasksAre, ConstantsAssumption
    <3>2. m \in 0..MaxQty
      BY <1>0, <2>3, <3>1, Quantities
    <3>3. S \in SUBSET (0..Factor)
      BY <3>1
    <3>4. u \in 0..MaxUnknown
      BY <1>0, <2>1, LooksIs
    <3>5. entry' = [entry EXCEPT !.pc = "gates", !.n = m, !.seen = S, !.unknown = u]
      BY <2>3
    <3> HIDE DEF m, S, u
    <3>6. Leaves("gates", entry.t)
      BY <1>0, <3>2, <3>3, <3>4, <3>5, EntryGoes
    <3>7. QED
      BY <1>4, <1>6, <1>10, <2>1, <2>3, <3>6
  <2>4. QED
    BY <1>12, <2>2, <2>3 DEF Decides
<1>13. ASSUME NEW v \in {"closed", "no quote"}, Refused(v) PROVE HoldingsAreKnown' /\ RoomIsChecked'
  <2>1. UNCHANGED <<net, held>> /\ entry.t \in Tickers /\ ~At("log") /\ ~At("book")
    BY <1>0, <1>13 DEF Refused, At
  <2>2. QED
    BY <1>4, <1>11, <1>13, <2>1 DEF Refused
\* The entry takes at least what the bracket says is held.
<1>14. ASSUME NEW ok \in BOOLEAN, Checks(ok) PROVE HoldingsAreKnown' /\ RoomIsChecked'
  <2>1. UNCHANGED <<net, held>> /\ entry.t \in Tickers /\ ~At("log") /\ ~At("book")
    BY <1>0, <1>14 DEF Checks, At
  <2>2. CASE GivesUp
    BY <1>4, <1>11, <2>1, <2>2
  <2>3. CASE /\ entry' = [entry EXCEPT !.pc = "exposure", !.have = Live(ok), !.verified = ok,
                                       !.unknown = Unknown(ok)]
             /\ UNCHANGED bracket
    <3> DEFINE h == Live(ok)
               u == Unknown(ok)
    <3>1. h \in Nat /\ bracket[entry.t].qty <= h
      BY <1>0, <2>1 DEF Live, Higher, Same
    <3>2. u \in 0..MaxUnknown
      BY <1>0, <1>14, LooksIs DEF Checks
    <3>3. entry' = [entry EXCEPT !.pc = "exposure", !.have = h, !.verified = ok, !.unknown = u]
      BY <2>3
    <3> HIDE DEF h, u
    <3>4. Leaves("exposure", entry.t) /\ entry'.have = h
      BY <1>0, <3>1, <3>2, <3>3, EntryGoes
    <3>5. net[entry.t] <= h
      BY <1>0, <1>3, <1>4, <2>1, <3>1
    <3>6. ~At("post")' /\ ~At("log")' /\ ~At("book")'
      BY <3>4 DEF Leaves, At
    <3>7. \A t \in Tickers : Unwritten(t)' = 0
      BY <3>6 DEF Unwritten
    <3>8. HoldingsAreKnown'
      BY <1>3, <1>4, <2>1, <2>3, <3>4, <3>5, <3>6, <3>7 DEF HoldingsAreKnown, Leaves
    <3>9. RoomIsChecked'
      BY <1>3, <1>5, <2>1, <3>6 DEF RoomIsChecked
    <3>10. QED
      BY <3>8, <3>9
  <2>4. QED
    BY <1>14, <2>2, <2>3 DEF Checks
\* What is added up covers what is held, so there is room for the order.
<1>15. ASSUME NEW read \in BOOLEAN, Exposes(read) PROVE HoldingsAreKnown' /\ RoomIsChecked'
  <2>1. UNCHANGED <<net, held>> /\ entry.t \in Tickers /\ ~At("log") /\ ~At("book") /\ At("exposure") /\ read
    BY <1>0, <1>1, <1>15 DEF Exposes, At, Faults
  <2>2. CASE GivesUp
    BY <1>4, <1>11, <2>1, <2>2
  <2>3. CASE Exposure + entry.n <= EventMax /\ Go("post") /\ UNCHANGED bracket
    <3>1. Leaves("post", entry.t) /\ entry'.have = entry.have /\ entry'.n = entry.n
      BY <1>0, <2>3, EntryKeeps DEF Go, Pcs
    <3>2. ASSUME NEW t \in Tickers PROVE Holding(t) \in Nat /\ net[t] <= Holding(t)
      <4>1. CASE t = entry.t /\ entry.verified
        BY <1>0, <1>3, <2>1, <4>1 DEF Holding
      <4>2. CASE ~(t = entry.t /\ entry.verified)
        <5>1. Holding(t) = Higher(row[t], IF t \in held THEN bracket[t].qty ELSE 0)
          BY <4>2 DEF Holding, Recorded
        <5>2. t \in held => net[t] <= bracket[t].qty
          BY <1>0, <1>3, <1>4, <2>1
        <5>3. t \notin held => net[t] = 0
          BY <1>0, <1>3, <1>4, <2>1
        <5>4. QED
          BY <1>0, <5>1, <5>2, <5>3 DEF Higher
      <4>3. QED
        BY <4>1, <4>2
    <3>3. Total <= Exposure
      BY <1>0, <3>2, ExposureCovers
    <3>4. Total \in Nat /\ Exposure \in Nat
      <4> DEFINE h == [t \in Tickers |-> Holding(t)]
      <4>1. h \in [Tickers -> Nat] /\ \A t \in Tickers : h[t] = Holding(t)
        BY <3>2
      <4> HIDE DEF h
      <4>2. Exposure = SumOf(h) /\ SumOf(h) \in Nat
        BY <4>1, ExposureIs, SumsCompare
      <4>3. QED
        BY <1>0, <4>2, SumsCompare, TotalIs
    <3>5. Total' + entry'.n <= EventMax
      BY <1>0, <1>5, <2>1, <2>3, <3>1, <3>3, <3>4
    <3>6. RoomIsChecked'
      BY <1>3, <1>5, <2>1, <3>5 DEF RoomIsChecked
    <3>7. ~At("log")' /\ ~At("book")'
      BY <3>1 DEF Leaves, At
    <3>8. \A t \in Tickers : Unwritten(t)' = 0
      BY <3>7 DEF Unwritten
    <3>9. HoldingsAreKnown'
      BY <1>3, <1>4, <2>1, <2>3, <3>1, <3>7, <3>8 DEF HoldingsAreKnown, Leaves
    <3>10. QED
      BY <3>6, <3>9
  <2>4. Exposure + entry.n > EventMax \/ Exposure + entry.n <= EventMax \/ GivesUp
    <3> DEFINE h == [t \in Tickers |-> Holding(t)]
    <3>1. \A t \in Tickers : Holding(t) \in Nat
      BY <1>0 DEF Holding, Recorded, Higher
    <3>2. h \in [Tickers -> Nat] /\ \A t \in Tickers : h[t] = Holding(t)
      BY <3>1
    <3> HIDE DEF h
    <3>3. Exposure = SumOf(h) /\ SumOf(h) \in Nat
      BY <3>2, ExposureIs, SumsCompare
    <3>4. QED
      BY <1>0, <3>3
  <2>5. QED
    BY <1>15, <2>1, <2>2, <2>3, <2>4 DEF Exposes
<1>16. ASSUME NEW ok \in BOOLEAN, Rejects(ok) PROVE HoldingsAreKnown' /\ RoomIsChecked'
  <2>1. /\ UNCHANGED <<net, held, bracket>> /\ entry.t \in Tickers /\ At("post")
        /\ entry' = [entry EXCEPT !.pc = "log", !.unknown = 0]
    BY <1>0, <1>16 DEF Rejects, At
  <2>2. Leaves("log", entry.t) /\ entry'.have = entry.have /\ entry'.f = entry.f
    BY <1>0, <2>1, EntryKeeps
  <2>3. ~At("exposure")' /\ ~At("post")' /\ ~At("book")' /\ entry'.t = entry.t
    BY <2>2 DEF Leaves, At
  <2>4. \A t \in Tickers : Unwritten(t) = 0
    BY <1>4, <2>1 DEF At
  <2>5. \A t \in Tickers : Unwritten(t)' \in Nat
    BY <1>0, <2>2 DEF Unwritten
  <2>6. \A t \in Tickers : net'[t] <= bracket'[t].qty + Unwritten(t)'
    BY <1>0, <1>3, <2>1, <2>4, <2>5
  <2>7. \A t \in Tickers : net'[t] > 0 => t \in held'
    BY <1>3, <2>1, <2>4
  <2>8. net'[entry.t] <= entry.have + entry.f
    BY <1>0, <1>3, <2>1
  <2>9. HoldingsAreKnown'
    BY <2>2, <2>3, <2>6, <2>7, <2>8 DEF HoldingsAreKnown
  <2>10. RoomIsChecked'
    BY <1>3, <1>5, <2>1, <2>3 DEF RoomIsChecked
  <2>11. QED
    BY <2>9, <2>10
<1>17. ASSUME NEW f \in 0..MaxQty, NEW ok \in BOOLEAN, NEW replied \in BOOLEAN, Posts(f, ok, replied)
       PROVE  HoldingsAreKnown' /\ RoomIsChecked'
  <2>1. /\ UNCHANGED <<held, bracket>> /\ entry.t \in Tickers /\ At("post") /\ Buys(f) /\ f \in Nat
        /\ entry' = [entry EXCEPT !.pc = "log", !.unknown = 0, !.f = f]
    <3>1. replied
      BY <1>1, <1>17 DEF Posts, Faults
    <3>2. entry' = [entry EXCEPT !.pc = "log", !.unknown = 0, !.f = IF replied THEN f ELSE 0]
      BY <1>17 DEF Posts
    <3>3. UNCHANGED <<held, bracket>> /\ entry.t \in Tickers /\ At("post") /\ Buys(f) /\ f \in Nat
      BY <1>0, <1>17 DEF Posts, At
    <3>4. QED
      BY <3>1, <3>2, <3>3
  <2>2. Leaves("log", entry.t) /\ entry'.have = entry.have /\ entry'.f = f
    BY <1>0, <2>1, EntryKeeps
  <2>3. ~At("exposure")' /\ ~At("post")' /\ At("log")' /\ entry'.t = entry.t
    BY <2>2 DEF Leaves, At
  <2>4. /\ f <= entry.n /\ net'[entry.t] = net[entry.t] + f
        /\ \A t \in Tickers \ {entry.t} : net'[t] = net[t]
    BY <1>0, <2>1, BuysIs, TypeSplits DEF TypeInv
  <2>5. \A t \in Tickers : Unwritten(t) = 0 /\ Unwritten(t)' = IF t = entry.t THEN f ELSE 0
    BY <1>4, <2>1, <2>2, <2>3 DEF At, Unwritten
  <2>6. ASSUME NEW t \in Tickers
        PROVE  net'[t] <= bracket'[t].qty + Unwritten(t)' /\ (net'[t] > 0 => t \in held' \/ Unwritten(t)' > 0)
    <3>1. net[t] <= bracket[t].qty /\ (net[t] > 0 => t \in held)
      BY <1>0, <1>3, <2>5
    <3>2. CASE t = entry.t
      BY <1>0, <2>1, <2>4, <2>5, <3>1, <3>2
    <3>3. CASE t # entry.t
      BY <1>0, <2>1, <2>4, <2>5, <3>1, <3>3
    <3>4. QED
      BY <3>2, <3>3
  <2>7. net'[entry.t] <= entry'.have + entry'.f
    BY <1>0, <1>3, <2>1, <2>2, <2>4
  <2>8. HoldingsAreKnown'
    BY <2>3, <2>6, <2>7 DEF HoldingsAreKnown
  <2>9. Total' <= Total + f /\ Total \in Nat /\ Total' \in Nat
    <3>1. net'[entry.t] <= net[entry.t] + f /\ \A t \in Tickers : t # entry.t => net'[t] <= net[t]
      BY <1>0, <2>1, <2>4
    <3>2. SumOf(net') <= SumOf(net) + f
      BY <1>0, <2>1, <3>1, SumsCompare
    <3>3. SumOf(net) \in Nat /\ SumOf(net') \in Nat
      BY <1>0, SumsCompare
    <3>4. QED
      BY <3>2, <3>3, TotalIs
  <2>10. Total' <= EventMax
    BY <1>0, <1>3, <2>1, <2>4, <2>9
  <2>11. RoomIsChecked'
    BY <2>3, <2>10 DEF RoomIsChecked
  <2>12. QED
    BY <2>8, <2>11
<1>18. ASSUME NEW written \in BOOLEAN, Logs(written) PROVE HoldingsAreKnown' /\ RoomIsChecked'
  <2>1. UNCHANGED <<net, held>> /\ entry.t \in Tickers /\ At("log") /\ written
    BY <1>0, <1>1, <1>18 DEF Logs, At, Faults
  <2>2. CASE entry.f = 0 /\ GivesUp
    BY <1>4, <1>11, <2>1, <2>2
  <2>3. CASE Mark("HOLDING", Same.crossed, FALSE) /\ Go("book")
    <3>1. Leaves("book", entry.t) /\ entry'.have = entry.have /\ entry'.f = entry.f
      BY <1>0, <2>3, EntryKeeps DEF Go, Pcs
    <3>2. ~At("exposure")' /\ ~At("post")' /\ At("book")' /\ entry'.t = entry.t
      BY <3>1 DEF Leaves, At
    <3>3. \A t \in Tickers : bracket'[t].qty = bracket[t].qty
      BY <1>10, <2>1, <2>3
    <3>4. \A t \in Tickers : Unwritten(t)' = Unwritten(t)
      BY <2>1, <3>1, <3>2 DEF Unwritten
    <3>5. HoldingsAreKnown'
      BY <1>3, <2>1, <3>1, <3>2, <3>3, <3>4 DEF HoldingsAreKnown
    <3>6. RoomIsChecked'
      BY <1>3, <1>5, <2>1, <3>2 DEF RoomIsChecked
    <3>7. QED
      BY <3>5, <3>6
  <2>4. QED
    BY <1>18, <2>1, <2>2, <2>3 DEF Logs, AfterFailure
<1>19. ASSUME NEW ok \in BOOLEAN, NEW written \in BOOLEAN, Books(ok, written)
       PROVE  HoldingsAreKnown' /\ RoomIsChecked'
  <2> DEFINE q == Higher(entry.have + entry.f, IF ok THEN net[entry.t] ELSE 0)
  <2>1. /\ UNCHANGED net /\ entry.t \in Tickers /\ At("book") /\ Done
        /\ bracket' = [bracket EXCEPT ![entry.t] = [bracket[entry.t] EXCEPT !.qty = q]]
        /\ held' = held \cup {entry.t}
    BY <1>0, <1>19 DEF Books, At
  <2>2. q \in Nat /\ entry.have + entry.f <= q
    BY <1>0, <2>1 DEF Higher
  <2> HIDE DEF q
  <2>3. bracket[entry.t] \in Brackets
    BY <1>0, <2>1
  <2>4. bracket'[entry.t].qty = q /\ \A t \in Tickers : t # entry.t => bracket'[t] = bracket[t]
    BY <1>0, <2>1, <2>3 DEF Brackets
  <2>5. Leaves("next", "none")
    BY <1>0, <2>1, WatchingIs
  <2>6. ~At("exposure")' /\ ~At("post")' /\ ~At("log")' /\ ~At("book")'
    BY <2>5 DEF Leaves, At
  <2>7. \A t \in Tickers : Unwritten(t)' = 0
    BY <2>6 DEF Unwritten
  <2>8. ASSUME NEW t \in Tickers PROVE net'[t] <= bracket'[t].qty /\ (net'[t] > 0 => t \in held')
    <3>1. CASE t = entry.t
      BY <1>0, <1>3, <2>1, <2>2, <2>4, <3>1
    <3>2. CASE t # entry.t
      <4>1. Unwritten(t) = 0
        BY <3>2 DEF Unwritten
      <4>2. QED
        BY <1>0, <1>3, <2>1, <2>4, <3>2, <4>1
    <3>3. QED
      BY <3>1, <3>2
  <2>9. \A t \in Tickers : bracket'[t].qty \in Nat
    BY <1>0, <2>2, <2>4
  <2>10. HoldingsAreKnown'
    BY <2>6, <2>7, <2>8, <2>9 DEF HoldingsAreKnown
  <2>11. RoomIsChecked'
    BY <1>3, <1>5, <2>1, <2>6 DEF RoomIsChecked
  <2>12. QED
    BY <2>10, <2>11
<1>20. QED
  BY <1>2, <1>7, <1>8, <1>9, <1>12, <1>13, <1>14, <1>15, <1>16, <1>17, <1>18, <1>19 DEF Watch

LEMMA ExposureStep == ASSUME TypeInv, ExposureInv, [Next]_vars PROVE ExposureInv'
<1>1. TypeInv'
  BY TypeStep
<1>2. used \subseteq Faults /\ used' \subseteq Faults
  BY <1>1 DEF TypeInv, TypeOK
<1>3. SUFFICES ASSUME used' = {} PROVE HoldingsAreKnown' /\ RoomIsChecked'
  <2>1. ~Unbooked' => used' = {}
    BY <1>2 DEF Unbooked, Faults
  <2>2. QED
    BY <2>1 DEF ExposureInv
<1>4. used = {} /\ HoldingsAreKnown /\ RoomIsChecked
  <2>1. used = {}
    BY <1>3, ExcuseStays
  <2>2. QED
    BY <2>1 DEF ExposureInv, Unbooked
<1>5. CASE Watch
  BY <1>1, <1>3, <1>4, <1>5, ExposureWatch
<1>6. ASSUME NEW t \in Tickers, Sweep(t) \/ Stop(t) \/ SoldElsewhere(t)
      PROVE  HoldingsAreKnown' /\ RoomIsChecked'
  BY <1>1, <1>4, <1>6, ExposureOthers
<1>7. CASE UNCHANGED vars
  <2>1. UNCHANGED <<net, bracket, held, entry>>
    BY <1>7 DEF vars
  <2>2. Total' = Total
    BY <2>1, TotalIs
  <2>3. QED
    BY <1>4, <2>1, <2>2 DEF HoldingsAreKnown, RoomIsChecked, Unwritten, At
<1>8. QED
  BY <1>5, <1>6, <1>7 DEF Next

(* The contracts of all brackets of an event together stay within the cap   *)
(* of the event, whatever is bought, adopted, sold and corrected at the     *)
(* same time, as long as every fill is booked.                              *)
THEOREM EventWithinCap == Spec => []ExposureWithinCap
<1>1. TypeInv /\ ExposureInv => ExposureWithinCap
  <2> SUFFICES ASSUME TypeInv, ExposureInv, ~Unbooked PROVE ~ (Total > EventMax)
    BY DEF ExposureWithinCap
  <2>1. Total <= EventMax
    BY DEF ExposureInv, RoomIsChecked
  <2>2. Total \in Nat /\ EventMax \in Nat
    BY SumsCompare, TotalIs, ConstantsAssumption DEF TypeInv, TypeOK
  <2>3. QED
    BY <2>1, <2>2
<1>2. Init => TypeInv /\ ExposureInv
  BY TypeInit, ExposureInit
<1>3. TypeInv /\ ExposureInv /\ [Next]_vars => (TypeInv /\ ExposureInv)'
  BY TypeStep, ExposureStep
<1>4. QED
  BY <1>1, <1>2, <1>3, PTL DEF Spec

-----------------------------------------------------------------------------
(* The decisions stored once a day (StoredDecisions.tla, as MCStrategy     *)
(* instantiates it), for any number of days and of starts of the process:  *)
(* both are kept for the day they were taken for.                          *)
(*                                                                         *)
(* The brief is safe because its row is written once: a job that is about  *)
(* to write has found no row, and nobody else writes.  The AM-low decision *)
(* has two writers and no such rule; what is proved is what protects it:   *)
(* within a process its locked cache, and across processes the row, as     *)
(* long as nothing has gone wrong with that.                               *)

\* A job that is about to write the brief's row has found none.
WritesOnce == jobs.brief \in Stored!Verdicts => briefRow = "none"

\* The cache says what the row says, or "pass" for want of a row that reads.
CacheFollowsRow ==
    /\ briefCache.says = "block" => briefRow = "block"
    /\ briefCache.says = "pass" /\ briefCache.locked => briefRow = "pass"

\* Once blocked the row says so, and no cache says otherwise, unless the row
\* was there and not read.
BlockStands ==
    blocked => /\ briefRow = "block"
               /\ briefCache.says = "pass" => "brief unread" \in causes

BriefInv == WritesOnce /\ CacheFollowsRow /\ BlockStands /\ Stored!BriefIsKept

-----------------------------------------------------------------------------
RowTrouble == causes \cap {"overwritten", "lost", "unread"} # {}

Locked(d) == [locked |-> TRUE, says |-> d]

\* A call under way has found the cache empty; it stores what it fetched; it
\* dies with the process.
CallsAreClean ==
    /\ gate.pc # "idle" => amCache = Stored!Empty
    /\ gate.pc = "write" => gate.says \in Stored!Verdicts
    /\ ~up => gate.pc = "idle"
    /\ gate.pc = "idle" => gate = Stored!Quiet

\* The cache is locked by a decision, which was counted.
LockIsCounted == amCache.locked => first # "none" /\ amCache.says # "none"

\* In the first process the lock of the cache keeps the decision.
LockHolds ==
    starts = 1 /\ first # "none" => said = first /\ (up => amCache = Locked(first))

\* In the later ones the row does, for as long as it is in order.
RowHolds ==
    ~RowTrouble /\ first # "none" =>
        /\ said = first
        /\ amRow = first
        /\ amCache \in {Stored!Empty, Locked(first)}
        /\ gate.pc \in {"idle", "row"}

AmLowInv == CallsAreClean /\ LockIsCounted /\ LockHolds /\ RowHolds

-----------------------------------------------------------------------------
(* Types *)

LEMMA CachesAre ==
    /\ Stored!Empty \in Stored!Caches
    /\ \A c \in Stored!Caches : c.locked \in BOOLEAN /\ c.says \in Stored!Maybe /\ Stored!Aged(c) \in Stored!Caches
    /\ \A l \in BOOLEAN, d \in Stored!Maybe : [locked |-> l, says |-> d] \in Stored!Caches
  BY DEF Stored!Caches, Stored!Empty, Stored!Aged, Stored!Maybe

LEMMA CallsAre ==
    /\ Stored!Quiet \in Stored!Calls
    /\ \A g \in Stored!Calls : g.says \in Stored!Maybe /\ g.early \in BOOLEAN
    /\ \A e \in BOOLEAN : [pc |-> "row", early |-> e, says |-> "none"] \in Stored!Calls
    /\ \A g \in Stored!Calls : [g EXCEPT !.pc = "fetch"] \in Stored!Calls
    /\ \A g \in Stored!Calls, d \in Stored!Maybe : [g EXCEPT !.pc = "write", !.says = d] \in Stored!Calls
  BY DEF Stored!Calls, Stored!Quiet, Stored!Maybe

LEMMA JobsAre ==
    /\ Stored!NoJobs \in Stored!Jobs
    /\ \A j \in Stored!Jobs : [am |-> Stored!Due(j.am), brief |-> Stored!Due(j.brief)] \in Stored!Jobs
    /\ \A j \in Stored!Jobs : [am |-> Stored!Missed(j.am), brief |-> Stored!Missed(j.brief)] \in Stored!Jobs
    /\ \A b \in {"fetch", "waiting"} : [am |-> "waiting", brief |-> b] \in Stored!Jobs
    /\ \A j \in Stored!Jobs, a \in Stored!Maybe \cup {"waiting"} : [j EXCEPT !.am = a] \in Stored!Jobs
    /\ \A j \in Stored!Jobs, b \in Stored!Maybe \cup {"waiting", "fetch"} : [j EXCEPT !.brief = b] \in Stored!Jobs
  BY DEF Stored!Jobs, Stored!NoJobs, Stored!Due, Stored!Missed, Stored!Maybe,
     Stored!Verdicts

\* The flags stay Boolean.
LEMMA FlagsStep ==
    ASSUME Stored!TypeOK, [Stored!Next]_(Stored!vars)
    PROVE  warm' \in BOOLEAN /\ up' \in BOOLEAN /\ blocked' \in BOOLEAN /\ clear' \in BOOLEAN
<1> USE DEF Stored!TypeOK, Stored!ghosts
<1>1. warm' \in BOOLEAN
  BY DEF Stored!Next, Stored!Job, Stored!Gate, Stored!World, Stored!SnapshotHour,
     Stored!DayBreaks, Stored!Midnight, Stored!Expires, Stored!Crash, Stored!Bootstrap,
     Stored!AmLowFetches, Stored!AmLowWrites, Stored!BriefStarts, Stored!BriefFetches,
     Stored!BriefWrites, Stored!AsksCache, Stored!AsksRow, Stored!AsksForecast,
     Stored!Stores, Stored!BriefAnswers, Stored!vars
<1>2. up' \in BOOLEAN
  BY DEF Stored!Next, Stored!Job, Stored!Gate, Stored!World, Stored!SnapshotHour,
     Stored!DayBreaks, Stored!Midnight, Stored!Expires, Stored!Crash, Stored!Bootstrap,
     Stored!AmLowFetches, Stored!AmLowWrites, Stored!BriefStarts, Stored!BriefFetches,
     Stored!BriefWrites, Stored!AsksCache, Stored!AsksRow, Stored!AsksForecast,
     Stored!Stores, Stored!BriefAnswers, Stored!vars
<1>3. blocked' \in BOOLEAN /\ clear' \in BOOLEAN
  BY DEF Stored!Next, Stored!Job, Stored!Gate, Stored!World, Stored!SnapshotHour,
     Stored!DayBreaks, Stored!Midnight, Stored!Expires, Stored!Crash, Stored!Bootstrap,
     Stored!AmLowFetches, Stored!AmLowWrites, Stored!BriefStarts, Stored!BriefFetches,
     Stored!BriefWrites, Stored!AsksCache, Stored!AsksRow, Stored!AsksForecast,
     Stored!Stores, Stored!BriefAnswers, Stored!vars
<1>4. QED
  BY <1>1, <1>2, <1>3

LEMMA StoredTypeInit == ASSUME Stored!ConstantsAssumption, Stored!Init PROVE Stored!TypeOK
<1>1. {up, blocked, clear, warm} \subseteq BOOLEAN
  BY DEF Stored!Init
<1>2. amCache \in Stored!Caches /\ briefCache \in Stored!Caches /\ gate \in Stored!Calls /\ jobs \in Stored!Jobs
  BY CachesAre, CallsAre, JobsAre DEF Stored!Init
<1>3. QED
  BY <1>1, <1>2 DEF Stored!ConstantsAssumption, Stored!Init, Stored!TypeOK, Stored!Hours,
     Stored!Maybe, Stored!Verdicts

LEMMA StoredTypeStep == ASSUME Stored!ConstantsAssumption, Stored!TypeOK, [Stored!Next]_(Stored!vars) PROVE Stored!TypeOK'
<1>0. warm' \in BOOLEAN /\ up' \in BOOLEAN /\ blocked' \in BOOLEAN /\ clear' \in BOOLEAN
  BY FlagsStep
<1> USE <1>0 DEF Stored!ConstantsAssumption, Stored!TypeOK, Stored!Hours, Stored!Maybe,
   Stored!Verdicts, Stored!rows, Stored!ghosts
<1>1. CASE Stored!SnapshotHour
  BY <1>1, JobsAre DEF Stored!SnapshotHour
<1>2. CASE Stored!DayBreaks
  BY <1>2, JobsAre DEF Stored!DayBreaks
<1>3. CASE Stored!Midnight
  BY <1>3, CachesAre DEF Stored!Midnight
<1>4. CASE Stored!Expires
  BY <1>4, CachesAre DEF Stored!Expires
<1>5. CASE Stored!Crash
  BY <1>5, CachesAre, CallsAre, JobsAre DEF Stored!Crash
<1>6. ASSUME NEW read \in BOOLEAN, Stored!Bootstrap(read) PROVE Stored!TypeOK'
  BY <1>6, JobsAre DEF Stored!Bootstrap
<1>7. CASE Stored!BriefStarts
  BY <1>7, JobsAre DEF Stored!BriefStarts
<1>8. ASSUME NEW d \in Stored!Maybe, Stored!AmLowFetches(d) PROVE Stored!TypeOK'
  BY <1>8, JobsAre DEF Stored!AmLowFetches
<1>9. ASSUME NEW d \in Stored!Maybe, NEW read \in BOOLEAN, Stored!BriefFetches(read, d) PROVE Stored!TypeOK'
  BY <1>9, JobsAre DEF Stored!BriefFetches
<1>10. ASSUME NEW written \in BOOLEAN, Stored!AmLowWrites(written) PROVE Stored!TypeOK'
  BY <1>10, JobsAre DEF Stored!AmLowWrites, Stored!Upsert, Stored!Overwrites, Stored!Causes
<1>11. ASSUME NEW written \in BOOLEAN, Stored!BriefWrites(written) PROVE Stored!TypeOK'
  BY <1>11, JobsAre DEF Stored!BriefWrites
<1>12. ASSUME NEW l \in BOOLEAN, NEW d \in Stored!Maybe, Stored!Answers(l, d)
       PROVE  gate' \in Stored!Calls /\ amCache' \in Stored!Caches /\ said' \in Stored!Maybe /\ first' \in Stored!Maybe
  BY <1>12, CachesAre, CallsAre DEF Stored!Answers
<1>13. CASE Stored!AsksCache
  BY <1>12, <1>13, CachesAre, CallsAre DEF Stored!AsksCache
<1>14. ASSUME NEW b \in BOOLEAN, Stored!AsksRow(b) PROVE Stored!TypeOK'
  BY <1>12, <1>14, CallsAre DEF Stored!AsksRow, Stored!Causes
<1>15. ASSUME NEW b \in BOOLEAN, Stored!Stores(b) PROVE Stored!TypeOK'
  BY <1>12, <1>15, CallsAre DEF Stored!Stores, Stored!Upsert, Stored!Overwrites,
     Stored!Causes
<1>16. ASSUME NEW b \in BOOLEAN, Stored!BriefAnswers(b) PROVE Stored!TypeOK'
  BY <1>16, CachesAre DEF Stored!BriefAnswers, Stored!Causes
<1>17. ASSUME NEW d \in Stored!Maybe, Stored!AsksForecast(d) PROVE Stored!TypeOK'
  BY <1>12, <1>17, CallsAre DEF Stored!AsksForecast
<1>18. CASE UNCHANGED Stored!vars
  BY <1>18 DEF Stored!vars
<1>19. QED
  BY <1>1, <1>2, <1>3, <1>4, <1>5, <1>6, <1>7, <1>8, <1>9, <1>10, <1>11, <1>13, <1>14,
     <1>15, <1>16, <1>17, <1>18 DEF Stored!Next, Stored!Job, Stored!Gate, Stored!World

(* Every variable keeps its type. *)
THEOREM StoredTyped == Stored!Spec => []Stored!TypeOK
<1>1. Stored!TypeOK /\ [Stored!Next]_(Stored!vars) => Stored!TypeOK'
  BY PartsAssumption, StoredTypeStep
<1>2. Stored!Init => Stored!TypeOK
  BY PartsAssumption, StoredTypeInit
<1>3. QED
  BY <1>1, <1>2, PTL DEF Stored!Spec

-----------------------------------------------------------------------------
(* The brief *)

LEMMA BriefInit == ASSUME Stored!Init PROVE BriefInv
  BY DEF Stored!Init, Stored!Empty, BriefInv, WritesOnce, CacheFollowsRow, BlockStands,
     Stored!BriefIsKept, Stored!Verdicts

LEMMA BriefStep == ASSUME Stored!TypeOK, Stored!TypeOK', BriefInv, [Stored!Next]_(Stored!vars) PROVE BriefInv'
<1>0. /\ briefRow \in {"none", "pass", "block"} /\ briefCache.says \in {"none", "pass", "block"}
      /\ blocked \in BOOLEAN /\ clear \in BOOLEAN /\ blocked' \in BOOLEAN /\ clear' \in BOOLEAN
      /\ briefCache.locked \in BOOLEAN
  BY CachesAre DEF Stored!TypeOK, Stored!Maybe, Stored!Verdicts
<1> USE <1>0 DEF BriefInv, WritesOnce, CacheFollowsRow, BlockStands, Stored!BriefIsKept,
   Stored!Verdicts, Stored!rows, Stored!ghosts
<1>1. ASSUME UNCHANGED <<briefRow, briefCache, blocked, clear>>, causes \subseteq causes',
             jobs'.brief \in Stored!Verdicts => jobs.brief \in Stored!Verdicts
      PROVE  BriefInv'
  BY <1>1
<1>2. CASE Stored!Midnight
  BY <1>2 DEF Stored!Midnight, Stored!Empty
<1>3. CASE Stored!Expires
  <2>1. briefCache' = briefCache \/ briefCache'.says = "none"
    BY <1>3 DEF Stored!Expires, Stored!Aged, Stored!Empty
  <2>2. UNCHANGED <<briefRow, blocked, clear, causes, jobs>>
    BY <1>3 DEF Stored!Expires
  <2>3. QED
    BY <2>1, <2>2
<1>4. CASE Stored!Crash
  BY <1>4 DEF Stored!Crash, Stored!Empty, Stored!NoJobs
<1>5. ASSUME NEW read \in BOOLEAN, Stored!Bootstrap(read) PROVE BriefInv'
  BY <1>5 DEF Stored!Bootstrap
<1>6. ASSUME NEW read \in BOOLEAN, NEW d \in Stored!Maybe, Stored!BriefFetches(read, d) PROVE BriefInv'
  <2>1. UNCHANGED <<briefRow, briefCache, blocked, clear, causes>>
    BY <1>6 DEF Stored!BriefFetches
  <2>2. jobs'.brief \in {"waiting", d} /\ (jobs'.brief = "waiting" \/ Stored!Snapshots(read))
    BY <1>6 DEF Stored!BriefFetches, Stored!TypeOK, Stored!Jobs
  <2>3. jobs'.brief \in Stored!Verdicts => briefRow = "none"
    BY <1>6, <2>2 DEF Stored!BriefFetches, Stored!Snapshots
  <2>4. QED
    BY <2>1, <2>3
<1>7. ASSUME NEW written \in BOOLEAN, Stored!BriefWrites(written) PROVE BriefInv'
  <2>1. UNCHANGED <<briefCache, blocked, clear, causes>> /\ briefRow = "none" /\ jobs'.brief = "waiting"
    BY <1>7 DEF Stored!BriefWrites, Stored!TypeOK, Stored!Jobs
  <2>2. ~blocked /\ briefCache.says # "block" /\ ~(briefCache.says = "pass" /\ briefCache.locked)
    BY <2>1
  <2>3. QED
    BY <2>1, <2>2
<1>8. ASSUME NEW read \in BOOLEAN, Stored!BriefAnswers(read) PROVE BriefInv'
  <2>1. /\ UNCHANGED <<briefRow, jobs>> /\ causes \subseteq causes'
        /\ blocked' = (blocked \/ briefCache'.says = "block")
        /\ clear' = (clear \/ (blocked /\ briefCache'.says = "pass"))
    BY <1>8 DEF Stored!BriefAnswers
  <2>2. CASE briefCache.says # "none"
    BY <1>8, <2>1, <2>2 DEF Stored!BriefAnswers
  <2>3. CASE briefCache.says = "none" /\ read /\ briefRow # "none"
    <3>1. briefCache' = [locked |-> TRUE, says |-> briefRow]
      BY <1>8, <2>3 DEF Stored!BriefAnswers
    <3>2. QED
      BY <2>1, <2>3, <3>1
  <2>4. CASE briefCache.says = "none" /\ ~(read /\ briefRow # "none")
    <3>1. briefCache' = [locked |-> FALSE, says |-> "pass"]
      BY <1>8, <2>4 DEF Stored!BriefAnswers
    <3>2. briefRow # "none" => "brief unread" \in causes'
      BY <1>8, <2>4 DEF Stored!BriefAnswers
    <3>3. QED
      BY <2>1, <2>4, <3>1, <3>2
  <2>5. QED
    BY <2>2, <2>3, <2>4
<1>9. CASE Stored!SnapshotHour \/ Stored!DayBreaks
  <2>1. CASE Stored!SnapshotHour
    <3>1. jobs'.brief = Stored!Due(jobs.brief)
      BY <2>1 DEF Stored!SnapshotHour
    <3>2. QED
      BY <1>1, <2>1, <3>1 DEF Stored!SnapshotHour, Stored!Due
  <2>2. CASE Stored!DayBreaks
    <3>1. jobs'.brief = Stored!Missed(jobs.brief)
      BY <2>2 DEF Stored!DayBreaks
    <3>2. QED
      BY <1>1, <2>2, <3>1 DEF Stored!DayBreaks, Stored!Missed
  <2>3. QED
    BY <1>9, <2>1, <2>2
<1>10. CASE Stored!BriefStarts \/ (\E d \in Stored!Maybe : Stored!AmLowFetches(d)) \/ (\E w \in BOOLEAN : Stored!AmLowWrites(w))
  <2>1. jobs'.brief \in Stored!Verdicts => jobs.brief \in Stored!Verdicts
    BY <1>10 DEF Stored!BriefStarts, Stored!AmLowFetches, Stored!AmLowWrites,
       Stored!TypeOK, Stored!Jobs
  <2>2. UNCHANGED <<briefRow, briefCache, blocked, clear>> /\ causes \subseteq causes'
    BY <1>10 DEF Stored!BriefStarts, Stored!AmLowFetches, Stored!AmLowWrites
  <2>3. QED
    BY <1>1, <2>1, <2>2
<1>11. CASE Stored!AsksCache \/ (\E b \in BOOLEAN : Stored!AsksRow(b) \/ Stored!Stores(b)) \/ (\E d \in Stored!Maybe : Stored!AsksForecast(d))
  <2>1. UNCHANGED <<briefRow, briefCache, blocked, clear, jobs>> /\ causes \subseteq causes'
    BY <1>11 DEF Stored!AsksCache, Stored!AsksRow, Stored!Stores, Stored!AsksForecast
  <2>2. QED
    BY <1>1, <2>1
<1>12. CASE UNCHANGED Stored!vars
  BY <1>12 DEF Stored!vars
<1>13. QED
  BY <1>2, <1>3, <1>4, <1>5, <1>6, <1>7, <1>8, <1>9, <1>10, <1>11, <1>12 DEF Stored!Next,
     Stored!Job, Stored!Gate, Stored!World

(* A day that the daily brief has blocked stays blocked, through restarts, *)
(* late snapshots and failed lookups at start-up, as long as the gate can  *)
(* read the row.                                                           *)
THEOREM BlockIsKept == Stored!Spec => []Stored!BriefIsKept
<1>1. BriefInv => Stored!BriefIsKept
  BY DEF BriefInv
<1>2. Stored!TypeOK /\ BriefInv /\ [Stored!Next]_(Stored!vars) => (Stored!TypeOK /\ BriefInv)'
  BY PartsAssumption, StoredTypeStep, BriefStep
<1>3. Stored!Init => Stored!TypeOK /\ BriefInv
  BY PartsAssumption, StoredTypeInit, BriefInit
<1>4. QED
  BY <1>1, <1>2, <1>3, PTL DEF Stored!Spec

-----------------------------------------------------------------------------
(* The AM-low decision *)

LEMMA AmLowInit == ASSUME Stored!Init PROVE AmLowInv
  BY DEF Stored!Init, Stored!Empty, Stored!Quiet, AmLowInv, CallsAreClean, LockIsCounted,
     LockHolds, RowHolds

\* A locked answer is told from an empty cache; one that is neither locked nor
\* says anything is empty.
LEMMA LockedIs ==
    /\ \A d : Locked(d).locked = TRUE /\ Locked(d).says = d /\ Locked(d) # Stored!Empty
    /\ \A c \in Stored!Caches : c = [locked |-> c.locked, says |-> c.says]
    /\ \A c \in Stored!Caches : c.locked => c = Locked(c.says)
    /\ \A c \in Stored!Caches : ~c.locked /\ c.says = "none" => c = Stored!Empty
  BY DEF Locked, Stored!Empty, Stored!Caches

LEMMA AmLowStep == ASSUME Stored!TypeOK, Stored!TypeOK', AmLowInv, [Stored!Next]_(Stored!vars) PROVE AmLowInv'
<1>0. /\ amRow \in {"none", "pass", "block"} /\ first \in {"none", "pass", "block"}
      /\ amCache.says \in {"none", "pass", "block"} /\ amCache.locked \in BOOLEAN /\ amCache \in Stored!Caches
      /\ starts \in Nat /\ starts >= 1 /\ gate \in Stored!Calls /\ up \in BOOLEAN
      /\ Stored!Quiet.pc = "idle" /\ Stored!Empty.locked = FALSE /\ Stored!Empty.says = "none"
  BY CachesAre DEF Stored!TypeOK, Stored!Maybe, Stored!Verdicts, Stored!Quiet, Stored!Empty
<1>00. /\ first # "none" => Locked(first).locked /\ Locked(first).says = first /\ Locked(first) # Stored!Empty
       /\ amCache.locked => amCache = Locked(amCache.says)
       /\ ~amCache.locked /\ amCache.says = "none" => amCache = Stored!Empty
  BY <1>0, LockedIs
<1> USE <1>0, <1>00 DEF AmLowInv, CallsAreClean, LockIsCounted, LockHolds, RowHolds,
   RowTrouble, Stored!rows, Stored!ghosts
<1>1. ASSUME UNCHANGED <<amRow, up, amCache, gate, starts, first, said>>, causes \subseteq causes'
      PROVE  AmLowInv'
  BY <1>1
<1>2. CASE Stored!Midnight
  BY <1>2 DEF Stored!Midnight
<1>3. CASE Stored!Expires
  <2>1. amCache' = (IF amCache.locked THEN amCache ELSE Stored!Empty) /\ UNCHANGED <<amRow, up, gate, starts, first, said, causes>>
    BY <1>3 DEF Stored!Expires, Stored!Aged
  <2>2. CASE amCache.locked
    BY <1>1, <2>1, <2>2
  <2>3. CASE ~amCache.locked
    BY <2>1, <2>3
  <2>4. QED
    BY <2>2, <2>3
<1>4. CASE Stored!Crash
  BY <1>4 DEF Stored!Crash
<1>5. ASSUME NEW read \in BOOLEAN, Stored!Bootstrap(read) PROVE AmLowInv'
  BY <1>5 DEF Stored!Bootstrap
<1>6. ASSUME NEW written \in BOOLEAN, Stored!AmLowWrites(written) PROVE AmLowInv'
  <2>1. UNCHANGED <<up, amCache, gate, starts, first, said>> /\ causes \subseteq causes'
    BY <1>6 DEF Stored!AmLowWrites
  <2>2. amRow' = amRow \/ amRow = "none" \/ RowTrouble'
    BY <1>6 DEF Stored!AmLowWrites, Stored!Upsert, Stored!Overwrites, Stored!Verdicts
  <2>3. QED
    BY <2>1, <2>2
<1>7. CASE Stored!AsksCache
  <2>1. UNCHANGED <<amRow, up, starts, causes>> /\ up /\ gate = Stored!Quiet
    BY <1>7 DEF Stored!AsksCache, Stored!IsAsked
  <2>2. CASE amCache.says # "none"
    <3>1. Stored!Answers(amCache.locked, amCache.says)
      BY <1>7, <2>2 DEF Stored!AsksCache
    <3>2. amCache.says \in Stored!Verdicts
      BY <2>2 DEF Stored!Verdicts
    <3>3. amCache' = amCache /\ gate' = gate /\ said' = amCache.says
      BY <2>1, <3>1, LockedIs DEF Stored!Answers
    <3>4. first' = first
      BY <3>1 DEF Stored!Answers
    <3>5. first # "none" /\ (starts = 1 \/ ~RowTrouble) => amCache.says = first
      BY <2>1, <2>2
    <3>6. QED
      BY <2>1, <3>3, <3>4, <3>5
  <2>3. CASE amCache.says = "none"
    <3>1. gate'.pc = "row" /\ UNCHANGED <<amCache, said, first>>
      BY <1>7, <2>3 DEF Stored!AsksCache
    <3>2. ~(starts = 1 /\ first # "none") /\ (~RowTrouble /\ first # "none" => amCache = Stored!Empty)
      BY <2>1, <2>3
    <3>3. amCache = Stored!Empty
      BY <2>3, LockedIs
    <3>4. QED
      BY <2>1, <3>1, <3>2, <3>3
  <2>4. QED
    BY <2>2, <2>3
<1>8. ASSUME NEW read \in BOOLEAN, Stored!AsksRow(read) PROVE AmLowInv'
  <2>1. UNCHANGED <<amRow, up, starts>> /\ gate.pc = "row" /\ causes \subseteq causes'
    BY <1>8 DEF Stored!AsksRow
  <2>2. CASE read /\ amRow # "none"
    <3>1. Stored!Answers(TRUE, amRow) /\ amRow \in Stored!Verdicts
      BY <1>8, <2>2 DEF Stored!AsksRow, Stored!Verdicts
    <3>2. /\ gate' = Stored!Quiet /\ amCache' = Locked(amRow) /\ said' = amRow
          /\ first' = IF first = "none" THEN amRow ELSE first
      BY <3>1 DEF Stored!Answers, Locked
    <3>3. starts = 1 => first = "none"
      BY <2>1
    <3>4. Locked(amRow).locked /\ Locked(amRow).says = amRow
      BY LockedIs
    <3>5. QED
      BY <2>1, <2>2, <3>2, <3>3, <3>4
  <2>3. CASE ~(read /\ amRow # "none")
    <3>1. gate'.pc = "fetch" /\ UNCHANGED <<amCache, said, first>>
      BY <1>8, <2>3 DEF Stored!AsksRow, Stored!Calls
    <3>2. amRow = "none" \/ RowTrouble'
      BY <1>8, <2>3 DEF Stored!AsksRow
    <3>3. QED
      BY <2>1, <3>1, <3>2
  <2>4. QED
    BY <2>2, <2>3
<1>9. ASSUME NEW d \in Stored!Maybe, Stored!AsksForecast(d) PROVE AmLowInv'
  <2>1. UNCHANGED <<amRow, up, starts, causes>> /\ gate.pc = "fetch"
    BY <1>9 DEF Stored!AsksForecast
  <2>2. ASSUME NEW e \in Stored!Verdicts, Stored!Answers(FALSE, e) PROVE AmLowInv'
    <3>1. gate' = Stored!Quiet /\ amCache'.locked = FALSE /\ first' = first
      BY <2>2 DEF Stored!Answers
    <3>2. (starts = 1 => first = "none") /\ (~RowTrouble => first = "none")
      BY <2>1
    <3>3. QED
      BY <2>1, <3>1, <3>2
  <2>3. CASE gate' = [gate EXCEPT !.pc = "write", !.says = d] /\ d # "none" /\ UNCHANGED <<amCache, said, first>>
    <3>1. gate'.pc = "write" /\ gate'.says \in Stored!Verdicts
      BY <2>3 DEF Stored!Calls, Stored!Maybe
    <3>2. QED
      BY <2>1, <2>3, <3>1
  <2>4. QED
    BY <1>9, <2>2, <2>3 DEF Stored!AsksForecast, Stored!Maybe, Stored!Verdicts
<1>10. ASSUME NEW written \in BOOLEAN, Stored!Stores(written) PROVE AmLowInv'
  <2>1. UNCHANGED <<up, starts>> /\ gate.pc = "write" /\ causes \subseteq causes' /\ gate.says \in Stored!Verdicts
        /\ Stored!Answers(TRUE, gate.says)
    BY <1>10 DEF Stored!Stores
  <2>2. amRow' = gate.says \/ RowTrouble'
    BY <1>10 DEF Stored!Stores, Stored!Upsert
  <2>3. first = "none" \/ RowTrouble
    BY <2>1
  <2>4. starts = 1 => first = "none"
    BY <2>1
  <2>5. /\ gate' = Stored!Quiet /\ amCache' = Locked(gate.says) /\ said' = gate.says
        /\ first' = IF first = "none" THEN gate.says ELSE first
    BY <2>1 DEF Stored!Answers, Locked
  <2>6. gate.says # "none"
    BY <2>1 DEF Stored!Verdicts
  <2>7. Locked(gate.says).locked /\ Locked(gate.says).says = gate.says
    BY LockedIs
  <2>8. QED
    BY <2>1, <2>2, <2>3, <2>4, <2>5, <2>6, <2>7
<1>11. CASE Stored!SnapshotHour \/ Stored!DayBreaks \/ Stored!BriefStarts \/ (\E d \in Stored!Maybe : Stored!AmLowFetches(d))
            \/ (\E r \in BOOLEAN, d \in Stored!Maybe : Stored!BriefFetches(r, d)) \/ (\E w \in BOOLEAN : Stored!BriefWrites(w))
            \/ (\E r \in BOOLEAN : Stored!BriefAnswers(r))
  <2>1. UNCHANGED <<amRow, up, amCache, gate, starts, first, said>> /\ causes \subseteq causes'
    BY <1>11 DEF Stored!SnapshotHour, Stored!DayBreaks, Stored!BriefStarts,
       Stored!AmLowFetches, Stored!BriefFetches, Stored!BriefWrites, Stored!BriefAnswers
  <2>2. QED
    BY <1>1, <2>1
<1>12. CASE UNCHANGED Stored!vars
  BY <1>12 DEF Stored!vars
<1>13. QED
  BY <1>2, <1>3, <1>4, <1>5, <1>6, <1>7, <1>8, <1>9, <1>10, <1>11, <1>12 DEF Stored!Next,
     Stored!Job, Stored!Gate, Stored!World

(* Once the AM-low gate has locked a decision it gives no other answer     *)
(* that day, unless a later process met a row that was not written, not    *)
(* read, or written over.                                                  *)
THEOREM AmLowKept == Stored!Spec => []Stored!AmLowIsKept
<1>1. Stored!TypeOK /\ AmLowInv => Stored!AmLowIsKept
  BY DEF Stored!TypeOK, AmLowInv, LockHolds, RowHolds, RowTrouble, Stored!AmLowIsKept
<1>2. Stored!TypeOK /\ AmLowInv /\ [Stored!Next]_(Stored!vars) => (Stored!TypeOK /\ AmLowInv)'
  BY PartsAssumption, StoredTypeStep, AmLowStep
<1>3. Stored!Init => Stored!TypeOK /\ AmLowInv
  BY PartsAssumption, StoredTypeInit, AmLowInit
<1>4. QED
  BY <1>1, <1>2, <1>3, PTL DEF Stored!Spec

-----------------------------------------------------------------------------
(* The strategy as a whole                                                 *)
(*                                                                         *)
(* A behaviour of the strategy is one of every part: the part that moves   *)
(* takes its steps, the others stutter.  The modules with the theorems     *)
(* about MorningGate and IntradayExit are instantiated here as MCStrategy  *)
(* instantiates the parts; lemmas say that the two instances are the same. *)

MorningProofs == INSTANCE MorningGateProofs
ExitsProofs == INSTANCE IntradayExitProofs WITH net <- clockNet, held <- clockHeld

\* Every behaviour of the strategy is one of StoredDecisions.
LEMMA StoredRuns == AllSpec => Stored!Spec
<1>1. AllInit => Stored!Init
  BY DEF AllInit
<1>2. [AllNext]_all => [Stored!Next]_(Stored!vars)
  BY DEF AllNext, all, decisions, Stored!vars, Stored!rows, Stored!ghosts
<1>3. QED
  BY <1>1, <1>2, PTL DEF AllSpec, Stored!Spec

\* In every behaviour of the strategy the AM-low decision the gate has locked is
\* the only answer of its day, unless a restart met a row that was not written,
\* not read, or written over (core/local_time_gate.py and the snapshot job).
THEOREM AmLowOfTheStrategy == AllSpec => []AmLowIsKept
<1>1. Stored!AmLowIsKept <=> AmLowIsKept
  BY DEF AmLowIsKept
<1>2. QED
  BY <1>1, AmLowKept, StoredRuns, PTL

\* In every behaviour of the strategy a day the daily brief has blocked stays
\* blocked while the gate can read its row (nws/daily_brief.py).
THEOREM BriefOfTheStrategy == AllSpec => []BriefIsKept
<1>1. Stored!BriefIsKept <=> BriefIsKept
  BY DEF BriefIsKept
<1>2. QED
  BY <1>1, BlockIsKept, StoredRuns, PTL

\* The two instances of MorningGate begin alike, move alike, and have
\* the same types.
LEMMA MorningInit == Morning!Init <=> MorningProofs!Init
  BY DEF MorningProofs!Init, MorningProofs!NoState, MorningProofs!NewBracket,
         MorningProofs!Warmest, MorningProofs!Max, Morning!Init,
         Morning!NoState, Morning!NewBracket, Morning!Warmest, Morning!Max

LEMMA MorningNext == Morning!Next <=> MorningProofs!Next
  BY DEF MorningProofs!Next, MorningProofs!Look, MorningProofs!World,
         MorningProofs!Prices, MorningProofs!Closed, MorningProofs!RiseLists,
         MorningProofs!Asks, MorningProofs!Observed, MorningProofs!DayGoesOn,
         MorningProofs!Midnight, MorningProofs!Restart,
         MorningProofs!TimePasses, MorningProofs!Watched,
         MorningProofs!Spikes, MorningProofs!sky, MorningProofs!Today,
         MorningProofs!Latched, MorningProofs!Notes, MorningProofs!Goes,
         MorningProofs!StopsBefore, MorningProofs!ghosts,
         MorningProofs!NoState, MorningProofs!NewBracket,
         MorningProofs!Windowed, MorningProofs!Guarded, MorningProofs!Spiked,
         MorningProofs!Least, MorningProofs!LowLists, MorningProofs!Refreshed,
         MorningProofs!DippedBelow, MorningProofs!Decides,
         MorningProofs!Warmest, MorningProofs!Forgiven,
         MorningProofs!Refreshes, MorningProofs!Unreached, MorningProofs!Max,
         MorningProofs!Min, Morning!Next, Morning!Look, Morning!World,
         Morning!Prices, Morning!Closed, Morning!RiseLists, Morning!Asks,
         Morning!Observed, Morning!DayGoesOn, Morning!Midnight,
         Morning!Restart, Morning!TimePasses, Morning!Watched, Morning!Spikes,
         Morning!sky, Morning!Today, Morning!Latched, Morning!Notes,
         Morning!Goes, Morning!StopsBefore, Morning!ghosts, Morning!NoState,
         Morning!NewBracket, Morning!Windowed, Morning!Guarded,
         Morning!Spiked, Morning!Least, Morning!LowLists, Morning!Refreshed,
         Morning!DippedBelow, Morning!Decides, Morning!Warmest,
         Morning!Forgiven, Morning!Refreshes, Morning!Unreached, Morning!Max,
         Morning!Min

LEMMA MorningTypes == Morning!TypeOK <=> MorningProofs!TypeOK
  BY DEF MorningProofs!TypeOK, MorningProofs!Degrees, MorningProofs!Rises,
         MorningProofs!Knives, MorningProofs!Warmest, MorningProofs!Max,
         Morning!TypeOK, Morning!Degrees, Morning!Rises, Morning!Knives,
         Morning!Warmest, Morning!Max

\* Every behaviour of the strategy is one of MorningGate.
LEMMA MorningMoves == ASSUME [AllNext]_all PROVE [MorningProofs!Next]_(MorningProofs!vars)
  BY MorningNext DEF AllNext, all, morning,
         MorningProofs!vars, MorningProofs!sky, MorningProofs!ghosts

LEMMA MorningRuns == AllSpec => MorningProofs!Spec
<1>1. AllInit => MorningProofs!Init
  BY MorningInit DEF AllInit
<1>2. [AllNext]_all => [MorningProofs!Next]_(MorningProofs!vars)
  BY MorningMoves
<1>3. QED
  BY <1>1, <1>2, PTL DEF AllSpec, MorningProofs!Spec

LEMMA MorningConstants == MorningProofs!GateAssumption
  BY PartsAssumption DEF MorningProofs!GateAssumption, MorningProofs!IsFiniteSet,
         Morning!GateAssumption, Morning!IsFiniteSet

\* In every behaviour of the strategy a bracket gets through the morning only on
\* a day whose own observations have risen since the baseline and were not below
\* the bracket (core/sunrise_gate.py).
THEOREM MorningOfTheStrategy == AllSpec => []GateIsEarned
<1>1. MorningProofs!Spec => []MorningProofs!GateIsEarned
  BY MorningProofs!MorningIsEarned, MorningConstants
<1>2. MorningProofs!GateIsEarned <=> GateIsEarned
  BY DEF MorningProofs!GateIsEarned, MorningProofs!Risen, MorningProofs!Min,
         Morning!GateIsEarned, Morning!Risen, Morning!Min, GateIsEarned
<1>3. QED
  BY <1>1, <1>2, MorningRuns, PTL

\* In every behaviour of the strategy a spike above the ceiling keeps a bracket
\* out until it is forgotten, with the two exceptions of NoKnifeEntry.
THEOREM KnifeOfTheStrategy == AllSpec => []NoKnifeEntry
<1>1. MorningProofs!Spec => []MorningProofs!NoKnifeEntry
  BY MorningProofs!NoFallingKnife, MorningConstants
<1>2. MorningProofs!NoKnifeEntry <=> NoKnifeEntry
  BY DEF MorningProofs!NoKnifeEntry, Morning!NoKnifeEntry, NoKnifeEntry
<1>3. QED
  BY <1>1, <1>2, MorningRuns, PTL

\* The two instances of IntradayExit begin alike, move alike, and have
\* the same types.
LEMMA ExitsInit == Exits!Init <=> ExitsProofs!Init
  BY DEF ExitsProofs!Init, Exits!Init

LEMMA ExitsNext == Exits!Next <=> ExitsProofs!Next
  BY DEF ExitsProofs!Next, ExitsProofs!Loop, ExitsProofs!World,
         ExitsProofs!Passes, ExitsProofs!PassesBy, ExitsProofs!Places,
         ExitsProofs!Waits, ExitsProofs!Cancels, ExitsProofs!Panics,
         ExitsProofs!CloseoutStarts, ExitsProofs!Closeout,
         ExitsProofs!TimePasses, ExitsProofs!GraceEnds, ExitsProofs!Counts,
         ExitsProofs!Restart, ExitsProofs!Readopts, ExitsProofs!WatcherSells,
         ExitsProofs!SweepRemoves, ExitsProofs!TopsUp, ExitsProofs!Opens,
         ExitsProofs!Fill, ExitsProofs!Followed, ExitsProofs!Firing,
         ExitsProofs!Checkpointed, ExitsProofs!Older, ExitsProofs!HighWater,
         ExitsProofs!HwmFires, ExitsProofs!Fallen, ExitsProofs!Confirmed,
         ExitsProofs!InGrace, ExitsProofs!clock, ExitsProofs!Ages,
         ExitsProofs!ghosts, ExitsProofs!marks, ExitsProofs!Answered,
         ExitsProofs!Cancelled, ExitsProofs!Sells, ExitsProofs!Working,
         ExitsProofs!Due, ExitsProofs!Ripe, ExitsProofs!Looked,
         ExitsProofs!Begun, ExitsProofs!Arms, ExitsProofs!Max,
         ExitsProofs!Min, Exits!Next, Exits!Loop, Exits!World, Exits!Passes,
         Exits!PassesBy, Exits!Places, Exits!Waits, Exits!Cancels,
         Exits!Panics, Exits!CloseoutStarts, Exits!Closeout, Exits!TimePasses,
         Exits!GraceEnds, Exits!Counts, Exits!Restart, Exits!Readopts,
         Exits!WatcherSells, Exits!SweepRemoves, Exits!TopsUp, Exits!Opens,
         Exits!Fill, Exits!Followed, Exits!Firing, Exits!Checkpointed,
         Exits!Older, Exits!HighWater, Exits!HwmFires, Exits!Fallen,
         Exits!Confirmed, Exits!InGrace, Exits!clock, Exits!Ages,
         Exits!ghosts, Exits!marks, Exits!Answered, Exits!Cancelled,
         Exits!Sells, Exits!Working, Exits!Due, Exits!Ripe, Exits!Looked,
         Exits!Begun, Exits!Arms, Exits!Max, Exits!Min

LEMMA ExitsTypes == Exits!TypeOK <=> ExitsProofs!TypeOK
  BY DEF ExitsProofs!TypeOK, ExitsProofs!Confirmed, Exits!TypeOK,
         Exits!Confirmed

\* Every behaviour of the strategy is one of IntradayExit.
LEMMA ExitsMoves == ASSUME [AllNext]_all PROVE [ExitsProofs!Next]_(ExitsProofs!vars)
  BY ExitsNext DEF AllNext, all, clockExits,
         ExitsProofs!vars, ExitsProofs!clock, ExitsProofs!marks, ExitsProofs!ghosts

LEMMA ExitsRuns == AllSpec => ExitsProofs!Spec
<1>1. AllInit => ExitsProofs!Init
  BY ExitsInit DEF AllInit
<1>2. [AllNext]_all => [ExitsProofs!Next]_(ExitsProofs!vars)
  BY ExitsMoves
<1>3. QED
  BY <1>1, <1>2, PTL DEF AllSpec, ExitsProofs!Spec

LEMMA ExitsConstants == ExitsProofs!ConstantsAssumption
  BY PartsAssumption DEF ExitsProofs!ConstantsAssumption, Exits!ConstantsAssumption

\* In every behaviour of the strategy the limit exit and its fallback sell what
\* is held once, as long as nobody else trades and no limit sell is left behind.
THEOREM OneSaleByTheClock == AllSpec => []SellsOnce
<1>1. ExitsProofs!Spec => []ExitsProofs!SellsOnce
  BY ExitsProofs!SoldOnce, ExitsConstants
<1>2. ExitsProofs!SellsOnce <=> SellsOnce
  BY DEF ExitsProofs!SellsOnce, Exits!SellsOnce, SellsOnce
<1>3. QED
  BY <1>1, <1>2, ExitsRuns, PTL

\* In every behaviour of the strategy the exits by the clock let go of a position
\* only when its contracts are gone, unless somebody traded it meanwhile.
THEOREM DroppedByTheClock == AllSpec => DropsWhatIsGone
<1>1. ExitsProofs!Spec => ExitsProofs!DropsWhatIsGone
  BY ExitsProofs!DroppedIsGone, ExitsConstants
<1>2. ExitsProofs!DropsWhatIsGone <=> DropsWhatIsGone
  BY DEF ExitsProofs!DropsWhatIsGone, ExitsProofs!vars, ExitsProofs!clock,
         ExitsProofs!marks, ExitsProofs!ghosts, Exits!DropsWhatIsGone,
         Exits!vars, Exits!clock, Exits!marks, Exits!ghosts, DropsWhatIsGone
<1>3. QED
  BY <1>1, <1>2, ExitsRuns, PTL

\* In every behaviour of the strategy a position whose entry is known is sold by
\* the clock only after its own ask was down in every pass of a whole minute.
THEOREM ConfirmedByTheClock == AllSpec => ExitIsConfirmed
<1>1. ExitsProofs!Spec => ExitsProofs!ExitIsConfirmed
  BY ExitsProofs!SoldWhenConfirmed, ExitsConstants
<1>2. ExitsProofs!ExitIsConfirmed <=> ExitIsConfirmed
  BY DEF ExitsProofs!ExitIsConfirmed, ExitsProofs!Confirmed, ExitsProofs!vars,
         ExitsProofs!clock, ExitsProofs!marks, ExitsProofs!ghosts,
         Exits!ExitIsConfirmed, Exits!Confirmed, Exits!vars, Exits!clock,
         Exits!marks, Exits!ghosts, ExitIsConfirmed
<1>3. QED
  BY <1>1, <1>2, ExitsRuns, PTL

\* Every behaviour of the strategy is one of the entries.
LEMMA EntriesRuns == AllSpec => Spec
<1>1. AllInit => Init
  BY DEF AllInit
<1>2. [AllNext]_all => [Next]_vars
  BY DEF AllNext, all
<1>3. QED
  BY <1>1, <1>2, PTL DEF AllSpec, Spec

\* In every behaviour of the strategy every variable of every part has its type.
THEOREM PartsAreTyped == AllSpec => []AllTypeOK
<1>1. Stored!Spec => []Stored!TypeOK
  BY StoredTyped
<1>2. MorningProofs!Spec => []MorningProofs!TypeOK
  BY MorningProofs!TypeCorrect, MorningConstants
<1>3. ExitsProofs!Spec => []ExitsProofs!TypeOK
  BY ExitsProofs!TypeCorrect, ExitsConstants
<1>4. ASSUME part \in {"entries", "stored", "morning", "exits"},
             TypeOK, Stored!TypeOK, MorningProofs!TypeOK, ExitsProofs!TypeOK
      PROVE  AllTypeOK
  BY <1>4, MorningTypes, ExitsTypes DEF AllTypeOK
<1> DEFINE OnePart == part \in {"entries", "stored", "morning", "exits"}
<1>5. AllInit => OnePart
  BY DEF AllInit
<1>6. OnePart /\ [AllNext]_all => OnePart'
  BY DEF AllNext, all
<1>7. AllSpec => []OnePart
  BY <1>5, <1>6, PTL DEF AllSpec
<1>8. QED
  BY <1>1, <1>2, <1>3, <1>4, <1>7, TypeCorrect, EntriesRuns, StoredRuns, MorningRuns, ExitsRuns, PTL

\* In every behaviour of the strategy the entries keep their promises: the
\* position cap, the event cap, the candidates and the count of stop-losses.
THEOREM EntriesOfTheStrategy ==
    ASSUME MaxUnknown <= 2
    PROVE  AllSpec => [](PositionWithinCap /\ ExposureWithinCap /\ NoLostCandidate /\ CountFollowsStops)
<1>1. Spec => []PositionWithinCap
  BY WithinCap
<1>2. QED
  BY <1>1, EventWithinCap, CandidatesAreKept, LedgerFollows, EntriesRuns, PTL
=============================================================================
