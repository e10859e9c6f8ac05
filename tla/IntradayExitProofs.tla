-------------------------- MODULE IntradayExitProofs --------------------------
(***************************************************************************)
(* Proofs about IntradayExit, for any size of a position, any set of       *)
(* checkpoints and any number of positions in a day: a limit exit and its  *)
(* fallback sell what is held once, the loops let go of a position only    *)
(* when its contracts are gone, and a position whose entry is known is     *)
(* sold only after a minute of low reads of its own.                       *)
(*                                                                         *)
(* The invariant has three parts, each with its own story:                 *)
(*   RestIsCovered  follows the one limit sell from the quantity it is     *)
(*                  placed for to the last of it that rests;               *)
(*   MarksAreOpen   says which confirmations can be under way at all;      *)
(*   MarksAreOwn    bounds, once the grace period has been seen, every     *)
(*                  confirmation by the low reads of the position itself.  *)
(***************************************************************************)
EXTENDS IntradayExit, WellFoundedInduction, TLAPS

NetIsBounded == net <= Qty + 1

\* Until the order is placed nothing rests, and the exit knows what is held;
\* while it works, what rests is what is held; afterwards nothing rests.
\* Somebody else's trade, and an order that was left behind, excuse it.
RestIsCovered ==
    /\ exit = "place" => rest = 0 /\ (~overlap => qty = net)
    /\ exit \in {"wait", "cancel"} /\ ~overlap => rest = net
    /\ exit \in {"idle", "panic"} /\ ~stray => rest = 0
    /\ ~overlap /\ ~stray => net >= 0

MarksAreOpen ==
    /\ \A k \in Checkpoints \ past : pending[k] = 0
    /\ ~armed => hwm = 0

\* The entry of this position is known, and a pass has been over it.
Confirming == held /\ known /\ grace # "new"

MarksAreOwn ==
    Confirming =>
        /\ \A k \in Due : pending[k] <= lows
        /\ hwm <= lows
        /\ Working => lows = Confirmed

-----------------------------------------------------------------------------
(* What Min and Max of FiniteSetsExt return here. *)

LEMMA MaxWithZero ==
    ASSUME NEW n \in Int
    PROVE  Max({n, 0}) = IF n > 0 THEN n ELSE 0
<1>1. PICK m \in {n, 0} : \A y \in {n, 0} : m >= y
  OBVIOUS
<1>2. Max({n, 0}) \in {n, 0} /\ \A y \in {n, 0} : Max({n, 0}) >= y
  BY <1>1 DEF Max
<1>3. QED
  BY <1>2

LEMMA MinWithConfirmed ==
    ASSUME NEW n \in Int
    PROVE  Min({n, Confirmed}) = IF n < Confirmed THEN n ELSE Confirmed
<1>1. PICK m \in {n, Confirmed} : \A y \in {n, Confirmed} : m <= y
  BY DEF Confirmed
<1>2. /\ Min({n, Confirmed}) \in {n, Confirmed}
      /\ \A y \in {n, Confirmed} : Min({n, Confirmed}) <= y
  BY <1>1 DEF Min
<1>3. QED
  BY <1>2 DEF Confirmed

(* A set of naturals has a least element. *)
LEMMA MinOfNaturals ==
    ASSUME NEW S \in SUBSET Nat, S # {}
    PROVE  Min(S) \in S /\ \A y \in S : Min(S) <= y
<1>1. PICK x \in S : \A y \in S : ~(<<y, x>> \in OpToRel(<, Nat))
  BY NatLessThanWellFounded, WFMin, Zenon
<1>2. ASSUME NEW y \in S, y < x PROVE <<y, x>> \in OpToRel(<, Nat)
  <2>1. <<y, x>> \in Nat \X Nat /\ <<y, x>>[1] < <<y, x>>[2]
    BY <1>2
  <2>2. QED
    BY <2>1, Zenon DEF OpToRel
<1>3. \A y \in S : ~(y < x)
  BY <1>1, <1>2, Zenon
<1>4. \A y \in S : x <= y
  BY <1>3
<1>5. QED
  BY <1>4 DEF Min

-----------------------------------------------------------------------------
(* Types *)

Typed == TypeOK /\ NetIsBounded

\* The passes keep the confirmations in their range.
LEMMA OlderIsTyped ==
    ASSUME NEW p \in 0..Confirmed
    PROVE  Older(p) \in 0..Confirmed /\ Begun(p) \in 0..Confirmed
  BY DEF Older, Begun, Confirmed

\* What a stop-loss exit sells is there to be sold.
LEMMA SellsWhatIsThere ==
    ASSUME net \in Int, held \in BOOLEAN, NEW n, Sells(n)
    PROVE  /\ net' \in Int /\ net' <= net
           /\ net >= 0 => net' >= 0
           /\ net' = net \/ net' >= 0
           /\ held' => held
           /\ held /\ ~held' => net' <= 0
           /\ n = 0 => net' = net
<1>1. net' \in Int /\ net' <= net /\ (net >= 0 => net' >= 0) /\ (net' = net \/ net' >= 0)
      /\ (n = 0 => net' = net)
  BY MaxWithZero DEF Sells
<1>2. held' = held \/ held' = (held /\ net' > 0)
  BY Zenon DEF Sells
<1>3. (held' => held) /\ (held /\ ~held' => ~(net' > 0))
  BY <1>2
<1>4. QED
  BY <1>1, <1>3

\* The flags stay Boolean.
LEMMA FlagsStep ==
    ASSUME TypeOK, [Next]_vars
    PROVE  /\ held' \in BOOLEAN /\ evening' \in BOOLEAN /\ armed' \in BOOLEAN
           /\ known' \in BOOLEAN /\ overlap' \in BOOLEAN /\ stray' \in BOOLEAN
<1> USE DEF TypeOK, clock, marks, ghosts, Working
<1>1. CASE World
  <2>1. evening' \in BOOLEAN /\ armed' \in BOOLEAN /\ stray' \in BOOLEAN
    BY <1>1 DEF World, TimePasses, GraceEnds, Counts, Restart, Readopts, WatcherSells, SweepRemoves,
       TopsUp, Opens, Fill
  <2>2. held' = held \/ held' = TRUE \/ held' = FALSE \/ held' = (net > 0)
    BY <1>1, Zenon DEF World, TimePasses, GraceEnds, Counts, Restart, Readopts, WatcherSells,
       SweepRemoves, TopsUp, Opens, Fill
  <2>3. known' \in BOOLEAN /\ overlap' \in BOOLEAN
    BY <1>1 DEF World, TimePasses, GraceEnds, Counts, Restart, Readopts, WatcherSells, SweepRemoves,
       TopsUp, Opens, Fill
  <2>4. (net > 0) \in BOOLEAN
    OBVIOUS
  <2>5. held' \in BOOLEAN
    BY <2>2, <2>4, Zenon
  <2>6. QED
    BY <2>1, <2>3, <2>5
<1>2. CASE Loop
  <2>1. evening' \in BOOLEAN /\ known' \in BOOLEAN /\ stray' \in BOOLEAN
    BY <1>2 DEF Loop, Passes, PassesBy, Ages, Places, Waits, Cancels, Cancelled, Panics,
       CloseoutStarts, Closeout
  <2>2. overlap' \in BOOLEAN
    BY <1>2 DEF Loop, Passes, PassesBy, Ages, Places, Waits, Cancels, Cancelled, Panics,
       CloseoutStarts, Closeout
  <2>3. armed' \in BOOLEAN
    BY <1>2 DEF Loop, Passes, HighWater, Arms, HwmFires, PassesBy, Ages, Places, Waits, Cancels,
       Panics, CloseoutStarts, Closeout
  <2>4. held' \in BOOLEAN
    BY <1>2 DEF Loop, Passes, PassesBy, Places, Waits, Cancels, Panics, Sells,
       CloseoutStarts, Closeout
  <2>5. QED
    BY <2>1, <2>2, <2>3, <2>4
<1>3. CASE UNCHANGED vars
  BY <1>3 DEF vars
<1>4. QED
  BY <1>1, <1>2, <1>3 DEF Next

LEMMA TypeInit ==
    ASSUME ConstantsAssumption, Init PROVE Typed
<1>1. TypeOK
  <2>1. {held, evening, armed, known, overlap, stray} \subseteq BOOLEAN
    BY DEF Init
  <2>2. {net, rest, qty, lows, positions, hwm} \subseteq {0} /\ past = {} /\ evaluated = {}
        /\ pending \in [Checkpoints -> 0..Confirmed]
        /\ grace = "over" /\ closeout = "first" /\ exit = "idle"
    BY DEF Init, Confirmed
  <2>3. QED
    BY <2>1, <2>2 DEF ConstantsAssumption, TypeOK, Confirmed
<1>2. NetIsBounded
  BY DEF ConstantsAssumption, Init, NetIsBounded
<1>3. QED
  BY <1>1, <1>2 DEF Typed

LEMMA TypeStep ==
    ASSUME ConstantsAssumption, Typed, [Next]_vars PROVE Typed'
<1>0. /\ held' \in BOOLEAN /\ evening' \in BOOLEAN /\ armed' \in BOOLEAN
      /\ known' \in BOOLEAN /\ overlap' \in BOOLEAN /\ stray' \in BOOLEAN
  BY FlagsStep DEF Typed
<1> USE <1>0 DEF ConstantsAssumption, Typed, TypeOK, NetIsBounded, Confirmed, clock, marks, ghosts
<1>1. CASE TimePasses
  <2>1. CASE past # Checkpoints /\ past' = past \cup {Min(Checkpoints \ past)}
    BY <1>1, <2>1, MinOfNaturals DEF TimePasses
  <2>2. CASE past' = past
    BY <1>1, <2>2 DEF TimePasses
  <2>3. QED
    BY <1>1, <2>1, <2>2 DEF TimePasses
<1>2. CASE GraceEnds
  BY <1>2 DEF GraceEnds
<1>3. ASSUME NEW entered \in BOOLEAN, Opens(entered) PROVE Typed'
  BY <1>3 DEF Opens, Working
<1>4. CASE Readopts
  BY <1>4 DEF Readopts
<1>5. CASE TopsUp
  BY <1>5 DEF TopsUp, Working
<1>6. CASE Counts
  BY <1>6 DEF Counts
<1>7. CASE WatcherSells
  BY <1>7 DEF WatcherSells, Working
<1>8. CASE SweepRemoves
  BY <1>8 DEF SweepRemoves
<1>9. ASSUME NEW n \in 1..(Qty + 1), Fill(n) PROVE Typed'
  BY <1>9 DEF Fill
<1>10. ASSUME NEW ask, NEW wide, Passes(ask, wide) PROVE Typed'
  <2>1. evaluated' \subseteq Checkpoints
    BY <1>10 DEF Passes, Checkpointed, Looked, Due
  <2>2. pending' \in [Checkpoints -> 0..Confirmed]
    BY <1>10, OlderIsTyped DEF Passes, Checkpointed
  <2>4. hwm' \in 0..Confirmed
    BY <1>10, OlderIsTyped DEF Passes, HighWater
  <2>5. lows' \in 0..Confirmed
    BY <1>10, MinWithConfirmed DEF Passes
  <2>6. exit' \in {"place", "idle"} /\ overlap' \in BOOLEAN /\ grace' \in {"new", "seen", "over"}
    BY <1>10 DEF Passes
  <2>7. UNCHANGED <<net, rest, held, qty, clock, closeout, known, positions, stray>>
    BY <1>10 DEF Passes
  <2>8. QED
    BY <2>1, <2>2, <2>4, <2>5, <2>6, <2>7
<1>11. CASE PassesBy
  BY <1>11, OlderIsTyped DEF PassesBy, Ages
<1>12. ASSUME NEW answer, Places(answer) PROVE Typed'
  BY <1>12 DEF Places
<1>13. ASSUME NEW ok \in BOOLEAN, Waits(ok) PROVE Typed'
  BY <1>13, OlderIsTyped DEF Waits, Ages
<1>14. ASSUME NEW ok \in BOOLEAN, Cancels(ok) PROVE Typed'
  BY <1>14 DEF Cancels, Cancelled
<1>15. ASSUME NEW n, Panics(n) PROVE Typed'
  <2>1. net' \in Int /\ net' <= net
    BY <1>15, SellsWhatIsThere DEF Panics
  <2>2. QED
    BY <1>15, <2>1 DEF Panics
<1>16. CASE CloseoutStarts
  BY <1>16 DEF CloseoutStarts
<1>17. ASSUME NEW eligible \in BOOLEAN, NEW n, Closeout(eligible, n) PROVE Typed'
  <2>1. net' = net \/ Sells(n)
    BY <1>17 DEF Closeout
  <2>2. net' \in Int /\ net' <= net
    BY <2>1, SellsWhatIsThere
  <2>3. QED
    BY <1>17, <2>2 DEF Closeout
<1>18. CASE Restart
  BY <1>18, MaxWithZero DEF Restart
<1>19. CASE UNCHANGED vars
  BY <1>19 DEF vars
<1>20. QED
  BY <1>1, <1>2, <1>3, <1>4, <1>5, <1>6, <1>7, <1>8, <1>9, <1>10, <1>11, <1>12, <1>13, <1>14,
     <1>15, <1>16, <1>17, <1>18, <1>19 DEF Next, Loop, World

(* Every variable keeps its type: in particular the exchange never holds   *)
(* more than a position and what one chaser adds to it.                    *)
THEOREM TypeCorrect ==
    ASSUME ConstantsAssumption
    PROVE  Spec => []TypeOK
<1>1. Typed => TypeOK
  BY DEF Typed
<1>2. Typed /\ [Next]_vars => Typed'
  BY TypeStep
<1>3. Init => Typed
  BY TypeInit
<1>4. QED
  BY <1>1, <1>2, <1>3, PTL DEF Spec

-----------------------------------------------------------------------------
(* What rests is what is held.  A new limit exit starts the account anew,  *)
(* from a book without orders and a position that is not oversold.         *)
LEMMA CoverInit == ASSUME ConstantsAssumption, Init PROVE RestIsCovered
  BY DEF ConstantsAssumption, Init, RestIsCovered

LEMMA CoverStep ==
    ASSUME ConstantsAssumption, Typed, RestIsCovered, [Next]_vars PROVE RestIsCovered'
<1>0. /\ net \in Int /\ rest \in Nat /\ qty \in Nat /\ held \in BOOLEAN
      /\ overlap \in BOOLEAN /\ stray \in BOOLEAN
      /\ exit \in {"idle", "place", "wait", "cancel", "panic"}
      /\ overlap' \in BOOLEAN /\ stray' \in BOOLEAN
  BY FlagsStep DEF ConstantsAssumption, Typed, TypeOK
<1> USE <1>0 DEF RestIsCovered, Working, clock, marks, ghosts
<1>1. CASE TimePasses
  BY <1>1 DEF TimePasses
<1>2. CASE GraceEnds
  BY <1>2 DEF GraceEnds
<1>3. ASSUME NEW entered \in BOOLEAN, Opens(entered) PROVE RestIsCovered'
  <2>1. overlap \/ Working => overlap'
    BY <1>3 DEF Opens
  <2>2. net = 0 /\ net' = Qty /\ qty' = Qty /\ UNCHANGED <<rest, exit, stray>>
    BY <1>3 DEF Opens
  <2>3. QED
    BY <2>1, <2>2 DEF ConstantsAssumption
<1>4. CASE Readopts
  BY <1>4 DEF Readopts
<1>5. CASE TopsUp
  <2>1. overlap \/ Working => overlap'
    BY <1>5 DEF TopsUp
  <2>2. net' = net + 1 /\ UNCHANGED <<qty, rest, exit, stray>>
    BY <1>5 DEF TopsUp
  <2>3. QED
    BY <2>1, <2>2
<1>6. CASE Counts
  BY <1>6 DEF Counts
<1>7. CASE WatcherSells
  <2>1. overlap \/ Working => overlap'
    BY <1>7 DEF WatcherSells
  <2>2. net' = 0 /\ UNCHANGED <<qty, rest, exit, stray>>
    BY <1>7 DEF WatcherSells
  <2>3. QED
    BY <2>1, <2>2
<1>8. CASE SweepRemoves
  BY <1>8 DEF SweepRemoves
<1>9. ASSUME NEW n \in 1..(Qty + 1), Fill(n) PROVE RestIsCovered'
  BY <1>9 DEF Fill
<1>10. ASSUME NEW ask, NEW wide, Passes(ask, wide) PROVE RestIsCovered'
  <2>1. /\ net >= 0 /\ rest = 0 /\ UNCHANGED <<net, rest, qty, stray>> /\ exit = "idle"
        /\ exit' \in {"place", "idle"} /\ overlap' = IF exit' = "place" THEN qty # net ELSE overlap
    BY <1>10 DEF Passes, Followed
  <2>2. QED
    BY <2>1
<1>11. CASE PassesBy
  BY <1>11 DEF PassesBy
<1>12. ASSUME NEW answer \in {"order", "none", "lost"}, Places(answer) PROVE RestIsCovered'
  BY <1>12 DEF Places
<1>13. ASSUME NEW ok \in BOOLEAN, Waits(ok) PROVE RestIsCovered'
  BY <1>13 DEF Waits, Answered
<1>14. ASSUME NEW ok \in BOOLEAN, Cancels(ok) PROVE RestIsCovered'
  BY <1>14 DEF Cancels, Cancelled
<1>15. ASSUME NEW n, Panics(n) PROVE RestIsCovered'
  <2>1. net' \in Int /\ (net >= 0 => net' >= 0)
    BY <1>15, SellsWhatIsThere DEF Panics
  <2>2. QED
    BY <1>15, <2>1 DEF Panics
<1>16. CASE CloseoutStarts
  BY <1>16 DEF CloseoutStarts
<1>17. ASSUME NEW eligible \in BOOLEAN, NEW n \in Nat, Closeout(eligible, n) PROVE RestIsCovered'
  <2>1. net' = net \/ Sells(n)
    BY <1>17 DEF Closeout
  <2>2. net' \in Int /\ (net >= 0 => net' >= 0)
    BY <2>1, SellsWhatIsThere
  <2>3. n = 0 => net' = net
    BY <1>17, SellsWhatIsThere DEF Closeout
  <2>4. UNCHANGED <<rest, qty, exit, stray>> /\ (overlap => overlap')
    BY <1>17 DEF Closeout
  <2>5. ASSUME Working, net' # net PROVE overlap'
    <3>1. n > 0
      BY <2>3, <2>5
    <3>2. eligible
      BY <1>17, <2>5 DEF Closeout
    <3>3. overlap' = (overlap \/ (Working /\ n > 0))
      BY <1>17, <3>2 DEF Closeout
    <3>4. QED
      BY <2>5, <3>1, <3>3
  <2>6. QED
    BY <2>2, <2>4, <2>5
<1>18. CASE Restart
  <2>1. stray \/ rest > 0 => stray'
    BY <1>18 DEF Restart
  <2>2. exit' = "idle" /\ UNCHANGED <<net, rest, overlap>>
    BY <1>18 DEF Restart
  <2>3. QED
    BY <2>1, <2>2
<1>19. CASE UNCHANGED vars
  BY <1>19 DEF vars
<1>20. CASE Loop
  <2>1. 0..(Qty + 1) \subseteq Nat
    BY DEF ConstantsAssumption
  <2>2. QED
    BY <1>20, <2>1, <1>10, <1>11, <1>12, <1>13, <1>14, <1>15, <1>16, <1>17 DEF Loop
<1>21. CASE World
  BY <1>21, <1>1, <1>2, <1>3, <1>4, <1>5, <1>6, <1>7, <1>8, <1>9, <1>18 DEF World
<1>22. QED
  BY <1>19, <1>20, <1>21 DEF Next

(* The two sells of a limit exit, and the close-out beside it, never sell  *)
(* more than is held.                                                      *)
THEOREM SoldOnce ==
    ASSUME ConstantsAssumption
    PROVE  Spec => []SellsOnce
<1>1. Typed /\ RestIsCovered => SellsOnce
  BY DEF Typed, TypeOK, RestIsCovered, SellsOnce
<1>2. Typed /\ RestIsCovered /\ [Next]_vars => (Typed /\ RestIsCovered)'
  BY TypeStep, CoverStep
<1>3. Init => Typed /\ RestIsCovered
  BY TypeInit, CoverInit
<1>4. QED
  BY <1>1, <1>2, <1>3, PTL DEF Spec

(* The loops let go of a position only when its contracts are gone: an     *)
(* order that the exchange calls filled was, without anybody else's trade, *)
(* an order for all that is held.                                          *)
THEOREM DroppedIsGone ==
    ASSUME ConstantsAssumption
    PROVE  Spec => DropsWhatIsGone
<1>1. ASSUME Typed, RestIsCovered, [Next]_vars
      PROVE  [held /\ ~held' /\ ~overlap => net' <= 0]_vars
  <2> SUFFICES ASSUME held, ~held', ~overlap, Next PROVE net' <= 0
    BY <1>1 DEF vars
  <2>0. net \in Int /\ rest \in Nat /\ held \in BOOLEAN
    BY <1>1 DEF ConstantsAssumption, Typed, TypeOK
  <2>1. CASE World
    <3>1. CASE WatcherSells \/ SweepRemoves
      BY <2>0, <3>1 DEF WatcherSells, SweepRemoves
    <3>2. CASE Restart
      <4>1. ~(net > 0)
        BY <3>2, Zenon DEF Restart
      <4>2. net' = net
        BY <3>2 DEF Restart
      <4>3. QED
        BY <2>0, <4>1, <4>2
    <3>3. CASE UNCHANGED held \/ held' = TRUE
      BY <3>3
    <3>4. QED
      BY <2>1, <3>1, <3>2, <3>3 DEF World, TimePasses, GraceEnds, Counts, Readopts, TopsUp, Opens, Fill
  <2>2. ASSUME NEW ok \in BOOLEAN, Waits(ok) PROVE net' <= 0
    <3>1. exit = "wait" /\ (ok => rest = 0) /\ held' = (held /\ ~ok) /\ net' = net
      BY <2>2 DEF Waits, Answered
    <3>2. rest = net
      BY <1>1, <3>1 DEF RestIsCovered
    <3>3. ok
      BY <3>1
    <3>4. QED
      BY <2>0, <3>1, <3>2, <3>3
  <2>3. ASSUME NEW n, Sells(n) PROVE net' <= 0
    BY <2>0, <2>3, SellsWhatIsThere
  <2>4. CASE Loop
    BY <2>2, <2>3, <2>4 DEF Loop, Passes, PassesBy, Places, Cancels, Panics, CloseoutStarts, Closeout
  <2>5. QED
    BY <2>1, <2>4 DEF Next
<1>2. Typed /\ RestIsCovered /\ [Next]_vars => (Typed /\ RestIsCovered)'
  BY TypeStep, CoverStep
<1>3. Init => Typed /\ RestIsCovered
  BY TypeInit, CoverInit
<1>4. QED
  BY <1>1, <1>2, <1>3, PTL DEF Spec, DropsWhatIsGone

-----------------------------------------------------------------------------
(* Which confirmations can be under way: none of a checkpoint whose time   *)
(* has not come, none of a high-water mark that is not armed.              *)
LEMMA OpenInit == ASSUME ConstantsAssumption, Init PROVE MarksAreOpen
  BY DEF ConstantsAssumption, Init, MarksAreOpen

LEMMA OpenStep ==
    ASSUME ConstantsAssumption, Typed, MarksAreOpen, [Next]_vars PROVE MarksAreOpen'
<1>0. /\ pending \in [Checkpoints -> 0..3] /\ hwm \in 0..3 /\ armed \in BOOLEAN /\ armed' \in BOOLEAN
      /\ pending' \in [Checkpoints -> 0..3] /\ hwm' \in 0..3 /\ past \subseteq Checkpoints
  BY TypeStep DEF Typed, TypeOK, Confirmed
<1> USE <1>0 DEF MarksAreOpen, Older, Begun, Confirmed, clock, marks, ghosts
<1>1. ASSUME UNCHANGED marks, past \subseteq past' PROVE MarksAreOpen'
  BY <1>1
<1>2. ASSUME Ages, UNCHANGED past PROVE MarksAreOpen'
  BY <1>2 DEF Ages
<1>3. CASE World
  <2>1. CASE Restart
    BY <2>1 DEF Restart
  <2>2. CASE ~Restart
    BY <1>1, <1>3, <2>2 DEF World, TimePasses, GraceEnds, Counts, Readopts, WatcherSells,
       SweepRemoves, TopsUp, Opens, Fill
  <2>3. QED
    BY <2>1, <2>2
<1>4. ASSUME NEW ask, NEW wide, Passes(ask, wide) PROVE MarksAreOpen'
  <2>1. UNCHANGED past /\ \A k \in Checkpoints \ past : pending'[k] = 0
    BY <1>4 DEF Passes, Checkpointed, Looked, Due
  <2>2. ~armed' => hwm' = 0
    <3>1. CASE HighWater(ask)
      <4>1. ASSUME ~Arms(ask) PROVE hwm' = 0
        BY <3>1, <4>1 DEF HighWater, Arms
      <4>2. ASSUME Arms(ask), HwmFires(ask) PROVE hwm' = 0
        BY <3>1, <4>2 DEF HighWater
      <4>3. armed' = (Arms(ask) /\ ~HwmFires(ask))
        BY <3>1 DEF HighWater
      <4>4. QED
        BY <4>1, <4>2, <4>3
    <3>2. CASE armed' = armed /\ hwm' = Older(hwm)
      BY <3>2
    <3>3. QED
      BY <1>4, <3>1, <3>2 DEF Passes
  <2>3. QED
    BY <2>1, <2>2
<1>5. CASE Loop
  BY <1>1, <1>2, <1>4, <1>5 DEF Loop, PassesBy, Places, Waits, Cancels, Panics, CloseoutStarts, Closeout
<1>6. CASE UNCHANGED vars
  BY <1>1, <1>6 DEF vars
<1>7. QED
  BY <1>3, <1>5, <1>6 DEF Next

-----------------------------------------------------------------------------
(* The confirmations of a position whose entry is known are its own: the   *)
(* grace period lasts for a pass at least, and that pass settles or clears *)
(* whatever it finds.                                                      *)

\* What a pass asks of, and does to, the reads and the confirmations.
LEMMA ReadsAre ==
    ASSUME Typed, NEW ask, NEW wide, Passes(ask, wide)
    PROVE  /\ held /\ held' = held /\ known' = known /\ past' = past /\ exit = "idle"
           /\ lows \in 0..3 /\ hwm \in 0..3 /\ pending \in [Checkpoints -> 0..3]
           /\ lows' = IF Fallen(ask) THEN (IF lows < 3 THEN lows + 1 ELSE 3) ELSE 0
           /\ exit' = IF Firing(ask, wide) # {} \/ HwmFires(ask) THEN "place" ELSE "idle"
           /\ grace' = IF InGrace THEN "seen" ELSE "over"
<1>1. lows' = IF Fallen(ask) THEN Min({lows + 1, Confirmed}) ELSE 0
  BY DEF Passes
<1>2. lows \in 0..3 /\ hwm \in 0..3 /\ pending \in [Checkpoints -> 0..3] /\ grace \in {"new", "seen", "over"}
  BY DEF Typed, TypeOK, Confirmed
<1>3. Min({lows + 1, Confirmed}) = IF lows < 3 THEN lows + 1 ELSE 3
  BY <1>2, MinWithConfirmed DEF Confirmed
<1>4. /\ held /\ held' = held /\ known' = known /\ past' = past /\ exit = "idle"
      /\ exit' = IF Firing(ask, wide) # {} \/ HwmFires(ask) THEN "place" ELSE "idle"
      /\ grace' = IF InGrace THEN "seen" ELSE grace
  BY DEF Passes, clock
<1>5. QED
  BY <1>1, <1>2, <1>3, <1>4 DEF InGrace

\* The limit exit that a pass starts was confirmed by reads of the position.
LEMMA PassConfirms ==
    ASSUME Typed, MarksAreOwn, known, NEW ask, NEW wide, Passes(ask, wide), exit' = "place"
    PROVE  lows' = Confirmed
<1>0. lows \in 0..3 /\ lows' = IF Fallen(ask) THEN (IF lows < 3 THEN lows + 1 ELSE 3) ELSE 0
  BY ReadsAre
<1>1. ~InGrace /\ Fallen(ask)
  BY ReadsAre DEF Firing, HwmFires, Fallen
<1>2. Confirming
  BY <1>1, ReadsAre DEF Confirming, InGrace
<1>3. CASE Firing(ask, wide) # {}
  <2>1. PICK k \in Due : Ripe(pending[k])
    BY <1>3 DEF Firing
  <2>2. k \in Checkpoints
    BY DEF Typed, TypeOK, Due
  <2>3. pending[k] <= lows /\ pending[k] \in 0..3 /\ lows \in 0..3
    BY <1>2, <2>2, ReadsAre DEF MarksAreOwn
  <2>4. lows >= 2
    BY <2>1, <2>3 DEF Ripe, Older, Confirmed
  <2>5. QED
    BY <1>0, <1>1, <2>4 DEF Confirmed
<1>4. CASE HwmFires(ask)
  <2>1. hwm <= lows /\ hwm \in 0..3 /\ lows \in 0..3 /\ Ripe(hwm)
    BY <1>2, <1>4, ReadsAre DEF MarksAreOwn, HwmFires
  <2>2. lows >= 2
    BY <2>1 DEF Ripe, Older, Confirmed
  <2>3. QED
    BY <1>0, <1>1, <2>2 DEF Confirmed
<1>5. QED
  BY <1>3, <1>4, ReadsAre

\* A read that is not low settles every due checkpoint, a wide one clears it,
\* and so does the grace period; any other ages it with the reads.
LEMMA PassOwns ==
    ASSUME Typed, MarksAreOpen, MarksAreOwn, known, NEW ask, NEW wide, Passes(ask, wide)
    PROVE  MarksAreOwn'
<1>0. lows \in 0..3 /\ hwm \in 0..3 /\ pending \in [Checkpoints -> 0..3] /\ Due \subseteq Checkpoints
      /\ lows' = IF Fallen(ask) THEN (IF lows < 3 THEN lows + 1 ELSE 3) ELSE 0
  BY ReadsAre DEF Typed, TypeOK, Due
<1>1. ~InGrace => (\A k \in Due : pending[k] <= lows) /\ hwm <= lows
  BY ReadsAre DEF InGrace, Confirming, MarksAreOwn
<1>2. \A k \in Due' : pending'[k] <= lows'
  <2> SUFFICES ASSUME NEW k \in Due' PROVE pending'[k] <= lows'
    OBVIOUS
  <2>1. Checkpointed(ask, wide, Firing(ask, wide))
    BY DEF Passes
  <2>2. k \in Due /\ k \in Checkpoints
    BY <1>0, <2>1, ReadsAre DEF Checkpointed, Due
  <2>3. Firing(ask, wide) = {} => Looked(Firing(ask, wide)) = Due
    BY DEF Looked
  <2>4. ask = "low"
    <3>1. SUFFICES ASSUME ask # "low" PROVE FALSE
      OBVIOUS
    <3>2. Firing(ask, wide) = {}
      BY <3>1 DEF Firing
    <3>3. k \in evaluated'
      BY <2>1, <2>2, <2>3, <3>1, <3>2 DEF Checkpointed
    <3>4. QED
      BY <3>3 DEF Due
  <2>5. CASE wide
    <3>1. Firing(ask, wide) = {}
      BY <2>5 DEF Firing
    <3>2. pending'[k] = 0
      BY <2>1, <2>2, <2>3, <2>5, <3>1 DEF Checkpointed
    <3>3. QED
      BY <1>0, <3>2
  <2>6. ~wide => ~InGrace
    <3>1. SUFFICES ASSUME ~wide, InGrace PROVE FALSE
      OBVIOUS
    <3>2. Firing(ask, wide) = {}
      BY <3>1 DEF Firing
    <3>3. k \in evaluated'
      BY <2>1, <2>2, <2>3, <2>4, <3>1, <3>2 DEF Checkpointed
    <3>4. QED
      BY <3>3 DEF Due
  <2>7. CASE ~wide
    <3>1. pending[k] <= lows /\ pending[k] \in 0..3
      BY <1>0, <1>1, <2>2, <2>6, <2>7
    <3>2. pending'[k] \in {0, Begun(pending[k]), Older(pending[k])}
      BY <2>1, <2>2 DEF Checkpointed
    <3>3. pending'[k] \in 0..3 /\ pending'[k] <= lows + 1
      BY <1>0, <3>1, <3>2 DEF Begun, Older, Confirmed
    <3>4. QED
      BY <1>0, <2>4, <3>3 DEF Fallen
  <2>8. QED
    BY <2>5, <2>7
<1>3. hwm' <= lows'
  <2>1. (hwm' = Older(hwm) /\ ask = "low" /\ ~InGrace) \/ HighWater(ask)
    BY DEF Passes, Firing
  <2>2. CASE hwm' = Older(hwm) /\ Fallen(ask) /\ ~InGrace
    BY <1>0, <1>1, <2>2 DEF Older, Confirmed
  <2>3. CASE hwm' = Begun(hwm) /\ Fallen(ask) /\ ~InGrace
    BY <1>0, <1>1, <2>3 DEF Begun, Older, Confirmed
  <2>4. CASE hwm' = 0
    BY <1>0, <2>4
  <2>5. ASSUME HighWater(ask), ~Arms(ask) PROVE hwm' = 0
    BY <2>5 DEF HighWater, Arms, MarksAreOpen, Older
  <2>6. QED
    BY <2>1, <2>2, <2>3, <2>4, <2>5 DEF HighWater, Fallen
<1>4. Working' => lows' = Confirmed
  BY PassConfirms, ReadsAre DEF Working
<1>5. QED
  BY <1>2, <1>3, <1>4 DEF MarksAreOwn

LEMMA OwnInit == ASSUME Init PROVE MarksAreOwn
  BY DEF Init, MarksAreOwn, Confirming

LEMMA OwnStep ==
    ASSUME ConstantsAssumption, Typed, MarksAreOpen, MarksAreOwn, [Next]_vars PROVE MarksAreOwn'
<1>0. /\ held \in BOOLEAN /\ net \in Int /\ grace \in {"new", "seen", "over"}
      /\ lows \in 0..3 /\ hwm \in 0..3 /\ pending \in [Checkpoints -> 0..3]
      /\ hwm' \in 0..3 /\ pending' \in [Checkpoints -> 0..3] /\ past \subseteq Checkpoints /\ Due' \subseteq Checkpoints
  BY TypeStep DEF Typed, TypeOK, Confirmed, Due
<1>1. ASSUME ~held' \/ ~known' PROVE MarksAreOwn'
  BY <1>1 DEF MarksAreOwn, Confirming
<1>2. ASSUME UNCHANGED <<pending, hwm, evaluated, lows, known>>, held' => held,
             grace' # "new" => grace # "new", Working' => Working, past \subseteq past'
      PROVE  MarksAreOwn'
  <2>1. SUFFICES ASSUME Confirming'
                 PROVE  (\A k \in Due' : pending'[k] <= lows') /\ hwm' <= lows' /\ (Working' => lows' = Confirmed)
    BY DEF MarksAreOwn
  <2>2. Confirming
    BY <1>2, <2>1 DEF Confirming
  <2>3. \A k \in Due' : pending[k] <= lows
    <3>1. \A k \in Due' : k \in Due \/ k \in Checkpoints \ past
      BY <1>0, <1>2 DEF Due
    <3>2. QED
      BY <1>0, <2>2, <3>1 DEF MarksAreOwn, MarksAreOpen
  <2>4. QED
    BY <1>2, <2>2, <2>3 DEF MarksAreOwn
<1> USE DEF clock, marks, ghosts
<1>3. CASE World
  <2>1. CASE Restart \/ Readopts \/ WatcherSells \/ SweepRemoves
    BY <1>1, <2>1 DEF Restart, Readopts, WatcherSells, SweepRemoves
  <2>2. ASSUME NEW entered \in BOOLEAN, Opens(entered) PROVE MarksAreOwn'
    <3>1. known' = entered /\ grace' = IF entered THEN "new" ELSE "over"
      BY <2>2 DEF Opens
    <3>2. QED
      BY <3>1 DEF MarksAreOwn, Confirming
  <2>3. CASE TimePasses \/ GraceEnds \/ Counts \/ TopsUp \/ \E n \in 1..(Qty + 1) : Fill(n)
    <3>1. /\ UNCHANGED <<pending, hwm, evaluated, lows, known, held, exit>> /\ past \subseteq past'
          /\ grace' # "new" => grace # "new"
      BY <2>3 DEF TimePasses, GraceEnds, Counts, TopsUp, Fill
    <3>2. QED
      BY <1>2, <3>1 DEF Working
  <2>4. QED
    BY <1>3, <2>1, <2>2, <2>3 DEF World
<1>4. CASE Loop
  <2>1. ASSUME NEW ask, NEW wide, Passes(ask, wide) PROVE MarksAreOwn'
    <3>1. known' = known
      BY <2>1, ReadsAre
    <3>2. QED
      BY <1>1, <2>1, <3>1, PassOwns
  <2>2. CASE PassesBy
    BY <1>1, <2>2 DEF PassesBy
  <2>3. ASSUME NEW ok \in BOOLEAN, Waits(ok) PROVE MarksAreOwn'
    <3>1. SUFFICES ASSUME Confirming' PROVE lows' = 3
      BY <1>0 DEF MarksAreOwn, Confirmed
    <3>2. Confirming /\ Working /\ lows' = lows
      BY <2>3, <3>1 DEF Waits, Confirming, Working
    <3>3. QED
      BY <3>2 DEF MarksAreOwn, Confirmed
  <2>4. CASE \/ \E answer \in {"order", "none", "lost"} : Places(answer)
             \/ \E ok \in BOOLEAN : Cancels(ok)
             \/ CloseoutStarts
    <3>1. UNCHANGED <<pending, hwm, evaluated, lows, known, held, grace, past>> /\ (Working' => Working)
      BY <2>4 DEF Places, Cancels, CloseoutStarts, Working
    <3>2. QED
      BY <1>2, <3>1
  <2>5. ASSUME NEW n, Panics(n) \/ \E eligible \in BOOLEAN : Closeout(eligible, n) PROVE MarksAreOwn'
    <3>1. UNCHANGED <<pending, hwm, evaluated, lows, known, grace, past>> /\ (Working' => Working)
      BY <2>5 DEF Panics, Closeout, Working
    <3>2. held' = held \/ Sells(n)
      BY <2>5 DEF Panics, Closeout
    <3>3. held' => held
      BY <1>0, <3>2, SellsWhatIsThere
    <3>4. QED
      BY <1>2, <3>1, <3>3
  <2>6. QED
    BY <1>4, <2>1, <2>2, <2>3, <2>4, <2>5 DEF Loop
<1>5. CASE UNCHANGED vars
  BY <1>2, <1>5 DEF vars, Working
<1>6. QED
  BY <1>3, <1>4, <1>5 DEF Next

(* A position whose entry is known is sold by a checkpoint or by the       *)
(* high-water mark only after its own ask was down in every pass of a      *)
(* whole minute.                                                           *)
THEOREM SoldWhenConfirmed ==
    ASSUME ConstantsAssumption
    PROVE  Spec => ExitIsConfirmed
<1> DEFINE Inv == Typed /\ MarksAreOpen /\ MarksAreOwn
<1>1. ASSUME Inv, [Next]_vars
      PROVE  [exit = "idle" /\ exit' = "place" /\ known => lows' = Confirmed]_vars
  <2> SUFFICES ASSUME exit = "idle", exit' = "place", known, Next PROVE lows' = Confirmed
    BY <1>1 DEF vars
  <2>1. \E ask, wide : Passes(ask, wide)
    BY DEF Next, Loop, World, TimePasses, GraceEnds, Counts, Restart, Readopts, WatcherSells,
       SweepRemoves, TopsUp, Opens, Fill, PassesBy, Places, Waits, Cancels, Panics, CloseoutStarts, Closeout
  <2>2. QED
    BY <1>1, <2>1, PassConfirms
<1>2. Inv /\ [Next]_vars => Inv'
  BY TypeStep, OpenStep, OwnStep
<1>3. Init => Inv
  BY TypeInit, OpenInit, OwnInit
<1>4. QED
  BY <1>1, <1>2, <1>3, PTL DEF Spec, ExitIsConfirmed
=============================================================================
