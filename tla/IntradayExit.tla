----------------------------- MODULE IntradayExit -----------------------------
(***************************************************************************)
(* The scheduled exits of a KXLOW position in core/state_machine.py: the   *)
(* intraday checkpoints, the exit on a fall from the high-water mark, and  *)
(* the close-out in the evening.  The first two try a resting limit sell   *)
(* for half a minute before they fall back to the stop-loss exit; the      *)
(* close-out uses the stop-loss exit at once.                              *)
(*                                                                         *)
(* The two loops, the stop-loss watcher and the sweep run side by side, so *)
(* the position may be sold, bought again or adopted at every await, and   *)
(* the marks the loops keep are kept by ticker, not by position.           *)
(*                                                                         *)
(* Grain.  One pass of the loop over the ticker is one action up to the    *)
(* exit it starts; the exit goes from one await to the next; the stop-loss *)
(* exit, modelled in StopLossExit, is one action here.                     *)
(*                                                                         *)
(* Scope.  One ticker on its one day, the quote from the cache (it may be  *)
(* missing), both features on, no excluded series.  A pass is half a       *)
(* minute, the confirmation two of them.                                   *)
(***************************************************************************)
EXTENDS Integers, FiniteSets, FiniteSetsExt

CONSTANTS
    Qty,          \* contracts of a position
    Checkpoints,  \* INTRADAY_EXIT_SCHEDULE: 1..n, in the order of their times
    LateStart,    \* LOW_TICKER_CLOSEOUT_ON_LATE_START
    MaxPositions  \* bound on positions of the day

\* Assumed by the modules that instantiate this one.
ConstantsAssumption ==
    /\ {Qty, MaxPositions} \subseteq Nat \ {0}
    /\ Checkpoints \subseteq Nat
    /\ LateStart \in BOOLEAN

VARIABLES
    net,       \* contracts held on the exchange
    rest,      \* what still rests of the limit sell
    held,      \* the ticker is in active_positions
    qty,       \* the quantity of its bracket
    grace,     \* its entry is known and less than the grace period ago: "new", or "seen" by a pass
    past,      \* checkpoints whose local time has come
    evening,   \* it is past the close-out time
    evaluated, \* _intraday_checkpoint_eval_dates holds today
    pending,   \* _intraday_checkpoint_pending: passes since, 0 for none
    armed,     \* _hwm_armed
    hwm,       \* _hwm_pending: passes since, 0 for none
    closeout,  \* the close-out loop: "first", "later", and evaluated "today"
    exit,      \* the limit exit under way and whether it panics
    \* ghosts
    lows,      \* reads in a row that were down, of this position
    known,     \* this position was entered, not adopted
    positions, \* positions so far
    overlap,   \* during the last limit exit somebody else traded the ticker,
               \* or the bracket did not know what is held
    stray      \* a limit sell was left behind: it was placed without an answer, its
               \* cancel failed, or the bot stopped

clock == <<past, evening>>
marks == <<evaluated, pending, armed, hwm>>
ghosts == <<lows, known, positions, overlap, stray>>
vars == <<net, rest, held, qty, grace, clock, marks, closeout, exit, ghosts>>

Confirmed == 3    \* 1: just read; 3: a minute ago

TypeOK ==
    /\ net \in Int /\ rest \in 0..(Qty + 1)
    /\ held \in BOOLEAN /\ qty \in 0..(Qty + 1)
    /\ grace \in {"new", "seen", "over"}
    /\ past \subseteq Checkpoints /\ evening \in BOOLEAN
    /\ evaluated \subseteq Checkpoints
    /\ pending \in [Checkpoints -> 0..Confirmed]
    /\ armed \in BOOLEAN /\ hwm \in 0..Confirmed
    /\ closeout \in {"first", "later", "today"}
    /\ exit \in {"idle", "place", "wait", "cancel", "panic"}
    /\ lows \in 0..Confirmed /\ known \in BOOLEAN /\ positions \in 0..MaxPositions
    /\ overlap \in BOOLEAN /\ stray \in BOOLEAN

Init ==
    /\ net = 0 /\ rest = 0 /\ held = FALSE /\ qty = 0 /\ grace = "over"
    /\ past = {} /\ evening = FALSE
    /\ evaluated = {} /\ pending = [k \in Checkpoints |-> 0]
    /\ armed = FALSE /\ hwm = 0
    /\ closeout = "first" /\ exit = "idle"
    /\ lows = 0 /\ known = FALSE /\ positions = 0
    /\ overlap = FALSE /\ stray = FALSE

Working == exit \in {"place", "wait", "cancel"}    \* a limit exit is under way

-----------------------------------------------------------------------------
(* The day, and the position *)

\* In the order of the default times: checkpoints from 12:00 to 18:00 local
\* time, the close-out at 22:00 Eastern time.
TimePasses ==
    /\ \/ /\ past # Checkpoints
          /\ past' = past \cup {Min(Checkpoints \ past)} /\ UNCHANGED evening
       \/ /\ past = Checkpoints /\ ~evening
          /\ evening' = TRUE /\ UNCHANGED past
    /\ UNCHANGED <<net, rest, held, qty, grace, marks, closeout, exit, ghosts>>

\* The grace period lasts for many passes of the loop.
GraceEnds ==
    /\ grace = "seen" /\ grace' = "over"
    /\ UNCHANGED <<net, rest, held, qty, clock, marks, closeout, exit, ghosts>>

\* A position is entered, or found on the exchange and adopted: then the time
\* of its entry is not known, and it counts as an old one.
Opens(entered) ==
    /\ ~held /\ net = 0 /\ positions < MaxPositions
    /\ positions' = positions + 1
    /\ net' = Qty /\ held' = TRUE /\ qty' = Qty
    /\ grace' = (IF entered THEN "new" ELSE "over") /\ known' = entered
    /\ lows' = 0
    /\ overlap' = (overlap \/ Working)
    /\ UNCHANGED <<rest, clock, marks, closeout, exit, stray>>

\* What is still there of a position that was dropped is adopted again.
Readopts ==
    /\ ~held /\ net > 0
    /\ held' = TRUE /\ qty' = net /\ grace' = "over" /\ known' = FALSE /\ lows' = 0
    /\ UNCHANGED <<net, rest, clock, marks, closeout, exit, positions, overlap, stray>>

\* A partial-fill chaser goes on buying; the limit exit does not stop it.
TopsUp ==
    /\ held /\ net = Qty
    /\ net' = net + 1
    /\ overlap' = (overlap \/ Working)
    /\ UNCHANGED <<rest, held, qty, grace, clock, marks, closeout, exit, lows, known, positions, stray>>

\* The chaser, or the sweep, tells the bracket.
Counts ==
    /\ held /\ net > 0 /\ qty # net
    /\ qty' = net
    /\ UNCHANGED <<net, rest, held, grace, clock, marks, closeout, exit, ghosts>>

\* The watcher's exit sells what is there and closes the position.
WatcherSells ==
    /\ held /\ net > 0
    /\ net' = 0 /\ held' = FALSE
    /\ overlap' = (overlap \/ Working)
    /\ UNCHANGED <<rest, qty, grace, clock, marks, closeout, exit, lows, known, positions, stray>>

SweepRemoves ==
    /\ held /\ net <= 0
    /\ held' = FALSE
    /\ UNCHANGED <<net, rest, qty, grace, clock, marks, closeout, exit, ghosts>>

\* The limit sell is not reduce-only.
Fill(n) ==
    /\ n \in 1..rest
    /\ rest' = rest - n /\ net' = net - n
    /\ UNCHANGED <<held, qty, grace, clock, marks, closeout, exit, ghosts>>

-----------------------------------------------------------------------------
(* _run_intraday_exits.  An ask is "none", "low" (below the thresholds of   *)
(* the checkpoints), "fall" (only at or below the high-water exit), "mid",  *)
(* or "high" (it arms the high-water mark).                                 *)

Fallen(ask) == ask \in {"low", "fall"}
InGrace == grace # "over"

Due == past \ evaluated

\* Half a minute passes; a confirmation that has begun gets older.
Older(p) == IF p \in 1..(Confirmed - 1) THEN p + 1 ELSE p
Begun(p) == IF p = 0 THEN 1 ELSE Older(p)

\* A slip: one read below the threshold is enough.
RipeAtOnce(p) == TRUE
Ripe(p) == Older(p) = Confirmed

\* Checkpoints whose confirmation is complete; the first of them exits, and
\* those after it are not looked at in this pass.
Firing(ask, wide) == {k \in Due : ask = "low" /\ ~wide /\ ~InGrace /\ Ripe(pending[k])}
Looked(firing) == {k \in Due : \A j \in firing : k <= j}

\* A read that is not below the threshold, or no ask at all, settles the
\* checkpoint for the day, and so does the grace period; a wide spread starts
\* the confirmation again.
Checkpointed(ask, wide, firing) ==
    LET looked == Looked(firing)
        fires == looked \cap firing
        settled == IF ask # "low" THEN looked ELSE IF wide THEN {} ELSE IF InGrace THEN looked ELSE fires
        cleared == IF ask # "low" \/ wide THEN looked ELSE fires IN
    /\ evaluated' = evaluated \cup settled
    /\ pending' = [k \in Checkpoints |->
                      IF k \in cleared THEN 0
                      ELSE IF k \in looked /\ ~InGrace THEN Begun(pending[k]) ELSE Older(pending[k])]

\* The high-water mark, looked at when no checkpoint exits.  It is armed from
\* noon on, the time of the first checkpoint.
Arms(ask) == armed \/ (past # {} /\ ask = "high")
HwmFires(ask) == armed /\ Fallen(ask) /\ ~InGrace /\ hwm # 0 /\ Ripe(hwm)
HighWater(ask) ==
    /\ armed' = (Arms(ask) /\ ~HwmFires(ask))
    /\ hwm' = IF ~Arms(ask) THEN Older(hwm)
              ELSE IF ~Fallen(ask) \/ InGrace \/ HwmFires(ask) THEN 0
              ELSE Begun(hwm)

\* Bound: what follows an oversell, or a limit sell left on the book, is not
\* looked at.
Followed == net >= 0 /\ rest = 0

Passes(ask, wide) ==
    /\ held /\ exit = "idle" /\ Followed
    /\ LET firing == Firing(ask, wide) IN
       /\ Checkpointed(ask, wide, firing)
       /\ IF firing # {} THEN hwm' = Older(hwm) /\ UNCHANGED armed ELSE HighWater(ask)
       /\ exit' = IF firing # {} \/ HwmFires(ask) THEN "place" ELSE "idle"
    /\ lows' = IF Fallen(ask) THEN Min({lows + 1, Confirmed}) ELSE 0
    /\ grace' = IF InGrace THEN "seen" ELSE grace
    /\ overlap' = IF exit' = "place" THEN qty # net ELSE overlap
    /\ UNCHANGED <<net, rest, held, qty, clock, closeout, known, positions, stray>>

\* Without a position only the time passes.
Ages ==
    /\ pending' = [k \in Checkpoints |-> Older(pending[k])]
    /\ hwm' = Older(hwm)
    /\ UNCHANGED <<evaluated, armed>>

PassesBy ==
    /\ ~held /\ exit = "idle"
    /\ Ages
    /\ UNCHANGED <<net, rest, held, qty, grace, clock, closeout, exit, ghosts>>

-----------------------------------------------------------------------------
(* _intraday_execute_exit *)

\* A limit sell at the bid, for what the position held when the exit began.
\* Without a bid, or without an answer that names the order, the exit panics
\* at once; the order may rest all the same.
Places(answer) ==
    /\ exit = "place"
    /\ rest' = IF answer = "none" THEN rest ELSE qty
    /\ exit' = IF answer = "order" THEN "wait" ELSE "panic"
    /\ stray' = (stray \/ answer = "lost")
    /\ UNCHANGED <<net, held, qty, grace, clock, marks, closeout, lows, known, positions, overlap>>

\* A slip: a partial fill counts as filled.
AnsweredPartly(recognised) == recognised => rest < qty
\* A filled order may also be reported in a word the exit does not know.
Answered(recognised) == recognised => rest = 0

\* Half a minute later the order counts as filled if the exchange calls it
\* that; then the position is recorded and dropped, whatever it is by now.
Waits(recognised) ==
    /\ exit = "wait" /\ Answered(recognised)
    /\ exit' = IF recognised THEN "idle" ELSE "cancel"
    /\ held' = (held /\ ~recognised)
    /\ Ages
    /\ UNCHANGED <<net, rest, qty, grace, clock, closeout, ghosts>>

\* A slip: the order is left on the book.
CancelsNothing(ok) == ok /\ UNCHANGED <<rest, stray>>

\* The answer to the cancel is not looked at.
Cancelled(ok) ==
    /\ rest' = IF ok THEN 0 ELSE rest
    /\ stray' = (stray \/ ~ok)

Cancels(ok) ==
    /\ exit = "cancel"
    /\ Cancelled(ok)
    /\ exit' = "panic"
    /\ UNCHANGED <<net, held, qty, grace, clock, marks, closeout, lows, known, positions, overlap>>

\* _execute_stop_loss: reduce-only, so that no more is sold than there is; a
\* position that is gone is dropped, if the exchange can be asked.
Sells(n) ==
    /\ n \in 0..Max({net, 0})
    /\ net' = net - n
    /\ held' \in {held, held /\ net' > 0}

Panics(n) ==
    /\ exit = "panic"
    /\ Sells(n)
    /\ exit' = "idle"
    /\ UNCHANGED <<rest, qty, grace, clock, marks, closeout, ghosts>>

-----------------------------------------------------------------------------
(* _low_ticker_closeout_loop.  The ticker is marked before the exit is      *)
(* tried: an exit that sells nothing is not tried again.                    *)

CloseoutStarts ==
    /\ closeout = "first"
    /\ closeout' = IF ~LateStart /\ evening /\ held THEN "today" ELSE "later"
    /\ UNCHANGED <<net, rest, held, qty, grace, clock, marks, exit, ghosts>>

Closeout(eligible, n) ==
    /\ closeout = "later" /\ evening /\ held
    /\ closeout' = "today"
    /\ IF eligible
       THEN Sells(n) /\ overlap' = (overlap \/ (Working /\ n > 0))
       ELSE n = 0 /\ UNCHANGED <<net, held, overlap>>
    /\ UNCHANGED <<rest, qty, grace, clock, marks, exit, lows, known, positions, stray>>

-----------------------------------------------------------------------------
\* The marks and the exits are in memory only.  A position that is restored is
\* one of unknown age; an order that rests stays behind.
Restart ==
    /\ positions > 0
    /\ held' = (net > 0) /\ qty' = Max({net, 0})
    /\ grace' = "over" /\ known' = FALSE /\ lows' = 0
    /\ evaluated' = {} /\ pending' = [k \in Checkpoints |-> 0]
    /\ armed' = FALSE /\ hwm' = 0
    /\ closeout' = "first" /\ exit' = "idle"
    /\ stray' = (stray \/ rest > 0)
    /\ UNCHANGED <<net, rest, clock, positions, overlap>>

-----------------------------------------------------------------------------
Loop ==
    \/ \E ask \in {"none", "low", "fall", "mid", "high"} : Passes(ask, FALSE)
    \/ Passes("low", TRUE)
    \/ PassesBy
    \/ \E answer \in {"order", "none", "lost"} : Places(answer)
    \/ \E ok \in BOOLEAN : Waits(ok) \/ Cancels(ok)
    \/ \E n \in 0..(Qty + 1) : Panics(n)
    \/ CloseoutStarts
    \/ \E eligible \in BOOLEAN, n \in 0..(Qty + 1) : Closeout(eligible, n)

World ==
    \/ TimePasses \/ GraceEnds \/ Counts \/ Restart \/ Readopts \/ WatcherSells \/ SweepRemoves \/ TopsUp
    \/ \E entered \in BOOLEAN : Opens(entered)
    \/ \E n \in 1..(Qty + 1) : Fill(n)

Next == Loop \/ World

Spec == Init /\ [][Next]_vars

-----------------------------------------------------------------------------
(* Properties *)

\* A position whose entry the bot knows is sold by a checkpoint or by the
\* high-water mark only after its own ask was down in every pass of a whole
\* minute, whatever confirmations an earlier position of the ticker has left
\* behind.  (For an adopted position the grace period, which clears them, does
\* not apply: it may be sold on its first low read.)
ExitIsConfirmed ==
    [][exit = "idle" /\ exit' = "place" /\ known => lows' = Confirmed]_vars

\* The limit sell and the stop-loss exit it falls back to never sell more than
\* is held, as long as the cancel between them succeeds and nobody else trades
\* the ticker during the limit exit.
SellsOnce == net < 0 => overlap \/ stray

\* The loops drop a position from management only when its contracts are
\* gone, unless somebody traded the ticker during a limit exit.
DropsWhatIsGone == [][held /\ ~held' /\ ~overlap => net' <= 0]_vars
=============================================================================
