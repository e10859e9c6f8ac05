----------------------------- MODULE MorningGate -----------------------------
(***************************************************************************)
(* What a KXLOW bracket has to pass in the morning before it may be        *)
(* bought, where the answer depends on what was seen before: the rise      *)
(* latch and the day minimum that core/sunrise_gate.py keeps per series,   *)
(* and the falling-knife guard that core/state_machine.py keeps per        *)
(* bracket.                                                                *)
(*                                                                         *)
(* The observations of the station are published one by one.  A fetch asks *)
(* one of two sources, which may lag: it brings a prefix of them, perhaps  *)
(* a shorter one than the fetch before, or it fails.                       *)
(*                                                                         *)
(* Grain.  The watchlist cycle looks at a bracket without an await up to   *)
(* the gates modelled here: one look is one action.                        *)
(*                                                                         *)
(* Scope.  One series that is not a warm one, and one of its brackets;     *)
(* SUNRISE mode, all three checks on and the reachability gate too.  The   *)
(* AM-low verdict (StoredDecisions) and all other gates may go either way. *)
(* Temperatures are the whole degrees the gates round to; the required     *)
(* rise is one of them.                                                    *)
(***************************************************************************)
EXTENDS Integers, FiniteSets, FiniteSetsExt, Sequences

CONSTANTS
    Dates,   \* bound on the local days
    Temps,   \* whole degrees that are observed
    Line,    \* the least degree the bracket wins with
    MaxObs   \* bound on the observations of a day

\* Assumed by the modules that instantiate this one.
GateAssumption ==
    /\ {Dates, MaxObs} \subseteq Nat \ {0}
    /\ Temps \subseteq Nat /\ IsFiniteSet(Temps) /\ Line \in Temps

VARIABLES
    today, phase, \* the local day, and whether it is before the baseline, before the
                  \* window of the gate, or in it (1, 2, 3)
    obs, base,    \* observations since midnight, and how many of them before the baseline
    rise,         \* _rise_state of the series
    knife,        \* the bracket: its guard, sunrise_window_was_open, pending_entry
    kind,         \* its range of degrees: "hard" (two-sided) or "top" (Line or above)
    \* ghosts
    passed,       \* the last look let the bracket pass
    dip,          \* this process has fetched a degree below Line today: "seen" before
                  \* the gate's decision, "late" by a fetch after it
    most, back,   \* the longest list of the rise check, and whether one was shorter
    spike,        \* looks in a row above the ceiling (2 for more), not yet forgotten
    why           \* what has hidden that spike from the guard

sky == <<today, phase, obs, base>>
ghosts == <<passed, dip, most, back, spike, why>>
vars == <<sky, rise, knife, kind, ghosts>>

Warmest == Max(Temps) + 1    \* no observation yet

NoState == [date |-> 0, min |-> Warmest, latched |-> FALSE, low |-> Warmest, fresh |-> FALSE]
NewBracket == [guard |-> FALSE, tick |-> FALSE, above |-> "none", open |-> FALSE, waiting |-> FALSE]

Degrees == Temps \cup {Warmest}
Rises == [date : 0..Dates, min : Degrees, latched : BOOLEAN, low : Degrees, fresh : BOOLEAN]
Knives == [guard : BOOLEAN, tick : BOOLEAN, above : {"none", "recent", "old"},
           open : BOOLEAN, waiting : BOOLEAN]

TypeOK ==
    /\ today \in 1..Dates /\ phase \in 1..3
    /\ obs \in Seq(Temps) /\ Len(obs) <= MaxObs /\ base \in 0..Len(obs)
    /\ rise \in Rises
    /\ knife \in Knives
    /\ kind \in {"hard", "top"}
    /\ passed \in BOOLEAN /\ dip \in {"none", "late", "seen"}
    /\ most \in 0..MaxObs /\ back \in BOOLEAN
    /\ spike \in 0..2 /\ why \subseteq {"waiting", "reopened"}

Init ==
    /\ today = 1 /\ phase = 1 /\ obs = <<>> /\ base = 0
    /\ rise = NoState /\ knife = NewBracket /\ kind \in {"hard", "top"}
    /\ passed = FALSE /\ dip = "none" /\ most = 0 /\ back = FALSE
    /\ spike = 0 /\ why = {}

-----------------------------------------------------------------------------
(* The weather, the clock and the process *)

Observed(t) ==
    /\ Len(obs) < MaxObs /\ obs' = Append(obs, t)
    /\ base' = IF phase = 1 THEN base + 1 ELSE base
    /\ UNCHANGED <<today, phase, rise, knife, kind, ghosts>>

DayGoesOn ==
    /\ phase < 3 /\ phase' = phase + 1
    /\ UNCHANGED <<today, obs, base, rise, knife, kind, ghosts>>

Midnight ==
    /\ phase = 3 /\ today < Dates
    /\ today' = today + 1 /\ phase' = 1 /\ obs' = <<>> /\ base' = 0
    /\ passed' = FALSE /\ dip' = "none" /\ most' = 0 /\ back' = FALSE
    /\ UNCHANGED <<rise, knife, kind, spike, why>>

\* A minute passes; in the long run, the decay time of the guard.
TimePasses(long) ==
    /\ rise' = [rise EXCEPT !.fresh = FALSE]
    /\ IF long
       THEN /\ knife' = [knife EXCEPT !.above = IF @ = "none" THEN @ ELSE "old"]
            /\ spike' = 0 /\ why' = {}
       ELSE UNCHANGED <<knife, spike, why>>
    /\ UNCHANGED <<sky, kind, passed, dip, most, back>>

\* All of it is in memory only.
Restart ==
    /\ rise' = NoState /\ knife' = NewBracket
    /\ passed' = FALSE /\ dip' = "none" /\ most' = 0 /\ back' = FALSE
    /\ spike' = 0 /\ why' = {}
    /\ UNCHANGED <<sky, kind>>

-----------------------------------------------------------------------------
(* _TempRiseState *)

\* A slip: what was found yesterday is used today.
Carried(s) == [s EXCEPT !.date = today]
Today(s) == IF s.date = today THEN s ELSE [NoState EXCEPT !.date = today]

Least(s, from, n) == Min({obs[i] : i \in from..n} \cup {s})

\* _check_temp_rise_latch, with a list that ends at the n-th observation; a
\* failed fetch, a stale list and one that ends before the baseline change
\* nothing.  The latch stays for the day.
Latched(s, n) ==
    LET low == Least(s.min, base + 1, n) IN
    IF s.latched \/ n <= base THEN s
    ELSE [s EXCEPT !.min = low,
                   !.latched = n >= base + 2 /\ \A i \in {n - 1, n} : obs[i] >= low + 1]

\* The day minimum is fetched once a minute, or as long as there is none; a
\* fetch that fails (n = 0) leaves it.
Refreshes(s) == s.low = Warmest \/ ~s.fresh
Refreshed(s, n) ==
    IF Refreshes(s) /\ n > 0
    THEN [s EXCEPT !.low = Least(s.low, 1, n), !.fresh = TRUE]
    ELSE s

\* day_has_dipped_below
DippedBelow(s) == s.low < Line

\* day_reached_bracket: a bracket without an upper end is exempt.
Unreached(s) == kind = "hard" /\ s.low \in Temps \ {Line}

-----------------------------------------------------------------------------
(* The falling-knife guard.  A price is "below" the trigger, "fair", or     *)
(* "above" the ceiling.                                                     *)

Prices == {"below", "fair", "above"}

Forgiven(k) == [k EXCEPT !.guard = FALSE, !.tick = FALSE, !.above = "none"]

\* A slip: a fair price ends the guard.
GuardedLightly(k, price) ==
    CASE price = "below" -> Forgiven(k)
      [] price = "above" -> [k EXCEPT !.above = "recent", !.tick = TRUE, !.guard = @ \/ k.tick]
      [] price = "fair" -> [k EXCEPT !.tick = FALSE, !.guard = FALSE]

\* _update_falling_knife_guard
Guarded(k, price) ==
    CASE price = "below" -> Forgiven(k)
      [] price = "above" -> [k EXCEPT !.above = "recent", !.tick = TRUE, !.guard = @ \/ k.tick]
      [] price = "fair" -> IF k.guard /\ k.above = "old" THEN Forgiven(k) ELSE [k EXCEPT !.tick = FALSE]

\* What the sunrise gate says opens the window anew, or closes it.
Windowed(k, allowed) ==
    IF ~allowed THEN [k EXCEPT !.open = FALSE]
    ELSE IF k.open THEN k ELSE [Forgiven(k) EXCEPT !.open = TRUE]

\* The guard is not looked after while an entry waits to be tried again.
Watched(k, allowed, price) ==
    LET w == Windowed(k, allowed) IN IF w.waiting THEN w ELSE Guarded(w, price)

\* The ghosts: the spike itself, whatever the guard makes of it.
Spiked(price) ==
    CASE price = "below" -> 0
      [] price = "above" -> Min({spike + 1, 2})
      [] price = "fair" -> IF spike = 2 THEN 2 ELSE 0

Spikes(allowed, price) ==
    /\ spike' = Spiked(price)
    /\ why' = IF Spiked(price) = 0 THEN {}
              ELSE why \cup (IF knife.waiting /\ price = "above" THEN {"waiting"} ELSE {})
                       \cup (IF allowed /\ ~knife.open /\ spike > 0 THEN {"reopened"} ELSE {})

-----------------------------------------------------------------------------
(* One look at the bracket *)

\* evaluate: before the window, after it, or without the AM-low verdict the
\* observations are not asked for.
Closed(price) ==
    /\ knife' = Watched(knife, FALSE, price) /\ Spikes(FALSE, price)
    /\ passed' = FALSE
    /\ dip' = IF dip = "late" THEN "seen" ELSE dip
    /\ UNCHANGED <<sky, rise, kind, most, back>>

\* Once it is latched for the day the rise is not fetched any more.
RiseLists == IF Today(rise).latched THEN {base} ELSE base..Len(obs)
LowLists(s) == IF Refreshes(s) THEN 0..Len(obs) ELSE {0}

\* The ghosts of the rise check.
Notes(n) ==
    IF n = base THEN UNCHANGED <<most, back>>
    ELSE most' = Max({most, n}) /\ back' = (back \/ n < most)

\* The rise is asked for, and the bracket does not get as far as the day
\* minimum: no rise yet, the price, the guard, or another gate.
StopsBefore(price, s) ==
    /\ rise' = s
    /\ knife' = Watched(knife, s.latched, price) /\ Spikes(s.latched, price)
    /\ passed' = FALSE
    /\ dip' = IF dip = "late" THEN "seen" ELSE dip

\* It gets there: the day minimum (first) decides, and then the reachability
\* gate, which fetches again (second) when the first fetch has failed.
\* What follows may buy (and the bracket is found anew after its position),
\* give the entry up until later, or block.
Decides(w, first, second) ==
    /\ rise' = second
    /\ passed' = (~DippedBelow(first) /\ ~Unreached(second))
    /\ knife' \in IF passed' THEN {NewBracket, [w EXCEPT !.waiting = TRUE], w} ELSE {w}
    /\ dip' = IF dip # "none" \/ DippedBelow(first) THEN "seen"
              ELSE IF DippedBelow(second) THEN "late" ELSE "none"
    /\ Spikes(TRUE, "fair")

Goes(s) ==
    LET w == Watched(knife, TRUE, "fair") IN
    /\ s.latched /\ ~w.guard
    /\ \E m \in LowLists(s) :
          LET first == Refreshed(s, m) IN
          IF DippedBelow(first) THEN Decides(w, first, first)
          ELSE \E n \in LowLists(first) : Decides(w, first, Refreshed(first, n))

\* evaluate, with the list that ends at the n-th observation.
Asks(n) ==
    LET s == Latched(Today(rise), n) IN
    /\ Notes(n)
    /\ Goes(s) \/ \E price \in Prices : StopsBefore(price, s)
    /\ UNCHANGED <<sky, kind>>

-----------------------------------------------------------------------------
Look ==
    \/ \E price \in Prices : Closed(price)
    \/ phase = 3 /\ \E n \in RiseLists : Asks(n)

World ==
    \/ \E t \in Temps : Observed(t)
    \/ DayGoesOn \/ Midnight \/ Restart
    \/ \E long \in BOOLEAN : TimePasses(long)

Next == Look \/ World

Spec == Init /\ [][Next]_vars

-----------------------------------------------------------------------------
(* Properties *)

\* Two observations of today in a row were warmer than the least one between
\* the baseline and them.
Risen ==
    \E n \in (base + 2)..Len(obs) :
        \A i \in {n - 1, n} : obs[i] > Min({obs[j] : j \in (base + 1)..n})

\* A bracket gets through the morning only on a day on which the temperature
\* has really risen since the baseline and has not been below the bracket, as
\* far as this process could see: neither yesterday's rise nor yesterday's
\* minimum counts, and no failed fetch forgets today's.  (It takes a list that
\* goes back to make a fall look like a rise.  The second fetch of a look may
\* show a dip the first, failed one did not: a bracket with an upper end is
\* still blocked by it, one without is not.)
GateIsEarned ==
    passed =>
        /\ Risen \/ back
        /\ dip # "seen"
        /\ dip = "late" => kind = "top"

\* "falling knife": a bracket that was above the ceiling in two looks in a row
\* gets through only after a price below the trigger or the decay time,
\* unless the spike came while an entry was waiting, or the sunrise gate
\* closed and opened again after it.
NoKnifeEntry == passed /\ spike = 2 => why # {}
=============================================================================
