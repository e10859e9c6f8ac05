------------------------------ MODULE ExitGuard ------------------------------
(***************************************************************************)
(* What the stop-loss watcher promises the strategy, with none of its      *)
(* bookkeeping: every ticker is in one phase, and the phases change only   *)
(* along the steps below.                                                  *)
(*                                                                         *)
(*   absent   the watcher does not know the ticker                         *)
(*   quiet    registered, nothing to do                                    *)
(*   armed    an exit is due and not running                               *)
(*   exiting  one exit handler is in flight                                *)
(*   parked   the exit handler said there is no buyer                      *)
(*                                                                         *)
(* SlWatcher.tla is shown to implement Spec.                               *)
(***************************************************************************)

CONSTANT Tickers

VARIABLES
    phase,    \* ticker -> phase
    stopped   \* the process is shutting down

vars == <<phase, stopped>>

Phases == {"absent", "quiet", "armed", "exiting", "parked"}

Init ==
    /\ phase = [t \in Tickers |-> "absent"]
    /\ stopped = FALSE

Move(t, from, to) ==
    /\ phase[t] \in from
    /\ phase' = [phase EXCEPT ![t] = to]
    /\ UNCHANGED stopped

\* The strategy hands a new position over, or takes it back.
Watch(t)  == Move(t, {"absent"}, "quiet")
Forget(t) == Move(t, {"quiet", "armed", "exiting", "parked"}, "absent")

\* An exit becomes due; the market recovers before it is launched.
Arm(t)       == Move(t, {"quiet", "parked"}, "armed")
StandDown(t) == Move(t, {"armed"}, "quiet")

\* One sweep may launch the exits of several tickers.  A parked ticker is
\* never among them: it has to be armed again first.
Launch(S) ==
    /\ \A t \in S : phase[t] \in {"quiet", "armed"}
    /\ phase' = [t \in Tickers |-> IF t \in S THEN "exiting" ELSE phase[t]]
    /\ UNCHANGED stopped

\* The handler came back without closing the position.
Report(t) == Move(t, {"exiting"}, "armed") \/ Move(t, {"exiting"}, "parked")

\* Shutting down aborts the handlers in flight, whatever phase that leaves.
Stop ==
    /\ stopped' = TRUE
    /\ phase' \in [Tickers -> Phases]
    /\ \A t \in Tickers : phase[t] # "exiting" => phase'[t] = phase[t]

Next ==
    \/ \E t \in Tickers :
          Watch(t) \/ Forget(t) \/ Arm(t) \/ StandDown(t) \/ Report(t)
    \/ \E S \in SUBSET Tickers : Launch(S)
    \/ Stop

Spec == Init /\ [][Next]_vars
=============================================================================
