----------------------------- MODULE MCStrategy -----------------------------
(***************************************************************************)
(* What the strategy decides: the entries (Entries), the two parts of      *)
(* their gates that remember what they have seen (StoredDecisions and      *)
(* MorningGate), and the exits by the clock (IntradayExit).  The four      *)
(* share no state here (in Entries any gate may block); a behaviour is one *)
(* of one part, and the others stay as they began.                         *)
(***************************************************************************)
EXTENDS Entries, TLC

CONSTANTS
    Days, MaxStarts,                            \* StoredDecisions
    Dates, Temps, Line, MaxObs,                 \* MorningGate
    Qty, Checkpoints, LateStart, MaxPositions   \* IntradayExit

VARIABLES
    part,    \* which part moves
    date, hour, warm, amRow, briefRow, up, amCache, briefCache, gate, jobs,
    starts, first, said, blocked, clear, causes,
    today, phase, obs, base, rise, knife, kind, passed, dip, most, back, spike, why,
    clockNet, rest, clockHeld, qty, grace, past, evening, evaluated, pending,
    armed, hwm, closeout, exit, lows, known, positions, overlap, stray

decisions == <<date, hour, warm, amRow, briefRow, up, amCache, briefCache, gate, jobs,
               starts, first, said, blocked, clear, causes>>
morning == <<today, phase, obs, base, rise, knife, kind, passed, dip, most, back, spike, why>>
clockExits == <<clockNet, rest, clockHeld, qty, grace, past, evening, evaluated,
                pending, armed, hwm, closeout, exit, lows, known, positions, overlap, stray>>
all == <<part, vars, decisions, morning, clockExits>>

Stored == INSTANCE StoredDecisions
Morning == INSTANCE MorningGate
Exits == INSTANCE IntradayExit WITH net <- clockNet, held <- clockHeld

ASSUME PartsAssumption ==
    /\ Stored!ConstantsAssumption
    /\ Morning!GateAssumption
    /\ Exits!ConstantsAssumption

\* The brackets of an event are alike.
AnyBracket == Permutations(Tickers)

AllInit ==
    /\ part \in {"entries", "stored", "morning", "exits"}
    /\ Init /\ (part # "entries" => count = 0)
    /\ Stored!Init /\ (part # "stored" => ~warm)
    /\ Morning!Init /\ (part # "morning" => kind = "hard")
    /\ Exits!Init

AllNext ==
    \/ part = "entries" /\ Next /\ UNCHANGED <<part, decisions, morning, clockExits>>
    \/ part = "stored" /\ Stored!Next /\ UNCHANGED <<part, vars, morning, clockExits>>
    \/ part = "morning" /\ Morning!Next /\ UNCHANGED <<part, vars, decisions, clockExits>>
    \/ part = "exits" /\ Exits!Next /\ UNCHANGED <<part, vars, decisions, morning>>

AllSpec == AllInit /\ [][AllNext]_all

-----------------------------------------------------------------------------
\* Every variable of the part that moves has its type.
AllTypeOK ==
    CASE part = "entries" -> TypeOK
      [] part = "stored" -> Stored!TypeOK
      [] part = "morning" -> Morning!TypeOK
      [] part = "exits" -> Exits!TypeOK

(* The properties of the parts, by the names they have there *)

\* The AM-low decision the gate has locked is its only answer of that day,
\* unless a restart meets a row that was not written, not read, or written
\* over.
AmLowIsKept == Stored!AmLowIsKept

\* A day the daily brief has blocked stays blocked while its row can be read.
BriefIsKept == Stored!BriefIsKept

\* A bracket gets through the morning only on a day whose own observations
\* have risen since the baseline and were not below the bracket.
GateIsEarned == Morning!GateIsEarned

\* A spike above the ceiling keeps a bracket out until it is forgotten, unless
\* a waiting entry or the sunrise gate has hidden it from the guard.
NoKnifeEntry == Morning!NoKnifeEntry

\* A position whose entry is known is sold by the clock only after its own ask
\* was down in every pass of a whole minute.
ExitIsConfirmed == Exits!ExitIsConfirmed

\* A limit exit and its fallback never sell more than is held, as long as
\* nobody else trades the ticker and no limit sell was left behind.
SellsOnce == Exits!SellsOnce

\* The exits by the clock let go of a position only when its contracts are
\* gone, unless somebody traded the ticker during a limit exit.
DropsWhatIsGone == Exits!DropsWhatIsGone
=============================================================================
