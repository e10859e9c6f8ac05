--------------------------- MODULE StoredDecisions ---------------------------
(***************************************************************************)
(* The two decisions about a KXLOW series that are taken once per local    *)
(* day, stored, and asked for in every watchlist cycle: does the forecast  *)
(* put the day's low before the deadline hour (core/sunrise_gate.py), and  *)
(* does the daily brief mention a keyword (nws/daily_brief.py).            *)
(*                                                                         *)
(* The scheduler of nws/scheduler.py takes both at the snapshot hour, in a *)
(* thread of its own.  The gates answer on the thread of the event loop,   *)
(* from their cache, from the stored row, and, the AM-low gate, from a     *)
(* forecast it fetches and may store itself.  The forecast changes from    *)
(* fetch to fetch, and shows future hours only.                            *)
(*                                                                         *)
(* Grain.  One action is one call to the database or to the weather        *)
(* service: the two threads meet nowhere else.                             *)
(*                                                                         *)
(* Scope.  One series, both checks on.  Midnight finds no call under way   *)
(* (rows and caches are kept by date, so nothing of yesterday would be     *)
(* written into today).                                                    *)
(***************************************************************************)
EXTENDS Naturals

CONSTANTS
    Days,      \* bound on days
    MaxStarts  \* bound on starts of the process

\* Assumed by the modules that instantiate this one.
ConstantsAssumption == {Days, MaxStarts} \subseteq Nat \ {0}

Hours == {"night", "snapshot", "day"}
Verdicts == {"pass", "block"}
Maybe == Verdicts \cup {"none"}

VARIABLES
    date, hour, \* the local day, and where it is before, in or after the snapshot hour
    warm,       \* the series is a warm one: its AM-low gate is asked at any hour
    amRow,      \* today's DailyAmLowForecast.passed
    briefRow,   \* today's DailyForecastBlock.blocked
    up,         \* the process runs
    amCache,    \* _am_low_cache of today
    briefCache, \* DailyBriefGate._cache of today
    gate,       \* the AM-low gate: the call under way
    jobs,       \* the two jobs of the scheduler
    \* ghosts
    starts,     \* starts of the process
    first,      \* the first decision the AM-low gate locked today
    said,       \* what it answered last
    blocked,    \* the brief gate has blocked today
    clear,      \* and let pass after that
    causes      \* what has gone wrong with the rows today

rows == <<amRow, briefRow>>
ghosts == <<starts, first, said, blocked, clear, causes>>
vars == <<date, hour, warm, rows, up, amCache, briefCache, gate, jobs, ghosts>>

Empty == [locked |-> FALSE, says |-> "none"]
Quiet == [pc |-> "idle", early |-> FALSE, says |-> "none"]
NoJobs == [am |-> "none", brief |-> "none"]

\* overwritten  the stored AM-low decision was replaced by the opposite one
\* lost         the decision the gate locked was not written
\* unread       the row could not be read by its gate
Causes == {"overwritten", "lost", "unread", "brief unread"}

Caches == [locked : BOOLEAN, says : Maybe]
Calls == [pc : {"idle", "row", "fetch", "write"}, early : BOOLEAN, says : Maybe]
Jobs == [am : {"none", "waiting", "due", "pass", "block"},
         brief : {"none", "waiting", "due", "fetch", "pass", "block"}]

TypeOK ==
    /\ date \in 1..Days /\ hour \in Hours /\ warm \in BOOLEAN
    /\ amRow \in Maybe /\ briefRow \in Maybe
    /\ up \in BOOLEAN
    /\ amCache \in Caches /\ briefCache \in Caches
    /\ gate \in Calls /\ jobs \in Jobs
    /\ starts \in 1..MaxStarts
    /\ {first, said} \subseteq Maybe
    /\ {blocked, clear} \subseteq BOOLEAN
    /\ causes \subseteq Causes

Init ==
    /\ date = 1 /\ hour = "night" /\ warm \in BOOLEAN
    /\ amRow = "none" /\ briefRow = "none"
    /\ up = TRUE /\ amCache = Empty /\ briefCache = Empty /\ gate = Quiet
    /\ jobs = [am |-> "waiting", brief |-> "waiting"]
    /\ starts = 1 /\ first = "none" /\ said = "none"
    /\ blocked = FALSE /\ clear = FALSE /\ causes = {}

-----------------------------------------------------------------------------
(* The clock, the process *)

\* A job that waits is due at the snapshot hour; one that has not started an
\* hour later is dropped, and nobody registers it again.
Due(j) == IF j = "waiting" THEN "due" ELSE j
Missed(j) == IF j = "due" THEN "none" ELSE j

SnapshotHour ==
    /\ hour = "night" /\ hour' = "snapshot"
    /\ jobs' = [am |-> Due(jobs.am), brief |-> Due(jobs.brief)]
    /\ UNCHANGED <<date, warm, rows, up, amCache, briefCache, gate, ghosts>>

DayBreaks ==
    /\ hour = "snapshot" /\ hour' = "day"
    /\ jobs' = [am |-> Missed(jobs.am), brief |-> Missed(jobs.brief)]
    /\ UNCHANGED <<date, warm, rows, up, amCache, briefCache, gate, ghosts>>

Midnight ==
    /\ hour = "day" /\ date < Days /\ gate = Quiet
    /\ jobs.am \in {"none", "waiting"} /\ jobs.brief \in {"none", "waiting"}
    /\ date' = date + 1 /\ hour' = "night"
    /\ amRow' = "none" /\ briefRow' = "none"
    /\ amCache' = Empty /\ briefCache' = Empty
    /\ first' = "none" /\ said' = "none" /\ blocked' = FALSE /\ clear' = FALSE
    /\ causes' = {}
    /\ UNCHANGED <<warm, up, gate, jobs, starts>>

\* A slip: a locked answer expires, too.
Forgotten(answer) == Empty

\* Half an hour later a cached answer that is not locked is asked for again.
Aged(answer) == IF answer.locked THEN answer ELSE Empty

Expires ==
    /\ amCache' = Aged(amCache)
    /\ briefCache' = Aged(briefCache)
    /\ UNCHANGED <<date, hour, warm, rows, up, gate, jobs, ghosts>>

Crash ==
    /\ up /\ up' = FALSE
    /\ amCache' = Empty /\ briefCache' = Empty /\ gate' = Quiet /\ jobs' = NoJobs
    /\ UNCHANGED <<date, hour, warm, rows, ghosts>>

\* bootstrap: both jobs wait for the next snapshot hour; the brief is caught
\* up with when today's is not found.
Bootstrap(read) ==
    /\ ~up /\ starts < MaxStarts
    /\ up' = TRUE /\ starts' = starts + 1
    /\ jobs' = [am |-> "waiting",
                brief |-> IF hour # "night" /\ (briefRow = "none" \/ ~read) THEN "fetch" ELSE "waiting"]
    /\ UNCHANGED <<date, hour, warm, rows, amCache, briefCache, gate, first, said, blocked, clear, causes>>

-----------------------------------------------------------------------------
(* The jobs *)

\* _is_lockable: the forecast still shows the hours of the morning.
CoversMorning == hour # "day"

Upsert(d) == amRow' = d
Overwrites(d) == IF amRow \in Verdicts \ {d} THEN {"overwritten"} ELSE {}

\* snapshot_am_low_forecast
AmLowFetches(d) ==
    /\ jobs.am = "due"
    /\ jobs' = [jobs EXCEPT !.am = IF d # "none" /\ CoversMorning THEN d ELSE "waiting"]
    /\ UNCHANGED <<date, hour, warm, rows, up, amCache, briefCache, gate, ghosts>>

AmLowWrites(written) ==
    /\ jobs.am \in Verdicts
    /\ IF written
       THEN Upsert(jobs.am) /\ causes' = causes \cup Overwrites(jobs.am)
       ELSE UNCHANGED <<amRow, causes>>
    /\ jobs' = [jobs EXCEPT !.am = "waiting"]
    /\ UNCHANGED <<date, hour, warm, briefRow, up, amCache, briefCache, gate, starts, first, said, blocked, clear>>

\* A slip: the row that is there already is not looked for.
SnapshotsAgain(read) == TRUE

\* snapshot_city is write-once.
Snapshots(read) == briefRow = "none" \/ ~read

BriefStarts ==
    /\ jobs.brief = "due"
    /\ jobs' = [jobs EXCEPT !.brief = "fetch"]
    /\ UNCHANGED <<date, hour, warm, rows, up, amCache, briefCache, gate, ghosts>>

BriefFetches(read, d) ==
    /\ jobs.brief = "fetch"
    /\ read \/ briefRow = "none"
    /\ jobs' = [jobs EXCEPT !.brief = IF d # "none" /\ Snapshots(read) THEN d ELSE "waiting"]
    /\ UNCHANGED <<date, hour, warm, rows, up, amCache, briefCache, gate, ghosts>>

BriefWrites(written) ==
    /\ jobs.brief \in Verdicts
    /\ briefRow' = IF written THEN jobs.brief ELSE briefRow
    /\ jobs' = [jobs EXCEPT !.brief = "waiting"]
    /\ UNCHANGED <<date, hour, warm, amRow, up, amCache, briefCache, gate, ghosts>>

-----------------------------------------------------------------------------
(* _check_am_low_forecast *)

\* What the gate answers, and keeps in its cache.
Answers(locked, d) ==
    /\ gate' = Quiet
    /\ amCache' = [locked |-> locked, says |-> d]
    /\ said' = d
    /\ first' = IF locked /\ first = "none" THEN d ELSE first

IsAsked == up /\ gate = Quiet /\ (warm \/ hour = "day")

AsksCache ==
    /\ IsAsked
    /\ IF amCache.says # "none"
       THEN Answers(amCache.locked, amCache.says)
       ELSE /\ gate' = [pc |-> "row", early |-> hour = "night", says |-> "none"]
            /\ UNCHANGED <<amCache, said, first>>
    /\ UNCHANGED <<date, hour, warm, rows, up, briefCache, jobs, starts, blocked, clear, causes>>

\* A row that cannot be read reads as no row.
AsksRow(read) ==
    /\ gate.pc = "row"
    /\ causes' = causes \cup IF read \/ amRow = "none" THEN {} ELSE {"unread"}
    /\ IF read /\ amRow # "none"
       THEN Answers(TRUE, amRow)
       ELSE gate' = [gate EXCEPT !.pc = "fetch"] /\ UNCHANGED <<amCache, said, first>>
    /\ UNCHANGED <<date, hour, warm, rows, up, briefCache, jobs, starts, blocked, clear>>

\* Nothing fetched blocks, for a while.  A forecast that does not show the
\* morning any more passes, for a while.  One fetched before the snapshot hour
\* is preliminary.
AsksForecast(d) ==
    /\ gate.pc = "fetch"
    /\ IF d = "none" THEN Answers(FALSE, "block")
       ELSE IF ~CoversMorning THEN Answers(FALSE, "pass")
       ELSE IF gate.early THEN Answers(FALSE, d)
       ELSE gate' = [gate EXCEPT !.pc = "write", !.says = d] /\ UNCHANGED <<amCache, said, first>>
    /\ UNCHANGED <<date, hour, warm, rows, up, briefCache, jobs, starts, blocked, clear, causes>>

\* Best effort: the decision is locked whether or not it was stored.
Stores(written) ==
    /\ gate.pc = "write"
    /\ IF written
       THEN Upsert(gate.says) /\ causes' = causes \cup Overwrites(gate.says)
       ELSE UNCHANGED amRow /\ causes' = causes \cup {"lost"}
    /\ Answers(TRUE, gate.says)
    /\ UNCHANGED <<date, hour, warm, briefRow, up, briefCache, jobs, starts, blocked, clear>>

-----------------------------------------------------------------------------
\* DailyBriefGate.get_block: the cache, the row, or open until there is one.
BriefAnswers(read) ==
    LET known == IF briefCache.says # "none" THEN briefCache
                 ELSE IF read /\ briefRow # "none" THEN [locked |-> TRUE, says |-> briefRow]
                 ELSE [locked |-> FALSE, says |-> "pass"] IN
    /\ up /\ gate = Quiet
    /\ briefCache' = known
    /\ causes' = causes \cup IF read \/ briefRow = "none" \/ briefCache.says # "none"
                           THEN {} ELSE {"brief unread"}
    /\ blocked' = (blocked \/ known.says = "block")
    /\ clear' = (clear \/ (blocked /\ known.says = "pass"))
    /\ UNCHANGED <<date, hour, warm, rows, up, amCache, gate, jobs, starts, first, said>>

-----------------------------------------------------------------------------
Job ==
    \/ BriefStarts
    \/ \E d \in Maybe : AmLowFetches(d) \/ \E read \in BOOLEAN : BriefFetches(read, d)
    \/ \E written \in BOOLEAN : AmLowWrites(written) \/ BriefWrites(written)

Gate ==
    \/ AsksCache
    \/ \E b \in BOOLEAN : AsksRow(b) \/ Stores(b) \/ BriefAnswers(b)
    \/ \E d \in Maybe : AsksForecast(d)

World ==
    \/ SnapshotHour \/ DayBreaks \/ Midnight \/ Expires \/ Crash
    \/ \E read \in BOOLEAN : Bootstrap(read)

Next == Job \/ Gate \/ World

Spec == Init /\ [][Next]_vars

-----------------------------------------------------------------------------
(* Properties *)

\* "snapshotted ONCE per local calendar date [...] and then LOCKED for the
\* rest of that day": once the AM-low gate has locked a decision it gives no
\* other answer that day, whatever the forecast does.  It takes a restart, and
\* a row that was not written, not read, or written over by the other thread.
AmLowIsKept ==
    first # "none" /\ said # first => starts > 1 /\ causes \cap {"overwritten", "lost", "unread"} # {}

\* A day that the daily brief has blocked stays blocked, through restarts,
\* late snapshots and lookups at start-up that fail, as long as the gate can
\* read the row.
BriefIsKept == clear => "brief unread" \in causes
=============================================================================
