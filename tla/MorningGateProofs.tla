-------------------------- MODULE MorningGateProofs --------------------------
(***************************************************************************)
(* Proofs about MorningGate, for any number of days and of observations    *)
(* and any degrees.  The falling-knife guard and the memory of the day's   *)
(* temperatures share no state but "passed", and are proved apart:         *)
(*                                                                         *)
(*   GuardHolds     the guard of the bracket follows the spike it has seen *)
(*                  for as long as nothing has hidden it.                  *)
(*   MorningInv     what is remembered of the day: the least degree of the *)
(*                  rise check was observed since the baseline, a latch    *)
(*                  stands for a rise, and a dip is in the day minimum.    *)
(***************************************************************************)
EXTENDS MorningGate, SequenceTheorems, FiniteSetTheorems, WellFoundedInduction, TLAPS

-----------------------------------------------------------------------------
(* Degrees *)

LEMMA LeastSet ==
    ASSUME NEW S, NEW U, U \subseteq FiniteSubsetsOf(S), U # {}
    PROVE  \E X \in U : \A Y \in U : Y \subseteq X => Y = X
<1>1. IsWellFoundedOn(StrictSubsetOrdering(S), FiniteSubsetsOf(S))
  BY FS_StrictSubsetOrderingWellFounded
<1>2. \E X \in U : \A Y \in U : ~ (<<Y, X>> \in StrictSubsetOrdering(S))
  BY <1>1, WFMin
<1>3. \A X, Y \in U : Y \subseteq X /\ Y # X => <<Y, X>> \in StrictSubsetOrdering(S)
  BY DEF StrictSubsetOrdering, FiniteSubsetsOf
<1>4. QED
  BY <1>2, <1>3

\* The least number of a set is the last one of the least interval 0..x.
LEMMA MinIs ==
    ASSUME NEW S, S \subseteq Nat, S # {}
    PROVE  Min(S) \in S /\ \A y \in S : Min(S) <= y
<1> DEFINE U == {0..x : x \in S}
<1>1. U # {} /\ U \subseteq FiniteSubsetsOf(Nat)
  <2>1. ASSUME NEW x \in S PROVE 0..x \in FiniteSubsetsOf(Nat)
    <3>1. IsFiniteSet(0..x)
      BY FS_Interval
    <3>2. QED
      BY <3>1 DEF FiniteSubsetsOf
  <2>2. QED
    BY <2>1
<1>2. PICK X \in U : \A Y \in U : Y \subseteq X => Y = X
  <2> HIDE DEF U
  <2>1. QED
    BY <1>1, LeastSet
<1>3. PICK x \in S : X = 0..x
  BY <1>2
<1>4. ASSUME NEW y \in S, y < x PROVE FALSE
  <2>1. 0..y \in U /\ 0..y \subseteq X
    BY <1>3, <1>4
  <2>2. 0..y = 0..x
    BY <1>2, <1>3, <2>1
  <2>3. x \in 0..x
    OBVIOUS
  <2>4. QED
    BY <1>4, <2>2, <2>3
<1>5. \A y \in S : x <= y
  BY <1>4
<1>6. QED
  BY <1>5 DEF Min

\* The largest degree is the only one of the least set of those from x on.
LEMMA WarmestIs ==
    ASSUME GateAssumption
    PROVE  Warmest \in Nat /\ Line < Warmest /\ Line \in Nat /\ \A y \in Temps : y < Warmest
<1>1. Temps \subseteq Nat /\ Line \in Temps /\ IsFiniteSet(Temps)
  BY DEF GateAssumption
<1> DEFINE From(x) == {y \in Temps : y >= x}
           U == {From(x) : x \in Temps}
<1>2. U # {} /\ U \subseteq FiniteSubsetsOf(Temps)
  <2>1. ASSUME NEW x \in Temps PROVE From(x) \in FiniteSubsetsOf(Temps)
    <3>1. From(x) \in SUBSET Temps
      OBVIOUS
    <3>2. IsFiniteSet(From(x))
      BY <1>1, <3>1, FS_Subset
    <3>3. QED
      BY <3>1, <3>2 DEF FiniteSubsetsOf
  <2>2. QED
    BY <1>1, <2>1
<1>3. PICK X \in U : \A Y \in U : Y \subseteq X => Y = X
  <2> HIDE DEF U
  <2>1. QED
    BY <1>2, LeastSet
<1>4. PICK x \in Temps : X = From(x)
  BY <1>3
<1>5. ASSUME NEW y \in Temps, y > x PROVE FALSE
  <2>1. From(y) \in U /\ From(y) \subseteq X
    <3>1. ASSUME NEW z \in Temps, z >= y PROVE z >= x
      <4>1. x \in Nat /\ y \in Nat /\ z \in Nat
        BY <1>1
      <4>2. QED
        BY <1>5, <3>1, <4>1
    <3>2. From(y) \in U
      OBVIOUS
    <3>3. QED
      BY <1>4, <3>1, <3>2
  <2>2. From(y) = From(x)
    BY <1>3, <1>4, <2>1
  <2>3. x \in From(x) /\ x \notin From(y)
    BY <1>1, <1>5
  <2>4. QED
    BY <2>2, <2>3
<1>6. \A y \in Temps : x >= y
  BY <1>1, <1>5
<1>7. Max(Temps) \in Temps /\ \A y \in Temps : Max(Temps) >= y
  BY <1>6 DEF Max
<1> DEFINE m == Max(Temps)
<1>8. m \in Nat /\ Line <= m
  BY <1>1, <1>7
<1> HIDE DEF m
<1>9. \A y \in Temps : y < m + 1
  <2>1. ASSUME NEW y \in Temps PROVE y < m + 1
    <3>1. y \in Nat /\ m >= y
      BY <1>1, <1>7 DEF m
    <3>2. QED
      BY <1>8, <3>1
  <2>2. QED
    BY <2>1
<1>10. Warmest = m + 1 /\ Line \in Nat
  BY <1>1 DEF Warmest, m
<1>11. QED
  BY <1>8, <1>9, <1>10

LEMMA TwoOf ==
    ASSUME NEW a \in Nat, NEW b \in Nat
    PROVE  /\ Max({a, b}) = IF a >= b THEN a ELSE b
           /\ Min({a, b}) = IF a <= b THEN a ELSE b
<1>1. Max({a, b}) = IF a >= b THEN a ELSE b
  BY DEF Max
<1>2. Min({a, b}) = IF a <= b THEN a ELSE b
  BY DEF Min
<1>3. QED
  BY <1>1, <1>2

\* The least of what was seen and of the observations from..n.
LEMMA LeastIs ==
    ASSUME GateAssumption, obs \in Seq(Temps), NEW from \in Nat \ {0}, NEW n \in 0..Len(obs),
           NEW s \in Degrees
    PROVE  /\ Least(s, from, n) \in Degrees
           /\ Least(s, from, n) <= s
           /\ \A i \in from..n : Least(s, from, n) <= obs[i]
           /\ Least(s, from, n) = s \/ \E i \in from..n : Least(s, from, n) = obs[i]
<1> DEFINE S == {obs[i] : i \in from..n} \cup {s}
<1>1. \A i \in from..n : i \in 1..Len(obs) /\ obs[i] \in Temps
  BY LenProperties, ElementOfSeq
<1>2. S \subseteq Nat /\ S \subseteq Degrees /\ s \in S
  BY <1>1, WarmestIs DEF GateAssumption, Degrees
<1>3. Min(S) \in S /\ \A y \in S : Min(S) <= y
  <2> HIDE DEF S
  <2>1. QED
    BY <1>2, MinIs
<1>4. Least(s, from, n) = Min(S)
  BY DEF Least
<1>5. QED
  BY <1>2, <1>3, <1>4

-----------------------------------------------------------------------------
(* What is remembered of the temperatures *)

LEMMA RisesAre ==
    ASSUME GateAssumption
    PROVE  /\ NoState \in Rises
           /\ \A s \in Rises : s.date \in 0..Dates /\ s.min \in Degrees /\ s.latched \in BOOLEAN
                               /\ s.low \in Degrees /\ s.fresh \in BOOLEAN
           /\ \A s \in Rises : [s EXCEPT !.fresh = FALSE] \in Rises
<1>1. Warmest \in Degrees /\ 0 \in 0..Dates
  BY DEF Degrees, GateAssumption
<1>2. QED
  BY <1>1 DEF NoState, Rises

\* The state of today: what is remembered of another day is not used.
LEMMA TodayIs ==
    ASSUME GateAssumption, today \in 1..Dates, NEW s \in Rises
    PROVE  /\ Today(s) \in Rises /\ Today(s).date = today
           /\ s.date = today => Today(s) = s
           /\ s.date # today => /\ Today(s).min = Warmest /\ ~Today(s).latched
                                /\ Today(s).low = Warmest
<1>1. CASE s.date = today
  BY <1>1 DEF Today
<1>2. CASE s.date # today
  <2>1. Today(s) = [date |-> today, min |-> Warmest, latched |-> FALSE, low |-> Warmest, fresh |-> FALSE]
    BY <1>2 DEF Today, NoState
  <2>2. Warmest \in Degrees /\ today \in 0..Dates
    BY DEF Degrees, GateAssumption
  <2>3. QED
    BY <1>2, <2>1, <2>2 DEF Rises
<1>3. QED
  BY <1>1, <1>2

\* The rise check keeps the day minimum; its own least degree is one of the
\* list, or what it was; it latches on two observations above it.
LEMMA LatchedIs ==
    ASSUME GateAssumption, obs \in Seq(Temps), base \in 0..Len(obs), NEW n \in 0..Len(obs), NEW s \in Rises
    PROVE  /\ Latched(s, n) \in Rises /\ Latched(s, n).date = s.date
           /\ Latched(s, n).low = s.low /\ Latched(s, n).fresh = s.fresh
           /\ \/ Latched(s, n).min = s.min
              \/ n > base /\ \E j \in base + 1..n : Latched(s, n).min = obs[j]
           /\ Latched(s, n).latched =>
                \/ s.latched
                \/ /\ n >= base + 2
                   /\ \A i \in {n - 1, n} : obs[i] >= Latched(s, n).min + 1
                   /\ \A i \in base + 1..n : Latched(s, n).min <= obs[i]
<1>1. CASE s.latched \/ n <= base
  BY <1>1, RisesAre DEF Latched
<1>2. CASE ~s.latched /\ ~(n <= base)
  <2> DEFINE low == Least(s.min, base + 1, n)
             l == n >= base + 2 /\ \A i \in {n - 1, n} : obs[i] >= low + 1
  <2>1. Latched(s, n) = [s EXCEPT !.min = low, !.latched = l]
    BY <1>2 DEF Latched
  <2>2. base + 1 \in Nat \ {0} /\ s.min \in Degrees /\ n > base
    BY <1>2, RisesAre
  <2>3. /\ low \in Degrees /\ \A i \in base + 1..n : low <= obs[i]
        /\ low = s.min \/ \E i \in base + 1..n : low = obs[i]
    BY <2>2, LeastIs
  <2>4. l \in BOOLEAN
    OBVIOUS
  <2> HIDE DEF low
  <2>5. l => n >= base + 2 /\ \A i \in {n - 1, n} : obs[i] >= low + 1
    OBVIOUS
  <2> HIDE DEF l
  <2>6. /\ [s EXCEPT !.min = low, !.latched = l] \in Rises
        /\ Latched(s, n).date = s.date /\ Latched(s, n).low = s.low /\ Latched(s, n).fresh = s.fresh
        /\ Latched(s, n).min = low /\ Latched(s, n).latched = l
    BY <2>1, <2>3, <2>4 DEF Rises
  <2>7. QED
    BY <2>1, <2>2, <2>3, <2>5, <2>6
<1>3. QED
  BY <1>1, <1>2

\* The day minimum only falls within a day, and nothing else changes with it.
LEMMA RefreshedIs ==
    ASSUME GateAssumption, obs \in Seq(Temps), NEW n \in 0..Len(obs), NEW s \in Rises
    PROVE  /\ Refreshed(s, n) \in Rises /\ Refreshed(s, n).date = s.date
           /\ Refreshed(s, n).min = s.min /\ Refreshed(s, n).latched = s.latched
           /\ Refreshed(s, n).low <= s.low
<1>0. s.low \in Degrees /\ s.low <= s.low /\ 1 \in Nat \ {0}
  BY RisesAre, WarmestIs DEF Degrees, GateAssumption
<1>1. CASE Refreshed(s, n) = s
  BY <1>0, <1>1
<1>2. CASE Refreshed(s, n) = [s EXCEPT !.low = Least(s.low, 1, n), !.fresh = TRUE]
  <2> DEFINE low == Least(s.low, 1, n)
  <2>1. low \in Degrees /\ low <= s.low
    BY <1>0, LeastIs
  <2>2. Refreshed(s, n) = [s EXCEPT !.low = low, !.fresh = TRUE]
    BY <1>2
  <2> HIDE DEF low
  <2>3. QED
    BY <2>1, <2>2 DEF Rises
<1>3. QED
  BY <1>1, <1>2 DEF Refreshed

-----------------------------------------------------------------------------
(* The guard *)

LEMMA KnivesAre ==
    /\ NewBracket \in Knives
    /\ \A k \in Knives : /\ [k EXCEPT !.waiting = TRUE] \in Knives
                         /\ [k EXCEPT !.above = IF @ = "none" THEN @ ELSE "old"] \in Knives
  BY DEF Knives, NewBracket

LEMMA WatchedIs ==
    ASSUME NEW k \in Knives, NEW allowed \in BOOLEAN, NEW price \in Prices
    PROVE  Watched(k, allowed, price) \in Knives
<1>1. \A j \in Knives : Forgiven(j) \in Knives
  BY DEF Knives, Forgiven
<1>2. Windowed(k, allowed) \in Knives
  <2>1. \A j \in Knives, b \in BOOLEAN : [j EXCEPT !.open = b] \in Knives
    BY DEF Knives
  <2>2. QED
    BY <1>1, <2>1 DEF Windowed
<1>3. \A j \in Knives : Guarded(j, price) \in Knives
  <2>1. ASSUME NEW j \in Knives PROVE Guarded(j, price) \in Knives
    <3>1. CASE price = "below"
      BY <1>1, <3>1 DEF Guarded
    <3>2. CASE price = "above"
      BY <3>2 DEF Guarded, Knives
    <3>3. CASE price = "fair"
      <4>1. [j EXCEPT !.tick = FALSE] \in Knives
        BY DEF Knives
      <4>2. QED
        BY <1>1, <3>3, <4>1 DEF Guarded
    <3>4. QED
      BY <3>1, <3>2, <3>3 DEF Prices
  <2>2. QED
    BY <2>1
<1>4. QED
  BY <1>2, <1>3 DEF Watched

\* The ghosts of the guard.
LEMMA SpikesIs ==
    ASSUME spike \in 0..2, why \subseteq {"waiting", "reopened"}, NEW allowed, NEW price \in Prices,
           Spikes(allowed, price)
    PROVE  /\ spike' \in 0..2 /\ why' \subseteq {"waiting", "reopened"}
           /\ price = "below" => spike' = 0
           /\ price = "above" => spike' = IF spike = 0 THEN 1 ELSE 2
           /\ price = "fair" => spike' = IF spike = 2 THEN 2 ELSE 0
           /\ why' = IF spike' = 0 THEN {}
                     ELSE why \cup (IF knife.waiting /\ price = "above" THEN {"waiting"} ELSE {})
                              \cup (IF allowed /\ ~knife.open /\ spike > 0 THEN {"reopened"} ELSE {})
<1>1. spike' = Spiked(price)
  BY DEF Spikes
<1>2. Min({spike + 1, 2}) = IF spike = 0 THEN 1 ELSE 2
  <2> DEFINE a == spike + 1
  <2>1. a \in Nat /\ 2 \in Nat
    OBVIOUS
  <2> HIDE DEF a
  <2>2. Min({a, 2}) = IF a <= 2 THEN a ELSE 2
    BY <2>1, TwoOf
  <2>3. QED
    BY <2>2 DEF a
<1>3. /\ spike' \in 0..2
      /\ price = "below" => spike' = 0
      /\ price = "above" => spike' = IF spike = 0 THEN 1 ELSE 2
      /\ price = "fair" => spike' = IF spike = 2 THEN 2 ELSE 0
  BY <1>1, <1>2 DEF Spiked, Prices
<1>4. why' = IF spike' = 0 THEN {}
             ELSE why \cup (IF knife.waiting /\ price = "above" THEN {"waiting"} ELSE {})
                      \cup (IF allowed /\ ~knife.open /\ spike > 0 THEN {"reopened"} ELSE {})
  BY <1>1 DEF Spikes
<1>5. QED
  BY <1>3, <1>4

-----------------------------------------------------------------------------
(* Looks *)

\* Two fetches at the end of a look, of which the second is not the higher.
LEMMA GoesIs ==
    ASSUME GateAssumption, obs \in Seq(Temps), NEW s \in Rises, Goes(s)
    PROVE  /\ s.latched /\ ~Watched(knife, TRUE, "fair").guard
           /\ \E first, second \in Rises :
                /\ Decides(Watched(knife, TRUE, "fair"), first, second)
                /\ second.date = s.date /\ second.min = s.min /\ second.latched = s.latched
                /\ first.low <= s.low /\ second.low <= first.low
<1> DEFINE w == Watched(knife, TRUE, "fair")
<1>1. s.latched /\ ~w.guard
  BY DEF Goes
<1>2. \A r \in Rises : LowLists(r) \subseteq 0..Len(obs)
  BY LenProperties DEF LowLists
<1>3. \A r \in Rises : r.low \in Nat
  BY RisesAre, WarmestIs DEF Degrees, GateAssumption
<1> HIDE DEF w
<1>4. PICK m \in LowLists(s) :
          LET first == Refreshed(s, m) IN
          IF DippedBelow(first) THEN Decides(w, first, first)
          ELSE \E n \in LowLists(first) : Decides(w, first, Refreshed(first, n))
  BY DEF Goes, w
<1> DEFINE first == Refreshed(s, m)
<1>5. /\ first \in Rises /\ first.date = s.date /\ first.min = s.min /\ first.latched = s.latched
      /\ first.low <= s.low
  BY <1>2, RefreshedIs
<1>6. IF DippedBelow(first) THEN Decides(w, first, first)
      ELSE \E n \in LowLists(first) : Decides(w, first, Refreshed(first, n))
  BY <1>4
<1> HIDE DEF first
<1>7. CASE Decides(w, first, first)
  <2>1. first.low <= first.low
    BY <1>3, <1>5
  <2>2. QED
    BY <1>1, <1>5, <1>7, <2>1 DEF w
<1>8. ASSUME NEW n \in LowLists(first), Decides(w, first, Refreshed(first, n))
      PROVE  \E second \in Rises :
               /\ Decides(w, first, second)
               /\ second.date = s.date /\ second.min = s.min /\ second.latched = s.latched
               /\ first.low <= s.low /\ second.low <= first.low
  BY <1>2, <1>5, <1>8, RefreshedIs
<1>9. QED
  BY <1>1, <1>5, <1>6, <1>7, <1>8 DEF w

\* What a look leaves of the state of the day.
LEMMA AsksIs ==
    ASSUME GateAssumption, TypeOK, NEW n \in RiseLists, Asks(n)
    PROVE  LET s == Latched(Today(rise), n) IN
           /\ n \in base..Len(obs) /\ n \in 0..Len(obs) /\ s \in Rises
           /\ s.low = Today(rise).low /\ s.date = today
           /\ rise' \in Rises /\ rise'.date = today /\ rise'.min = s.min /\ rise'.latched = s.latched
           /\ rise'.low <= s.low
           /\ most' \in 0..MaxObs /\ most <= most' /\ (n > base => n <= most') /\ (most' # most => most' = n)
           /\ back' \in BOOLEAN /\ (back => back') /\ (n > base /\ n < most => back')
<1>0. /\ obs \in Seq(Temps) /\ base \in 0..Len(obs) /\ Len(obs) \in Nat /\ rise \in Rises /\ today \in 1..Dates
      /\ Len(obs) <= MaxObs /\ MaxObs \in Nat /\ most \in 0..MaxObs /\ back \in BOOLEAN
  BY LenProperties DEF TypeOK, GateAssumption
<1>1. n \in base..Len(obs) /\ n \in 0..Len(obs)
  BY <1>0 DEF RiseLists
<1> DEFINE t == Today(rise)
           s == Latched(t, n)
<1>2. t \in Rises /\ t.date = today
  BY <1>0, TodayIs
<1>3. s \in Rises /\ s.date = today /\ s.low = t.low
  BY <1>0, <1>1, <1>2, LatchedIs
<1>4. Goes(s) \/ (\E price \in Prices : StopsBefore(price, s))
  BY DEF Asks
<1>5. Notes(n)
  BY DEF Asks
<1> HIDE DEF t, s
<1>6. s.low <= s.low
  BY <1>3, RisesAre, WarmestIs DEF Degrees, GateAssumption
<1>7. rise' \in Rises /\ rise'.date = today /\ rise'.min = s.min /\ rise'.latched = s.latched /\ rise'.low <= s.low
  <2>1. CASE \E price \in Prices : StopsBefore(price, s)
    BY <1>3, <1>6, <2>1 DEF StopsBefore
  <2>2. CASE Goes(s)
    <3>1. PICK first, second \in Rises :
                /\ Decides(Watched(knife, TRUE, "fair"), first, second)
                /\ second.date = s.date /\ second.min = s.min /\ second.latched = s.latched
                /\ first.low <= s.low /\ second.low <= first.low
      BY <1>0, <1>3, <2>2, GoesIs
    <3>2. rise' = second
      BY <3>1 DEF Decides
    <3>3. first.low \in Nat /\ second.low \in Nat /\ s.low \in Nat
      BY <1>3, RisesAre, WarmestIs DEF Degrees, GateAssumption
    <3>4. second.low <= s.low
      BY <3>1, <3>3
    <3>5. QED
      BY <1>3, <3>1, <3>2, <3>4
  <2>3. QED
    BY <1>4, <2>1, <2>2
<1>8. Max({most, n}) = IF most >= n THEN most ELSE n
  BY <1>0, <1>1, TwoOf
<1>9. /\ most' \in 0..MaxObs /\ most <= most' /\ (n > base => n <= most') /\ (most' # most => most' = n)
  BY <1>0, <1>1, <1>5, <1>8 DEF Notes
<1>10. back' \in BOOLEAN /\ (back => back') /\ (n > base /\ n < most => back')
  <2>1. CASE n = base
    BY <1>0, <1>1, <1>5, <2>1 DEF Notes
  <2>2. CASE n # base
    <3>1. back' = (back \/ n < most)
      BY <1>5, <2>2 DEF Notes
    <3>2. QED
      BY <3>1
  <2>3. QED
    BY <2>1, <2>2
<1>11. QED
  BY <1>1, <1>3, <1>7, <1>9, <1>10 DEF s, t

-----------------------------------------------------------------------------
(* Types *)

LEMMA TypeInit == ASSUME GateAssumption, Init PROVE TypeOK
<1>1. obs \in Seq(Temps) /\ Len(obs) = 0
  BY EmptySeq DEF Init
<1>2. Dates \in Nat \ {0} /\ MaxObs \in Nat \ {0}
  BY DEF GateAssumption
<1>3. rise \in Rises /\ knife \in Knives /\ kind \in {"hard", "top"}
  BY RisesAre, KnivesAre DEF Init
<1>4. passed \in BOOLEAN /\ back \in BOOLEAN /\ dip \in {"none", "late", "seen"}
  BY DEF Init
<1>5. today \in 1..Dates /\ phase \in 1..3 /\ Len(obs) <= MaxObs /\ base \in 0..Len(obs)
      /\ most \in 0..MaxObs /\ spike \in 0..2
  <2>1. today = 1 /\ phase = 1 /\ base = 0 /\ most = 0 /\ spike = 0
    BY DEF Init
  <2>2. QED
    BY <1>1, <1>2, <2>1
<1>6. why \subseteq {"waiting", "reopened"}
  BY DEF Init
<1>7. QED
  BY <1>1, <1>3, <1>4, <1>5, <1>6 DEF TypeOK

LEMMA TypeStep == ASSUME GateAssumption, TypeOK, [Next]_vars PROVE TypeOK'
<1>0. /\ obs \in Seq(Temps) /\ base \in 0..Len(obs) /\ Len(obs) \in Nat /\ Len(obs) <= MaxObs
      /\ rise \in Rises /\ knife \in Knives /\ today \in 1..Dates /\ phase \in 1..3
      /\ kind \in {"hard", "top"} /\ passed \in BOOLEAN /\ dip \in {"none", "late", "seen"}
      /\ most \in 0..MaxObs /\ back \in BOOLEAN /\ spike \in 0..2 /\ why \subseteq {"waiting", "reopened"}
      /\ Dates \in Nat \ {0} /\ MaxObs \in Nat \ {0}
  BY LenProperties DEF TypeOK, GateAssumption
\* What the world does, and what a look does.
<1>1. CASE World
  <2>1. ASSUME NEW t \in Temps, Observed(t) PROVE TypeOK'
    <3>1. obs' = Append(obs, t) /\ obs' \in Seq(Temps) /\ Len(obs') = Len(obs) + 1
      BY <1>0, <2>1, AppendProperties DEF Observed
    <3>2. base' \in 0..Len(obs') /\ Len(obs') <= MaxObs
      BY <1>0, <2>1, <3>1 DEF Observed
    <3>3. UNCHANGED <<today, phase, rise, knife, kind, passed, dip, most, back, spike, why>>
      BY <2>1 DEF Observed, ghosts
    <3>4. QED
      BY <1>0, <3>1, <3>2, <3>3 DEF TypeOK
  <2>2. CASE DayGoesOn
    BY <1>0, <2>2 DEF DayGoesOn, ghosts, TypeOK
  <2>3. CASE Midnight
    <3>1. obs' \in Seq(Temps) /\ Len(obs') = 0
      BY <2>3, EmptySeq DEF Midnight
    <3>2. passed' \in BOOLEAN /\ back' \in BOOLEAN /\ dip' \in {"none", "late", "seen"}
      BY <2>3 DEF Midnight
    <3>3. phase = 3 /\ today' = today + 1 /\ today < Dates /\ phase' = 1 /\ base' = 0 /\ most' = 0
      BY <2>3 DEF Midnight
    <3>4. today' \in 1..Dates /\ phase' \in 1..3 /\ Len(obs') <= MaxObs /\ base' \in 0..Len(obs')
          /\ most' \in 0..MaxObs
      BY <1>0, <3>1, <3>3
    <3>5. UNCHANGED <<rise, knife, kind, spike, why>>
      BY <2>3 DEF Midnight
    <3>6. QED
      BY <1>0, <3>1, <3>2, <3>4, <3>5 DEF TypeOK
  <2>4. ASSUME NEW long \in BOOLEAN, TimePasses(long) PROVE TypeOK'
    <3>1. rise' \in Rises
      BY <1>0, <2>4, RisesAre DEF TimePasses
    <3>2. knife' \in Knives
      BY <1>0, <2>4, KnivesAre DEF TimePasses
    <3>3. spike' \in 0..2 /\ why' \subseteq {"waiting", "reopened"}
      BY <1>0, <2>4 DEF TimePasses
    <3>4. UNCHANGED <<today, phase, obs, base, kind, passed, dip, most, back>>
      BY <2>4 DEF TimePasses, sky
    <3>5. QED
      BY <1>0, <3>1, <3>2, <3>3, <3>4 DEF TypeOK
  <2>5. CASE Restart
    <3>1. rise' \in Rises /\ knife' \in Knives
      BY <2>5, RisesAre, KnivesAre DEF Restart
    <3>2. UNCHANGED <<today, phase, obs, base, kind>>
      BY <2>5 DEF Restart, sky
    <3>3. passed' \in BOOLEAN /\ back' \in BOOLEAN /\ dip' \in {"none", "late", "seen"}
          /\ why' \subseteq {"waiting", "reopened"}
      BY <2>5 DEF Restart
    <3>4. most' = 0 /\ spike' = 0
      BY <2>5 DEF Restart
    <3>5. most' \in 0..MaxObs /\ spike' \in 0..2
      BY <1>0, <3>4
    <3>6. QED
      BY <1>0, <3>1, <3>2, <3>3, <3>5 DEF TypeOK
  <2>6. QED
    BY <1>1, <2>1, <2>2, <2>3, <2>4, <2>5 DEF World
<1>2. ASSUME NEW price \in Prices, Closed(price) PROVE TypeOK'
  <2>1. knife' \in Knives
    BY <1>0, <1>2, WatchedIs DEF Closed
  <2>2. spike' \in 0..2 /\ why' \subseteq {"waiting", "reopened"}
    BY <1>0, <1>2, SpikesIs DEF Closed
  <2>3. UNCHANGED <<today, phase, obs, base, rise, kind, most, back>>
    BY <1>2 DEF Closed, sky
  <2>4. passed' = FALSE /\ dip' \in {"none", "late", "seen"}
    BY <1>0, <1>2 DEF Closed
  <2>5. QED
    BY <1>0, <2>1, <2>2, <2>3, <2>4 DEF TypeOK
<1>3. ASSUME NEW n \in RiseLists, Asks(n) PROVE TypeOK'
  <2> DEFINE s == Latched(Today(rise), n)
  <2>1. rise' \in Rises /\ s \in Rises /\ most' \in 0..MaxObs /\ back' \in BOOLEAN
    BY <1>3, AsksIs
  <2>2. UNCHANGED <<today, phase, obs, base, kind>>
    BY <1>3 DEF Asks, sky
  <2>3. Goes(s) \/ (\E price \in Prices : StopsBefore(price, s))
    BY <1>3 DEF Asks
  <2> HIDE DEF s
  <2>4. /\ knife' \in Knives /\ passed' \in BOOLEAN /\ dip' \in {"none", "late", "seen"}
        /\ spike' \in 0..2 /\ why' \subseteq {"waiting", "reopened"}
    <3>1. ASSUME NEW price \in Prices, StopsBefore(price, s)
          PROVE  /\ knife' \in Knives /\ passed' \in BOOLEAN /\ dip' \in {"none", "late", "seen"}
                 /\ spike' \in 0..2 /\ why' \subseteq {"waiting", "reopened"}
      <4>1. s.latched \in BOOLEAN
        BY <2>1, RisesAre
      <4>2. knife' \in Knives
        BY <1>0, <3>1, <4>1, WatchedIs DEF StopsBefore
      <4>3. spike' \in 0..2 /\ why' \subseteq {"waiting", "reopened"}
        BY <1>0, <3>1, SpikesIs DEF StopsBefore
      <4>4. QED
        BY <1>0, <3>1, <4>2, <4>3 DEF StopsBefore
    <3>2. CASE Goes(s)
      <4> DEFINE w == Watched(knife, TRUE, "fair")
      <4>1. PICK first, second \in Rises : Decides(w, first, second)
        BY <1>0, <2>1, <3>2, GoesIs
      <4>2. w \in Knives
        BY <1>0, WatchedIs DEF Prices
      <4> HIDE DEF w
      <4>3. passed' \in BOOLEAN /\ dip' \in {"none", "late", "seen"} /\ Spikes(TRUE, "fair")
        BY <4>1 DEF Decides
      <4>4. knife' \in {NewBracket, [w EXCEPT !.waiting = TRUE], w}
        BY <4>1 DEF Decides
      <4>5. knife' \in Knives
        BY <4>2, <4>4, KnivesAre
      <4>6. spike' \in 0..2 /\ why' \subseteq {"waiting", "reopened"}
        <5>1. "fair" \in Prices
          BY DEF Prices
        <5>2. QED
          BY <1>0, <4>3, <5>1, SpikesIs
      <4>7. QED
        BY <4>3, <4>5, <4>6
    <3>3. QED
      BY <2>3, <3>1, <3>2
  <2>5. QED
    BY <1>0, <2>1, <2>2, <2>4 DEF TypeOK
<1>4. CASE UNCHANGED vars
  BY <1>4 DEF vars, sky, ghosts, TypeOK
<1>5. QED
  BY <1>1, <1>2, <1>3, <1>4 DEF Next, Look

(* Every variable of the morning gate keeps its type. *)
THEOREM TypeCorrect ==
    ASSUME GateAssumption
    PROVE  Spec => []TypeOK
<1>1. Init => TypeOK
  BY TypeInit
<1>2. TypeOK /\ [Next]_vars => TypeOK'
  BY TypeStep
<1>3. QED
  BY <1>1, <1>2, PTL DEF Spec

-----------------------------------------------------------------------------
(* The falling knife *)

\* A spike of one look has left its tick, one of two the guard, and neither
\* is old, as long as nothing has hidden it.
GuardHolds ==
    why = {} =>
        /\ spike = 1 => knife.tick /\ knife.above = "recent"
        /\ spike = 2 => knife.guard /\ knife.above = "recent"

\* What a look makes of the guard.
LEMMA GuardIs ==
    ASSUME NEW k \in Knives, NEW allowed \in BOOLEAN, NEW price \in Prices
    PROVE  /\ price = "above" /\ ~k.waiting =>
                 Watched(k, allowed, price).tick /\ Watched(k, allowed, price).above = "recent"
           /\ ~(allowed /\ ~k.open) =>
                 /\ price = "above" /\ ~k.waiting /\ (k.guard \/ k.tick) => Watched(k, allowed, price).guard
                 /\ price = "fair" /\ k.guard /\ k.above = "recent" =>
                       Watched(k, allowed, price).guard /\ Watched(k, allowed, price).above = "recent"
<1> DEFINE w == Windowed(k, allowed)
<1>1. /\ w \in Knives /\ w.waiting = k.waiting
      /\ ~(allowed /\ ~k.open) => w.guard = k.guard /\ w.tick = k.tick /\ w.above = k.above
  BY DEF Windowed, Forgiven, Knives
<1>2. Watched(k, allowed, price) = IF w.waiting THEN w ELSE Guarded(w, price)
  BY DEF Watched
<1> HIDE DEF w
<1>3. price = "above" => Guarded(w, price) = [w EXCEPT !.above = "recent", !.tick = TRUE, !.guard = w.guard \/ w.tick]
  BY DEF Guarded
<1>4. price = "fair" => Guarded(w, price) = IF w.guard /\ w.above = "old" THEN Forgiven(w) ELSE [w EXCEPT !.tick = FALSE]
  BY DEF Guarded
<1>5. price = "above" => /\ Guarded(w, price).tick /\ Guarded(w, price).above = "recent"
                         /\ Guarded(w, price).guard = (w.guard \/ w.tick)
  BY <1>1, <1>3 DEF Knives
<1>6. price = "fair" /\ w.guard /\ w.above = "recent" =>
         Guarded(w, price).guard /\ Guarded(w, price).above = "recent"
  BY <1>1, <1>4 DEF Knives
<1>7. QED
  BY <1>1, <1>2, <1>5, <1>6

\* A look that gets past the guard has no spike left, or a hidden one.
LEMMA GoesIsSafe ==
    ASSUME GateAssumption, TypeOK, GuardHolds, NEW s \in Rises, Goes(s)
    PROVE  spike' = 0 \/ why' # {}
<1>0. knife \in Knives /\ spike \in 0..2 /\ why \subseteq {"waiting", "reopened"} /\ obs \in Seq(Temps)
  BY DEF TypeOK
<1> DEFINE w == Watched(knife, TRUE, "fair")
<1>1. ~w.guard /\ \E first, second \in Rises : Decides(w, first, second)
  BY <1>0, GoesIs
<1> HIDE DEF w
<1>2. Spikes(TRUE, "fair") /\ "fair" \in Prices
  BY <1>1 DEF Decides, Prices
<1>3. /\ spike' = IF spike = 2 THEN 2 ELSE 0
      /\ why' = IF spike' = 0 THEN {}
                ELSE why \cup (IF knife.waiting /\ "fair" = "above" THEN {"waiting"} ELSE {})
                         \cup (IF TRUE /\ ~knife.open /\ spike > 0 THEN {"reopened"} ELSE {})
  BY <1>0, <1>2, SpikesIs
<1>4. ASSUME spike' # 0, why' = {} PROVE FALSE
  <2>1. spike = 2 /\ why = {} /\ knife.open
    BY <1>3, <1>4
  <2>2. knife.guard /\ knife.above = "recent"
    BY <2>1 DEF GuardHolds
  <2>3. w.guard
    BY <1>0, <1>2, <2>1, <2>2, GuardIs DEF w
  <2>4. QED
    BY <1>1, <2>3
<1>5. QED
  BY <1>4

LEMMA GuardStep == ASSUME GateAssumption, TypeOK, GuardHolds, [Next]_vars PROVE GuardHolds'
<1>0. knife \in Knives /\ spike \in 0..2 /\ why \subseteq {"waiting", "reopened"}
  BY DEF TypeOK
\* A look at the price, whatever comes of it.
<1>1. ASSUME NEW allowed \in BOOLEAN, NEW price \in Prices,
             Spikes(allowed, price), knife' = Watched(knife, allowed, price)
      PROVE  GuardHolds'
  <2>1. /\ price = "below" => spike' = 0
        /\ price = "above" => spike' = IF spike = 0 THEN 1 ELSE 2
        /\ price = "fair" => spike' = IF spike = 2 THEN 2 ELSE 0
        /\ why' = IF spike' = 0 THEN {}
                  ELSE why \cup (IF knife.waiting /\ price = "above" THEN {"waiting"} ELSE {})
                           \cup (IF allowed /\ ~knife.open /\ spike > 0 THEN {"reopened"} ELSE {})
    BY <1>0, <1>1, SpikesIs
  <2>2. CASE spike' = 0
    BY <2>2 DEF GuardHolds
  <2>3. CASE why' = {} /\ price = "above"
    <3>1. why = {} /\ ~knife.waiting /\ (spike > 0 => ~(allowed /\ ~knife.open))
      <4>1. spike' # 0
        BY <2>1, <2>3
      <4>2. QED
        BY <2>1, <2>3, <4>1
    <3>2. knife'.tick /\ knife'.above = "recent"
      BY <1>0, <1>1, <2>3, <3>1, GuardIs
    <3>3. spike' = 2 => spike = 1 \/ spike = 2
      BY <1>0, <2>1, <2>3
    <3>4. spike' = 2 => (knife.guard \/ knife.tick) /\ ~(allowed /\ ~knife.open)
      BY <3>1, <3>3 DEF GuardHolds
    <3>5. spike' = 2 => knife'.guard
      BY <1>0, <1>1, <2>3, <3>1, <3>4, GuardIs
    <3>6. QED
      BY <3>2, <3>5 DEF GuardHolds
  <2>4. CASE why' = {} /\ price = "fair" /\ spike' # 0
    <3>1. spike = 2 /\ spike' = 2
      BY <2>1, <2>4
    <3>2. why = {} /\ ~(allowed /\ ~knife.open)
      BY <2>1, <2>4, <3>1
    <3>3. knife.guard /\ knife.above = "recent"
      BY <3>1, <3>2 DEF GuardHolds
    <3>4. knife'.guard /\ knife'.above = "recent"
      BY <1>0, <1>1, <2>4, <3>2, <3>3, GuardIs
    <3>5. QED
      BY <3>1, <3>4 DEF GuardHolds
  <2>5. CASE why' # {}
    BY <2>5 DEF GuardHolds
  <2>6. QED
    BY <2>1, <2>2, <2>3, <2>4, <2>5 DEF Prices
<1>2. CASE World
  <2>1. ASSUME UNCHANGED <<knife, spike, why>> PROVE GuardHolds'
    BY <2>1 DEF GuardHolds
  <2>2. ASSUME spike' = 0 PROVE GuardHolds'
    BY <2>2 DEF GuardHolds
  <2>3. QED
    BY <1>2, <2>1, <2>2 DEF World, Observed, DayGoesOn, Midnight, TimePasses, Restart, ghosts
<1>3. ASSUME NEW price \in Prices, Closed(price) PROVE GuardHolds'
  BY <1>1, <1>3 DEF Closed
<1>4. ASSUME NEW n \in RiseLists, Asks(n) PROVE GuardHolds'
  <2> DEFINE s == Latched(Today(rise), n)
  <2>1. s \in Rises /\ (Goes(s) \/ (\E price \in Prices : StopsBefore(price, s)))
    BY <1>4, AsksIs DEF Asks
  <2> HIDE DEF s
  <2>2. ASSUME NEW price \in Prices, StopsBefore(price, s) PROVE GuardHolds'
    <3>1. s.latched \in BOOLEAN
      BY <2>1, RisesAre
    <3>2. QED
      BY <1>1, <2>2, <3>1 DEF StopsBefore
  <2>3. CASE Goes(s)
    BY <2>1, <2>3, GoesIsSafe DEF GuardHolds
  <2>4. QED
    BY <2>1, <2>2, <2>3
<1>5. CASE UNCHANGED vars
  BY <1>5 DEF vars, ghosts, GuardHolds
<1>6. QED
  BY <1>2, <1>3, <1>4, <1>5 DEF Next, Look

LEMMA KnifeStep ==
    ASSUME GateAssumption, TypeOK, GuardHolds, NoKnifeEntry, [Next]_vars
    PROVE  NoKnifeEntry'
<1>1. ASSUME passed' = FALSE PROVE NoKnifeEntry'
  BY <1>1, Zenon DEF NoKnifeEntry
<1>2. ASSUME UNCHANGED <<passed, spike, why>> PROVE NoKnifeEntry'
  BY <1>2, Zenon DEF NoKnifeEntry
<1>3. ASSUME spike' = 0 PROVE NoKnifeEntry'
  BY <1>3 DEF NoKnifeEntry
<1>4. CASE World
  BY <1>1, <1>2, <1>3, <1>4 DEF World, Observed, DayGoesOn, Midnight, TimePasses, Restart, ghosts
<1>5. ASSUME NEW price \in Prices, Closed(price) PROVE NoKnifeEntry'
  BY <1>1, <1>5 DEF Closed
<1>6. ASSUME NEW n \in RiseLists, Asks(n) PROVE NoKnifeEntry'
  <2> DEFINE s == Latched(Today(rise), n)
  <2>1. s \in Rises /\ (Goes(s) \/ (\E price \in Prices : StopsBefore(price, s)))
    BY <1>6, AsksIs DEF Asks
  <2> HIDE DEF s
  <2>2. ASSUME NEW price \in Prices, StopsBefore(price, s) PROVE NoKnifeEntry'
    BY <1>1, <2>2 DEF StopsBefore
  <2>3. CASE Goes(s)
    <3>1. spike' = 0 \/ why' # {}
      BY <2>1, <2>3, GoesIsSafe
    <3>2. QED
      BY <1>3, <3>1 DEF NoKnifeEntry
  <2>4. QED
    BY <2>1, <2>2, <2>3
<1>7. CASE UNCHANGED vars
  BY <1>2, <1>7 DEF vars, ghosts
<1>8. QED
  BY <1>4, <1>5, <1>6, <1>7 DEF Next, Look

(* "falling knife": after two looks in a row above the ceiling the bracket  *)
(* gets through only when the spike is forgotten, or was hidden from the    *)
(* guard by a waiting entry or by the sunrise gate.                         *)
THEOREM NoFallingKnife ==
    ASSUME GateAssumption
    PROVE  Spec => []NoKnifeEntry
<1> DEFINE Inv == TypeOK /\ GuardHolds /\ NoKnifeEntry
<1>1. Init => Inv
  <2>1. Init => GuardHolds /\ NoKnifeEntry
    BY DEF Init, GuardHolds, NoKnifeEntry
  <2>2. QED
    BY <2>1, TypeInit
<1>2. Inv /\ [Next]_vars => Inv'
  BY TypeStep, GuardStep, KnifeStep
<1>3. Inv => NoKnifeEntry
  OBVIOUS
<1> HIDE DEF Inv
<1>4. QED
  BY <1>1, <1>2, <1>3, PTL DEF Spec

-----------------------------------------------------------------------------
(* The day *)

\* Nothing of today is known before the window of the gate opens.
DayIsNew == phase < 3 => rise.date # today /\ ~passed /\ most = 0 /\ dip = "none"

\* What is remembered for today is of today.
MinWasObserved ==
    rise.date = today /\ rise.min # Warmest => \E j \in base + 1..most : obs[j] = rise.min
LatchIsEarned == rise.date = today /\ rise.latched => Risen \/ back
DipIsRemembered == dip # "none" => rise.date = today /\ rise.low < Line

MorningInv ==
    /\ rise.date <= today /\ most <= Len(obs)
    /\ DayIsNew /\ MinWasObserved /\ LatchIsEarned /\ DipIsRemembered
    /\ GateIsEarned

LEMMA MorningInit == ASSUME GateAssumption, Init PROVE MorningInv
<1>1. rise.date = 0 /\ ~rise.latched /\ today = 1 /\ most = 0 /\ dip = "none" /\ ~passed
  BY DEF Init, NoState
<1>2. Len(obs) = 0
  BY EmptySeq DEF Init
<1>3. DayIsNew /\ MinWasObserved /\ LatchIsEarned /\ DipIsRemembered /\ GateIsEarned
  BY <1>1 DEF DayIsNew, MinWasObserved, LatchIsEarned, DipIsRemembered, GateIsEarned
<1>4. rise.date <= today /\ most <= Len(obs)
  BY <1>1, <1>2
<1>5. QED
  BY <1>3, <1>4 DEF MorningInv

LEMMA RisenIsOfTheDay == ASSUME obs' = obs, base' = base PROVE Risen => Risen'
<1> DEFINE R(o, b) == \E n \in (b + 2)..Len(o) :
                         \A i \in {n - 1, n} : o[i] > Min({o[j] : j \in (b + 1)..n})
<1>1. (Risen <=> R(obs, base)) /\ (Risen' <=> R(obs', base'))
  BY DEF Risen
<1> HIDE DEF R
<1>2. R(obs, base) => R(obs', base')
  OBVIOUS
<1>3. QED
  BY <1>1, <1>2

\* One more observation of the day does not make a rise undone.
LEMMA RisenStays ==
    ASSUME GateAssumption, TypeOK, NEW t \in Temps, Observed(t), phase # 1, Risen
    PROVE  Risen'
<1>0. obs \in Seq(Temps) /\ Len(obs) \in Nat /\ base \in 0..Len(obs)
  BY LenProperties DEF TypeOK
<1>1. /\ Len(obs') = Len(obs) + 1 /\ base' = base
      /\ \A i \in 1..Len(obs) : obs'[i] = obs[i]
  <2>1. obs' = Append(obs, t) /\ base' = base
    BY DEF Observed
  <2>2. QED
    BY <1>0, <2>1, AppendProperties
<1>2. PICK n \in (base + 2)..Len(obs) :
        \A i \in {n - 1, n} : obs[i] > Min({obs[j] : j \in (base + 1)..n})
  BY DEF Risen
<1>3. {obs'[j] : j \in (base + 1)..n} = {obs[j] : j \in (base + 1)..n}
  <2>1. \A j \in (base + 1)..n : j \in 1..Len(obs)
    BY <1>0, <1>2
  <2>2. \A j \in (base + 1)..n : obs'[j] = obs[j]
    BY <1>1, <2>1
  <2>3. QED
    BY <2>2
<1>4. n - 1 \in 1..Len(obs) /\ n \in 1..Len(obs) /\ n \in (base' + 2)..Len(obs')
  BY <1>0, <1>1, <1>2
<1> DEFINE low == Min({obs[j] : j \in (base + 1)..n})
<1>5. Min({obs'[j] : j \in (base' + 1)..n}) = low
  BY <1>1, <1>3
<1>6. \A i \in {n - 1, n} : obs'[i] > low
  BY <1>1, <1>2, <1>4
<1> HIDE DEF low
<1>7. \A i \in {n - 1, n} : obs'[i] > Min({obs'[j] : j \in (base' + 1)..n})
  BY <1>5, <1>6
<1>8. QED
  BY <1>4, <1>7 DEF Risen

\* A latch set by a list that is the longest so far stands for a rise.
LEMMA LatchIsRise ==
    ASSUME GateAssumption, TypeOK, NEW n \in 0..Len(obs), n >= base + 2, NEW low \in Degrees,
           \A i \in {n - 1, n} : obs[i] >= low + 1,
           NEW j \in (base + 1)..n, low = obs[j]
    PROVE  Risen
<1>0. obs \in Seq(Temps) /\ Len(obs) \in Nat /\ base \in 0..Len(obs) /\ Temps \subseteq Nat
  BY LenProperties DEF TypeOK, GateAssumption
<1> DEFINE S == {obs[i] : i \in (base + 1)..n}
<1>1. \A i \in (base + 1)..n : i \in 1..Len(obs) /\ obs[i] \in Temps
  BY <1>0, LenProperties, ElementOfSeq
<1>2. S \subseteq Nat /\ low \in S /\ low \in Nat
  BY <1>0, <1>1
<1>3. Min(S) \in S /\ Min(S) <= low
  <2> HIDE DEF S
  <2>1. QED
    BY <1>2, MinIs
<1> DEFINE m == Min(S)
<1>4. m \in Nat /\ m <= low
  BY <1>2, <1>3
<1>5. obs[n - 1] \in Nat /\ obs[n] \in Nat
  <2>1. n - 1 \in (base + 1)..n /\ n \in (base + 1)..n
    BY <1>0
  <2>2. QED
    BY <1>0, <1>1, <2>1
<1> HIDE DEF m
<1>6. \A i \in {n - 1, n} : obs[i] > m
  BY <1>2, <1>4, <1>5
<1>7. n \in (base + 2)..Len(obs)
  BY <1>0
<1>8. QED
  BY <1>6, <1>7 DEF Risen, m

LEMMA WorldMorning == ASSUME GateAssumption, TypeOK, MorningInv, World PROVE MorningInv'
<1>0. /\ obs \in Seq(Temps) /\ Len(obs) \in Nat /\ base \in 0..Len(obs) /\ rise \in Rises
      /\ rise.date \in Nat /\ today \in 1..Dates /\ most \in 0..MaxObs /\ phase \in 1..3
      /\ rise.date <= today /\ most <= Len(obs) /\ Dates \in Nat
  BY LenProperties, RisesAre DEF TypeOK, MorningInv, GateAssumption
\* A new process, or a new day.
<1>1. ASSUME rise'.date # today', rise'.date <= today', most' = 0, Len(obs') \in Nat, ~passed', dip' = "none"
      PROVE  MorningInv'
  <2>1. DayIsNew' /\ MinWasObserved' /\ LatchIsEarned' /\ DipIsRemembered' /\ GateIsEarned'
    BY <1>1 DEF DayIsNew, MinWasObserved, LatchIsEarned, DipIsRemembered, GateIsEarned
  <2>2. most' <= Len(obs')
    BY <1>1
  <2>3. QED
    BY <1>1, <2>1, <2>2 DEF MorningInv
\* Nothing that is remembered changes, and nothing is unseen.
<1>2. ASSUME rise'.date = rise.date, rise'.min = rise.min, rise'.low = rise.low, rise'.latched = rise.latched,
             UNCHANGED <<today, passed, dip, most, back, kind>>,
             Len(obs') \in Nat, Len(obs) <= Len(obs'), phase' < 3 => phase < 3,
             phase = 3 => base' = base /\ (\A i \in 1..Len(obs) : obs'[i] = obs[i]) /\ (Risen => Risen')
      PROVE  MorningInv'
  <2>1. CASE phase < 3
    <3>1. rise'.date # today' /\ rise'.date <= today' /\ most' = 0 /\ ~passed' /\ dip' = "none"
      BY <1>0, <1>2, <2>1 DEF MorningInv, DayIsNew
    <3>2. QED
      BY <1>1, <1>2, <3>1
  <2>2. CASE ~(phase < 3)
    <3>1. phase = 3 /\ ~(phase' < 3)
      BY <1>0, <1>2, <2>2
    <3>2. most' <= Len(obs') /\ rise'.date <= today'
      BY <1>0, <1>2
    <3>3. DayIsNew' /\ DipIsRemembered'
      BY <1>2, <3>1 DEF DayIsNew, DipIsRemembered, MorningInv
    <3>4. LatchIsEarned'
      BY <1>2, <3>1 DEF LatchIsEarned, MorningInv
    <3>5. GateIsEarned'
      BY <1>2, <3>1 DEF GateIsEarned, MorningInv
    <3>6. MinWasObserved'
      <4>1. SUFFICES ASSUME rise'.date = today', rise'.min # Warmest
                     PROVE  \E j \in base' + 1..most' : obs'[j] = rise'.min
        BY DEF MinWasObserved
      <4>2. PICK j \in base + 1..most : obs[j] = rise.min
        BY <1>2, <4>1 DEF MinWasObserved, MorningInv
      <4>3. j \in 1..Len(obs)
        BY <1>0, <4>2
      <4>4. obs'[j] = rise'.min
        BY <1>2, <3>1, <4>2, <4>3
      <4>5. QED
        BY <1>2, <3>1, <4>2, <4>4
    <3>7. QED
      BY <3>2, <3>3, <3>4, <3>5, <3>6 DEF MorningInv
  <2>3. QED
    BY <2>1, <2>2
<1>3. ASSUME NEW t \in Temps, Observed(t) PROVE MorningInv'
  <2>1. obs' = Append(obs, t) /\ UNCHANGED <<today, phase, rise, kind, passed, dip, most, back>>
    BY <1>3 DEF Observed, ghosts
  <2>2. Len(obs') = Len(obs) + 1 /\ \A i \in 1..Len(obs) : obs'[i] = obs[i]
    BY <1>0, <2>1, AppendProperties
  <2>3. phase = 3 => base' = base
    BY <1>3 DEF Observed
  <2>4. phase = 3 /\ Risen => Risen'
    BY <1>3, RisenStays
  <2>5. Len(obs') \in Nat /\ Len(obs) <= Len(obs') /\ (phase' < 3 => phase < 3)
    BY <1>0, <2>1, <2>2
  <2>6. QED
    BY <1>2, <2>1, <2>2, <2>3, <2>4, <2>5
<1>4. CASE DayGoesOn
  <2>1. phase < 3 /\ UNCHANGED <<today, obs, base, rise, kind, passed, dip, most, back>>
    BY <1>4 DEF DayGoesOn, ghosts
  <2>2. Len(obs') \in Nat /\ Len(obs) <= Len(obs')
    BY <1>0, <2>1
  <2>3. QED
    BY <1>2, <2>1, <2>2
<1>5. CASE Midnight
  <2>1. today' = today + 1 /\ obs' = <<>> /\ most' = 0 /\ dip' = "none" /\ UNCHANGED rise
    BY <1>5 DEF Midnight
  <2>2. ~passed'
    BY <1>5 DEF Midnight
  <2>3. rise'.date # today' /\ rise'.date <= today' /\ Len(obs') \in Nat
    BY <1>0, <2>1, EmptySeq
  <2>4. QED
    BY <1>1, <2>1, <2>2, <2>3
<1>6. ASSUME NEW long \in BOOLEAN, TimePasses(long) PROVE MorningInv'
  <2>1. rise' = [rise EXCEPT !.fresh = FALSE]
    BY <1>6 DEF TimePasses
  <2>2. rise'.date = rise.date /\ rise'.min = rise.min /\ rise'.low = rise.low /\ rise'.latched = rise.latched
    BY <1>0, <2>1 DEF Rises
  <2>3. UNCHANGED <<today, phase, obs, base, kind, passed, dip, most, back>>
    BY <1>6 DEF TimePasses, sky
  <2>4. Risen => Risen'
    <3>1. obs' = obs /\ base' = base
      BY <2>3
    <3>2. QED
      BY <3>1, RisenIsOfTheDay
  <2>5. Len(obs') \in Nat /\ Len(obs) <= Len(obs')
    BY <1>0, <2>3
  <2>6. QED
    BY <1>2, <2>2, <2>3, <2>4, <2>5
<1>7. CASE Restart
  <2>1. rise' = NoState /\ UNCHANGED <<today, obs>> /\ most' = 0 /\ dip' = "none"
    BY <1>7 DEF Restart, sky
  <2>2. ~passed'
    BY <1>7 DEF Restart
  <2>3. rise'.date = 0
    BY <2>1 DEF NoState
  <2>4. rise'.date # today' /\ rise'.date <= today' /\ Len(obs') \in Nat
    BY <1>0, <2>1, <2>3
  <2>5. QED
    BY <1>1, <2>1, <2>2, <2>4
<1>8. QED
  BY <1>3, <1>4, <1>5, <1>6, <1>7 DEF World

LEMMA LookMorning == ASSUME GateAssumption, TypeOK, MorningInv, Look PROVE MorningInv'
<1>0. /\ obs \in Seq(Temps) /\ Len(obs) \in Nat /\ base \in 0..Len(obs) /\ rise \in Rises
      /\ rise.date \in Nat /\ today \in 1..Dates /\ today \in Nat /\ most \in 0..MaxObs /\ phase \in 1..3
      /\ rise.date <= today /\ most <= Len(obs) /\ rise.low \in Nat
      /\ dip \in {"none", "late", "seen"} /\ kind \in {"hard", "top"}
  BY LenProperties, RisesAre, WarmestIs DEF TypeOK, MorningInv, GateAssumption, Degrees
<1>1. ASSUME NEW price \in Prices, Closed(price) PROVE MorningInv'
  <2>1. UNCHANGED <<today, phase, obs, base, rise, kind, most, back>>
    BY <1>1 DEF Closed, sky
  <2>2. ~passed'
    BY <1>1 DEF Closed
  <2>3. dip' = IF dip = "late" THEN "seen" ELSE dip
    BY <1>1 DEF Closed
  <2>4. GateIsEarned'
    BY <2>2 DEF GateIsEarned
  <2>5. DayIsNew' /\ MinWasObserved' /\ DipIsRemembered'
    BY <2>1, <2>2, <2>3 DEF DayIsNew, MinWasObserved, DipIsRemembered, MorningInv
  <2>6. Risen => Risen'
    BY <2>1, RisenIsOfTheDay
  <2>7. LatchIsEarned'
    BY <2>1, <2>6 DEF LatchIsEarned, MorningInv
  <2>8. rise'.date <= today' /\ most' <= Len(obs')
    BY <1>0, <2>1
  <2>9. QED
    BY <2>4, <2>5, <2>7, <2>8 DEF MorningInv
<1>2. ASSUME NEW n \in RiseLists, Asks(n), phase = 3 PROVE MorningInv'
  <2> DEFINE r == Today(rise)
             s == Latched(r, n)
  <2>1. /\ n \in base..Len(obs) /\ n \in 0..Len(obs) /\ s \in Rises
        /\ s.low = r.low /\ s.date = today
        /\ rise' \in Rises /\ rise'.date = today /\ rise'.min = s.min /\ rise'.latched = s.latched
        /\ rise'.low <= s.low
        /\ most' \in 0..MaxObs /\ most <= most' /\ (n > base => n <= most') /\ (most' # most => most' = n)
        /\ back' \in BOOLEAN /\ (back => back') /\ (n > base /\ n < most => back')
    BY <1>2, AsksIs
  <2>2. /\ r \in Rises /\ r.date = today /\ (rise.date = today => r = rise)
        /\ rise.date # today => r.min = Warmest /\ ~r.latched /\ r.low = Warmest
    BY <1>0, TodayIs
  <2>3. /\ \/ s.min = r.min
           \/ n > base /\ \E j \in base + 1..n : s.min = obs[j]
        /\ s.latched =>
             \/ r.latched
             \/ /\ n >= base + 2
                /\ \A i \in {n - 1, n} : obs[i] >= s.min + 1
    BY <1>0, <2>1, <2>2, LatchedIs
  <2>4. Goes(s) \/ (\E price \in Prices : StopsBefore(price, s))
    BY <1>2 DEF Asks
  <2>5. UNCHANGED <<today, phase, obs, base, kind>>
    BY <1>2 DEF Asks, sky
  <2>6. s.min \in Degrees /\ s.low \in Nat /\ r.low \in Nat /\ rise'.low \in Nat /\ Degrees \subseteq Nat
    BY <2>1, <2>2, RisesAre, WarmestIs DEF Degrees, GateAssumption
  <2> HIDE DEF r, s
  \* The least degree of the rise check.
  <2>7. s.min # Warmest => \E j \in base + 1..most' : obs[j] = s.min
    <3>1. ASSUME s.min = r.min, s.min # Warmest PROVE \E j \in base + 1..most' : obs[j] = s.min
      <4>1. rise.date = today /\ rise.min # Warmest /\ s.min = rise.min
        BY <2>2, <3>1
      <4>2. PICK j \in base + 1..most : obs[j] = s.min
        BY <4>1 DEF MorningInv, MinWasObserved
      <4>3. j \in base + 1..most'
        BY <1>0, <2>1, <4>2
      <4>4. QED
        BY <4>2, <4>3
    <3>2. ASSUME n > base, NEW j \in base + 1..n, s.min = obs[j]
          PROVE  \E i \in base + 1..most' : obs[i] = s.min
      <4>1. j \in base + 1..most'
        BY <1>0, <2>1, <3>2
      <4>2. QED
        BY <3>2, <4>1
    <3>3. QED
      BY <2>3, <3>1, <3>2
  <2>8. MinWasObserved'
    BY <2>1, <2>5, <2>7 DEF MinWasObserved
  \* The latch.
  <2>9. s.latched => Risen \/ back'
    <3>1. ASSUME r.latched PROVE Risen \/ back'
      BY <2>1, <2>2, <3>1 DEF MorningInv, LatchIsEarned
    <3>2. ASSUME n >= base + 2, \A i \in {n - 1, n} : obs[i] >= s.min + 1, ~back' PROVE Risen
      <4>1. n > base /\ n >= most
        BY <1>0, <2>1, <3>2
      <4>2. most' = n
        BY <1>0, <2>1, <4>1
      <4>3. \E j \in base + 1..n : obs[j] = s.min
        <5>1. ASSUME s.min = Warmest PROVE FALSE
          <6>1. obs[n] \in Temps
            BY <1>0, <2>1, <3>2, LenProperties, ElementOfSeq
          <6>2. \A y \in Temps : y < Warmest
            BY WarmestIs
          <6>3. obs[n] \in Nat /\ obs[n] >= s.min + 1 /\ Warmest \in Nat
            BY <3>2, <6>1, WarmestIs DEF GateAssumption
          <6>4. QED
            BY <5>1, <6>1, <6>2, <6>3
        <5>2. QED
          BY <2>7, <4>2, <5>1
      <4>4. QED
        BY <2>1, <2>6, <3>2, <4>3, LatchIsRise
    <3>3. QED
      BY <2>3, <3>1, <3>2
  <2>10. Risen => Risen'
    BY <2>5, RisenIsOfTheDay
  <2>11. LatchIsEarned'
    BY <2>1, <2>9, <2>10 DEF LatchIsEarned
  <2>12. DayIsNew'
    BY <1>2, <2>5 DEF DayIsNew
  <2>13. rise'.date <= today' /\ most' <= Len(obs')
    BY <1>0, <2>1, <2>5
  \* A dip of today is in the day minimum.
  <2>14. dip # "none" => rise.date = today /\ s.low < Line
    <3>1. dip # "none" => rise.date = today /\ rise.low < Line
      BY DEF MorningInv, DipIsRemembered
    <3>2. QED
      BY <2>1, <2>2, <3>1
  <2>15. DipIsRemembered' /\ GateIsEarned'
    <3>1. ASSUME NEW price \in Prices, StopsBefore(price, s) PROVE DipIsRemembered' /\ GateIsEarned'
      <4>1. ~passed'
        BY <3>1 DEF StopsBefore
      <4>2. rise' = s /\ (dip' # "none" => dip # "none")
        BY <3>1 DEF StopsBefore
      <4>3. DipIsRemembered'
        BY <2>1, <2>5, <2>14, <4>2 DEF DipIsRemembered
      <4>4. QED
        BY <4>1, <4>3 DEF GateIsEarned
    <3>2. CASE Goes(s)
      <4>1. PICK first, second \in Rises :
              /\ Decides(Watched(knife, TRUE, "fair"), first, second)
              /\ second.date = s.date /\ second.min = s.min /\ second.latched = s.latched
              /\ first.low <= s.low /\ second.low <= first.low
        BY <1>0, <2>1, <3>2, GoesIs
      <4>2. s.latched
        BY <1>0, <2>1, <3>2, GoesIs
      <4>3. /\ rise' = second /\ passed' = (~DippedBelow(first) /\ ~Unreached(second))
            /\ dip' = IF dip # "none" \/ DippedBelow(first) THEN "seen"
                      ELSE IF DippedBelow(second) THEN "late" ELSE "none"
        BY <4>1 DEF Decides
      <4>4. /\ first.low \in Nat /\ second.low \in Nat /\ second.low \in Degrees /\ Line \in Nat
            /\ Line < Warmest /\ Warmest \in Nat
        BY <4>1, RisesAre, WarmestIs DEF Degrees, GateAssumption
      <4>5. dip # "none" => first.low < Line
        BY <2>6, <2>14, <4>1, <4>4
      <4>6. first.low < Line => second.low < Line
        BY <4>1, <4>4
      <4>7. DipIsRemembered'
        <5>1. dip' # "none" => second.low < Line
          BY <4>3, <4>5, <4>6 DEF DippedBelow
        <5>2. QED
          BY <2>1, <2>5, <4>3, <5>1 DEF DipIsRemembered
      <4>8. passed' => dip' # "seen"
        BY <4>3, <4>5 DEF DippedBelow
      <4>9. passed' /\ dip' = "late" => kind = "top"
        <5>1. ASSUME passed', dip' = "late" PROVE kind = "top"
          <6>1. second.low < Line /\ ~Unreached(second)
            BY <4>3, <5>1 DEF DippedBelow
          <6>2. second.low \in Temps \ {Line}
            BY <4>4, <6>1 DEF Degrees
          <6>3. QED
            BY <1>0, <6>1, <6>2 DEF Unreached
        <5>2. QED
          BY <5>1
      <4>10. passed' => Risen' \/ back'
        BY <2>9, <2>10, <4>2
      <4>11. GateIsEarned'
        BY <2>5, <4>8, <4>9, <4>10 DEF GateIsEarned
      <4>12. QED
        BY <4>7, <4>11
    <3>3. QED
      BY <2>4, <3>1, <3>2
  <2>16. QED
    BY <2>8, <2>11, <2>12, <2>13, <2>15 DEF MorningInv
<1>3. QED
  BY <1>1, <1>2 DEF Look

(* A bracket gets through the morning only on a day whose own observations  *)
(* have risen since the baseline and were not below the bracket, as far as  *)
(* this process could see.                                                  *)
THEOREM MorningIsEarned ==
    ASSUME GateAssumption
    PROVE  Spec => []GateIsEarned
<1> DEFINE Inv == TypeOK /\ MorningInv
<1>1. Init => Inv
  BY TypeInit, MorningInit
<1>2. Inv /\ [Next]_vars => Inv'
  <2>1. ASSUME Inv, [Next]_vars PROVE Inv'
    <3>1. TypeOK'
      BY <2>1, TypeStep
    <3>2. CASE World
      BY <2>1, <3>1, <3>2, WorldMorning
    <3>3. CASE Look
      BY <2>1, <3>1, <3>3, LookMorning
    <3>4. CASE UNCHANGED vars
      <4>1. Risen => Risen'
        BY <3>4, RisenIsOfTheDay DEF vars, sky
      <4>2. QED
        BY <2>1, <3>1, <3>4, <4>1
           DEF vars, sky, ghosts, MorningInv, DayIsNew, MinWasObserved, LatchIsEarned, DipIsRemembered, GateIsEarned
    <3>5. QED
      BY <2>1, <3>2, <3>3, <3>4 DEF Next
  <2>2. QED
    BY <2>1
<1>3. Inv => GateIsEarned
  BY DEF MorningInv
<1> HIDE DEF Inv
<1>4. QED
  BY <1>1, <1>2, <1>3, PTL DEF Spec
=============================================================================
