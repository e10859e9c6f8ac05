---------------------------- MODULE ChaserProofs ----------------------------
(***************************************************************************)
(* Proofs about Chaser, for any target and cap, any prices, and any number *)
(* of orders, placements, entries and faults.                              *)
(*                                                                         *)
(*   TypeInv    types, and what the chaser remembers where it needs it.    *)
(*   BookInv    how many orders are on the book at each await: looking at  *)
(*              the book makes room for one, failures hide the others.     *)
(*   CalmInv    without failures, and without the moments nobody looks at, *)
(*              the one order on the book is the chaser's own and what it  *)
(*              still works for fits under the target.                     *)
(***************************************************************************)
EXTENDS Chaser, FiniteSetTheorems, WellFoundedInduction, TLAPS

-----------------------------------------------------------------------------
(* Sums over the orders: what the library's fold returns for h, a function  *)
(* on the ids.                                                              *)

Slots == 1..Ids

Pick(s) == CHOOSE x \in s : TRUE

IsSum(g, h, X) == g = [s \in SUBSET X |-> IF s = {} THEN 0 ELSE h[Pick(s)] + g[s \ {Pick(s)}]]
SumOf(h, X) == (CHOOSE g : IsSum(g, h, X))[X]

LEMMA PickIs == \A s : s # {} => Pick(s) \in s /\ s \ {Pick(s)} \subseteq s /\ s \ {Pick(s)} # s
  BY DEF Pick

LEMMA Constants ==
    /\ Target \in Nat /\ Target > 0 /\ Cap \in Nat /\ Cap >= Target
    /\ Ids \in Nat /\ Ids > 0
    /\ MaxPlaced \in Nat /\ MaxEntries \in Nat /\ Budget \in Nat
    /\ Bids \subseteq Nat \ {0} /\ FaultKinds \subseteq Faults
  BY ConstantsAssumption

\* The orders are finitely many.
LEMMA FiniteBook == \A S \in SUBSET Slots : IsFiniteSet(S)
<1>1. IsFiniteSet(Slots)
  BY Constants, FS_Interval DEF Slots
<1>2. QED
  BY <1>1, FS_Subset

\* A family of sets of orders has a least member; inductions go by it.
LEMMA LeastSet ==
    ASSUME NEW U, U \subseteq SUBSET Slots, U # {}
    PROVE  \E X \in U : \A Y \in U : Y \subseteq X => Y = X
<1>1. IsWellFoundedOn(StrictSubsetOrdering(Slots), FiniteSubsetsOf(Slots))
  BY FS_StrictSubsetOrderingWellFounded
<1>2. U \subseteq FiniteSubsetsOf(Slots)
  BY FiniteBook DEF FiniteSubsetsOf
<1>3. \E X \in U : \A Y \in U : ~ (<<Y, X>> \in StrictSubsetOrdering(Slots))
  BY <1>1, <1>2, WFMin
<1>4. \A X, Y \in U : Y \subseteq X /\ Y # X => <<Y, X>> \in StrictSubsetOrdering(Slots)
  BY DEF StrictSubsetOrdering
<1>5. QED
  BY <1>3, <1>4

\* A sum of natural numbers is one.
LEMMA SumIsNat ==
    ASSUME NEW h \in [Slots -> Nat], NEW X \in SUBSET Slots, NEW g, IsSum(g, h, X)
    PROVE  \A s \in SUBSET X : g[s] \in Nat
<1> DEFINE U == {s \in SUBSET X : g[s] \notin Nat}
<1>1. \A s \in SUBSET X : g[s] = IF s = {} THEN 0 ELSE h[Pick(s)] + g[s \ {Pick(s)}]
  BY DEF IsSum
<1>2. ASSUME U # {} PROVE FALSE
  <2>1. PICK s \in U : \A r \in U : r \subseteq s => r = s
    <3>1. U \subseteq SUBSET Slots
      OBVIOUS
    <3> HIDE DEF U
    <3>2. QED
      BY <1>2, <3>1, LeastSet
  <2>2. s \in SUBSET X /\ g[s] \notin Nat
    OBVIOUS
  <2>3. s # {}
    <3>1. g[{}] = 0
      BY <1>1
    <3>2. QED
      BY <2>2, <3>1
  <2>4. Pick(s) \in Slots /\ s \ {Pick(s)} \in SUBSET X /\ g[s \ {Pick(s)}] \in Nat
    BY <2>1, <2>2, <2>3, PickIs
  <2>5. g[s] = h[Pick(s)] + g[s \ {Pick(s)}]
    BY <1>1, <2>2, <2>3
  <2>6. QED
    BY <2>2, <2>4, <2>5
<1>3. QED
  BY <1>2

\* There is only one such sum.
LEMMA SumIsOne ==
    ASSUME NEW h \in [Slots -> Nat], NEW X \in SUBSET Slots, NEW Z \in SUBSET Slots,
           NEW g, IsSum(g, h, X), NEW f, IsSum(f, h, Z)
    PROVE  \A s \in SUBSET (X \cap Z) : g[s] = f[s]
<1> DEFINE U == {s \in SUBSET (X \cap Z) : g[s] # f[s]}
<1>1. /\ \A s \in SUBSET X : g[s] = IF s = {} THEN 0 ELSE h[Pick(s)] + g[s \ {Pick(s)}]
      /\ \A s \in SUBSET Z : f[s] = IF s = {} THEN 0 ELSE h[Pick(s)] + f[s \ {Pick(s)}]
  BY DEF IsSum
<1>2. ASSUME U # {} PROVE FALSE
  <2>1. PICK s \in U : \A r \in U : r \subseteq s => r = s
    <3>1. U \subseteq SUBSET Slots
      OBVIOUS
    <3> HIDE DEF U
    <3>2. QED
      BY <1>2, <3>1, LeastSet
  <2>2. s \in SUBSET X /\ s \in SUBSET Z /\ s \in SUBSET (X \cap Z) /\ g[s] # f[s]
    OBVIOUS
  <2>3. s # {}
    BY <1>1, <2>2
  <2> DEFINE r == s \ {Pick(s)}
  <2>4. r \subseteq s /\ r # s
    BY <2>3, PickIs
  <2>5. g[r] = f[r]
    BY <2>1, <2>2, <2>4
  <2>6. g[s] = h[Pick(s)] + g[r] /\ f[s] = h[Pick(s)] + f[r]
    BY <1>1, <2>2, <2>3
  <2>7. QED
    BY <2>2, <2>5, <2>6
<1>3. QED
  BY <1>2

LEMMA SumExists ==
    ASSUME NEW h \in [Slots -> Nat], NEW W \in SUBSET Slots
    PROVE  \E g : IsSum(g, h, W)
<1> DEFINE U == {X \in SUBSET Slots : ~ \E g : IsSum(g, h, X)}
<1>1. ASSUME U # {} PROVE FALSE
  <2>1. PICK X \in U : \A Y \in U : Y \subseteq X => Y = X
    <3>1. U \subseteq SUBSET Slots
      OBVIOUS
    <3> HIDE DEF U
    <3>2. QED
      BY <1>1, <3>1, LeastSet
  <2>2. X \in SUBSET Slots /\ ~ \E g : IsSum(g, h, X)
    OBVIOUS
  <2> DEFINE F(s) == CHOOSE g : IsSum(g, h, s)
             V(s) == IF s = {} THEN 0 ELSE h[Pick(s)] + F(s \ {Pick(s)})[s \ {Pick(s)}]
             G == [s \in SUBSET X |-> V(s)]
  <2>3. ASSUME NEW s \in SUBSET X, s # X PROVE IsSum(F(s), h, s)
    <3>1. \E g : IsSum(g, h, s)
      BY <2>1, <2>2, <2>3
    <3>2. QED
      BY <3>1
  <2>4. ASSUME NEW r \in SUBSET X, r # X PROVE F(r)[r] = V(r)
    <3>1. IsSum(F(r), h, r)
      BY <2>3, <2>4
    <3>2. CASE r = {}
      <4> HIDE DEF F
      <4>1. QED
        BY <3>1, <3>2 DEF IsSum
    <3>3. CASE r # {}
      <4> DEFINE p == r \ {Pick(r)}
      <4>1. p \in SUBSET r /\ p \in SUBSET X /\ p # X /\ p \in SUBSET Slots /\ r \in SUBSET Slots
        BY <2>2, <2>4, <3>3, PickIs
      <4>2. IsSum(F(p), h, p)
        BY <2>3, <4>1
      <4> HIDE DEF F, p
      <4>3. F(r)[r] = h[Pick(r)] + F(r)[r \ {Pick(r)}]
        BY <3>1, <3>3 DEF IsSum
      <4>4. \A q \in SUBSET (r \cap p) : F(r)[q] = F(p)[q]
        BY <3>1, <4>1, <4>2, SumIsOne
      <4>5. F(r)[p] = F(p)[p]
        BY <4>1, <4>4
      <4> USE DEF p
      <4>6. QED
        BY <3>3, <4>3, <4>5
    <3>4. QED
      BY <3>2, <3>3
  <2>5. ASSUME NEW s \in SUBSET X PROVE G[s] = IF s = {} THEN 0 ELSE h[Pick(s)] + G[s \ {Pick(s)}]
    <3>1. CASE s = {}
      BY <3>1
    <3>2. CASE s # {}
      <4>1. s \ {Pick(s)} \in SUBSET X /\ s \ {Pick(s)} # X
        BY <3>2, PickIs
      <4>2. G[s \ {Pick(s)}] = V(s \ {Pick(s)}) /\ G[s] = h[Pick(s)] + F(s \ {Pick(s)})[s \ {Pick(s)}]
        BY <3>2, <4>1
      <4> HIDE DEF V, G, F
      <4>3. QED
        BY <2>4, <3>2, <4>1, <4>2
    <3>3. QED
      BY <3>1, <3>2
  <2>6. IsSum(G, h, X)
    <3>1. G = [s \in SUBSET X |-> G[s]]
      OBVIOUS
    <3> HIDE DEF G
    <3>2. QED
      BY <2>5, <3>1 DEF IsSum
  <2>7. QED
    BY <2>2, <2>6
<1>2. QED
  BY <1>1

\* The sum over no order is 0, over one order what it has.
LEMMA SumIs ==
    ASSUME NEW h \in [Slots -> Nat]
    PROVE  /\ \A X \in SUBSET Slots : SumOf(h, X) \in Nat
           /\ SumOf(h, {}) = 0
           /\ \A i \in Slots : SumOf(h, {i}) = h[i]
<1>1. ASSUME NEW X \in SUBSET Slots
      PROVE  \E g : IsSum(g, h, X) /\ SumOf(h, X) = g[X]
  <2>1. IsSum(CHOOSE g : IsSum(g, h, X), h, X)
    BY SumExists
  <2>2. QED
    BY <2>1 DEF SumOf
<1>2. ASSUME NEW X \in SUBSET Slots PROVE SumOf(h, X) \in Nat
  <2>1. PICK g : IsSum(g, h, X) /\ SumOf(h, X) = g[X]
    BY <1>1
  <2>2. QED
    BY <2>1, SumIsNat
<1>3. SumOf(h, {}) = 0
  <2>1. PICK g : IsSum(g, h, {}) /\ SumOf(h, {}) = g[{}]
    BY <1>1
  <2>2. QED
    BY <2>1 DEF IsSum
<1>4. ASSUME NEW i \in Slots PROVE SumOf(h, {i}) = h[i]
  <2>1. PICK g : IsSum(g, h, {i}) /\ SumOf(h, {i}) = g[{i}]
    BY <1>1
  <2>2. Pick({i}) = i /\ {i} \ {i} = {} /\ {i} # {}
    BY DEF Pick
  <2>3. \A s \in SUBSET {i} : g[s] = IF s = {} THEN 0 ELSE h[Pick(s)] + g[s \ {Pick(s)}]
    BY <2>1 DEF IsSum
  <2>4. g[{}] = 0 /\ g[{i}] = h[i] + g[{}]
    BY <2>2, <2>3
  <2>5. QED
    BY <2>1, <2>4
<1>5. QED
  BY <1>2, <1>3, <1>4

-----------------------------------------------------------------------------
(* Orders and the chaser's variables *)

Orders == [price : Bids \cup {0}, rest : 0..Target, filled : 0..Target]
Books == [1..Ids -> Orders]

Stages == {"idle", "gate", "skip", "list", "cancel", "harvest", "place", "sleep", "stop"}
Sizes == 0..Target
Names == 0..Ids
Prices == Bids \cup {0}
Chasers == [pc : Stages, n : Sizes, id : Names, last : Nat, bid : Prices, size : Sizes,
            old : Names, closed : BOOLEAN]

LEMMA ChaserParts ==
    /\ \A n \in Sizes : n \in Nat /\ n <= Target
    /\ 0 \in Sizes /\ 0 \in Names /\ 0 \in Prices
    /\ Slots \subseteq Names /\ Bids \subseteq Prices
    /\ \A i \in Names : i # 0 => i \in Slots
    /\ {"idle", "gate", "skip", "list", "cancel", "harvest", "place", "sleep", "stop"}
         \subseteq Stages
  BY Constants DEF Sizes, Names, Prices, Slots, Stages

\* The sums of a book, over one order or none.
IsRest(o, g, X) == g = [s \in SUBSET X |-> IF s = {} THEN 0 ELSE o[Pick(s)].rest + g[s \ {Pick(s)}]]
IsFilled(o, g, X) == g = [s \in SUBSET X |-> IF s = {} THEN 0 ELSE o[Pick(s)].filled + g[s \ {Pick(s)}]]
RestOf(o, X) == (CHOOSE g : IsRest(o, g, X))[X]
FilledOf(o, X) == (CHOOSE g : IsFilled(o, g, X))[X]

LEMMA RestIs ==
    ASSUME NEW o \in Books
    PROVE  /\ \A X \in SUBSET Slots : RestOf(o, X) \in Nat
           /\ RestOf(o, {}) = 0
           /\ \A i \in Slots : RestOf(o, {i}) = o[i].rest
<1> DEFINE h == [i \in Slots |-> o[i].rest]
<1>1. h \in [Slots -> Nat]
  BY Constants DEF Books, Orders, Slots
<1>2. ASSUME NEW X \in SUBSET Slots PROVE RestOf(o, X) = SumOf(h, X)
  <2>1. ASSUME NEW g PROVE IsRest(o, g, X) <=> IsSum(g, h, X)
    <3>1. \A s \in SUBSET X : s # {} => o[Pick(s)].rest = h[Pick(s)]
      BY PickIs
    <3> HIDE DEF h
    <3>2. [s \in SUBSET X |-> IF s = {} THEN 0 ELSE o[Pick(s)].rest + g[s \ {Pick(s)}]]
        = [s \in SUBSET X |-> IF s = {} THEN 0 ELSE h[Pick(s)] + g[s \ {Pick(s)}]]
      BY <3>1
    <3>3. QED
      BY <3>2 DEF IsRest, IsSum
  <2> HIDE DEF h
  <2>2. (CHOOSE g : IsRest(o, g, X)) = (CHOOSE g : IsSum(g, h, X))
    BY <2>1
  <2>3. QED
    BY <2>2 DEF RestOf, SumOf
<1>3. \A i \in Slots : h[i] = o[i].rest
  OBVIOUS
<1> HIDE DEF h
<1>4. QED
  BY <1>1, <1>2, <1>3, SumIs

LEMMA FilledIs ==
    ASSUME NEW o \in Books
    PROVE  /\ \A X \in SUBSET Slots : FilledOf(o, X) \in Nat
           /\ FilledOf(o, {}) = 0
           /\ \A i \in Slots : FilledOf(o, {i}) = o[i].filled
<1> DEFINE h == [i \in Slots |-> o[i].filled]
<1>1. h \in [Slots -> Nat]
  BY Constants DEF Books, Orders, Slots
<1>2. ASSUME NEW X \in SUBSET Slots PROVE FilledOf(o, X) = SumOf(h, X)
  <2>1. ASSUME NEW g PROVE IsFilled(o, g, X) <=> IsSum(g, h, X)
    <3>1. \A s \in SUBSET X : s # {} => o[Pick(s)].filled = h[Pick(s)]
      BY PickIs
    <3> HIDE DEF h
    <3>2. [s \in SUBSET X |-> IF s = {} THEN 0 ELSE o[Pick(s)].filled + g[s \ {Pick(s)}]]
        = [s \in SUBSET X |-> IF s = {} THEN 0 ELSE h[Pick(s)] + g[s \ {Pick(s)}]]
      BY <3>1
    <3>3. QED
      BY <3>2 DEF IsFilled, IsSum
  <2> HIDE DEF h
  <2>2. (CHOOSE g : IsFilled(o, g, X)) = (CHOOSE g : IsSum(g, h, X))
    BY <2>1
  <2>3. QED
    BY <2>2 DEF FilledOf, SumOf
<1>3. \A i \in Slots : h[i] = o[i].filled
  OBVIOUS
<1> HIDE DEF h
<1>4. QED
  BY <1>1, <1>2, <1>3, SumIs

LEMMA BookSums ==
    /\ Working = RestOf(orders, Open)
    /\ Working' = RestOf(orders', Open')
    /\ \A s : FilledBy(s) = FilledOf(orders, s)
<1>1. Working = RestOf(orders, Open)
  BY Zenon DEF Working, MapThenSumSet, MapThenFoldSet, IsRest, Pick, RestOf
<1>2. Working' = RestOf(orders', Open')
  BY Zenon DEF Working, MapThenSumSet, MapThenFoldSet, IsRest, Pick, RestOf
<1>3. ASSUME NEW s PROVE FilledBy(s) = FilledOf(orders, s)
  BY Zenon DEF FilledBy, MapThenSumSet, MapThenFoldSet, IsFilled, Pick, FilledOf
<1>4. QED
  BY <1>1, <1>2, <1>3

\* The least free id is one.
LEMMA FreeId ==
    ASSUME Forgotten # {}
    PROVE  Min(Forgotten) \in Forgotten /\ Min(Forgotten) \in Slots
<1>1. IsFiniteSet(Forgotten) /\ Forgotten \subseteq Slots /\ Forgotten \subseteq Nat
  BY FiniteBook, Constants DEF Forgotten, Slots
<1> DEFINE U == {1..x : x \in Forgotten}
<1>2. U \subseteq SUBSET Slots /\ U # {}
  <2>1. ASSUME NEW x \in Forgotten PROVE 1..x \in SUBSET Slots
    BY <1>1, Constants DEF Slots
  <2>2. QED
    BY <2>1
<1>3. PICK X \in U : \A Y \in U : Y \subseteq X => Y = X
  <2> HIDE DEF U
  <2>1. QED
    BY <1>2, LeastSet
<1>4. PICK x \in Forgotten : X = 1..x
  BY <1>3
<1>5. ASSUME NEW y \in Forgotten, y < x PROVE FALSE
  <2>1. 1..y \in U /\ 1..y \subseteq X
    BY <1>1, <1>4, <1>5
  <2>2. 1..y = 1..x
    BY <1>3, <1>4, <2>1
  <2>3. x \in 1..x /\ x \notin 1..y
    BY <1>1, <1>5, Constants DEF Slots
  <2>4. QED
    BY <2>2, <2>3
<1>6. \A y \in Forgotten : x <= y
  BY <1>1, <1>5
<1>7. Min(Forgotten) \in Forgotten
  BY <1>6 DEF Min
<1>8. QED
  BY <1>1, <1>7

-----------------------------------------------------------------------------
(* The invariants *)

\* A chaser that replaces or takes back an order knows which.
Good(c) ==
    /\ c \in Chasers
    /\ c.pc \in {"cancel", "harvest"} => c.old # 0
    /\ c.pc = "stop" => c.id # 0
    /\ c.pc = "idle" => c.id = 0

Sound(o) == o \in Books /\ \A i \in Slots : o[i].rest + o[i].filled <= Target

Uses == [Faults -> 0..Budget]
Exits == {"idle", "await", "sell", "verify"}

TypeInv ==
    /\ net \in Nat /\ Sound(orders)
    /\ up \in BOOLEAN /\ held \in BOOLEAN
    /\ qty \in Nat
    /\ Good(chaser) /\ exit \in Exits
    /\ causes \subseteq Causes /\ used \in Uses
    /\ placed \in 0..MaxPlaced /\ entries \in 0..MaxEntries
    /\ ~up => used.crash > 0

LEMMA TypeInvIs == TypeInv => TypeOK /\ chaser \in Chasers /\ orders \in Books
  BY DEF TypeInv, TypeOK, Good, Sound, Chasers, Stages, Sizes, Names, Prices, Books, Orders,
         Uses, Exits

-----------------------------------------------------------------------------
(* The operators of the chaser *)

LEMMA NoChaserIs ==
    /\ NoChaser \in Chasers
    /\ NoChaser.pc = "idle" /\ NoChaser.id = 0 /\ NoChaser.last = 0
  BY ChaserParts DEF NoChaser, Chasers

LEMMA StoppedIs ==
    ASSUME NEW c \in Chasers
    PROVE  /\ Stopped(c) \in Chasers
           /\ c.id = 0 => Stopped(c) = NoChaser
           /\ c.id # 0 => Stopped(c).pc = "stop" /\ Stopped(c).id = c.id
           /\ Stopped(c).pc \in {"idle", "stop"}
<1>1. c.id = 0 => Stopped(c) = NoChaser
  BY DEF Stopped
<1>2. c.id # 0 => /\ Stopped(c) \in Chasers
                  /\ Stopped(c).pc = "stop" /\ Stopped(c).id = c.id
  BY ChaserParts DEF Stopped, Chasers
<1>3. QED
  BY <1>1, <1>2, NoChaserIs

LEMMA TopIs ==
    ASSUME NEW c \in Chasers, NEW q \in Nat
    PROVE  /\ Top(c, q) \in Chasers
           /\ c.closed \/ Target <= q => Top(c, q) = Stopped(c)
           /\ ~ (c.closed \/ Target <= q) =>
                 /\ Top(c, q).pc = "gate" /\ Top(c, q).n = Target - q
                 /\ Top(c, q).id = c.id /\ Top(c, q).last = c.last
                 /\ Top(c, q).old = 0 /\ Top(c, q).closed = c.closed
<1>1. CASE c.closed \/ Target <= q
  BY <1>1, StoppedIs DEF Top
<1>2. CASE ~ (c.closed \/ Target <= q)
  <2> DEFINE d == [c EXCEPT !.pc = "gate", !.n = Target - q, !.old = 0]
  <2>1. Top(c, q) = d
    BY <1>2 DEF Top
  <2>2. Target - q \in 0..Target
    BY <1>2, Constants
  <2>3. d \in Chasers
    <3>1. \A m \in Sizes : [c EXCEPT !.pc = "gate", !.n = m, !.old = 0] \in Chasers
      BY ChaserParts DEF Chasers
    <3>2. QED
      BY <2>2, <3>1 DEF Sizes
  <2>4. /\ d.pc = "gate" /\ d.n = Target - q /\ d.id = c.id /\ d.last = c.last
        /\ d.old = 0
    BY DEF Chasers
  <2>5. d.closed = c.closed
    BY DEF Chasers
  <2> HIDE DEF d
  <2>6. QED
    BY <1>2, <2>1, <2>3, <2>4, <2>5
<1>3. QED
  BY <1>1, <1>2

LEMMA ClosedIs ==
    ASSUME NEW c \in Chasers
    PROVE  /\ Closed(c) \in Chasers
           /\ Closed(c).pc = c.pc /\ Closed(c).id = c.id /\ Closed(c).old = c.old
           /\ Closed(c).n = c.n /\ Closed(c).size = c.size /\ Closed(c).last = c.last
           /\ c.pc # "idle" => Closed(c).closed
  BY DEF Closed, Chasers

LEMMA PlusIs == \A n \in Int : Plus(n) \in Nat /\ (n >= 0 => Plus(n) = n) /\ (n <= 0 => Plus(n) = 0)
  BY DEF Plus

LEMMA CountedIs ==
    ASSUME TypeOK, NEW n \in Nat
    PROVE  /\ Counted(chaser, n) \in Nat
           /\ Counted(chaser, 0) = qty
           /\ ~ chaser.closed => Counted(chaser, n) = qty + n
  BY DEF Counted, TypeOK

LEMMA SeenIs ==
    ASSUME TypeOK, NEW n \in Nat
    PROVE  /\ Seen(chaser, n) \subseteq {"twice"}
           /\ n > 0 /\ (chaser.closed \/ qty + n > net) => "twice" \in Seen(chaser, n)
  BY DEF Seen

LEMMA SpendIs ==
    ASSUME TypeOK, NEW f \in Faults, Spend(f)
    PROVE  /\ used' \in [Faults -> 0..Budget]
           /\ used'[f] = used[f] + 1
           /\ \A g \in Faults : g # f => used'[g] = used[g]
<1>1. used[f] < Budget
  BY Constants DEF TypeOK, Spend, Spent, Faults
<1>2. QED
  BY <1>1, Constants DEF TypeOK, Spend

LEMMA AnsweredIs ==
    ASSUME TypeOK, NEW ok \in BOOLEAN, NEW f \in Faults, Answered(ok, f)
    PROVE  /\ used' \in [Faults -> 0..Budget]
           /\ ok => used' = used
           /\ ~ok => /\ used'[f] = used[f] + 1
                     /\ \A g \in Faults : g # f => used'[g] = used[g]
<1>1. CASE ok
  BY <1>1 DEF Answered, TypeOK
<1>2. CASE ~ok
  BY <1>2, SpendIs DEF Answered
<1>3. QED
  BY <1>1, <1>2

LEMMA GoodOnes ==
    /\ Good(NoChaser)
    /\ \A c \in Chasers : Good(Stopped(c))
    /\ \A c \in Chasers, q \in Nat : Good(Top(c, q))
    /\ \A c \in Chasers : Good(c) => Good(Closed(c))
<1>1. Good(NoChaser)
  BY NoChaserIs DEF Good
<1>2. ASSUME NEW c \in Chasers PROVE Good(Stopped(c))
  BY <1>1, StoppedIs DEF Good
<1>3. ASSUME NEW c \in Chasers, NEW q \in Nat PROVE Good(Top(c, q))
  <2>1. CASE c.closed \/ Target <= q
    BY <1>2, <2>1, TopIs
  <2>2. CASE ~ (c.closed \/ Target <= q)
    <3>1. Top(c, q) \in Chasers /\ Top(c, q).pc = "gate"
      BY <2>2, TopIs
    <3>2. QED
      BY <3>1 DEF Good
  <2>3. QED
    BY <2>1, <2>2
<1>4. ASSUME NEW c \in Chasers, Good(c) PROVE Good(Closed(c))
  BY <1>4, ClosedIs DEF Good
<1>5. QED
  BY <1>1, <1>2, <1>3, <1>4

LEMMA WithoutIs ==
    ASSUME Sound(orders), NEW i
    PROVE  /\ Sound(Without(i))
           /\ \A j \in Slots : /\ Without(i)[j].filled = orders[j].filled
                               /\ Without(i)[j].rest = IF j = i THEN 0 ELSE orders[j].rest
<1> DEFINE o == Without(i)
<1>1. \A j \in Slots : o[j] = IF j = i THEN [orders[j] EXCEPT !.rest = 0] ELSE orders[j]
  BY DEF Without, Sound, Books, Slots
<1>2. \A j \in Slots : /\ o[j] \in Orders
                       /\ o[j].filled = orders[j].filled /\ o[j].price = orders[j].price
                       /\ o[j].rest = IF j = i THEN 0 ELSE orders[j].rest
  <2>1. \A x \in Orders : LET y == [x EXCEPT !.rest = 0] IN
            y \in Orders /\ y.filled = x.filled /\ y.price = x.price /\ y.rest = 0
    BY Constants DEF Orders
  <2>2. \A j \in Slots : orders[j] \in Orders
    BY DEF Sound, Books, Slots
  <2> HIDE DEF o
  <2>3. QED
    BY <1>1, <2>1, <2>2
<1>3. o \in Books
  <2>1. o = [j \in Slots |-> o[j]]
    BY DEF Without, Sound, Books, Slots
  <2> HIDE DEF o
  <2>2. QED
    BY <1>2, <2>1 DEF Books, Slots
<1> HIDE DEF o
<1>4. Sound(o)
  <2>1. ASSUME NEW j \in Slots PROVE o[j].rest + o[j].filled <= Target
    <3>1. orders[j] \in Orders /\ orders[j].rest + orders[j].filled <= Target
      BY DEF Sound, Books, Slots
    <3>2. orders[j].rest \in Nat /\ orders[j].filled \in Nat
      BY <3>1 DEF Orders
    <3>3. QED
      BY <1>2, <3>1, <3>2, Constants
  <2>2. QED
    BY <1>3, <2>1 DEF Sound
<1>5. QED
  BY <1>2, <1>4 DEF o

LEMMA BookIs ==
    ASSUME TypeInv, NEW i \in Slots, NEW f \in Nat, f <= chaser.size, Book(i, f)
    PROVE  /\ Sound(orders')
           /\ net' = net + f /\ net' \in Nat /\ placed' \in 0..MaxPlaced
           /\ orders'[i].rest = chaser.size - f /\ orders'[i].filled = f
           /\ \A j \in Slots : j # i => orders'[j] = orders[j]
<1> DEFINE n == [price |-> chaser.bid, rest |-> chaser.size - f, filled |-> f]
<1>1. /\ net \in Nat /\ placed \in 0..MaxPlaced /\ Sound(orders)
      /\ chaser.size \in Sizes /\ chaser.bid \in Prices
  BY DEF TypeInv, Good, Chasers
<1>2. n \in Orders /\ n.rest = chaser.size - f /\ n.filled = f /\ n.rest + n.filled <= Target
  BY <1>1, Constants DEF Orders, Sizes, Prices
<1>3. orders' = [orders EXCEPT ![i] = n] /\ net' = net + f /\ placed < MaxPlaced /\ placed' = placed + 1
  BY DEF Book
<1> HIDE DEF n
<1>4. orders' \in Books /\ orders'[i] = n /\ \A j \in Slots : j # i => orders'[j] = orders[j]
  BY <1>1, <1>2, <1>3 DEF Sound, Books, Slots
<1>5. \A j \in Slots : orders'[j].rest + orders'[j].filled <= Target
  BY <1>1, <1>2, <1>4 DEF Sound
<1>6. QED
  BY <1>1, <1>2, <1>3, <1>4, <1>5, Constants DEF Sound

LEMMA FillIs ==
    ASSUME TypeInv, NEW i \in Slots, NEW n \in Nat, n > 0, Fill(i, n)
    PROVE  /\ Sound(orders')
           /\ net' = net + n /\ net' \in Nat /\ n <= orders[i].rest
           /\ orders'[i].rest = orders[i].rest - n /\ orders'[i].filled = orders[i].filled + n
           /\ \A j \in Slots : j # i => orders'[j] = orders[j]
<1> DEFINE o == [orders[i] EXCEPT !.rest = @ - n, !.filled = @ + n]
<1>1. net \in Nat /\ Sound(orders) /\ n <= orders[i].rest
  BY DEF TypeInv, Fill
<1>2. orders[i] \in Orders /\ orders[i].rest + orders[i].filled <= Target
  BY <1>1 DEF Sound, Books, Slots
<1>3. /\ o \in Orders
      /\ o.rest = orders[i].rest - n /\ o.filled = orders[i].filled + n
      /\ o.rest + o.filled <= Target
  <2>1. orders[i].rest - n \in 0..Target /\ orders[i].filled + n \in 0..Target
    BY <1>1, <1>2, Constants DEF Orders
  <2>2. /\ o.price = orders[i].price
        /\ o.rest = orders[i].rest - n /\ o.filled = orders[i].filled + n
    BY <1>2 DEF Orders
  <2>3. o \in Orders
    BY <1>2, <2>1 DEF Orders
  <2>4. QED
    BY <1>2, <2>1, <2>2, <2>3, Constants DEF Orders
<1>4. orders' = [orders EXCEPT ![i] = o] /\ net' = net + n
  BY <1>1, <1>2 DEF Fill, Sound, Books, Orders
<1> HIDE DEF o
<1>5. orders' \in Books /\ orders'[i] = o /\ \A j \in Slots : j # i => orders'[j] = orders[j]
  BY <1>1, <1>3, <1>4 DEF Sound, Books, Slots
<1>6. \A j \in Slots : orders'[j].rest + orders'[j].filled <= Target
  BY <1>1, <1>3, <1>5 DEF Sound
<1>7. QED
  BY <1>1, <1>3, <1>4, <1>5, <1>6 DEF Sound

-----------------------------------------------------------------------------
(* Types *)

LEMMA TypeInit == Init => TypeInv
<1> SUFFICES ASSUME Init PROVE TypeInv
  OBVIOUS
<1>1. NoOrder \in Orders /\ NoOrder.rest + NoOrder.filled <= Target
  BY Constants DEF NoOrder, Orders
<1>2. \A i \in Slots : orders[i] = NoOrder
  BY DEF Init, Slots
<1>3. Sound(orders)
  BY <1>1, <1>2 DEF Init, Sound, Books, Slots
<1>4. used \in Uses
  BY Constants DEF Init, Uses
<1>5. net \in Nat /\ qty \in Nat /\ placed \in 0..MaxPlaced /\ entries \in 0..MaxEntries
  BY Constants DEF Init
<1>6. Good(chaser) /\ exit \in Exits /\ causes \subseteq Causes /\ up /\ up \in BOOLEAN /\ held \in BOOLEAN
  BY Zenon, GoodOnes DEF Init, Exits
<1>7. QED
  BY <1>3, <1>4, <1>5, <1>6 DEF TypeInv

LEMMA TypeStep == TypeInv /\ [Next]_vars => TypeInv'
<1> SUFFICES ASSUME TypeInv, [Next]_vars PROVE TypeInv'
  OBVIOUS
<1> USE DEF exchange, position, ghosts
<1>1. TypeOK /\ chaser \in Chasers /\ orders \in Books /\ chaser.size \in Sizes /\ chaser.n \in Sizes
  BY TypeInvIs DEF Chasers
<1>2. ASSUME NEW n \in 1..Target, Enter(n) PROVE TypeInv'
  <2>1. Good(chaser')
    BY <1>2, GoodOnes, NoChaserIs, Constants DEF Enter
  <2>2. QED
    BY <1>2, <2>1, Constants DEF Enter, TypeInv
<1>3. ASSUME NEW i \in 1..Ids, NEW n \in 1..Target, Fill(i, n) PROVE TypeInv'
  <2>1. Sound(orders') /\ net' \in Nat
    BY <1>3, FillIs, Constants DEF Slots
  <2>2. causes' \subseteq Causes
    BY <1>3 DEF Fill, TypeInv, Causes
  <2>3. QED
    BY <1>3, <2>1, <2>2 DEF Fill, TypeInv
<1>4. CASE SoldElsewhere
  BY <1>4 DEF SoldElsewhere, TypeInv
<1>5. CASE SweepSyncs
  BY <1>5 DEF SweepSyncs, TypeInv
<1>6. CASE SweepRemoves
  BY <1>1, <1>6, GoodOnes DEF SweepRemoves, TypeInv
<1>7. CASE SweepAdopts
  BY <1>7 DEF SweepAdopts, TypeInv
<1>8. ASSUME NEW open \in BOOLEAN, Gate(open) PROVE TypeInv'
  <2>1. Good(chaser')
    <3>1. CASE chaser' = Stopped(chaser)
      BY <1>1, <3>1, GoodOnes
    <3>2. CASE chaser' = [chaser EXCEPT !.pc = "skip"]
      BY <1>1, <3>2, ChaserParts DEF Good, Chasers
    <3>3. ASSUME Cap > qty, NEW b \in Bids,
                 chaser' = [chaser EXCEPT !.pc = "list", !.bid = b,
                                          !.size = Lower(chaser.n, Cap - qty)]
          PROVE  Good(chaser')
      <4>1. Lower(chaser.n, Cap - qty) \in Sizes
        BY <1>1, <3>3, Constants DEF TypeInv, Sizes, Lower
      <4>2. b \in Prices
        BY ChaserParts
      <4>3. QED
        BY <1>1, <3>3, <4>1, <4>2, ChaserParts DEF Good, Chasers
    <3>4. QED
      BY <1>8, <3>1, <3>2, <3>3 DEF Gate
  <2>2. QED
    BY <1>8, <2>1 DEF Gate, TypeInv
<1>9. CASE Skip
  <2>1. Good(chaser')
    BY <1>1, <1>9, GoodOnes DEF Skip, TypeInv
  <2>2. QED
    BY <1>9, <2>1 DEF Skip, TypeInv
<1>10. ASSUME NEW ok \in BOOLEAN, Lists(ok) PROVE TypeInv'
  <2> DEFINE found == Listing(ok)
  <2>1. PICK i \in IF found = {} THEN {chaser.id} ELSE found,
             best \in {j \in found : \A k \in found : orders[k].price <= orders[j].price}
                        \cup IF found = {} THEN {0} ELSE {} :
           chaser' = [chaser EXCEPT !.pc = Finds(found), !.id = i,
                                    !.old = IF Finds(found) = "cancel" THEN best ELSE 0]
    BY <1>10 DEF Lists
  <2>2. found \subseteq Slots
    BY DEF Listing, Open, Slots
  <2>3. /\ Finds(found) \in {"place", "sleep", "cancel"}
        /\ Finds(found) = "cancel" => found # {}
    BY DEF Finds
  <2> HIDE DEF found
  <2>4. i \in Names /\ best \in Names /\ (Finds(found) = "cancel" => best \in Slots)
    BY <1>1, <2>1, <2>2, <2>3, ChaserParts DEF Chasers
  <2>5. \A x \in Slots : x # 0
    BY Constants DEF Slots
  <2>6. Good(chaser')
    BY <1>1, <2>1, <2>3, <2>4, <2>5, ChaserParts DEF Good, Chasers
  <2>7. used' \in Uses /\ used'.crash = used.crash
    BY <1>1, <1>10, AnsweredIs DEF Lists, Uses, Faults
  <2>8. QED
    BY <1>10, <2>6, <2>7 DEF Lists, TypeInv
<1>11. ASSUME NEW ok \in BOOLEAN, Cancels(ok) PROVE TypeInv'
  <2>1. Good(chaser')
    BY <1>11, ChaserParts DEF Cancels, TypeInv, Good, Chasers
  <2>2. used' \in Uses /\ used'.crash = used.crash
    BY <1>1, <1>11, AnsweredIs DEF Cancels, Uses, Faults
  <2>3. Sound(orders')
    BY <1>11, WithoutIs DEF Cancels, TypeInv
  <2>4. QED
    BY <1>11, <2>1, <2>2, <2>3 DEF Cancels, TypeInv
<1>12. CASE Harvests
  <2> DEFINE new == Plus(orders[chaser.old].filled - chaser.last)
  <2>1. new \in Nat
    <3>1. chaser.old \in Slots /\ chaser.last \in Nat
      BY <1>12, ChaserParts DEF Harvests, TypeInv, Good, Chasers
    <3>2. orders[chaser.old].filled \in Nat
      BY <1>1, <3>1, Constants DEF Books, Orders, Slots
    <3>3. QED
      BY <3>1, <3>2, PlusIs
  <2>2. /\ qty' = Counted(chaser, new)
        /\ causes' = causes \cup Seen(chaser, new)
        /\ chaser' = IF new >= chaser.n THEN NoChaser
                     ELSE [chaser EXCEPT !.pc = "place", !.n = @ - new, !.last = 0,
                                         !.id = 0, !.old = 0]
    BY <1>12 DEF Harvests
  <2> HIDE DEF new
  <2>3. qty' \in Nat
    BY <1>1, <2>1, <2>2, CountedIs
  <2>4. causes' \subseteq Causes
    BY <1>1, <2>1, <2>2, SeenIs DEF TypeInv, Causes
  <2>5. Good(chaser')
    <3>1. CASE new >= chaser.n
      BY <2>2, <3>1, GoodOnes
    <3>2. CASE ~ (new >= chaser.n)
      <4> DEFINE m == chaser.n - new
      <4>1. m \in Sizes
        BY <1>1, <2>1, <3>2, Constants DEF Sizes
      <4>2. chaser' = [chaser EXCEPT !.pc = "place", !.n = m, !.last = 0, !.id = 0, !.old = 0]
        BY <1>1, <2>2, <3>2 DEF Chasers
      <4> HIDE DEF m
      <4>3. QED
        BY <1>1, <4>1, <4>2, ChaserParts DEF Good, Chasers
    <3>3. QED
      BY <3>1, <3>2
  <2>6. QED
    BY <1>12, <2>3, <2>4, <2>5 DEF Harvests, TypeInv
<1>13. ASSUME NEW reply \in {"done", "lost", "refused"}, NEW f \in 0..Target, Places(reply, f)
       PROVE  TypeInv'
  <2>1. f \in Nat /\ f <= chaser.size
    BY <1>13, Constants DEF Places
  <2>2. ASSUME Forgotten # {}, Book(Min(Forgotten), f)
        PROVE  Sound(orders') /\ net' \in Nat /\ placed' \in 0..MaxPlaced
    BY <2>1, <2>2, FreeId, BookIs
  <2>3. CASE reply = "done"
    <3>1. /\ Forgotten # {} /\ Book(Min(Forgotten), f) /\ qty' = Counted(chaser, f)
          /\ chaser' = IF f >= chaser.n THEN NoChaser
                       ELSE [chaser EXCEPT !.pc = "sleep", !.id = Min(Forgotten),
                                           !.last = 0, !.n = @ - f]
      BY <1>13, <2>3 DEF Places
    <3>2. Good(chaser')
      <4>1. CASE f >= chaser.n
        BY <3>1, <4>1, GoodOnes
      <4>2. CASE ~ (f >= chaser.n)
        <5> DEFINE m == chaser.n - f
                   i == Min(Forgotten)
        <5>1. m \in Sizes
          BY <1>1, <2>1, <4>2, Constants DEF Sizes
        <5>2. i \in Names
          BY <3>1, FreeId, ChaserParts
        <5>3. chaser' = [chaser EXCEPT !.pc = "sleep", !.id = i, !.last = 0, !.n = m]
          BY <1>1, <3>1, <4>2 DEF Chasers
        <5> HIDE DEF m, i
        <5>4. QED
          BY <1>1, <5>1, <5>2, <5>3, ChaserParts DEF Good, Chasers
      <4>3. QED
        BY <4>1, <4>2
    <3>3. qty' \in Nat
      BY <1>1, <2>1, <3>1, CountedIs
    <3>4. QED
      BY <1>13, <2>2, <2>3, <3>1, <3>2, <3>3 DEF Places, TypeInv
  <2>4. CASE reply = "lost"
    <3>1. /\ Forgotten # {} /\ Book(Min(Forgotten), f) /\ Spend("reply")
          /\ chaser' = [chaser EXCEPT !.pc = "sleep", !.id = 0]
      BY <1>13, <2>4 DEF Places
    <3>2. Good(chaser')
      BY <1>1, <3>1, ChaserParts DEF Good, Chasers
    <3>3. used' \in Uses /\ used'.crash = used.crash
      BY <1>1, <3>1, SpendIs DEF Uses, Faults
    <3>4. QED
      BY <1>13, <2>2, <2>4, <3>1, <3>2, <3>3 DEF Places, TypeInv
  <2>5. CASE reply = "refused"
    <3>1. Good(chaser')
      BY <1>1, <1>13, <2>5, ChaserParts DEF Places, Good, Chasers
    <3>2. QED
      BY <1>13, <2>5, <3>1 DEF Places, TypeInv
  <2>6. QED
    BY <2>3, <2>4, <2>5
<1>14. ASSUME NEW ok \in BOOLEAN, Polls(ok) PROVE TypeInv'
  <2> DEFINE new == Plus(FilledBy(Listing(ok)) - chaser.last)
             q == Counted(chaser, new)
             c == [chaser EXCEPT !.n = Plus(@ - new), !.last = @ + new]
  <2>1. new \in Nat
    <3>1. Listing(ok) \in SUBSET Slots /\ chaser.last \in Nat
      BY <1>1 DEF Listing, Open, Slots, Chasers
    <3>2. FilledBy(Listing(ok)) \in Nat
      BY <1>1, <3>1, FilledIs, BookSums
    <3>3. QED
      BY <3>1, <3>2, PlusIs
  <2>2. /\ qty' = q /\ causes' = causes \cup Seen(chaser, new)
        /\ chaser' = NoChaser \/ chaser' = Top(c, q)
    BY <1>14 DEF Polls
  <2>3. q \in Nat
    BY <1>1, <2>1, CountedIs
  <2>4. c \in Chasers
    <3> HIDE DEF new
    <3> DEFINE m == Plus(chaser.n - new)
               l == chaser.last + new
    <3>1. m \in Sizes /\ l \in Nat
      BY <1>1, <2>1, Constants DEF Plus, Sizes, Chasers
    <3>2. c = [chaser EXCEPT !.n = m, !.last = l]
      BY <1>1 DEF Chasers
    <3> HIDE DEF m, l, c
    <3>3. QED
      BY <1>1, <3>1, <3>2 DEF Chasers
  <2>5. causes' \subseteq Causes
    BY <1>1, <2>1, <2>2, SeenIs DEF TypeInv, Causes
  <2>6. used' \in Uses /\ used'.crash = used.crash
    BY <1>1, <1>14, AnsweredIs DEF Polls, Uses, Faults
  <2> HIDE DEF new, q, c
  <2>7. Good(chaser')
    BY <2>2, <2>3, <2>4, GoodOnes
  <2>8. QED
    BY <1>14, <2>2, <2>3, <2>5, <2>6, <2>7 DEF Polls, TypeInv
<1>15. ASSUME NEW ok \in BOOLEAN, Stops(ok) PROVE TypeInv'
  <2>1. used' \in Uses /\ used'.crash = used.crash
    BY <1>1, <1>15, AnsweredIs DEF Stops, Uses, Faults
  <2>2. Sound(orders')
    BY <1>15, WithoutIs DEF Stops, TypeInv
  <2>3. QED
    BY <1>15, <2>1, <2>2, GoodOnes DEF Stops, TypeInv
<1>16. ASSUME NEW waits \in BOOLEAN, ExitStarts(waits) PROVE TypeInv'
  <2>1. Good(chaser') /\ causes' \subseteq Causes
    BY <1>1, <1>16, GoodOnes DEF ExitStarts, Interrupts, TypeInv, Causes
  <2>2. Sound(orders') /\ net' \in Nat /\ placed' \in 0..MaxPlaced
    <3>1. CASE UNCHANGED <<orders, net, placed>>
      BY <3>1 DEF TypeInv
    <3>2. ASSUME Forgotten # {}, NEW f \in 0..chaser.size, Book(Min(Forgotten), f)
          PROVE  Sound(orders') /\ net' \in Nat /\ placed' \in 0..MaxPlaced
      BY <1>1, <3>2, FreeId, BookIs DEF Sizes
    <3>3. QED
      BY <1>16, <3>1, <3>2 DEF ExitStarts, Interrupts
  <2>3. QED
    BY <1>16, <2>1, <2>2 DEF ExitStarts, TypeInv, Exits
<1>17. CASE ExitResumes
  BY <1>17 DEF ExitResumes, TypeInv, Exits
<1>18. ASSUME NEW n \in 0..Cap, ExitSells(n) PROVE TypeInv'
  BY <1>18, Constants DEF ExitSells, TypeInv, Exits
<1>19. CASE ExitVerifies
  <2>1. Good(chaser')
    BY <1>1, <1>19, GoodOnes DEF ExitVerifies, TypeInv
  <2>2. held' \in BOOLEAN
    BY <1>19 DEF ExitVerifies
  <2>3. QED
    BY <1>19, <2>1, <2>2 DEF ExitVerifies, TypeInv, Exits
<1>20. CASE Crash
  <2>1. used' \in Uses /\ used'.crash > 0
    BY <1>1, <1>20, SpendIs DEF Crash, Uses, Faults, TypeInv
  <2>2. QED
    BY <1>20, <2>1, GoodOnes DEF Crash, TypeInv, Exits
<1>21. CASE Restart
  <2>1. Good(chaser')
    BY <1>21, GoodOnes, NoChaserIs DEF Restart, TypeInv
  <2>2. held' \in BOOLEAN
    BY <1>21 DEF Restart
  <2>3. QED
    BY <1>21, <2>1, <2>2 DEF Restart, TypeInv
<1>22. CASE UNCHANGED vars
  BY <1>22 DEF vars, TypeInv
<1>23. QED
  BY <1>2, <1>3, <1>4, <1>5, <1>6, <1>7, <1>8, <1>9, <1>10, <1>11, <1>12, <1>13, <1>14, <1>15,
     <1>16, <1>17, <1>18, <1>19, <1>20, <1>21, <1>22
  DEF Next, Sweep, Chase, Exit

\* Every reachable state has the types the code gives it: the chaser's
\* remembered ids and amounts stay in their ranges, and no order holds more
\* than it was placed for.
THEOREM TypeCorrect == ASSUME ConstantsAssumption PROVE Spec => []TypeOK
<1>1. Spec => []TypeInv
  BY TypeInit, TypeStep, PTL DEF Spec
<1>2. QED
  BY <1>1, TypeInvIs, PTL

-----------------------------------------------------------------------------
(* Orders on the book *)

Hidden == used.list + used.cancel

\* Once the chaser has looked at the book and decided to place, nothing rests
\* there but what a failed call hid from it.
RoomOnTheBook ==
    /\ chaser.pc = "cancel" => Cardinality(Open \ {chaser.old}) <= Hidden
    /\ chaser.pc \in {"harvest", "place"} => Cardinality(Open) <= Hidden

OneOrder == Cardinality(Open) <= 1 + Hidden

BookInv == OneOrder /\ RoomOnTheBook

LEMMA SetSizes ==
    ASSUME NEW S \in SUBSET Slots
    PROVE  /\ Cardinality(S) \in Nat
           /\ S = {} => Cardinality(S) = 0
           /\ \A T \in SUBSET S : Cardinality(T) <= Cardinality(S)
           /\ \A i : Cardinality(S) <= Cardinality(S \ {i}) + 1
           /\ \A i \in S : Cardinality(S \ {i}) = Cardinality(S) - 1
<1>1. IsFiniteSet(S)
  BY FiniteBook
<1>2. Cardinality(S) \in Nat
  BY <1>1, FS_CardinalityType
<1>3. S = {} => Cardinality(S) = 0
  BY FS_EmptySet
<1>4. \A T \in SUBSET S : Cardinality(T) <= Cardinality(S)
  BY <1>1, FS_Subset
<1>5. \A i \in S : Cardinality(S \ {i}) = Cardinality(S) - 1
  BY <1>1, FS_RemoveElement
<1>6. ASSUME NEW i PROVE Cardinality(S) <= Cardinality(S \ {i}) + 1
  <2>1. CASE i \in S
    BY <1>2, <1>5, <2>1
  <2>2. CASE i \notin S
    <3>1. S \ {i} = S
      BY <2>2
    <3>2. QED
      BY <1>2, <3>1
  <2>3. QED
    BY <2>1, <2>2
<1>7. QED
  BY <1>2, <1>3, <1>4, <1>5, <1>6

LEMMA HiddenIs ==
    ASSUME TypeInv
    PROVE  /\ used.list \in Nat /\ used.cancel \in Nat /\ used.reply \in Nat /\ used.crash \in Nat
           /\ Hidden \in Nat
  BY Constants DEF TypeInv, Uses, Faults, Hidden

\* What a failed call adds to what is hidden.
LEMMA HiddenGrows ==
    ASSUME TypeInv, NEW ok \in BOOLEAN, NEW f \in {"list", "cancel"}, Answered(ok, f)
    PROVE  /\ ok => Hidden' = Hidden
           /\ ~ok => Hidden' = Hidden + 1
           /\ Hidden' \in Nat /\ Hidden <= Hidden'
<1>1. TypeOK /\ f \in Faults /\ "list" \in Faults /\ "cancel" \in Faults
  BY TypeInvIs DEF Faults
<1>2. /\ ok => used' = used
      /\ ~ok => /\ used'[f] = used[f] + 1
                /\ \A g \in Faults : g # f => used'[g] = used[g]
  BY <1>1, AnsweredIs
<1>3. used.list \in Nat /\ used.cancel \in Nat
  BY HiddenIs
<1>4. CASE ok
  BY <1>2, <1>3, <1>4 DEF Hidden
<1>5. CASE ~ok /\ f = "list"
  BY <1>1, <1>2, <1>3, <1>5 DEF Hidden
<1>6. CASE ~ok /\ f = "cancel"
  BY <1>1, <1>2, <1>3, <1>6 DEF Hidden
<1>7. QED
  BY <1>4, <1>5, <1>6

LEMMA OpenIs ==
    /\ Open \in SUBSET Slots /\ Open' \in SUBSET Slots
    /\ \A i \in Slots : i \in Open <=> orders[i].rest > 0
    /\ \A i \in Slots : i \in Open' <=> orders'[i].rest > 0
    /\ orders' = orders => Open' = Open
  BY DEF Open, Slots

LEMMA OpenShrinks ==
    ASSUME TypeInv, NEW i, orders' = Without(i)
    PROVE  Open' = Open \ {i}
<1>1. \A j \in Slots : orders'[j].rest = IF j = i THEN 0 ELSE orders[j].rest
  BY WithoutIs DEF TypeInv
<1>2. \A j \in Slots : j \in Open' <=> j \in Open /\ j # i
  BY <1>1, OpenIs
<1>3. QED
  BY <1>2, OpenIs

LEMMA OpenAfterBook ==
    ASSUME TypeInv, NEW i \in Slots, NEW f \in Nat, f <= chaser.size, Book(i, f)
    PROVE  Open' \subseteq Open \cup {i} /\ Open \subseteq Open' \cup {i}
<1>1. \A j \in Slots : j # i => orders'[j] = orders[j]
  BY BookIs
<1>2. QED
  BY <1>1, OpenIs

\* A step that adds no order and does not move the chaser on.
LEMMA BookKept ==
    ASSUME TypeInv, BookInv, Open' \subseteq Open, Hidden' \in Nat, Hidden <= Hidden',
           chaser'.pc \in {"cancel", "harvest", "place"} =>
                chaser'.pc = chaser.pc /\ chaser'.old = chaser.old
    PROVE  BookInv'
<1>1. /\ Cardinality(Open) \in Nat /\ Cardinality(Open') \in Nat
      /\ Cardinality(Open') <= Cardinality(Open)
  BY OpenIs, SetSizes
<1>2. used.list \in Nat /\ used.cancel \in Nat /\ Hidden \in Nat
  BY HiddenIs
<1>3. OneOrder'
  BY <1>1, <1>2 DEF BookInv, OneOrder
<1>4. CASE chaser'.pc \notin {"cancel", "harvest", "place"}
  BY <1>3, <1>4 DEF BookInv, RoomOnTheBook
<1>5. CASE chaser'.pc = "cancel"
  <2>1. Cardinality(Open \ {chaser.old}) <= Hidden
    BY <1>5 DEF BookInv, RoomOnTheBook
  <2>2. /\ Cardinality(Open' \ {chaser.old}) \in Nat /\ Cardinality(Open \ {chaser.old}) \in Nat
        /\ Cardinality(Open' \ {chaser.old}) <= Cardinality(Open \ {chaser.old})
    <3>1. Open \ {chaser.old} \in SUBSET Slots /\ Open' \ {chaser.old} \in SUBSET (Open \ {chaser.old})
      BY OpenIs
    <3>2. Open' \ {chaser.old} \in SUBSET Slots
      BY OpenIs
    <3>3. QED
      BY <3>1, <3>2, SetSizes
  <2>3. Cardinality(Open' \ {chaser.old}) <= Hidden'
    BY <1>2, <2>1, <2>2
  <2>4. QED
    BY <1>3, <1>5, <2>3 DEF BookInv, RoomOnTheBook
<1>6. CASE chaser'.pc \in {"harvest", "place"}
  <2>1. Cardinality(Open) <= Hidden
    BY <1>6 DEF BookInv, RoomOnTheBook
  <2>2. Cardinality(Open') <= Hidden'
    BY <1>1, <1>2, <2>1
  <2>3. QED
    BY <1>3, <1>6, <2>2 DEF BookInv, RoomOnTheBook
<1>7. QED
  BY <1>4, <1>5, <1>6

LEMMA BookInit == Init => BookInv
<1> SUFFICES ASSUME Init PROVE BookInv
  OBVIOUS
<1>1. Open = {}
  BY DEF Init, Open, NoOrder
<1>2. Cardinality(Open) = 0 /\ Hidden \in Nat
  BY <1>1, OpenIs, SetSizes, HiddenIs, TypeInit
<1>3. chaser.pc = "idle"
  BY NoChaserIs DEF Init
<1>4. QED
  BY <1>2, <1>3 DEF BookInv, OneOrder, RoomOnTheBook

LEMMA BookStep == TypeInv /\ BookInv /\ [Next]_vars => BookInv'
<1> SUFFICES ASSUME TypeInv, BookInv, [Next]_vars PROVE BookInv'
  OBVIOUS
<1> USE DEF exchange, position, ghosts
<1>1. /\ TypeOK /\ chaser \in Chasers
      /\ Hidden \in Nat
      /\ Cardinality(Open) \in Nat
      /\ Cardinality(Open) <= 1 + Hidden
  BY TypeInvIs, HiddenIs, OpenIs, SetSizes DEF BookInv, OneOrder
<1>a. used' = used => Hidden' = Hidden
  BY DEF Hidden
<1>b. \A c \in Chasers, q \in Nat : Top(c, q).pc \in {"idle", "stop", "gate"}
  BY TopIs, StoppedIs
<1>c. \A c \in Chasers : Stopped(c).pc \in {"idle", "stop"}
  BY StoppedIs
<1>2. ASSUME NEW n \in 1..Target, Enter(n) PROVE BookInv'
  <2>1. n \in Nat /\ Hidden' = Hidden /\ Open' = Open /\ chaser' = Top(NoChaser, n)
    BY <1>2, <1>a, OpenIs, Constants DEF Enter
  <2>2. chaser'.pc \in {"idle", "stop", "gate"}
    BY <1>b, <2>1, NoChaserIs
  <2>3. QED
    BY <1>1, <2>1, <2>2, BookKept
<1>3. ASSUME NEW i \in 1..Ids, NEW n \in 1..Target, Fill(i, n) PROVE BookInv'
  <2>1. i \in Slots /\ n \in Nat /\ n > 0 /\ orders \in Books
    BY TypeInvIs, Constants DEF Slots
  <2>2. /\ orders'[i].rest = orders[i].rest - n /\ n <= orders[i].rest
        /\ \A j \in Slots : j # i => orders'[j] = orders[j]
    BY <1>3, <2>1, FillIs
  <2>3. orders[i].rest \in Nat
    BY <2>1, Constants DEF Books, Orders, Slots
  <2>4. Open' \subseteq Open
    <3>1. i \in Open
      BY <2>1, <2>2, <2>3, OpenIs
    <3>2. QED
      BY <2>2, <3>1, OpenIs
  <2>5. QED
    BY <1>1, <1>3, <1>a, <2>4, BookKept DEF Fill
<1>4. CASE SoldElsewhere
  BY <1>1, <1>4, <1>a, OpenIs, BookKept DEF SoldElsewhere
<1>5. CASE SweepSyncs
  BY <1>1, <1>5, <1>a, OpenIs, BookKept DEF SweepSyncs
<1>6. CASE SweepRemoves
  <2>1. Hidden' = Hidden /\ Open' = Open /\ chaser' = Closed(chaser)
    BY <1>6, <1>a, OpenIs DEF SweepRemoves
  <2>2. QED
    BY <1>1, <2>1, ClosedIs, BookKept
<1>7. CASE SweepAdopts
  BY <1>1, <1>7, <1>a, OpenIs, BookKept DEF SweepAdopts
<1>8. ASSUME NEW open \in BOOLEAN, Gate(open) PROVE BookInv'
  <2>1. Hidden' = Hidden /\ Open' = Open
    BY <1>8, <1>a, OpenIs DEF Gate
  <2>2. chaser'.pc \notin {"cancel", "harvest", "place"}
    BY <1>1, <1>8, <1>c DEF Gate, Chasers
  <2>3. QED
    BY <1>1, <2>1, <2>2, BookKept
<1>9. CASE Skip
  <2>1. Hidden' = Hidden /\ Open' = Open /\ chaser' = Top(chaser, qty) /\ qty \in Nat
    BY <1>9, <1>a, OpenIs DEF Skip, TypeInv
  <2>2. QED
    BY <1>1, <1>b, <2>1, BookKept
<1>10. ASSUME NEW ok \in BOOLEAN, Lists(ok) PROVE BookInv'
  <2> DEFINE found == Listing(ok)
  <2>1. PICK i \in IF found = {} THEN {chaser.id} ELSE found,
             best \in {j \in found : \A k \in found : orders[k].price <= orders[j].price}
                        \cup IF found = {} THEN {0} ELSE {} :
           chaser' = [chaser EXCEPT !.pc = Finds(found), !.id = i,
                                    !.old = IF Finds(found) = "cancel" THEN best ELSE 0]
    BY <1>10 DEF Lists
  <2>2. Open' = Open
    BY <1>10, OpenIs DEF Lists
  <2>3. /\ ok => Hidden' = Hidden
        /\ ~ok => Hidden' = Hidden + 1
        /\ Hidden' \in Nat /\ Hidden <= Hidden'
    BY <1>10, HiddenGrows DEF Lists
  <2>4. /\ Finds(found) \in {"place", "sleep", "cancel"}
        /\ Finds(found) = "cancel" => found # {} /\ best \in found
        /\ Finds(found) = "place" => found = {}
    BY DEF Finds
  <2>5. chaser'.pc = Finds(found) /\ (Finds(found) = "cancel" => chaser'.old = best)
    BY <1>1, <2>1 DEF Chasers
  <2>6. CASE Finds(found) = "sleep"
    BY <1>1, <2>2, <2>3, <2>5, <2>6, BookKept
  <2>7. CASE Finds(found) = "cancel"
    <3>1. ok /\ best \in Open
      BY <2>4, <2>7 DEF Listing
    <3>2. Cardinality(Open \ {best}) <= Hidden
      <4>1. Cardinality(Open \ {best}) = Cardinality(Open) - 1
        BY <3>1, OpenIs, SetSizes
      <4>2. QED
        BY <1>1, <4>1
    <3>3. chaser'.pc = "cancel" /\ chaser'.old = best /\ Hidden' = Hidden
      BY <2>3, <2>5, <2>7, <3>1
    <3>4. QED
      BY <1>1, <2>2, <3>2, <3>3 DEF BookInv, OneOrder, RoomOnTheBook
  <2>8. CASE Finds(found) = "place"
    <3>1. Cardinality(Open) <= Hidden'
      <4>1. CASE ok
        <5>1. Open = {}
          BY <2>4, <2>8, <4>1 DEF Listing
        <5>2. Cardinality(Open) = 0
          BY <5>1, OpenIs, SetSizes
        <5>3. QED
          BY <2>3, <5>2
      <4>2. CASE ~ok
        BY <1>1, <2>3, <4>2
      <4>3. QED
        BY <4>1, <4>2
    <3>2. chaser'.pc = "place"
      BY <2>5, <2>8
    <3>3. QED
      BY <1>1, <2>2, <2>3, <3>1, <3>2 DEF BookInv, OneOrder, RoomOnTheBook
  <2>9. QED
    BY <2>4, <2>6, <2>7, <2>8
<1>11. ASSUME NEW ok \in BOOLEAN, Cancels(ok) PROVE BookInv'
  <2>1. /\ ok => Hidden' = Hidden
        /\ ~ok => Hidden' = Hidden + 1
        /\ Hidden' \in Nat
    BY <1>11, HiddenGrows DEF Cancels
  <2>2. chaser'.pc = "harvest"
    BY <1>1, <1>11 DEF Cancels, Chasers
  <2>3. /\ Cardinality(Open \ {chaser.old}) <= Hidden
        /\ Cardinality(Open \ {chaser.old}) \in Nat
        /\ Cardinality(Open) <= Cardinality(Open \ {chaser.old}) + 1
    <3>1. Cardinality(Open \ {chaser.old}) <= Hidden
      BY <1>11 DEF Cancels, BookInv, RoomOnTheBook
    <3>2. Open \ {chaser.old} \in SUBSET Slots
      BY OpenIs
    <3>3. QED
      BY <3>1, <3>2, OpenIs, SetSizes
  <2>4. Cardinality(Open') <= Hidden' /\ Cardinality(Open') \in Nat
    <3>1. CASE ok
      <4>1. Open' = Open \ {chaser.old}
        BY <1>11, <3>1, OpenShrinks DEF Cancels
      <4>2. QED
        BY <2>1, <2>3, <3>1, <4>1
    <3>2. CASE ~ok
      <4>1. Open' = Open
        BY <1>11, <3>2, OpenIs DEF Cancels
      <4>2. QED
        BY <1>1, <2>1, <2>3, <3>2, <4>1
    <3>3. QED
      BY <3>1, <3>2
  <2>5. QED
    BY <2>1, <2>2, <2>4 DEF BookInv, OneOrder, RoomOnTheBook
<1>12. CASE Harvests
  <2>1. Open' = Open /\ Hidden' = Hidden
    BY <1>12, <1>a, OpenIs DEF Harvests
  <2>2. Cardinality(Open) <= Hidden
    BY <1>12 DEF Harvests, BookInv, RoomOnTheBook
  <2>3. chaser'.pc # "cancel"
    BY <1>1, <1>12, NoChaserIs DEF Harvests, Chasers
  <2>4. QED
    BY <1>1, <2>1, <2>2, <2>3 DEF BookInv, OneOrder, RoomOnTheBook
<1>d. ASSUME chaser.pc = "place", Forgotten # {}, NEW f \in Nat, f <= chaser.size,
             Book(Min(Forgotten), f), Hidden' \in Nat, Hidden <= Hidden',
             chaser'.pc \notin {"cancel", "harvest", "place"}
      PROVE  BookInv'
  <2> DEFINE i == Min(Forgotten)
  <2>1. Cardinality(Open) <= Hidden
    BY <1>d DEF BookInv, RoomOnTheBook
  <2>2. Open' \ {i} \subseteq Open
    BY <1>d, FreeId, OpenAfterBook
  <2>3. /\ Cardinality(Open') <= Cardinality(Open' \ {i}) + 1
        /\ Cardinality(Open') \in Nat
    BY OpenIs, SetSizes
  <2>4. Cardinality(Open' \ {i}) <= Cardinality(Open) /\ Cardinality(Open' \ {i}) \in Nat
    <3>1. Open' \ {i} \in SUBSET Open /\ Open' \ {i} \in SUBSET Slots
      BY <2>2, OpenIs
    <3> HIDE DEF i
    <3>2. QED
      BY <3>1, OpenIs, SetSizes
  <2> HIDE DEF i
  <2>5. Cardinality(Open') <= 1 + Hidden'
    BY <1>1, <1>d, <2>1, <2>3, <2>4
  <2>6. QED
    BY <1>d, <2>5 DEF BookInv, OneOrder, RoomOnTheBook
<1>13. ASSUME NEW reply \in {"done", "lost", "refused"}, NEW f \in 0..Target, Places(reply, f)
       PROVE  BookInv'
  <2>1. f \in Nat /\ f <= chaser.size /\ chaser.pc = "place"
    BY <1>1, <1>13, Constants DEF Places, Chasers, Sizes
  <2>2. chaser'.pc \notin {"cancel", "harvest", "place"}
    BY <1>1, <1>13, NoChaserIs DEF Places, Chasers
  <2>3. CASE reply = "done"
    <3>1. Forgotten # {} /\ Book(Min(Forgotten), f) /\ used' = used
      BY <1>13, <2>3 DEF Places
    <3>2. QED
      BY <1>1, <1>a, <1>d, <2>1, <2>2, <3>1
  <2>4. CASE reply = "lost"
    <3>1. Forgotten # {} /\ Book(Min(Forgotten), f) /\ Spend("reply")
      BY <1>13, <2>4 DEF Places
    <3>2. Hidden' = Hidden
      BY <1>1, <3>1, SpendIs DEF Hidden, Faults
    <3>3. QED
      BY <1>1, <1>d, <2>1, <2>2, <3>1, <3>2
  <2>5. CASE reply = "refused"
    <3>1. Open' = Open /\ Hidden' = Hidden
      BY <1>13, <1>a, <2>5, OpenIs DEF Places
    <3>2. QED
      BY <1>1, <2>2, <3>1, BookKept
  <2>6. QED
    BY <2>3, <2>4, <2>5
<1>14. ASSUME NEW ok \in BOOLEAN, Polls(ok) PROVE BookInv'
  <2>1. Open' = Open /\ Hidden' \in Nat /\ Hidden <= Hidden'
    BY <1>14, OpenIs, HiddenGrows DEF Polls
  <2>2. chaser'.pc \notin {"cancel", "harvest", "place"}
    <3> DEFINE new == Plus(FilledBy(Listing(ok)) - chaser.last)
               q == Counted(chaser, new)
               c == [chaser EXCEPT !.n = Plus(@ - new), !.last = @ + new]
    <3>1. chaser' = NoChaser \/ chaser' = Top(c, q)
      BY <1>14 DEF Polls
    <3>2. Top(c, q) = [c EXCEPT !.pc = "gate", !.n = Target - q, !.old = 0]
            \/ Top(c, q) = [c EXCEPT !.pc = "stop"] \/ Top(c, q) = NoChaser
      BY DEF Top, Stopped
    <3>3. c = [c EXCEPT !.pc = c.pc] /\ "pc" \in DOMAIN c
      BY <1>1 DEF Chasers
    <3> HIDE DEF c, q
    <3>4. QED
      BY <3>1, <3>2, <3>3, NoChaserIs
  <2>3. QED
    BY <1>1, <2>1, <2>2, BookKept
<1>15. ASSUME NEW ok \in BOOLEAN, Stops(ok) PROVE BookInv'
  <2>1. Hidden' \in Nat /\ Hidden <= Hidden' /\ chaser' = NoChaser
    BY <1>15, HiddenGrows DEF Stops
  <2>2. Open' \subseteq Open
    BY <1>15, OpenIs, OpenShrinks DEF Stops
  <2>3. QED
    BY <1>1, <2>1, <2>2, NoChaserIs, BookKept
<1>16. ASSUME NEW waits \in BOOLEAN, ExitStarts(waits) PROVE BookInv'
  <2>1. chaser'.pc \notin {"cancel", "harvest", "place"} /\ Hidden' = Hidden
    BY <1>1, <1>16, <1>a, <1>c DEF ExitStarts, Interrupts
  <2>2. CASE orders' = orders
    BY <1>1, <2>1, <2>2, OpenIs, BookKept
  <2>3. ASSUME chaser.pc = "place", Forgotten # {}, NEW f \in 0..chaser.size,
               Book(Min(Forgotten), f)
        PROVE  BookInv'
    <3>1. f \in Nat /\ f <= chaser.size
      BY <1>1, Constants DEF Chasers, Sizes
    <3>2. QED
      BY <1>1, <1>d, <2>1, <2>3, <3>1
  <2>4. QED
    BY <1>16, <2>2, <2>3 DEF ExitStarts, Interrupts
<1>17. CASE ExitResumes
  BY <1>1, <1>17, <1>a, OpenIs, BookKept DEF ExitResumes
<1>18. ASSUME NEW n \in 0..Cap, ExitSells(n) PROVE BookInv'
  BY <1>1, <1>18, <1>a, OpenIs, BookKept DEF ExitSells
<1>19. CASE ExitVerifies
  <2>1. Hidden' = Hidden /\ Open' = Open
    BY <1>19, <1>a, OpenIs DEF ExitVerifies
  <2>2. chaser'.pc = chaser.pc /\ chaser'.old = chaser.old
    BY <1>1, <1>19, ClosedIs DEF ExitVerifies
  <2>3. QED
    BY <1>1, <2>1, <2>2, BookKept
<1>20. CASE Crash
  <2>1. Hidden' = Hidden
    BY <1>1, <1>20, SpendIs DEF Crash, Hidden, Faults
  <2>2. Open' = Open /\ chaser' = NoChaser
    BY <1>20, OpenIs DEF Crash
  <2>3. QED
    BY <1>1, <2>1, <2>2, NoChaserIs, BookKept
<1>21. CASE Restart
  <2>1. Hidden' = Hidden /\ Open' = Open
    BY <1>21, <1>a, OpenIs DEF Restart
  <2>2. chaser'.pc \notin {"cancel", "harvest", "place"}
    BY <1>21, <1>b, NoChaserIs DEF Restart, TypeInv
  <2>3. QED
    BY <1>1, <2>1, <2>2, BookKept
<1>22. CASE UNCHANGED vars
  BY <1>1, <1>22, <1>a, OpenIs, BookKept DEF vars
<1>23. QED
  BY <1>2, <1>3, <1>4, <1>5, <1>6, <1>7, <1>8, <1>9, <1>10, <1>11, <1>12, <1>13, <1>14, <1>15,
     <1>16, <1>17, <1>18, <1>19, <1>20, <1>21, <1>22
  DEF Next, Sweep, Chase, Exit

\* The chaser never stacks buys: across re-pegs, lost replies, interrupted
\* placements, crashes and later chases there is one order on the book, and
\* one more for each listing or cancel that failed.
THEOREM OneBuyOnTheBook == ASSUME ConstantsAssumption PROVE Spec => []OneRestingBuy
<1>1. Init => TypeInv /\ BookInv
  BY TypeInit, BookInit
<1>2. TypeInv /\ BookInv /\ [Next]_vars => (TypeInv /\ BookInv)'
  BY TypeStep, BookStep
<1>3. TypeInv /\ BookInv => OneRestingBuy
  <2>1. TypeInv /\ BookInv => Cardinality(Open) <= 1 + Hidden
    BY DEF BookInv, OneOrder
  <2>2. QED
    BY <2>1, HiddenIs DEF Hidden, OneRestingBuy
<1>4. QED
  BY <1>1, <1>2, <1>3, PTL DEF Spec

-----------------------------------------------------------------------------
(* A calm chase *)

NoFault == used.reply = 0 /\ used.cancel = 0 /\ used.list = 0 /\ used.crash = 0
Twice == "twice" \in causes

Calm ==
    /\ "late" \notin causes /\ "inflight" \notin causes
    /\ entries > 1 => ~Twice
    /\ NoFault

Before == {"gate", "skip", "list", "cancel", "harvest", "place"}
Sized == {"list", "cancel", "harvest", "place"}
Looking == {"gate", "skip", "list", "cancel"}
Looked == {"gate", "skip", "list", "place"}

\* The order on the book is the one the chaser remembers; none is left behind
\* unless a fill was counted twice.
Own ==
    /\ Running => Open \subseteq {chaser.id}
    /\ ~Running /\ Open # {} => Twice
    /\ entries = 0 => ~Running /\ Open = {}
    /\ chaser.pc \in {"cancel", "harvest"} => chaser.id = chaser.old
    /\ chaser.pc = "cancel" => chaser.old \in Open

\* What the chaser still wants fits under the target, on the exchange and, as
\* long as its position lives, in the bracket.
Amount ==
    /\ Running /\ chaser.pc # "stop" => chaser.n >= 1
    /\ chaser.pc \in Before => net + chaser.n <= Target
    /\ chaser.pc \in Sized => chaser.size <= chaser.n
    /\ chaser.pc \in Before /\ ~chaser.closed => net <= qty /\ qty + chaser.n <= Target

Uncounted(i) == orders[i].filled - chaser.last
Fits(i) == orders[i].rest <= chaser.n /\ qty + orders[i].rest <= Target

\* From one poll to the next placement every fill has been counted.
Kept ==
    /\ chaser.pc \in Looking =>
          \A i \in Open : Uncounted(i) = 0 /\ (Twice \/ chaser.closed \/ Fits(i))
    /\ chaser.pc = "harvest" => Uncounted(chaser.old) = 0
    /\ chaser.pc \in Looked /\ Open = {} => chaser.last = 0

\* While the chaser sleeps the exchange is ahead of the bracket by no more
\* than the next poll will count; if the sweep was quicker, that poll counts
\* twice.
Ahead(i) == Uncounted(i) > 0 /\ net < qty + Uncounted(i)
Owed(i) ==
    /\ orders[i].rest + Uncounted(i) <= chaser.n
    /\ qty + Uncounted(i) + orders[i].rest <= Target

Slept ==
    chaser.pc = "sleep" =>
      /\ Open = {} => chaser.last = 0 /\ (~chaser.closed => net <= qty)
      /\ \A i \in Open :
            /\ Uncounted(i) >= 0
            /\ ~chaser.closed => net <= qty + Uncounted(i)
            /\ Twice \/ chaser.closed \/ Ahead(i) \/ Owed(i)

Within == net <= Target /\ \A i \in Open : net + orders[i].rest <= Target

Calmly == Own /\ Amount /\ Kept /\ Slept /\ Within
CalmInv == Calm => Calmly

LEMMA Numbers ==
    ASSUME TypeInv
    PROVE  /\ net \in Nat /\ qty \in Nat /\ entries \in Nat
           /\ chaser.n \in Nat /\ chaser.n <= Target /\ chaser.size \in Nat /\ chaser.last \in Nat
           /\ chaser.id \in Names /\ chaser.old \in Names /\ chaser.pc \in Stages
           /\ \A i \in Slots : orders[i].rest \in Nat /\ orders[i].filled \in Nat
<1>1. \A x \in Orders : x.rest \in Nat /\ x.filled \in Nat
  BY Constants DEF Orders
<1>2. chaser \in Chasers /\ orders \in Books
  BY TypeInvIs
<1>3. QED
  BY <1>1, <1>2, ChaserParts, Constants DEF TypeInv, Chasers, Books, Slots

\* Nothing but the exchange's count goes down.
LEMMA CalmDrained ==
    ASSUME TypeInv, Calmly, orders' = orders, chaser' = chaser, qty' = qty,
           causes' = causes, entries' = entries, net' \in Nat, net' <= net
    PROVE  Calmly'
<1>1. Open' = Open /\ Open \in SUBSET Slots
  BY OpenIs
<1>2. Own'
  BY <1>1 DEF Calmly, Own, Running, Twice
<1>3. Amount'
  BY Numbers, Constants DEF Calmly, Amount, Running
<1>4. Kept'
  BY <1>1 DEF Calmly, Kept, Fits, Uncounted, Twice
<1>5. Slept'
  <2>1. ASSUME chaser.pc = "sleep", NEW i \in Open
        PROVE  /\ ~chaser.closed => net' <= qty + Uncounted(i)
               /\ Ahead(i) => Ahead(i)'
    <3>1. Uncounted(i)' = Uncounted(i) /\ Uncounted(i) \in Int
      BY <1>1, Numbers DEF Uncounted
    <3>2. ~chaser.closed => net <= qty + Uncounted(i)
      BY <2>1 DEF Calmly, Slept
    <3>3. QED
      BY <3>1, <3>2, Numbers DEF Ahead
  <2>2. ~chaser.closed /\ chaser.pc = "sleep" /\ Open = {} => net' <= qty
    BY Numbers DEF Calmly, Slept
  <2>3. \A i \in Open : Uncounted(i)' = Uncounted(i) /\ (Owed(i)' <=> Owed(i))
    BY DEF Uncounted, Owed
  <2>4. QED
    BY <1>1, <2>1, <2>2, <2>3 DEF Calmly, Slept, Twice
<1>6. Within'
  BY <1>1, Numbers, Constants DEF Calmly, Within
<1>7. QED
  BY <1>2, <1>3, <1>4, <1>5, <1>6 DEF Calmly

\* The bracket takes over what the exchange shows.
LEMMA CalmSynced ==
    ASSUME TypeInv, Calmly, orders' = orders, chaser' = chaser, qty' = net,
           causes' = causes, entries' = entries, net' = net
    PROVE  Calmly'
<1>1. Open' = Open /\ Open \in SUBSET Slots
  BY OpenIs
<1>2. Own'
  BY <1>1 DEF Calmly, Own, Running, Twice
<1>3. Amount'
  BY Numbers, Constants DEF Calmly, Amount, Running
<1>4. Kept'
  <2>1. ASSUME NEW i \in Open PROVE Uncounted(i)' = Uncounted(i) /\ (Fits(i) => Fits(i)')
    BY <1>1, <2>1, Numbers DEF Fits, Uncounted, Calmly, Within
  <2>2. chaser.pc = "harvest" => Uncounted(chaser.old)' = 0
    BY DEF Calmly, Kept, Uncounted
  <2>3. QED
    BY <1>1, <2>1, <2>2 DEF Calmly, Kept, Twice
<1>5. Slept'
  <2>1. ASSUME chaser.pc = "sleep", NEW i \in Open
        PROVE  /\ Uncounted(i)' = Uncounted(i)
               /\ net <= qty' + Uncounted(i)
               /\ Ahead(i) \/ Owed(i) => Ahead(i)' \/ Owed(i)'
    <3>1. /\ Uncounted(i)' = Uncounted(i) /\ Uncounted(i) \in Int
          /\ orders[i].rest \in Nat
      BY <1>1, Numbers DEF Uncounted
    <3>2. Uncounted(i) >= 0 /\ net + orders[i].rest <= Target
      BY <2>1 DEF Calmly, Slept, Within
    <3> HIDE DEF Uncounted
    <3>3. CASE Uncounted(i) > 0
      BY <3>1, <3>3, Numbers DEF Ahead
    <3>4. CASE Uncounted(i) = 0
      BY <3>1, <3>2, <3>4, Numbers DEF Ahead, Owed
    <3>5. QED
      BY <3>1, <3>2, <3>3, <3>4, Numbers
  <2>2. QED
    BY <1>1, <2>1, Numbers DEF Calmly, Slept, Twice
<1>6. Within'
  BY <1>1 DEF Calmly, Within
<1>7. QED
  BY <1>2, <1>3, <1>4, <1>5, <1>6 DEF Calmly

\* The position is gone, and the chaser's bracket is closed.
LEMMA CalmRemoved ==
    ASSUME TypeInv, Calmly, orders' = orders, chaser' = Closed(chaser), qty' = 0,
           causes' = causes, entries' = entries, net' = net, net = 0
    PROVE  Calmly'
<1>1. Open' = Open /\ Open \in SUBSET Slots
  BY OpenIs
<1>2. /\ chaser'.pc = chaser.pc /\ chaser'.id = chaser.id /\ chaser'.old = chaser.old
      /\ chaser'.n = chaser.n /\ chaser'.size = chaser.size /\ chaser'.last = chaser.last
  BY ClosedIs, TypeInvIs
<1>3. chaser.pc # "idle" => chaser'.closed
  BY ClosedIs, TypeInvIs
<1>4. Own'
  BY <1>1, <1>2 DEF Calmly, Own, Running, Twice
<1>5. Amount'
  BY <1>2, <1>3 DEF Calmly, Amount, Running, Before
<1>6. \A i : Uncounted(i)' = Uncounted(i)
  BY <1>2 DEF Uncounted
<1>7. Kept'
  BY <1>1, <1>2, <1>3, <1>6 DEF Calmly, Kept, Uncounted, Looking
<1>8. Slept'
  BY <1>1, <1>2, <1>3, <1>6 DEF Calmly, Slept
<1>9. Within'
  BY <1>1 DEF Calmly, Within
<1>10. QED
  BY <1>4, <1>5, <1>7, <1>8, <1>9 DEF Calmly

\* The chaser ends, or goes on to take back the order it remembers.
LEMMA CalmStopped ==
    ASSUME TypeInv, Calmly, orders' = orders, net' = net, entries' = entries,
           causes \subseteq causes',
           NEW c \in Chasers, c.id = chaser.id, chaser' = Stopped(c)
    PROVE  Calmly'
<1>1. Open' = Open /\ Open \in SUBSET Slots
  BY OpenIs
<1>2. chaser'.pc \in {"idle", "stop"}
  BY StoppedIs
<1>3. Own'
  <2>1. CASE c.id = 0
    <3>1. chaser'.pc = "idle"
      BY <2>1, StoppedIs, NoChaserIs
    <3>2. Open = {} \/ ~Running
      BY <1>1, <2>1, Constants DEF Calmly, Own, Slots
    <3>3. QED
      BY <1>1, <3>1, <3>2 DEF Calmly, Own, Running, Twice
  <2>2. CASE c.id # 0
    <3>1. chaser'.pc = "stop" /\ chaser'.id = chaser.id
      BY <2>2, StoppedIs
    <3>2. Running
      BY <2>2 DEF TypeInv, Good, Running
    <3>3. QED
      BY <1>1, <3>1, <3>2 DEF Calmly, Own, Running
  <2>3. QED
    BY <2>1, <2>2
<1>4. Amount' /\ Kept' /\ Slept'
  BY <1>2 DEF Amount, Kept, Slept, Running, Before, Sized, Looking, Looked
<1>5. Within'
  BY <1>1 DEF Calmly, Within
<1>6. QED
  BY <1>3, <1>4, <1>5 DEF Calmly

LEMMA SpendShows ==
    ASSUME TypeInv, NEW f, Spend(f)
    PROVE  f \in Faults /\ used' # used /\ ~NoFault'
<1>1. f \in Faults
  BY Constants DEF Spend
<1>2. used'[f] = used[f] + 1 /\ used[f] \in Nat
  BY <1>1, SpendIs, TypeInvIs, Constants DEF TypeInv, Uses
<1>3. QED
  BY <1>1, <1>2 DEF NoFault, Faults

\* Calm is only ever lost.
LEMMA CalmBefore ==
    ASSUME TypeInv, [Next]_vars, Calm'
    PROVE  Calm /\ used' = used /\ causes \subseteq causes'
<1> USE DEF exchange, position, ghosts
<1>1. causes \subseteq causes' /\ (entries' = entries \/ entries' = entries + 1)
  BY DEF Next, vars, Enter, Fill, SoldElsewhere, Sweep, SweepSyncs, SweepRemoves, SweepAdopts,
         Chase, Gate, Skip, Lists, Cancels, Harvests, Places, Polls, Stops, Exit, ExitStarts,
         Interrupts, ExitResumes, ExitSells, ExitVerifies, Crash, Restart
<1>2. used' = used \/ \E f \in Faults : Spend(f)
  BY DEF Next, vars, Enter, Fill, SoldElsewhere, Sweep, SweepSyncs, SweepRemoves, SweepAdopts,
         Chase, Gate, Skip, Lists, Cancels, Harvests, Places, Polls, Stops, Exit, ExitStarts,
         Interrupts, ExitResumes, ExitSells, ExitVerifies, Crash, Restart, Answered, Faults
<1>3. used' = used
  BY <1>2, SpendShows DEF Calm
<1>4. entries > 1 => entries' > 1
  BY <1>1, Numbers
<1>5. QED
  BY <1>1, <1>3, <1>4 DEF Calm, Twice, NoFault

LEMMA CalmCalls ==
    ASSUME TypeInv, used' = used, NEW ok \in BOOLEAN, NEW f, Answered(ok, f)
    PROVE  ok
  BY SpendShows DEF Answered

\* Where an order is placed, nothing rests.
LEMMA CalmRoom ==
    ASSUME TypeInv, BookInv, Calm, chaser.pc \in {"harvest", "place"}
    PROVE  Open = {}
<1>1. Cardinality(Open) <= Hidden /\ Hidden = 0
  BY DEF BookInv, RoomOnTheBook, Calm, NoFault, Hidden
<1>2. Cardinality(Open) = 0
  BY <1>1, OpenIs, SetSizes
<1>3. QED
  BY <1>2, OpenIs, FiniteBook, FS_EmptySet

LEMMA CalmInit == Init => CalmInv
<1> SUFFICES ASSUME Init PROVE Calmly
  BY DEF CalmInv
<1>1. Open = {} /\ chaser.pc = "idle" /\ net = 0 /\ ~Running
  BY NoChaserIs DEF Init, Open, NoOrder, Running
<1>2. Own /\ Amount /\ Kept /\ Slept
  BY <1>1 DEF Own, Amount, Kept, Slept, Running, Before, Sized, Looking, Looked
<1>3. Within
  BY <1>1, Constants DEF Within
<1>4. QED
  BY <1>2, <1>3 DEF Calmly

\* A chaser at the head of its loop, all that was filled counted.
LEMMA CalmTop ==
    ASSUME TypeInv, Calmly, Running, orders' = orders, net' = net, entries' = entries,
           causes \subseteq causes', NEW c \in Chasers, c.id = chaser.id,
           NEW q \in Nat, qty' = q, chaser' = Top(c, q), ~ (c.closed \/ Target <= q),
           net <= q, Open = {} => c.last = 0,
           \A i \in Open : /\ orders[i].filled = c.last
                           /\ "twice" \in causes' \/ q + orders[i].rest <= Target
    PROVE  Calmly'
<1>1. Open' = Open /\ Open \in SUBSET Slots
  BY OpenIs
<1>2. /\ chaser'.pc = "gate" /\ chaser'.n = Target - q /\ chaser'.id = chaser.id
      /\ chaser'.last = c.last
  BY TopIs
<1>3. Own'
  BY <1>1, <1>2 DEF Calmly, Own, Running
<1>4. q < Target /\ net + (Target - q) <= Target /\ q + (Target - q) <= Target /\ Target - q >= 1
  BY Numbers, Constants
<1>5. Amount'
  BY <1>2, <1>4 DEF Amount, Sized
<1>6. Kept'
  <2>1. ASSUME NEW i \in Open PROVE Uncounted(i)' = 0 /\ (Twice' \/ Fits(i)')
    <3>1. orders[i].rest \in Nat /\ orders[i].filled \in Nat
      BY <1>1, Numbers
    <3>2. Uncounted(i)' = 0
      BY <1>2, <3>1 DEF Uncounted
    <3>3. q + orders[i].rest <= Target => Fits(i)'
      BY <1>2, <3>1, Constants DEF Fits
    <3>4. QED
      BY <3>2, <3>3 DEF Twice
  <2>2. QED
    BY <1>1, <1>2, <2>1 DEF Kept
<1>7. Slept' /\ Within'
  BY <1>1, <1>2 DEF Calmly, Slept, Within
<1>8. QED
  BY <1>3, <1>5, <1>6, <1>7 DEF Calmly

\* The chaser falls asleep on a fresh order, or with nothing on the book.
LEMMA CalmPlaced ==
    ASSUME TypeInv, TypeInv', Calmly, chaser.pc = "place", Open = {}, Forgotten # {},
           NEW f \in Nat, f <= chaser.size, Book(Min(Forgotten), f), qty' = Counted(chaser, f),
           chaser' = IF f >= chaser.n THEN NoChaser
                     ELSE [chaser EXCEPT !.pc = "sleep", !.id = Min(Forgotten), !.last = 0,
                                         !.n = @ - f],
           entries' = entries
    PROVE  Calmly'
<1>1. PICK i \in Slots : i = Min(Forgotten)
  BY FreeId
<1>2. /\ net' = net + f
      /\ orders'[i].rest = chaser.size - f /\ orders'[i].filled = f
  BY <1>1, BookIs
<1>3. Open' \subseteq {i}
  BY <1>1, OpenAfterBook
<1>4. /\ chaser.size <= chaser.n /\ net + chaser.n <= Target /\ chaser.n >= 1
      /\ ~chaser.closed => net <= qty /\ qty + chaser.n <= Target
  BY DEF Calmly, Amount, Running, Before, Sized
<1>5. entries # 0
  BY DEF Calmly, Own, Running
<1>6. Within'
  BY <1>1, <1>2, <1>3, <1>4, Numbers, Constants DEF Within
<1>7. CASE f >= chaser.n
  <2>1. chaser'.pc = "idle"
    BY <1>7, NoChaserIs
  <2>2. Open' = {}
    <3>1. orders'[i].rest = 0
      BY <1>2, <1>4, <1>7, Numbers
    <3>2. QED
      BY <1>1, <1>3, <3>1, OpenIs
  <2>3. Own' /\ Amount' /\ Kept' /\ Slept'
    BY <1>5, <2>1, <2>2
    DEF Own, Amount, Kept, Slept, Running, Before, Sized, Looking, Looked
  <2>4. QED
    BY <1>6, <2>3 DEF Calmly
<1>8. CASE ~ (f >= chaser.n)
  <2>1. /\ chaser'.pc = "sleep" /\ chaser'.id = i /\ chaser'.last = 0 /\ chaser'.n = chaser.n - f
    BY <1>1, <1>8, TypeInvIs DEF Chasers
  <2>2. chaser'.closed = chaser.closed
    BY <1>8, TypeInvIs DEF Chasers
  <2>3. Own'
    BY <1>3, <1>5, <2>1 DEF Own, Running
  <2>4. chaser.n - f >= 1
    BY <1>8, Numbers
  <2>5. Amount' /\ Kept'
    BY <2>1, <2>4 DEF Amount, Kept, Before, Sized, Looking, Looked
  <2>6. ~chaser.closed => qty' = qty + f
    BY CountedIs, TypeInvIs
  <2>7. ~chaser'.closed => net' <= qty'
    BY <1>2, <1>4, <2>2, <2>6, Numbers
  <2>8. ASSUME NEW j \in Open'
        PROVE  /\ Uncounted(j)' >= 0
               /\ ~chaser'.closed => net' <= qty' + Uncounted(j)'
               /\ chaser'.closed \/ Ahead(j)' \/ Owed(j)'
    <3>1. Uncounted(i)' = f /\ j = i
      BY <1>2, <1>3, <2>1 DEF Uncounted
    <3>2. ~chaser.closed => net' <= qty' + f
      BY <1>2, <1>4, <2>6, Numbers
    <3>3. ASSUME ~chaser.closed, f > 0 PROVE Ahead(i)'
      <4>1. net' < qty' + f
        BY <1>2, <1>4, <2>6, <3>3, Numbers
      <4>2. QED
        BY <3>1, <3>3, <4>1 DEF Ahead
    <3>4. ASSUME ~chaser.closed, f = 0 PROVE Owed(i)'
      <4>1. chaser.size + 0 <= chaser.n - 0 /\ qty + 0 + chaser.size <= Target
        BY <1>4, <3>4, Numbers, Constants
      <4>2. orders'[i].rest = chaser.size /\ chaser'.n = chaser.n /\ qty' = qty
        BY <1>2, <2>1, <2>6, <3>4, Numbers
      <4>3. QED
        BY <3>1, <3>4, <4>1, <4>2, Numbers DEF Owed
    <3>5. QED
      BY <2>2, <3>1, <3>2, <3>3, <3>4
  <2>9. Slept'
    BY <2>1, <2>7, <2>8 DEF Slept
  <2>10. QED
    BY <1>6, <2>3, <2>5, <2>9 DEF Calmly
<1>9. QED
  BY <1>7, <1>8

\* The sum over the open orders is what the one order filled.
LEMMA CalmSum ==
    ASSUME TypeInv, Calmly, Running
    PROVE  /\ Open = {} => FilledBy(Open) = 0
           /\ \A i \in Open : FilledBy(Open) = orders[i].filled
<1>1. orders \in Books /\ Open \in SUBSET Slots /\ Open \subseteq {chaser.id}
  BY TypeInvIs, OpenIs DEF Calmly, Own
<1>2. Open = {} => FilledBy(Open) = 0
  BY <1>1, BookSums, FilledIs
<1>3. ASSUME NEW i \in Open PROVE FilledBy(Open) = orders[i].filled
  <2>1. Open = {i} /\ i \in Slots
    BY <1>1
  <2>2. FilledBy({i}) = orders[i].filled
    BY <1>1, <2>1, BookSums, FilledIs
  <2>3. QED
    BY <2>1, <2>2
<1>4. QED
  BY <1>2, <1>3

\* A poll counts what was left uncounted, and either goes on with what is
\* still owed or knows that it counted twice.
LEMMA CalmPolled ==
    ASSUME TypeInv, Calmly, Polls(TRUE)
    PROVE  Calmly'
<1> DEFINE new == Plus(FilledBy(Listing(TRUE)) - chaser.last)
           q == Counted(chaser, new)
           c == [chaser EXCEPT !.n = Plus(@ - new), !.last = @ + new]
<1>1. /\ chaser.pc = "sleep" /\ Running /\ qty' = q /\ causes' = causes \cup Seen(chaser, new)
      /\ chaser' = IF c.n = 0 \/ (Target <= q /\ ~c.closed) THEN NoChaser ELSE Top(c, q)
      /\ orders' = orders /\ net' = net /\ entries' = entries
  BY DEF Polls, exchange, Running
<1>2. /\ Open = {} => new = 0 /\ chaser.last = 0
      /\ \A i \in Open : new = Uncounted(i) /\ Uncounted(i) \in Nat
  <2>1. new = Plus(FilledBy(Open) - chaser.last)
    BY DEF Listing
  <2>2. ASSUME NEW i \in Open PROVE new = Uncounted(i) /\ Uncounted(i) \in Nat
    <3>1. Uncounted(i) >= 0
      BY <1>1 DEF Calmly, Slept
    <3>2. orders[i].filled \in Nat /\ FilledBy(Open) = orders[i].filled
      BY <1>1, OpenIs, Numbers, CalmSum
    <3>3. Uncounted(i) \in Nat
      BY <3>1, <3>2, Numbers DEF Uncounted
    <3>4. new = Plus(Uncounted(i))
      BY <2>1, <3>2 DEF Uncounted
    <3> HIDE DEF new
    <3>5. QED
      BY <3>3, <3>4, PlusIs
  <2>3. ASSUME Open = {} PROVE new = 0 /\ chaser.last = 0
    <3>1. chaser.last = 0 /\ FilledBy(Open) = 0
      BY <1>1, <2>3, CalmSum DEF Calmly, Slept
    <3> HIDE DEF new
    <3>2. QED
      BY <2>1, <3>1, PlusIs
  <2>4. QED
    BY <2>2, <2>3
<1> HIDE DEF new
<1>3. new \in Nat
  BY <1>2
<1>4. q \in Nat /\ (~chaser.closed => q = qty + new)
  BY <1>3, CountedIs, TypeInvIs
<1>5. c \in Chasers /\ c.id = chaser.id /\ c.n = Plus(chaser.n - new) /\ c.last = chaser.last + new
  <2> DEFINE m == Plus(chaser.n - new)
             l == chaser.last + new
  <2>1. m \in Sizes /\ l \in Nat
    BY <1>3, Numbers, Constants DEF Plus, Sizes
  <2>2. c = [chaser EXCEPT !.n = m, !.last = l]
    BY TypeInvIs DEF Chasers
  <2> HIDE DEF m, l, c
  <2>3. c \in Chasers /\ c.id = chaser.id /\ c.n = m /\ c.last = l
    BY <2>1, <2>2, TypeInvIs DEF Chasers
  <2>4. QED
    BY <2>3 DEF m, l
<1>6. c.closed = chaser.closed
  BY TypeInvIs DEF Chasers
<1>7. new > 0 /\ (chaser.closed \/ qty + new > net) => "twice" \in causes'
  BY <1>1, <1>3, SeenIs, TypeInvIs
<1> HIDE DEF c, q
<1>8. CASE c.n = 0 \/ (Target <= q /\ ~c.closed)
  <2>1. chaser'.pc = "idle"
    BY <1>1, <1>8, NoChaserIs
  <2>2. ASSUME NEW i \in Open PROVE "twice" \in causes'
    <3>1. /\ new = Uncounted(i) /\ orders[i].rest \in Nat /\ orders[i].rest > 0
          /\ Twice \/ chaser.closed \/ Ahead(i) \/ Owed(i)
      BY <1>1, <1>2, OpenIs, Numbers DEF Calmly, Slept
    <3>2. CASE Twice
      BY <1>1, <3>2 DEF Twice
    <3>3. CASE chaser.closed
      <4>1. c.n = 0
        BY <1>6, <1>8, <3>3
      <4>2. chaser.n >= 1
        BY <1>1 DEF Calmly, Amount
      <4>3. new > 0
        BY <1>3, <1>5, <4>1, <4>2, Numbers, PlusIs
      <4>4. QED
        BY <1>7, <3>3, <4>3
    <3>4. CASE Ahead(i)
      BY <1>3, <1>7, <3>1, <3>4, Numbers DEF Ahead
    <3>5. CASE Owed(i) /\ ~chaser.closed
      <4>1. orders[i].rest + new <= chaser.n /\ qty + new + orders[i].rest <= Target
        BY <3>1, <3>5 DEF Owed
      <4>2. c.n # 0
        BY <1>3, <1>5, <3>1, <4>1, Numbers, PlusIs
      <4>3. ~ (Target <= q)
        BY <1>3, <1>4, <3>1, <3>5, <4>1, Numbers, Constants
      <4>4. QED
        BY <1>8, <4>2, <4>3
    <3>6. QED
      BY <3>1, <3>2, <3>3, <3>4, <3>5
  <2>3. entries # 0
    BY <1>1 DEF Calmly, Own
  <2>4. Open' = Open
    BY <1>1, OpenIs
  <2>5. Own' /\ Amount' /\ Kept' /\ Slept'
    BY <1>1, <2>1, <2>2, <2>3, <2>4
    DEF Own, Amount, Kept, Slept, Running, Before, Sized, Looking, Looked, Twice
  <2>6. QED
    BY <1>1, <2>4, <2>5 DEF Calmly, Within
<1>9. CASE ~ (c.n = 0 \/ (Target <= q /\ ~c.closed))
  <2>1. chaser' = Top(c, q)
    BY <1>1, <1>9
  <2>2. CASE c.closed \/ Target <= q
    <3>1. chaser' = Stopped(c)
      BY <1>4, <1>5, <2>1, <2>2, TopIs
    <3>2. causes \subseteq causes'
      BY <1>1
    <3>3. QED
      BY <1>1, <1>5, <3>1, <3>2, CalmStopped
  <2>3. CASE ~ (c.closed \/ Target <= q)
    <3>1. q = qty + new
      BY <1>4, <1>6, <2>3
    <3>2. net <= q
      <4>1. CASE Open = {}
        BY <1>1, <1>2, <1>6, <2>3, <3>1, <4>1, Numbers DEF Calmly, Slept
      <4>2. CASE Open # {}
        <5>1. PICK i \in Open : TRUE
          BY <4>2
        <5>2. new = Uncounted(i) /\ net <= qty + Uncounted(i)
          BY <1>1, <1>2, <1>6, <2>3, <5>1 DEF Calmly, Slept
        <5>3. QED
          BY <3>1, <5>2
      <4>3. QED
        BY <4>1, <4>2
    <3>3. Open = {} => c.last = 0
      BY <1>2, <1>5
    <3>4. ASSUME NEW i \in Open
          PROVE  /\ orders[i].filled = c.last
                 /\ "twice" \in causes' \/ q + orders[i].rest <= Target
      <4>1. /\ new = Uncounted(i) /\ orders[i].rest \in Nat /\ orders[i].filled \in Nat
            /\ Twice \/ Ahead(i) \/ Owed(i)
        BY <1>1, <1>2, <1>6, <2>3, OpenIs, Numbers DEF Calmly, Slept
      <4>2. orders[i].filled = c.last
        BY <1>5, <4>1, Numbers DEF Uncounted
      <4>3. CASE Twice
        BY <1>1, <4>2, <4>3 DEF Twice
      <4>4. CASE Ahead(i)
        <5>1. new > 0 /\ qty + new > net
          BY <1>3, <4>1, <4>4, Numbers DEF Ahead
        <5>2. QED
          BY <1>7, <4>2, <5>1
      <4>5. CASE Owed(i)
        <5>1. q + orders[i].rest <= Target
          BY <3>1, <4>1, <4>5 DEF Owed
        <5>2. QED
          BY <4>2, <5>1
      <4>6. QED
        BY <4>1, <4>3, <4>4, <4>5
    <3>5. causes \subseteq causes'
      BY <1>1
    <3>6. QED
      BY <1>1, <1>4, <1>5, <2>1, <2>3, <3>2, <3>3, <3>4, <3>5, CalmTop
  <2>4. QED
    BY <2>2, <2>3
<1>10. QED
  BY <1>8, <1>9

LEMMA CalmOne ==
    ASSUME TypeInv, BookInv, Calm, NEW i \in Open, NEW j \in Open
    PROVE  i = j
<1> SUFFICES ASSUME i # j PROVE FALSE
  OBVIOUS
<1>1. Cardinality(Open) <= 1 /\ Cardinality(Open) \in Nat
  BY OpenIs, SetSizes DEF BookInv, OneOrder, Calm, NoFault, Hidden
<1>2. Cardinality(Open \ {i}) = Cardinality(Open) - 1
  BY OpenIs, SetSizes
<1>3. Open \ {i} \in SUBSET Slots
  BY OpenIs
<1>4. Cardinality(Open \ {i}) = 0
  <2>1. Cardinality(Open \ {i}) \in Nat
    BY <1>3, SetSizes
  <2>2. QED
    BY <1>1, <1>2, <2>1
<1>5. Open \ {i} = {}
  BY <1>3, <1>4, FiniteBook, FS_EmptySet
<1>6. QED
  BY <1>5

\* An order filled while the chaser looked on: asleep with more to come, or
\* when there is no chaser any more.
LEMMA CalmFilled ==
    ASSUME TypeInv, BookInv, Calm, Calmly, NEW i \in Slots, NEW n \in Nat, n > 0, Fill(i, n),
           "late" \notin causes'
    PROVE  Calmly'
<1>1. /\ chaser' = chaser /\ qty' = qty /\ entries' = entries
      /\ ~Unlooked(i, n) /\ causes' = causes
  BY DEF Fill, position
<1>2. chaser.pc \notin Before /\ (chaser.pc = "sleep" => n # orders[i].rest)
  BY <1>1 DEF Unlooked, Before
<1>3. /\ net' = net + n /\ n <= orders[i].rest
      /\ orders'[i].rest = orders[i].rest - n /\ orders'[i].filled = orders[i].filled + n
      /\ \A j \in Slots : j # i => orders'[j] = orders[j]
  BY FillIs
<1>4. i \in Open /\ Open' \subseteq Open /\ (chaser.pc = "sleep" => i \in Open')
  <2>1. i \in Open
    BY <1>3, Numbers, OpenIs
  <2>2. Open' \subseteq Open
    BY <1>3, <2>1, OpenIs
  <2>3. n # orders[i].rest => i \in Open'
    BY <1>3, Numbers, OpenIs
  <2>4. QED
    BY <1>2, <2>1, <2>2, <2>3
<1>5. Own'
  BY <1>1, <1>2, <1>4 DEF Calmly, Own, Running, Twice, Before
<1>6. Amount' /\ Kept'
  BY <1>1, <1>2 DEF Calmly, Amount, Kept, Running, Before, Sized, Looking, Looked
<1>7. \A j \in Open' : j = i
  BY <1>4, CalmOne
<1>8. orders[i].rest \in Nat /\ orders[i].filled \in Nat /\ net + orders[i].rest <= Target
  BY <1>4, Numbers DEF Calmly, Within
<1>9. Slept'
  <2>1. ASSUME chaser.pc = "sleep"
        PROVE  /\ Uncounted(i)' >= 0
               /\ ~chaser.closed => net' <= qty + Uncounted(i)'
               /\ Twice \/ chaser.closed \/ Ahead(i)' \/ Owed(i)'
    <3>1. /\ Uncounted(i) >= 0 /\ Uncounted(i) \in Int
          /\ ~chaser.closed => net <= qty + Uncounted(i)
          /\ Twice \/ chaser.closed \/ Ahead(i) \/ Owed(i)
      BY <1>4, <1>8, <2>1, Numbers DEF Calmly, Slept, Uncounted
    <3>2. Uncounted(i)' = Uncounted(i) + n
      BY <1>1, <1>3, <1>8, Numbers DEF Uncounted
    <3> HIDE DEF Uncounted
    <3>3. ~chaser.closed => net' <= qty + Uncounted(i)'
      BY <1>3, <3>1, <3>2, Numbers
    <3>4. Ahead(i) => Ahead(i)'
      BY <1>1, <1>3, <3>1, <3>2, Numbers DEF Ahead
    <3>5. Owed(i) => Owed(i)'
      BY <1>1, <1>3, <1>8, <3>1, <3>2, Numbers, Constants DEF Owed
    <3>6. Uncounted(i)' >= 0
      BY <3>1, <3>2
    <3>7. QED
      BY <3>1, <3>3, <3>4, <3>5, <3>6
  <2>2. QED
    BY <1>1, <1>4, <1>7, <2>1 DEF Slept, Twice
<1>10. Within'
  <2>1. net' <= Target /\ net' + orders'[i].rest <= Target
    BY <1>3, <1>8, Numbers, Constants
  <2>2. QED
    BY <1>7, <2>1 DEF Within
<1>11. QED
  BY <1>5, <1>6, <1>9, <1>10 DEF Calmly

LEMMA CalmEntered ==
    ASSUME TypeInv, Calmly, NEW n \in 1..Target, Enter(n), entries' > 1 => ~Twice
    PROVE  Calmly'
<1>1. /\ ~Running /\ entries' = entries + 1 /\ net' = n /\ qty' = n /\ orders' = orders
      /\ chaser' = Top(NoChaser, n) /\ n \in Nat /\ n <= Target /\ entries' # 0
  BY Numbers, Constants DEF Enter
<1>2. Open = {} /\ Open' = {}
  <2>1. entries = 0 \/ entries' > 1
    BY <1>1, Numbers
  <2>2. QED
    BY <1>1, <2>1, OpenIs DEF Calmly, Own
<1>3. Within'
  BY <1>1, <1>2 DEF Within
<1>4. CASE NoChaser.closed \/ Target <= n
  <2>1. chaser' = NoChaser
    BY <1>1, <1>4, TopIs, StoppedIs, NoChaserIs
  <2>2. QED
    BY <1>1, <1>2, <1>3, <2>1, NoChaserIs
    DEF Calmly, Own, Amount, Kept, Slept, Running, Before, Sized, Looking, Looked
<1>5. CASE ~ (NoChaser.closed \/ Target <= n)
  <2>1. chaser'.pc = "gate" /\ chaser'.n = Target - n /\ chaser'.last = 0
    BY <1>1, <1>5, TopIs, NoChaserIs
  <2>2. Target - n >= 1 /\ n + (Target - n) <= Target /\ n <= n
    BY <1>1, <1>5, Constants
  <2>3. Amount'
    BY <1>1, <2>1, <2>2 DEF Amount, Sized
  <2>4. Own' /\ Kept' /\ Slept'
    BY <1>1, <1>2, <2>1 DEF Own, Kept, Slept, Running
  <2>5. QED
    BY <1>3, <2>3, <2>4 DEF Calmly
<1>6. QED
  BY <1>4, <1>5

LEMMA CalmGate ==
    ASSUME TypeInv, Calmly, NEW open \in BOOLEAN, Gate(open)
    PROVE  Calmly'
<1>1. /\ orders' = orders /\ net' = net /\ qty' = qty /\ causes' = causes /\ entries' = entries
      /\ chaser.pc = "gate" /\ Open' = Open
  BY OpenIs DEF Gate, exchange, position, ghosts
<1>2. CASE chaser' = Stopped(chaser)
  BY <1>1, <1>2, CalmStopped, TypeInvIs
<1>3. ASSUME chaser'.pc \in {"skip", "list"}, chaser'.n = chaser.n, chaser'.id = chaser.id,
             chaser'.last = chaser.last, chaser'.closed = chaser.closed,
             chaser'.pc = "list" => chaser'.size <= chaser.n
      PROVE  Calmly'
  <2>1. Own'
    BY <1>1, <1>3 DEF Calmly, Own, Running
  <2>2. Amount'
    BY <1>1, <1>3 DEF Calmly, Amount, Running, Before, Sized
  <2>3. ASSUME NEW i \in Open PROVE Uncounted(i)' = Uncounted(i) /\ (Fits(i)' <=> Fits(i))
    BY <1>1, <1>3 DEF Uncounted, Fits
  <2>4. Kept'
    BY <1>1, <1>3, <2>3 DEF Calmly, Kept, Looking, Looked, Twice
  <2>5. Slept' /\ Within'
    BY <1>1, <1>3 DEF Calmly, Slept, Within
  <2>6. QED
    BY <2>1, <2>2, <2>4, <2>5 DEF Calmly
<1>4. CASE chaser' = [chaser EXCEPT !.pc = "skip"]
  <2>1. /\ chaser'.pc = "skip" /\ chaser'.n = chaser.n /\ chaser'.id = chaser.id
        /\ chaser'.last = chaser.last
    BY <1>4, TypeInvIs DEF Chasers
  <2>2. chaser'.closed = chaser.closed
    BY <1>4, TypeInvIs DEF Chasers
  <2>3. QED
    BY <1>3, <2>1, <2>2
<1>5. ASSUME NEW b \in Bids,
             chaser' = [chaser EXCEPT !.pc = "list", !.bid = b,
                                      !.size = Lower(chaser.n, Cap - qty)]
      PROVE  Calmly'
  <2>1. /\ chaser'.pc = "list" /\ chaser'.n = chaser.n /\ chaser'.id = chaser.id
        /\ chaser'.last = chaser.last /\ chaser'.size = Lower(chaser.n, Cap - qty)
    BY <1>5, TypeInvIs DEF Chasers
  <2>2. chaser'.closed = chaser.closed
    BY <1>5, TypeInvIs DEF Chasers
  <2>3. Lower(chaser.n, Cap - qty) <= chaser.n
    BY Numbers, Constants DEF Lower
  <2>4. QED
    BY <1>3, <2>1, <2>2, <2>3
<1>6. QED
  BY <1>2, <1>4, <1>5 DEF Gate

LEMMA CalmSkipped ==
    ASSUME TypeInv, Calmly, Skip
    PROVE  Calmly'
<1>1. /\ orders' = orders /\ net' = net /\ qty' = qty /\ causes' = causes /\ entries' = entries
      /\ chaser.pc = "skip" /\ chaser' = Top(chaser, qty) /\ Running
  BY DEF Skip, exchange, position, ghosts, Running
<1>2. qty \in Nat /\ chaser \in Chasers /\ causes \subseteq causes'
  BY <1>1, Numbers, TypeInvIs
<1>3. CASE chaser.closed \/ Target <= qty
  BY <1>1, <1>2, <1>3, TopIs, CalmStopped
<1>4. CASE ~ (chaser.closed \/ Target <= qty)
  <2>1. net <= qty
    BY <1>1, <1>4 DEF Calmly, Amount, Before
  <2>2. Open = {} => chaser.last = 0
    BY <1>1 DEF Calmly, Kept, Looked
  <2>3. ASSUME NEW i \in Open
        PROVE  /\ orders[i].filled = chaser.last
               /\ "twice" \in causes' \/ qty + orders[i].rest <= Target
    <3>1. Uncounted(i) = 0 /\ (Twice \/ Fits(i))
      BY <1>1, <1>4 DEF Calmly, Kept, Looking
    <3>2. orders[i].filled = chaser.last
      BY <3>1, OpenIs, Numbers DEF Uncounted
    <3>3. QED
      BY <1>1, <3>1, <3>2 DEF Twice, Fits
  <2>4. QED
    BY <1>1, <1>2, <1>4, <2>1, <2>2, <2>3, CalmTop
<1>5. QED
  BY <1>3, <1>4

LEMMA CalmListed ==
    ASSUME TypeInv, Calmly, Lists(TRUE)
    PROVE  Calmly'
<1>1. PICK i \in IF Open = {} THEN {chaser.id} ELSE Open,
           best \in {j \in Open : \A k \in Open : orders[k].price <= orders[j].price}
                      \cup IF Open = {} THEN {0} ELSE {} :
         chaser' = [chaser EXCEPT !.pc = Finds(Open), !.id = i,
                                  !.old = IF Finds(Open) = "cancel" THEN best ELSE 0]
  BY DEF Lists, Listing
<1>2. /\ orders' = orders /\ net' = net /\ qty' = qty /\ causes' = causes /\ entries' = entries
      /\ chaser.pc = "list" /\ Open' = Open /\ Running
  BY OpenIs DEF Lists, exchange, position, Running
<1>3. /\ Finds(Open) \in {"place", "sleep", "cancel"}
      /\ Finds(Open) = "place" <=> Open = {}
      /\ Finds(Open) = "cancel" => best \in Open
  BY DEF Finds
<1>4. /\ chaser'.pc = Finds(Open) /\ chaser'.id = i /\ chaser'.n = chaser.n
      /\ chaser'.last = chaser.last /\ chaser'.size = chaser.size
      /\ Finds(Open) = "cancel" => chaser'.old = best
  BY <1>1, TypeInvIs DEF Chasers
<1>5. chaser'.closed = chaser.closed
  BY <1>1, TypeInvIs DEF Chasers
<1>6. i = chaser.id /\ Open \subseteq {i}
  BY <1>2 DEF Calmly, Own
<1>7. Own'
  BY <1>2, <1>3, <1>4, <1>6 DEF Calmly, Own, Running
<1>8. Amount'
  BY <1>2, <1>3, <1>4, <1>5 DEF Calmly, Amount, Running, Before, Sized
<1>9. ASSUME NEW j \in Open
      PROVE  /\ Uncounted(j)' = 0
             /\ Twice' \/ chaser'.closed \/ Fits(j)'
             /\ Fits(j)' => Owed(j)'
  <2>1. Uncounted(j) = 0 /\ (Twice \/ chaser.closed \/ Fits(j))
    BY <1>2 DEF Calmly, Kept, Looking
  <2>2. Uncounted(j)' = 0 /\ (Fits(j)' <=> Fits(j))
    BY <1>2, <1>4, <2>1 DEF Uncounted, Fits
  <2>3. orders[j].rest \in Nat
    BY OpenIs, Numbers
  <2>4. Fits(j)' => Owed(j)'
    BY <1>2, <1>4, <2>2, <2>3, Numbers DEF Fits, Owed
  <2>5. QED
    BY <1>2, <1>5, <2>1, <2>2, <2>4 DEF Twice
<1>10. Kept'
  BY <1>2, <1>3, <1>4, <1>9 DEF Calmly, Kept, Looking, Looked
<1>11. Slept'
  <2>1. ~chaser'.closed => net' <= qty'
    BY <1>2, <1>5 DEF Calmly, Amount, Before
  <2>2. ASSUME NEW j \in Open
        PROVE  /\ Uncounted(j)' >= 0
               /\ ~chaser'.closed => net' <= qty' + Uncounted(j)'
    BY <1>2, <1>9, <2>1, Numbers
  <2>3. chaser'.pc = "sleep" => Open # {}
    BY <1>3, <1>4
  <2>4. QED
    BY <1>2, <1>9, <2>2, <2>3 DEF Slept
<1>12. Within'
  BY <1>2 DEF Calmly, Within
<1>13. QED
  BY <1>7, <1>8, <1>10, <1>11, <1>12 DEF Calmly

LEMMA CalmCanceled ==
    ASSUME TypeInv, Calmly, Cancels(TRUE)
    PROVE  Calmly'
<1>1. /\ net' = net /\ qty' = qty /\ causes' = causes /\ entries' = entries
      /\ chaser.pc = "cancel" /\ chaser' = [chaser EXCEPT !.pc = "harvest"]
      /\ orders' = Without(chaser.old) /\ Running
  BY DEF Cancels, position, Running
<1>2. /\ chaser'.pc = "harvest" /\ chaser'.id = chaser.id /\ chaser'.n = chaser.n
      /\ chaser'.last = chaser.last /\ chaser'.size = chaser.size /\ chaser'.old = chaser.old
  BY <1>1, TypeInvIs DEF Chasers
<1>3. chaser'.closed = chaser.closed
  BY <1>1, TypeInvIs DEF Chasers
<1>4. chaser.id = chaser.old /\ chaser.old \in Open /\ Open \subseteq {chaser.old}
  BY <1>1 DEF Calmly, Own
<1>5. Open' = {}
  <2>1. Open' = Open \ {chaser.old}
    BY <1>1, OpenShrinks
  <2>2. QED
    BY <1>4, <2>1
<1>6. orders'[chaser.old].filled = orders[chaser.old].filled
  BY <1>1, <1>4, OpenIs, WithoutIs DEF TypeInv
<1>7. Uncounted(chaser.old) = 0
  BY <1>1, <1>4 DEF Calmly, Kept, Looking
<1>8. Own' /\ Slept' /\ Within'
  BY <1>1, <1>2, <1>4, <1>5 DEF Calmly, Own, Slept, Within, Running
<1>9. Amount'
  BY <1>1, <1>2, <1>3 DEF Calmly, Amount, Running, Before, Sized
<1>10. Kept'
  <2>1. (Uncounted(chaser.old) = 0)'
    BY <1>2, <1>6, <1>7 DEF Uncounted
  <2>2. QED
    BY <1>2, <1>5, <2>1 DEF Kept, Looking, Looked
<1>11. QED
  BY <1>8, <1>9, <1>10 DEF Calmly

LEMMA CalmHarvested ==
    ASSUME TypeInv, Calmly, Open = {}, Harvests
    PROVE  Calmly'
<1>1. Plus(orders[chaser.old].filled - chaser.last) = 0 /\ chaser.pc = "harvest" /\ Running
  BY PlusIs DEF Harvests, Calmly, Kept, Uncounted, Running
<1>2. chaser.n >= 1 /\ chaser.n \in Nat
  BY <1>1, Numbers DEF Calmly, Amount
<1>3. /\ net' = net /\ orders' = orders /\ entries' = entries /\ qty' = qty
      /\ chaser' = [chaser EXCEPT !.pc = "place", !.n = @ - 0, !.last = 0, !.id = 0, !.old = 0]
  <2> DEFINE new == Plus(orders[chaser.old].filled - chaser.last)
  <2>1. /\ net' = net /\ orders' = orders /\ entries' = entries /\ qty' = Counted(chaser, new)
        /\ chaser' = IF new >= chaser.n THEN NoChaser
                     ELSE [chaser EXCEPT !.pc = "place", !.n = @ - new, !.last = 0,
                                         !.id = 0, !.old = 0]
    BY DEF Harvests, exchange
  <2>2. new = 0
    BY <1>1
  <2>3. ~ (0 >= chaser.n)
    BY <1>2
  <2> HIDE DEF new
  <2>4. QED
    BY <2>1, <2>2, <2>3, CountedIs, TypeInvIs
<1>4. /\ chaser'.pc = "place" /\ chaser'.n = chaser.n /\ chaser'.last = 0
      /\ chaser'.size = chaser.size /\ Open' = {}
  BY <1>2, <1>3, TypeInvIs, OpenIs DEF Chasers
<1>5. chaser'.closed = chaser.closed
  BY <1>3, TypeInvIs DEF Chasers
<1>6. Own' /\ Kept' /\ Slept' /\ Within'
  BY <1>1, <1>3, <1>4 DEF Calmly, Own, Kept, Slept, Within, Running, Looking
<1>7. Amount'
  BY <1>1, <1>3, <1>4, <1>5 DEF Calmly, Amount, Running, Before, Sized
<1>8. QED
  BY <1>6, <1>7 DEF Calmly

LEMMA CalmRefused ==
    ASSUME TypeInv, Calmly, Open = {}, chaser.pc = "place", orders' = orders, net' = net,
           qty' = qty, entries' = entries, chaser' = [chaser EXCEPT !.pc = "sleep", !.id = 0]
    PROVE  Calmly'
<1>1. /\ chaser'.pc = "sleep" /\ chaser'.n = chaser.n /\ chaser'.last = chaser.last
      /\ Open' = {} /\ Running
  BY TypeInvIs, OpenIs DEF Chasers, Running
<1>2. chaser'.closed = chaser.closed
  BY TypeInvIs DEF Chasers
<1>3. Own' /\ Amount' /\ Kept' /\ Within'
  BY <1>1
  DEF Calmly, Own, Amount, Kept, Within, Running, Before, Sized, Looking, Looked
<1>4. Slept'
  BY <1>1, <1>2 DEF Calmly, Amount, Kept, Slept, Before, Looked
<1>5. QED
  BY <1>3, <1>4 DEF Calmly

LEMMA CalmTakenBack ==
    ASSUME TypeInv, Calmly, Stops(TRUE)
    PROVE  Calmly'
<1>1. /\ net' = net /\ qty' = qty /\ entries' = entries
      /\ chaser.pc = "stop" /\ chaser' = NoChaser /\ orders' = Without(chaser.id) /\ Running
  BY DEF Stops, position, Running
<1>2. Open' = {}
  <2>1. Open' = Open \ {chaser.id}
    BY <1>1, OpenShrinks
  <2>2. QED
    BY <1>1, <2>1 DEF Calmly, Own
<1>3. QED
  BY <1>1, <1>2, NoChaserIs
  DEF Calmly, Own, Amount, Kept, Slept, Within, Running, Before, Sized, Looking, Looked

LEMMA CalmStep == TypeInv /\ TypeInv' /\ BookInv /\ CalmInv /\ [Next]_vars => CalmInv'
<1> SUFFICES ASSUME TypeInv, TypeInv', BookInv, CalmInv, [Next]_vars, Calm' PROVE Calmly'
  BY DEF CalmInv
<1> USE DEF exchange, position, ghosts
<1>1. Calm /\ used' = used /\ causes \subseteq causes'
  BY CalmBefore
<1>2. Calmly /\ chaser \in Chasers /\ net \in Nat
  BY <1>1, TypeInvIs, Numbers DEF CalmInv
<1>3. /\ "late" \notin causes' /\ "inflight" \notin causes'
      /\ entries' > 1 => ~Twice
  BY <1>1 DEF Calm, Twice
<1>4. \A f : ~ Spend(f)
  BY <1>1, SpendShows
<1>5. ASSUME NEW n \in 1..Target, Enter(n) PROVE Calmly'
  BY <1>2, <1>3, <1>5, CalmEntered
<1>6. ASSUME NEW i \in 1..Ids, NEW n \in 1..Target, Fill(i, n) PROVE Calmly'
  <2>1. i \in Slots /\ n \in Nat /\ n > 0
    BY Constants DEF Slots
  <2>2. QED
    BY <1>1, <1>2, <1>3, <1>6, <2>1, CalmFilled
<1>7. CASE SoldElsewhere
  BY <1>2, <1>7, CalmDrained DEF SoldElsewhere
<1>8. CASE SweepSyncs
  BY <1>2, <1>8, CalmSynced DEF SweepSyncs
<1>9. CASE SweepRemoves
  BY <1>2, <1>9, CalmRemoved DEF SweepRemoves
<1>10. CASE SweepAdopts
  BY <1>2, <1>10, CalmSynced DEF SweepAdopts
<1>11. ASSUME NEW open \in BOOLEAN, Gate(open) PROVE Calmly'
  BY <1>2, <1>11, CalmGate
<1>12. CASE Skip
  BY <1>2, <1>12, CalmSkipped
<1>13. ASSUME NEW ok \in BOOLEAN, Lists(ok) PROVE Calmly'
  <2>1. ok
    BY <1>1, <1>13, CalmCalls DEF Lists
  <2>2. Lists(TRUE)
    BY <1>13, <2>1
  <2>3. QED
    BY <1>2, <2>2, CalmListed
<1>14. ASSUME NEW ok \in BOOLEAN, Cancels(ok) PROVE Calmly'
  <2>1. ok
    BY <1>1, <1>14, CalmCalls DEF Cancels
  <2>2. Cancels(TRUE)
    BY <1>14, <2>1
  <2>3. QED
    BY <1>2, <2>2, CalmCanceled
<1>15. CASE Harvests
  <2>1. Open = {}
    BY <1>1, <1>15, CalmRoom DEF Harvests
  <2>2. QED
    BY <1>2, <1>15, <2>1, CalmHarvested
<1>16. ASSUME NEW reply \in {"done", "lost", "refused"}, NEW f \in 0..Target, Places(reply, f)
       PROVE  Calmly'
  <2>1. chaser.pc = "place" /\ f \in Nat /\ f <= chaser.size /\ entries' = entries
    BY <1>16, Numbers, Constants DEF Places
  <2>2. Open = {}
    BY <1>1, <2>1, CalmRoom
  <2>3. CASE reply = "done"
    BY <1>2, <1>16, <2>1, <2>2, <2>3, CalmPlaced DEF Places
  <2>4. CASE reply = "lost"
    BY <1>4, <1>16, <2>4 DEF Places
  <2>5. CASE reply = "refused"
    BY <1>2, <1>16, <2>1, <2>2, <2>5, CalmRefused DEF Places
  <2>6. QED
    BY <2>3, <2>4, <2>5
<1>17. ASSUME NEW ok \in BOOLEAN, Polls(ok) PROVE Calmly'
  <2>1. ok
    BY <1>1, <1>17, CalmCalls DEF Polls
  <2>2. Polls(TRUE)
    BY <1>17, <2>1
  <2>3. QED
    BY <1>2, <2>2, CalmPolled
<1>18. ASSUME NEW ok \in BOOLEAN, Stops(ok) PROVE Calmly'
  <2>1. ok
    BY <1>1, <1>18, CalmCalls DEF Stops
  <2>2. Stops(TRUE)
    BY <1>18, <2>1
  <2>3. QED
    BY <1>2, <2>2, CalmTakenBack
<1>19. ASSUME NEW waits \in BOOLEAN, ExitStarts(waits) PROVE Calmly'
  <2>1. chaser.pc # "place"
    BY <1>3, <1>19 DEF ExitStarts, Interrupts
  <2>2. orders' = orders /\ net' = net /\ entries' = entries /\ chaser' = Stopped(chaser)
    BY <1>19, <2>1 DEF ExitStarts, Interrupts
  <2>3. QED
    BY <1>1, <1>2, <2>2, CalmStopped
<1>20. CASE ExitResumes
  BY <1>2, <1>20, CalmDrained DEF ExitResumes
<1>21. ASSUME NEW n \in 0..Cap, ExitSells(n) PROVE Calmly'
  <2>1. net - n \in Nat /\ net - n <= net
    BY <1>2, <1>21, Constants DEF ExitSells
  <2>2. QED
    BY <1>2, <1>21, <2>1, CalmDrained DEF ExitSells
<1>22. CASE ExitVerifies
  <2>1. CASE net > 0
    BY <1>2, <1>22, <2>1, CalmSynced DEF ExitVerifies
  <2>2. CASE net = 0
    BY <1>2, <1>22, <2>2, CalmRemoved DEF ExitVerifies
  <2>3. QED
    BY <1>2, <2>1, <2>2
<1>23. CASE Crash
  BY <1>4, <1>23 DEF Crash
<1>24. CASE Restart
  BY <1>1, <1>24 DEF Restart, TypeInv, Calm, NoFault
<1>25. CASE UNCHANGED vars
  BY <1>2, <1>25, CalmDrained DEF vars
<1>26. QED
  BY <1>5, <1>6, <1>7, <1>8, <1>9, <1>10, <1>11, <1>12, <1>13, <1>14, <1>15, <1>16, <1>17,
     <1>18, <1>19, <1>20, <1>21, <1>22, <1>23, <1>24, <1>25
  DEF Next, Sweep, Chase, Exit

LEMMA Inductive ==
    ASSUME ConstantsAssumption
    PROVE  Spec => [](TypeInv /\ BookInv /\ CalmInv)
<1>1. Init => TypeInv /\ BookInv /\ CalmInv
  BY TypeInit, BookInit, CalmInit
<1>2. TypeInv /\ BookInv /\ CalmInv /\ [Next]_vars => (TypeInv /\ BookInv /\ CalmInv)'
  BY TypeStep, BookStep, CalmStep
<1>3. QED
  BY <1>1, <1>2, PTL DEF Spec

LEMMA NoFaultIs ==
    ASSUME TypeInv
    PROVE  Failures + used.crash = 0 => NoFault
<1>1. used.list \in Nat /\ used.cancel \in Nat /\ used.reply \in Nat /\ used.crash \in Nat
  BY HiddenIs
<1> DEFINE a == used.reply
           b == used.cancel
           c == used.list
           d == used.crash
<1>2. a \in Nat /\ b \in Nat /\ c \in Nat /\ d \in Nat
  BY <1>1
<1> HIDE DEF a, b, c, d
<1>3. (a + b + c) + d = 0 => a = 0 /\ b = 0 /\ c = 0 /\ d = 0
  BY <1>2
<1>4. QED
  BY <1>3 DEF Failures, NoFault, a, b, c, d

\* The chaser never works past the target: what is held and what still rests
\* add up to no more, as long as no call failed, no order filled where the
\* chaser does not look, no placement was cut off, and no later entry met an
\* order that a fill counted twice had left behind.
THEOREM WithinTarget == ASSUME ConstantsAssumption PROVE Spec => []NeverPastTarget
<1>1. TypeInv /\ BookInv /\ CalmInv => NeverPastTarget
  <2> SUFFICES ASSUME TypeInv, BookInv, CalmInv,
                      "late" \notin causes, "inflight" \notin causes,
                      entries > 1 => "twice" \notin causes,
                      Failures + used.crash = 0
               PROVE  net + Working <= Target
    BY DEF NeverPastTarget
  <2>1. Calm
    BY NoFaultIs DEF Calm, Twice
  <2>2. Within
    BY <2>1 DEF CalmInv, Calmly
  <2>3. CASE Open = {}
    <3>1. Working = 0
      BY <2>3, BookSums, RestIs, TypeInvIs
    <3>2. QED
      BY <2>2, <3>1, Numbers DEF Within
  <2>4. CASE Open # {}
    <3>1. PICK i \in Open : TRUE
      BY <2>4
    <3>2. Open = {i} /\ i \in Slots
      BY <2>1, CalmOne, OpenIs
    <3>3. Working = orders[i].rest
      BY <3>2, BookSums, RestIs, TypeInvIs
    <3>4. QED
      BY <2>2, <3>1, <3>3 DEF Within
  <2>5. QED
    BY <2>3, <2>4
<1>2. QED
  BY <1>1, Inductive, PTL

\* Once a position is gone and its tasks have ended, no buy of the chaser is
\* left to open it again.
THEOREM NothingStrays == ASSUME ConstantsAssumption PROVE Spec => []NoStrayBuy
<1>1. TypeInv /\ BookInv /\ CalmInv => NoStrayBuy
  <2> SUFFICES ASSUME TypeInv, BookInv, CalmInv, causes = {}, Failures + used.crash = 0
               PROVE  NothingRests
    BY DEF NoStrayBuy
  <2>1. Calm /\ ~Twice
    BY NoFaultIs DEF Calm, Twice
  <2>2. QED
    BY <2>1 DEF CalmInv, Calmly, Own, NothingRests
<1>2. QED
  BY <1>1, Inductive, PTL
=============================================================================
