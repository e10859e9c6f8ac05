------------------------ MODULE RestingOrdersProofs ------------------------
(***************************************************************************)
(* Proofs about RestingOrders, for any number of contracts, order ids,     *)
(* entries and faults.                                                     *)
(*                                                                         *)
(*   TypeInv    types; never more is held than one entry buys.             *)
(*   BookInv    how many orders are on the book when one is posted: the    *)
(*              manager's lock keeps everybody else out, and what its look *)
(*              at the book did not find is charged to failed calls.       *)
(*   CalmInv    without failed calls and crashes and with one manager: the *)
(*              order on the book, and what is about to be posted, is held.*)
(***************************************************************************)
EXTENDS RestingOrders, FiniteSetTheorems, WellFoundedInduction, TLAPS

Slots == 1..Ids
Sizes == 0..Q
Amounts == 0..(Q * MaxEntries)
Thens == {"idle", "commit", "sell", "erase", "again", "run"}
Jobs == [pc : Pcs, kind : Kinds, n : Amounts, id : Order, then : Thens]
Works == [Tasks -> Jobs]
Locks == [Kinds -> Tasks \cup {Nobody}]
Book == [Slots -> Sizes]
Books == [Kinds -> Book]
IdMaps == [Kinds -> Order]
Uses == [Faults -> 0..Budget]
Ups == {"down", "restoring", "running"}

TypeInv ==
    /\ enabled \in Settings
    /\ book \in Books /\ net \in Int /\ net <= Q
    /\ row \in BOOLEAN /\ rowId \in IdMaps
    /\ up \in Ups /\ held \in BOOLEAN /\ qty \in Amounts
    /\ tracked \in IdMaps /\ lock \in Locks /\ task \in Works /\ checking \in IdMaps
    /\ used \in Uses /\ entries \in 0..MaxEntries

LEMMA Constants ==
    /\ Q \in Nat /\ Q > 0 /\ Ids \in Nat /\ Ids > 0 /\ MaxEntries \in Nat /\ MaxEntries > 0
    /\ Settings \subseteq SUBSET Kinds /\ FaultKinds \subseteq Faults /\ Budget \in Nat
  BY ConstantsAssumption

LEMMA Parts ==
    /\ Sizes \subseteq Amounts /\ 0 \in Amounts /\ 0 \in Sizes
    /\ \A n \in Amounts : n \in Nat
    /\ 0 \in Order /\ Slots \subseteq Order /\ \A i \in Order : i # 0 => i \in Slots
    /\ Thens \subseteq Pcs
    /\ Nobody \notin Tasks
    /\ "bsp" \in Kinds /\ "pts" \in Kinds
    /\ "entry" \in Tasks /\ "exit" \in Tasks /\ "sweep" \in Tasks
<1>1. Q * MaxEntries \in Nat /\ Q <= Q * MaxEntries
  <2>1. \A a, b \in Nat : a * b \in Nat /\ (b > 0 => a <= a * b)
    OBVIOUS
  <2>2. QED
    BY <2>1, Constants
<1>2. Sizes \subseteq Amounts /\ 0 \in Amounts /\ 0 \in Sizes /\ \A n \in Amounts : n \in Nat
  BY <1>1, Constants DEF Sizes, Amounts
<1>3. 0 \in Order /\ Slots \subseteq Order /\ \A i \in Order : i # 0 => i \in Slots
  BY Constants DEF Order, Slots
<1>4. QED
  BY <1>2, <1>3 DEF Thens, Pcs, Nobody, Tasks, Kinds

LEMMA TypeInvIs == TypeInv => TypeOK
<1>1. Jobs \subseteq [pc : Pcs, kind : Kinds, n : 0..(Q * MaxEntries), id : Order, then : Pcs]
  BY Parts DEF Jobs, Amounts
<1>2. Works \subseteq [Tasks -> [pc : Pcs, kind : Kinds, n : 0..(Q * MaxEntries), id : Order,
                                 then : Pcs]]
  BY <1>1 DEF Works
<1>3. QED
  BY <1>2 DEF TypeInv, TypeOK, Books, Book, Slots, Sizes, IdMaps, Ups, Amounts, Locks, Uses

-----------------------------------------------------------------------------
(* The book *)

LEMMA OpenIs ==
    ASSUME NEW k \in Kinds
    PROVE  /\ Open(k) \in SUBSET Slots /\ Open(k)' \in SUBSET Slots
           /\ \A i \in Slots : i \in Open(k) <=> book[k][i] > 0
           /\ \A i \in Slots : i \in Open(k)' <=> book'[k][i] > 0
           /\ book' = book => Open(k)' = Open(k)
  BY DEF Open, Slots

LEMMA BookTypes ==
    ASSUME TypeInv, NEW k \in Kinds
    PROVE  book[k] \in Book /\ \A i \in Slots : book[k][i] \in Nat /\ book[k][i] <= Q
  BY Constants DEF TypeInv, Books, Book, Sizes

LEMMA WithoutIs ==
    ASSUME TypeInv, NEW k \in Kinds, NEW S
    PROVE  /\ Without(k, S) \in Books
           /\ \A j \in Kinds : j # k => Without(k, S)[j] = book[j]
           /\ \A i \in Slots : Without(k, S)[k][i] = IF i \in S THEN 0 ELSE book[k][i]
<1> DEFINE b == [i \in Slots |-> IF i \in S THEN 0 ELSE book[k][i]]
<1>1. book \in Books
  BY DEF TypeInv
<1>2. \A i \in Slots : b[i] = IF i \in S THEN 0 ELSE book[k][i]
  OBVIOUS
<1>3. b \in Book
  BY <1>1, Parts DEF Books, Book
<1>4. Without(k, S) = [book EXCEPT ![k] = b]
  BY <1>1 DEF Without, Slots, Books
<1> HIDE DEF b
<1>5. QED
  BY <1>1, <1>2, <1>3, <1>4 DEF Books

\* Cancelling leaves on the book what is not cancelled.
LEMMA OpenWithout ==
    ASSUME TypeInv, NEW k \in Kinds, NEW S, book' = Without(k, S)
    PROVE  /\ Open(k)' = Open(k) \ S
           /\ \A j \in Kinds : j # k => Open(j)' = Open(j)
           /\ \A j \in Kinds : Open(j)' \subseteq Open(j)
           /\ \A j \in Kinds, i \in Slots : book'[j][i] <= book[j][i]
<1>1. \A i \in Slots : i \in Open(k)' <=> i \in Open(k) /\ i \notin S
  BY WithoutIs, OpenIs
<1>2. Open(k)' = Open(k) \ S
  BY <1>1, OpenIs
<1>3. \A j \in Kinds : j # k => Open(j)' = Open(j)
  <2>1. ASSUME NEW j \in Kinds, j # k PROVE Open(j)' = Open(j)
    <3>1. book'[j] = book[j]
      BY <2>1, WithoutIs
    <3>2. QED
      BY <3>1, OpenIs
  <2>2. QED
    BY <2>1
<1>4. ASSUME NEW j \in Kinds, NEW i \in Slots PROVE book'[j][i] <= book[j][i]
  <2>1. book[j][i] \in Nat
    BY BookTypes
  <2>2. CASE j = k
    BY <2>1, <2>2, WithoutIs
  <2>3. CASE j # k
    BY <2>1, <2>3, WithoutIs
  <2>4. QED
    BY <2>2, <2>3
<1>5. QED
  BY <1>2, <1>3, <1>4

LEMMA FiniteBook == \A S \in SUBSET Slots : IsFiniteSet(S)
<1>1. IsFiniteSet(Slots)
  BY Constants, FS_Interval DEF Slots
<1>2. QED
  BY <1>1, FS_Subset

LEMMA SetSizes ==
    ASSUME NEW S \in SUBSET Slots
    PROVE  /\ Cardinality(S) \in Nat
           /\ Cardinality(S) = 0 <=> S = {}
           /\ \A T \in SUBSET S : Cardinality(T) <= Cardinality(S)
           /\ \A i : Cardinality(S) <= Cardinality(S \ {i}) + 1
           /\ \A i \in S : Cardinality(S \ {i}) = Cardinality(S) - 1
<1>1. IsFiniteSet(S)
  BY FiniteBook
<1>2. Cardinality(S) \in Nat
  BY <1>1, FS_CardinalityType
<1>3. Cardinality(S) = 0 <=> S = {}
  BY <1>1, FS_EmptySet
<1>4. \A T \in SUBSET S : Cardinality(T) <= Cardinality(S)
  BY <1>1, FS_Subset
<1>5. \A i \in S : Cardinality(S \ {i}) = Cardinality(S) - 1
  BY <1>1, FS_RemoveElement
<1>6. ASSUME NEW i PROVE Cardinality(S) <= Cardinality(S \ {i}) + 1
  <2>1. CASE i \in S
    BY <1>2, <1>5, <2>1
  <2>2. CASE i \notin S
    <3>1. S \ {i} = S
      BY <2>2
    <3>2. QED
      BY <1>2, <3>1
  <2>3. QED
    BY <2>1, <2>2
<1>7. QED
  BY <1>2, <1>3, <1>4, <1>5, <1>6

\* The least of two numbers, and of a set of ids.
LEMMA MinOfTwo ==
    ASSUME NEW a \in Nat, NEW b \in Nat
    PROVE  Min({a, b}) \in Nat /\ Min({a, b}) <= a /\ Min({a, b}) <= b
<1>1. \E x \in {a, b} : \A y \in {a, b} : x <= y
  OBVIOUS
<1>2. Min({a, b}) \in {a, b} /\ \A y \in {a, b} : Min({a, b}) <= y
  BY <1>1 DEF Min
<1>3. QED
  BY <1>2

LEMMA NewIdIs ==
    ASSUME NEW k \in Kinds, Fresh(k) # {}
    PROVE  /\ NewId(k) \in Fresh(k) /\ NewId(k) \in Slots
           /\ NewId(k) \notin Open(k)
<1>1. Fresh(k) \subseteq Slots /\ Fresh(k) \subseteq Nat /\ Fresh(k) \cap Open(k) = {}
  BY Constants DEF Fresh, Slots
<1> DEFINE U == {1..x : x \in Fresh(k)}
<1>2. U \subseteq FiniteSubsetsOf(Slots) /\ U # {}
  <2>1. ASSUME NEW x \in Fresh(k) PROVE 1..x \in FiniteSubsetsOf(Slots)
    <3>1. 1..x \in SUBSET Slots
      BY <1>1, Constants DEF Slots
    <3>2. QED
      BY <3>1, FiniteBook DEF FiniteSubsetsOf
  <2>2. QED
    BY <2>1
<1>3. PICK X \in U : \A Y \in U : Y \subseteq X => Y = X
  <2> HIDE DEF U
  <2>1. IsWellFoundedOn(StrictSubsetOrdering(Slots), FiniteSubsetsOf(Slots))
    BY FS_StrictSubsetOrderingWellFounded
  <2>2. \E X \in U : \A Y \in U : ~ (<<Y, X>> \in StrictSubsetOrdering(Slots))
    BY <1>2, <2>1, WFMin
  <2>3. U \subseteq SUBSET Slots
    BY <1>2 DEF FiniteSubsetsOf
  <2>4. \A X, Y \in U : Y \subseteq X /\ Y # X => <<Y, X>> \in StrictSubsetOrdering(Slots)
    BY <2>3 DEF StrictSubsetOrdering
  <2>5. QED
    BY <2>2, <2>4
<1>4. PICK x \in Fresh(k) : X = 1..x
  BY <1>3
<1>5. ASSUME NEW y \in Fresh(k), y < x PROVE FALSE
  <2>1. 1..y \in U /\ 1..y \subseteq X
    BY <1>1, <1>4, <1>5
  <2>2. 1..y = 1..x
    BY <1>3, <1>4, <2>1
  <2>3. x \in 1..x /\ x \notin 1..y
    BY <1>1, <1>5, Constants DEF Slots
  <2>4. QED
    BY <2>2, <2>3
<1>6. \A y \in Fresh(k) : x <= y
  BY <1>1, <1>5
<1>7. Min(Fresh(k)) \in Fresh(k)
  BY <1>6 DEF Min
<1>8. QED
  BY <1>1, <1>7 DEF NewId

-----------------------------------------------------------------------------
(* Faults *)

LEMMA UsedIs ==
    ASSUME TypeInv
    PROVE  /\ used.reply \in Nat /\ used.cancel \in Nat /\ used.list \in Nat
           /\ used.db \in Nat /\ used.crash \in Nat
           /\ Spent \in Nat
  BY Constants DEF TypeInv, Uses, Faults, Spent

\* Nothing that failed is forgotten.
Mounts ==
    /\ used'.cancel >= used.cancel /\ used'.list >= used.list /\ used'.crash >= used.crash
    /\ used'.cancel \in Nat /\ used'.list \in Nat /\ used'.crash \in Nat

LEMMA SameFaults ==
    ASSUME TypeInv, used' = used
    PROVE  used' \in Uses /\ Mounts
  BY UsedIs DEF TypeInv, Mounts

LEMMA SpendIs ==
    ASSUME TypeInv, NEW f \in Faults, Spend(f)
    PROVE  /\ used' \in Uses /\ Mounts
           /\ used'[f] = used[f] + 1
           /\ \A g \in Faults : g # f => used'[g] = used[g]
<1>1. Spent + 1 <= Budget /\ used' = [used EXCEPT ![f] = @ + 1] /\ used \in Uses
  BY DEF Spend, SpendMany, TypeInv
<1>2. used[f] + 1 \in 0..Budget
  BY <1>1, UsedIs, Constants DEF Uses, Faults, Spent
<1>3. /\ used' \in Uses
      /\ used'[f] = used[f] + 1
      /\ \A g \in Faults : g # f => used'[g] = used[g]
  BY <1>1, <1>2 DEF Uses
<1>4. Mounts
  <2>1. \A g \in Faults : used[g] \in Nat /\ used'[g] \in Nat /\ used'[g] >= used[g]
    BY <1>1, <1>3, Constants DEF Uses
  <2>2. QED
    BY <2>1 DEF Mounts, Faults
<1>5. QED
  BY <1>3, <1>4

LEMMA SpendManyIs ==
    ASSUME TypeInv, NEW c \in Nat, NEW l \in Nat, Spent + c + l <= Budget,
           used' = [used EXCEPT !.cancel = @ + c, !.list = @ + l]
    PROVE  /\ used' \in Uses /\ Mounts
           /\ used'.cancel = used.cancel + c /\ used'.list = used.list + l
           /\ used'.crash = used.crash
<1>1. /\ used'.cancel = used.cancel + c /\ used'.list = used.list + l
      /\ used'.crash = used.crash
      /\ used' = [used EXCEPT !["cancel"] = used.cancel + c, !["list"] = used.list + l]
  BY DEF TypeInv, Uses, Faults
<1>2. used.cancel + c \in 0..Budget /\ used.list + l \in 0..Budget
  BY UsedIs, Constants DEF Spent
<1>3. used' \in Uses
  BY <1>1, <1>2 DEF TypeInv, Uses
<1>4. Mounts
  BY <1>1, UsedIs DEF Mounts
<1>5. QED
  BY <1>1, <1>3, <1>4

-----------------------------------------------------------------------------
(* How a task moves on *)

\* Nobody else moves, nobody else's lock is touched, and nothing is about to
\* be posted that was not before.
Moves(t) ==
    /\ task' \in Works /\ lock' \in Locks
    /\ \A u \in Tasks : u # t => task'[u] = task[u]
    /\ \A k \in Kinds : \/ lock'[k] = lock[k]
                        \/ lock[k] \in {t, Nobody} /\ lock'[k] \in {t, Nobody}
    /\ task'[t].pc # "post"

LEMMA FirstIs == First \in Kinds
  BY DEF First, Kinds

LEMMA TaskIs ==
    ASSUME TypeInv, NEW t \in Tasks
    PROVE  /\ task[t] \in Jobs
           /\ task[t].kind \in Kinds /\ task[t].n \in Amounts /\ task[t].n \in Nat
           /\ task[t].id \in Order /\ task[t].then \in Thens
<1>1. task[t] \in Jobs
  BY DEF TypeInv, Works
<1>2. QED
  BY <1>1, Parts DEF Jobs

\* One task's record is replaced, the locks stay.
LEMMA MovedTo ==
    ASSUME TypeInv, NEW t \in Tasks, NEW w \in Jobs, w.pc # "post",
           task' = [task EXCEPT ![t] = w], lock' = lock
    PROVE  Moves(t) /\ task'[t] = w
  BY DEF TypeInv, Works, Moves

LEMMA NoTaskIs == \A p \in Pcs \cap Thens : [NoTask EXCEPT !.pc = p] \in Jobs
<1>1. "bsp" \in Kinds /\ 0 \in Amounts /\ 0 \in Order /\ "idle" \in Thens
  BY Parts DEF Thens
<1>2. QED
  BY <1>1 DEF NoTask, Jobs

LEMMA StepIs ==
    ASSUME TypeInv, NEW t \in Tasks, NEW p \in Pcs, p # "post", Step(t, p)
    PROVE  /\ Moves(t) /\ lock' = lock
           /\ task'[t] = [task[t] EXCEPT !.pc = p]
           /\ task'[t].pc = p /\ task'[t].kind = task[t].kind
           /\ task'[t].n = task[t].n /\ task'[t].then = task[t].then
<1> DEFINE w == [task[t] EXCEPT !.pc = p]
<1>1. w \in Jobs /\ w.pc = p /\ w.kind = task[t].kind /\ w.n = task[t].n /\ w.then = task[t].then
  BY TaskIs DEF Jobs
<1>2. task' = [task EXCEPT ![t] = w] /\ lock' = lock
  BY DEF Step
<1>3. Moves(t) /\ task'[t] = w
  <2> HIDE DEF w
  <2>1. QED
    BY <1>1, <1>2, MovedTo
<1>4. QED
  BY <1>1, <1>2, <1>3

LEMMA EndIs ==
    ASSUME TypeInv, NEW t \in Tasks, End(t)
    PROVE  /\ Moves(t) /\ lock' = lock
           /\ task'[t] = NoTask /\ task'[t].pc = "idle" /\ task'[t].then = "idle"
<1>1. NoTask \in Jobs /\ NoTask.pc = "idle" /\ NoTask.then = "idle"
  <2>1. "bsp" \in Kinds /\ 0 \in Amounts /\ 0 \in Order /\ "idle" \in Thens /\ "idle" \in Pcs
    BY Parts DEF Thens, Pcs
  <2>2. QED
    BY <2>1 DEF NoTask, Jobs
<1>2. task' = [task EXCEPT ![t] = NoTask] /\ lock' = lock
  BY DEF End
<1>3. QED
  BY <1>1, <1>2, MovedTo

LEMMA UnlockedIs ==
    ASSUME TypeInv, NEW t \in Tasks
    PROVE  /\ Unlocked(t) \in Locks
           /\ \A k \in Kinds : Unlocked(t)[k] = IF lock[k] = t THEN Nobody ELSE lock[k]
  BY DEF Unlocked, TypeInv, Locks

LEMMA EntersIs ==
    ASSUME NEW t \in Tasks, NEW p, NEW k \in Kinds, NEW l \in Locks, Enters(t, p, k, l)
    PROVE  /\ lock' \in Locks
           /\ \A j \in Kinds : lock'[j] = l[j] \/ (l[j] = Nobody /\ lock'[j] = t)
           /\ p # "clear" => lock' = l
           /\ p = "clear" /\ l[k] = Nobody => lock'[k] = t
           /\ \A j \in Kinds : j # k => lock'[j] = l[j]
  BY DEF Enters, Locks

\* _place_sl_backstop or _cancel_sl_backstop is called.
LEMMA BeginIs ==
    ASSUME TypeInv, NEW t \in Tasks, NEW p \in {"clear", "cancel"}, NEW n \in Amounts,
           NEW then \in Thens, Begin(t, p, n, then)
    PROVE  /\ Moves(t)
           /\ \/ /\ p = "clear" /\ n = 0 /\ lock' = lock
                 /\ task'[t].pc = then /\ task'[t].then = "idle"
              \/ /\ ~(p = "clear" /\ n = 0)
                 /\ task'[t].pc = p /\ task'[t].kind = First
                 /\ task'[t].n = n /\ task'[t].then = then
                 /\ Enters(t, p, First, lock)
<1>1. CASE p = "clear" /\ n = 0
  <2> DEFINE w == [NoTask EXCEPT !.pc = then]
  <2>1. then \in Pcs \cap Thens /\ then # "post"
    BY Parts DEF Thens
  <2>2. w \in Jobs /\ w.pc = then /\ w.then = "idle"
    BY <2>1, NoTaskIs DEF NoTask
  <2>3. task' = [task EXCEPT ![t] = w] /\ lock' = lock
    BY <1>1 DEF Begin
  <2> HIDE DEF w
  <2>4. Moves(t) /\ task'[t] = w
    BY <2>1, <2>2, <2>3, MovedTo
  <2>5. QED
    BY <1>1, <2>2, <2>3, <2>4
<1>2. CASE ~(p = "clear" /\ n = 0)
  <2> DEFINE w == [pc |-> p, kind |-> First, n |-> n, id |-> 0, then |-> then]
  <2>1. w \in Jobs /\ w.pc = p /\ w.kind = First /\ w.n = n /\ w.then = then /\ p # "post"
    BY FirstIs, Parts DEF Jobs, Pcs
  <2>2. task' = [task EXCEPT ![t] = w] /\ Enters(t, p, First, lock)
    BY <1>2 DEF Begin
  <2>3. lock \in Locks /\ task \in Works
    BY DEF TypeInv
  <2>4. /\ lock' \in Locks
        /\ \A j \in Kinds : lock'[j] = lock[j] \/ (lock[j] = Nobody /\ lock'[j] = t)
    BY <2>2, <2>3, FirstIs, EntersIs
  <2> HIDE DEF w
  <2>5. task' \in Works /\ task'[t] = w /\ \A u \in Tasks : u # t => task'[u] = task[u]
    BY <2>1, <2>2, <2>3 DEF Works
  <2>6. Moves(t)
    BY <2>1, <2>4, <2>5 DEF Moves
  <2>7. QED
    BY <1>2, <2>1, <2>2, <2>5, <2>6
<1>3. QED
  BY <1>1, <1>2

LEMMA ReturnsIs ==
    ASSUME TypeInv, NEW t \in Tasks, Returns(t)
    PROVE  /\ Moves(t)
           /\ task'[t].pc = task[t].then /\ task'[t].then = "idle" /\ task'[t].n = task[t].n
           /\ lock' = Unlocked(t)
<1> DEFINE w == [NoTask EXCEPT !.pc = task[t].then, !.n = task[t].n]
<1>1. task[t].then \in Pcs /\ task[t].then \in Thens /\ task[t].then # "post" /\ task[t].n \in Amounts
  BY TaskIs, Parts DEF Thens
<1>2. w \in Jobs /\ w.pc = task[t].then /\ w.then = "idle" /\ w.n = task[t].n
  <2>1. "bsp" \in Kinds /\ 0 \in Order /\ "idle" \in Thens
    BY Parts DEF Thens
  <2>2. QED
    BY <1>1, <2>1 DEF NoTask, Jobs
<1>3. task' = [task EXCEPT ![t] = w] /\ lock' = Unlocked(t)
  BY DEF Returns
<1> HIDE DEF w
<1>4. task' \in Works /\ task'[t] = w /\ \A u \in Tasks : u # t => task'[u] = task[u]
  BY <1>2, <1>3 DEF TypeInv, Works
<1>5. Moves(t)
  BY <1>1, <1>2, <1>3, <1>4, UnlockedIs DEF Moves
<1>6. QED
  BY <1>2, <1>3, <1>4, <1>5

LEMMA NextManagerIs ==
    ASSUME TypeInv, NEW t \in Tasks, NEW p \in {"clear", "cancel"}, NextManager(t, p)
    PROVE  /\ Moves(t)
           /\ IsLast(task[t].kind) => Returns(t)
<1>1. CASE IsLast(task[t].kind)
  BY <1>1, ReturnsIs DEF NextManager
<1>2. CASE ~IsLast(task[t].kind)
  <2> DEFINE w == [task[t] EXCEPT !.pc = p, !.kind = "pts", !.id = 0]
  <2>1. w \in Jobs /\ w.pc # "post"
    <3>1. "pts" \in Kinds /\ 0 \in Order /\ p \in Pcs /\ p # "post" /\ task[t] \in Jobs
      BY Parts, TaskIs DEF Pcs
    <3>2. QED
      BY <3>1 DEF Jobs
  <2>2. task' = [task EXCEPT ![t] = w] /\ Enters(t, p, "pts", Unlocked(t))
    <3>1. task' = [task EXCEPT ![t].pc = p, ![t].kind = "pts", ![t].id = 0]
      BY <1>2 DEF NextManager
    <3>2. QED
      BY <1>2, <3>1 DEF NextManager, TypeInv, Works
  <2>3. "pts" \in Kinds
    BY Parts
  <2>4. /\ lock' \in Locks
        /\ \A j \in Kinds : \/ lock'[j] = Unlocked(t)[j]
                            \/ Unlocked(t)[j] = Nobody /\ lock'[j] = t
    <3> DEFINE l == Unlocked(t)
    <3>1. l \in Locks /\ Enters(t, p, "pts", l)
      BY <2>2, UnlockedIs
    <3> HIDE DEF w, l
    <3>2. lock' \in Locks /\ \A j \in Kinds : lock'[j] = l[j] \/ (l[j] = Nobody /\ lock'[j] = t)
      BY <2>3, <3>1, EntersIs
    <3>3. QED
      BY <3>2 DEF l
  <2>5. \A j \in Kinds : \/ lock'[j] = lock[j]
                         \/ lock[j] \in {t, Nobody} /\ lock'[j] \in {t, Nobody}
    BY <2>4, UnlockedIs
  <2> HIDE DEF w
  <2>6. task' \in Works /\ task'[t] = w /\ \A u \in Tasks : u # t => task'[u] = task[u]
    BY <2>1, <2>2 DEF TypeInv, Works
  <2>7. Moves(t)
    BY <2>1, <2>4, <2>5, <2>6 DEF Moves
  <2>8. QED
    BY <1>2, <2>7
<1>3. QED
  BY <1>1, <1>2

-----------------------------------------------------------------------------
(* What every step but the two that look at the book and post on it does *)

\* Who is about to post was so before, and keeps its lock.
Keeps ==
    \A u \in Tasks : task'[u].pc = "post" =>
        /\ task'[u] = task[u]
        /\ lock[task[u].kind] = u => lock'[task[u].kind] = u

Harmless == Mounts /\ Keeps /\ \A k \in Kinds : Open(k)' \subseteq Open(k)

LEMMA MovesKeep ==
    ASSUME TypeInv, NEW t \in Tasks, Moves(t)
    PROVE  Keeps
<1>1. ASSUME NEW u \in Tasks, task'[u].pc = "post"
      PROVE  /\ task'[u] = task[u]
             /\ lock[task[u].kind] = u => lock'[task[u].kind] = u
  <2>1. u # t /\ u # Nobody
    BY <1>1, Parts DEF Moves
  <2>2. QED
    BY <2>1, TaskIs DEF Moves
<1>2. QED
  BY <1>1 DEF Keeps

LEMMA SameBook ==
    ASSUME book' = book
    PROVE  \A k \in Kinds : Open(k)' = Open(k)
  BY OpenIs

LEMMA ListedIs ==
    ASSUME TypeInv
    PROVE  /\ Listed \in Amounts /\ Listed \in Nat /\ Listed <= Q
           /\ Listed = IF net > 0 THEN net ELSE 0
<1>1. Listed \in Sizes /\ Listed = IF net > 0 THEN net ELSE 0
  BY Constants DEF Listed, TypeInv, Sizes
<1>2. QED
  BY <1>1, Parts, Constants DEF Sizes

LEMMA PersistedIs ==
    ASSUME TypeInv, NEW k \in Kinds, NEW i \in Order
    PROVE  Persisted(k, i) \in IdMaps
  BY DEF Persisted, TypeInv, IdMaps

LEMMA NoIds == [k \in Kinds |-> 0] \in IdMaps
  BY Parts DEF IdMaps

\* The book is listed and what is listed is cancelled.
LEMMA ReconcilesIs ==
    ASSUME TypeInv, NEW k \in Kinds, NEW left, NEW lists \in 0..1, NEW again \in 0..1,
           Reconciles(k, left, lists, again)
    PROVE  /\ used' \in Uses /\ Mounts
           /\ used'.cancel = used.cancel + (IF lists = 1 THEN 0 ELSE Cardinality(left))
           /\ used'.list = used.list + lists + again
           /\ used'.crash = used.crash
           /\ book' \in Books /\ tracked' \in IdMaps
           /\ left \in SUBSET Slots /\ left \subseteq Open(k) /\ Open(k)' = left
           /\ \A j \in Kinds : Open(j)' \subseteq Open(j)
           /\ \A j \in Kinds : j # k => Open(j)' = Open(j)
           /\ \A j \in Kinds, i \in Slots : book'[j][i] <= book[j][i]
<1>1. left \subseteq Open(k) /\ left \in SUBSET Slots
  BY OpenIs DEF Reconciles, Others
<1>2. Cardinality(left) \in Nat
  BY <1>1, SetSizes
<1> DEFINE c == IF lists = 1 THEN 0 ELSE Cardinality(left)
           l == lists + again
           S == Open(k) \ left
<1>3. c \in Nat /\ l \in Nat /\ Spent + c + l <= Budget
  BY <1>2, UsedIs DEF Reconciles
<1>4. used' = [used EXCEPT !.cancel = @ + c, !.list = @ + l]
  <2>1. used' = [used EXCEPT !.cancel = @ + c, !.list = @ + lists + again]
    BY DEF Reconciles
  <2>2. used.list + lists + again = used.list + l
    BY UsedIs
  <2>3. QED
    BY <2>1, <2>2
<1>5. /\ used' \in Uses /\ Mounts /\ used'.crash = used.crash
      /\ used'.cancel = used.cancel + c /\ used'.list = used.list + l
  <2> HIDE DEF c, l
  <2>1. QED
    BY <1>3, <1>4, SpendManyIs
<1>6. used'.list = used.list + lists + again
  BY <1>5, UsedIs
<1>7. book' = Without(k, S) /\ tracked' = [tracked EXCEPT ![k] = 0]
  BY DEF Reconciles
<1>8. tracked' \in IdMaps
  BY <1>7, Parts DEF TypeInv, IdMaps
<1> HIDE DEF S
<1>9. book' \in Books
  BY <1>7, WithoutIs
<1>10. /\ Open(k)' = Open(k) \ S
       /\ \A j \in Kinds : j # k => Open(j)' = Open(j)
       /\ \A j \in Kinds : Open(j)' \subseteq Open(j)
       /\ \A j \in Kinds, i \in Slots : book'[j][i] <= book[j][i]
  BY <1>7, OpenWithout
<1>11. Open(k)' = left
  BY <1>1, <1>10 DEF S
<1>12. QED
  BY <1>1, <1>5, <1>6, <1>8, <1>9, <1>10, <1>11

-----------------------------------------------------------------------------
(* place *)

LEMMA PlaceGivesUpOk ==
    ASSUME TypeInv, NEW t \in Tasks, NEW done \in BOOLEAN, PlaceGivesUp(t, done)
    PROVE  TypeInv' /\ Harmless /\ used'.cancel = used.cancel + 1
<1>1. PICK k \in Kinds : k = task[t].kind
  BY TaskIs
<1>2. "cancel" \in Faults /\ Spend("cancel") /\ NextManager(t, "clear")
  BY DEF PlaceGivesUp, Faults
<1>3. used' \in Uses /\ Mounts /\ used'.cancel = used.cancel + 1
  BY <1>2, SpendIs
<1>4. Moves(t)
  BY <1>2, NextManagerIs
<1>5. book' \in Books /\ \A j \in Kinds : Open(j)' \subseteq Open(j)
  <2>1. CASE done
    <3>1. book' = Without(k, {tracked[k]})
      BY <1>1, <2>1 DEF PlaceGivesUp
    <3>2. QED
      BY <3>1, WithoutIs, OpenWithout
  <2>2. CASE ~done
    <3>1. book' = book
      BY <2>2 DEF PlaceGivesUp
    <3>2. QED
      BY <3>1, SameBook DEF TypeInv
  <2>3. QED
    BY <2>1, <2>2
<1>6. TypeInv'
  BY <1>3, <1>4, <1>5 DEF PlaceGivesUp, database, TypeInv, Moves
<1>7. QED
  BY <1>3, <1>4, <1>5, <1>6, MovesKeep DEF Harmless

LEMMA PlaceSavesOk ==
    ASSUME TypeInv, NEW t \in Tasks, NEW written \in BOOLEAN, PlaceSaves(t, written)
    PROVE  TypeInv' /\ Harmless
<1>1. PICK k \in Kinds : k = task[t].kind
  BY TaskIs
<1>2. Moves(t)
  BY NextManagerIs DEF PlaceSaves
<1>3. used' \in Uses /\ Mounts
  BY SameFaults, SpendIs DEF PlaceSaves, NoFault, Faults
<1>4. rowId' \in IdMaps
  BY <1>1, TaskIs, PersistedIs DEF PlaceSaves, TypeInv
<1>5. TypeInv'
  BY <1>2, <1>3, <1>4 DEF PlaceSaves, exchange, TypeInv, Moves
<1>6. QED
  BY <1>2, <1>3, <1>5, MovesKeep, SameBook DEF Harmless, PlaceSaves, exchange

-----------------------------------------------------------------------------
(* cancel *)

LEMMA CancelSucceedsOk ==
    ASSUME TypeInv, NEW t \in Tasks, NEW left, NEW lists \in 0..1, CancelSucceeds(t, left, lists)
    PROVE  TypeInv' /\ Harmless
<1>1. PICK k \in Kinds : k = task[t].kind
  BY TaskIs
<1>2. Reconciles(k, left, lists, 0) /\ Step(t, "unsave") /\ 0 \in 0..1
  BY <1>1 DEF CancelSucceeds
<1>3. /\ used' \in Uses /\ Mounts /\ book' \in Books /\ tracked' \in IdMaps
      /\ \A j \in Kinds : Open(j)' \subseteq Open(j)
  BY <1>2, ReconcilesIs
<1>4. Moves(t)
  BY <1>2, StepIs DEF Pcs
<1>5. TypeInv'
  BY <1>3, <1>4 DEF CancelSucceeds, database, TypeInv, Moves
<1>6. QED
  BY <1>3, <1>4, <1>5, MovesKeep DEF Harmless

LEMMA CancelFailsOk ==
    ASSUME TypeInv, NEW t \in Tasks, NEW lists \in 0..1, NEW again \in 0..1,
           CancelFails(t, lists, again)
    PROVE  TypeInv' /\ Harmless /\ used'.cancel > used.cancel
<1>1. PICK k \in Kinds : k = task[t].kind
  BY TaskIs
<1> DEFINE c == 1 + again
<1>2. c \in Nat /\ lists \in Nat /\ c > 0 /\ Spent + c + lists <= Budget
  BY UsedIs DEF CancelFails
<1>3. used' = [used EXCEPT !.cancel = @ + c, !.list = @ + lists]
  <2>1. used' = [used EXCEPT !.cancel = @ + 1 + again, !.list = @ + lists]
    BY DEF CancelFails
  <2>2. used.cancel + 1 + again = used.cancel + c
    BY UsedIs
  <2>3. QED
    BY <2>1, <2>2
<1> HIDE DEF c
<1>4. used' \in Uses /\ Mounts /\ used'.cancel = used.cancel + c
  BY <1>2, <1>3, SpendManyIs
<1>5. used'.cancel > used.cancel
  BY <1>2, <1>4, UsedIs
<1>6. Moves(t)
  BY ReturnsIs DEF CancelFails
<1>7. book' \in Books /\ \A j \in Kinds : Open(j)' \subseteq Open(j)
  <2>1. CASE lists > 0
    <3>1. book' = book
      BY <2>1 DEF CancelFails
    <3>2. QED
      BY <3>1, SameBook DEF TypeInv
  <2>2. CASE ~(lists > 0)
    <3>1. PICK S : book' = Without(k, S)
      BY <1>1, <2>2 DEF CancelFails
    <3>2. QED
      BY <3>1, WithoutIs, OpenWithout
  <2>3. QED
    BY <2>1, <2>2
<1>8. TypeInv'
  BY <1>4, <1>6, <1>7 DEF CancelFails, database, TypeInv, Moves
<1>9. QED
  BY <1>4, <1>5, <1>6, <1>7, <1>8, MovesKeep DEF Harmless

LEMMA CancelSavesOk ==
    ASSUME TypeInv, NEW t \in Tasks, NEW written \in BOOLEAN, CancelSaves(t, written)
    PROVE  TypeInv' /\ Harmless
<1>1. PICK k \in Kinds : k = task[t].kind
  BY TaskIs
<1>2. Moves(t)
  BY NextManagerIs DEF CancelSaves
<1>3. used' \in Uses /\ Mounts
  BY SameFaults, SpendIs DEF CancelSaves, NoFault, Faults
<1>4. rowId' \in IdMaps
  BY <1>1, Parts, PersistedIs DEF CancelSaves, TypeInv
<1>5. TypeInv'
  BY <1>2, <1>3, <1>4 DEF CancelSaves, exchange, TypeInv, Moves
<1>6. QED
  BY <1>2, <1>3, <1>5, MovesKeep, SameBook DEF Harmless, CancelSaves, exchange

-----------------------------------------------------------------------------
(* The entry *)

LEMMA EntryBuysOk ==
    ASSUME TypeInv, EntryBuys
    PROVE  TypeInv' /\ Harmless
<1>1. "entry" \in Tasks /\ Moves("entry")
  BY Parts, StepIs DEF EntryBuys, Pcs
<1>2. used' \in Uses /\ Mounts
  BY SameFaults DEF EntryBuys
<1>3. net' \in Int /\ net' <= Q /\ entries' \in 0..MaxEntries
  BY Constants DEF EntryBuys, TypeInv
<1>4. TypeInv'
  BY <1>1, <1>2, <1>3 DEF EntryBuys, database, TypeInv, Moves
<1>5. QED
  BY <1>1, <1>2, <1>4, MovesKeep, SameBook DEF Harmless, EntryBuys

LEMMA EntryRegistersOk ==
    ASSUME TypeInv, NEW lost \in BOOLEAN, EntryRegisters(lost)
    PROVE  TypeInv' /\ Harmless
<1>1. used' \in Uses /\ Mounts
  BY SameFaults, SpendIs DEF EntryRegisters, NoFault, Faults
<1>2. "entry" \in Tasks /\ Moves("entry") /\ held' \in BOOLEAN /\ qty' \in Amounts
  <2>1. CASE lost
    BY <2>1, Parts, StepIs DEF EntryRegisters, Pcs, TypeInv
  <2>2. CASE ~lost
    <3>1. Begin("entry", "clear", Listed, "commit") /\ "commit" \in Thens /\ Listed \in Amounts
      BY <2>2, ListedIs DEF EntryRegisters, Placing, Thens
    <3>2. "entry" \in Tasks /\ Moves("entry")
      BY <3>1, Parts, BeginIs
    <3>3. QED
      BY <2>2, <3>1, <3>2 DEF EntryRegisters
  <2>3. QED
    BY <2>1, <2>2
<1>3. TypeInv'
  BY <1>1, <1>2 DEF EntryRegisters, exchange, database, TypeInv, Moves
<1>4. QED
  BY <1>1, <1>2, <1>3, MovesKeep, SameBook DEF Harmless, EntryRegisters, exchange

LEMMA CommitsOk ==
    ASSUME TypeInv, NEW t \in Tasks, NEW written \in BOOLEAN, Commits(t, written)
    PROVE  TypeInv' /\ Harmless
<1>1. used' \in Uses /\ Mounts
  BY SameFaults, SpendIs DEF Commits, NoFault, Faults
<1>2. Moves(t)
  BY EndIs DEF Commits
<1>3. row' \in BOOLEAN /\ rowId' \in IdMaps
  BY DEF Commits, database, TypeInv
<1>4. TypeInv'
  BY <1>1, <1>2, <1>3 DEF Commits, exchange, TypeInv, Moves
<1>5. QED
  BY <1>1, <1>2, <1>4, MovesKeep, SameBook DEF Harmless, Commits, exchange

-----------------------------------------------------------------------------
(* The exit *)

LEMMA ExitStartsOk ==
    ASSUME TypeInv, ExitStarts
    PROVE  TypeInv' /\ Harmless
<1>1. Begin("exit", "cancel", qty, "sell") /\ "sell" \in Thens /\ qty \in Amounts
  BY DEF ExitStarts, Cancelling, Thens, TypeInv
<1>2. "exit" \in Tasks /\ Moves("exit")
  BY <1>1, Parts, BeginIs
<1>3. used' \in Uses /\ Mounts
  BY SameFaults DEF ExitStarts
<1>4. TypeInv'
  BY <1>2, <1>3 DEF ExitStarts, exchange, database, TypeInv, Moves
<1>5. QED
  BY <1>2, <1>3, <1>4, MovesKeep, SameBook DEF Harmless, ExitStarts, exchange

LEMMA ExitSellsOk ==
    ASSUME TypeInv, NEW n \in 0..Q, ExitSells(n)
    PROVE  TypeInv' /\ Harmless
<1>1. "exit" \in Tasks /\ Moves("exit")
  BY Parts, StepIs DEF ExitSells, Pcs
<1>2. used' \in Uses /\ Mounts
  BY SameFaults DEF ExitSells
<1>3. net' \in Int /\ net' <= Q
  BY Constants DEF ExitSells, TypeInv
<1>4. TypeInv'
  BY <1>1, <1>2, <1>3 DEF ExitSells, database, TypeInv, Moves
<1>5. QED
  BY <1>1, <1>2, <1>4, MovesKeep, SameBook DEF Harmless, ExitSells

LEMMA ExitVerifiesIs ==
    ASSUME TypeInv, ExitVerifies
    PROVE  /\ "exit" \in Tasks /\ Moves("exit") /\ lock' = lock
           /\ task'["exit"].pc = (IF Listed = 0 THEN "delete" ELSE "requeue")
           /\ task'["exit"].n = Listed
           /\ task'["exit"].then = task["exit"].then
<1> DEFINE p == IF Listed = 0 THEN "delete" ELSE "requeue"
           w == [task["exit"] EXCEPT !.pc = p, !.n = Listed]
<1>1. p \in Pcs /\ p # "post" /\ "exit" \in Tasks /\ task["exit"] \in Jobs /\ Listed \in Amounts
  BY Parts, TaskIs, ListedIs DEF Pcs
<1>2. task' = [task EXCEPT !["exit"] = w] /\ lock' = lock
  <2>1. task' = [task EXCEPT !["exit"].pc = p, !["exit"].n = Listed]
    BY DEF ExitVerifies
  <2> HIDE DEF p
  <2>2. QED
    BY <1>1, <2>1 DEF TypeInv, Works, ExitVerifies
<1> HIDE DEF p
<1>3. w \in Jobs /\ w.pc = p /\ w.n = Listed /\ w.then = task["exit"].then
  BY <1>1 DEF Jobs
<1> HIDE DEF w
<1>4. Moves("exit") /\ task'["exit"] = w
  BY <1>1, <1>2, <1>3, MovedTo
<1>5. QED
  BY <1>1, <1>2, <1>3, <1>4 DEF p

LEMMA ExitVerifiesOk ==
    ASSUME TypeInv, ExitVerifies
    PROVE  TypeInv' /\ Harmless
<1>1. "exit" \in Tasks /\ Moves("exit")
  BY ExitVerifiesIs
<1>2. used' \in Uses /\ Mounts
  BY SameFaults DEF ExitVerifies
<1>3. TypeInv'
  BY <1>1, <1>2 DEF ExitVerifies, exchange, database, TypeInv, Moves
<1>4. QED
  BY <1>1, <1>2, <1>3, MovesKeep, SameBook DEF Harmless, ExitVerifies, exchange

LEMMA ExitWriteFailsOk ==
    ASSUME TypeInv, ExitWriteFails
    PROVE  TypeInv' /\ Harmless
<1>1. "exit" \in Tasks /\ Moves("exit")
  BY Parts, EndIs DEF ExitWriteFails
<1>2. used' \in Uses /\ Mounts
  BY SpendIs DEF ExitWriteFails, Faults
<1>3. TypeInv'
  BY <1>1, <1>2 DEF ExitWriteFails, exchange, database, TypeInv, Moves
<1>4. QED
  BY <1>1, <1>2, <1>3, MovesKeep, SameBook DEF Harmless, ExitWriteFails, exchange

LEMMA ExitClosesOk ==
    ASSUME TypeInv, ExitCloses
    PROVE  TypeInv' /\ Harmless
<1>1. Begin("exit", "cancel", 0, "idle") /\ "idle" \in Thens /\ 0 \in Amounts
  BY Parts DEF ExitCloses, Cancelling, Thens
<1>2. "exit" \in Tasks /\ Moves("exit")
  BY <1>1, Parts, BeginIs
<1>3. used' \in Uses /\ Mounts
  BY SameFaults DEF ExitCloses
<1>4. row' \in BOOLEAN /\ rowId' \in IdMaps /\ held' \in BOOLEAN /\ qty' \in Amounts
  BY <1>1, NoIds DEF ExitCloses
<1>5. TypeInv'
  BY <1>2, <1>3, <1>4 DEF ExitCloses, exchange, TypeInv, Moves
<1>6. QED
  BY <1>2, <1>3, <1>5, MovesKeep, SameBook DEF Harmless, ExitCloses, exchange

LEMMA ExitRequeuesOk ==
    ASSUME TypeInv, ExitRequeues
    PROVE  TypeInv' /\ Harmless
<1>1. PICK n \in Amounts : n = task["exit"].n
  BY Parts, TaskIs
<1>2. Begin("exit", "clear", n, "idle") /\ "idle" \in Thens
  BY <1>1 DEF ExitRequeues, Placing, Thens
<1>3. "exit" \in Tasks /\ Moves("exit")
  BY <1>2, Parts, BeginIs
<1>4. used' \in Uses /\ Mounts
  BY SameFaults DEF ExitRequeues
<1>5. TypeInv'
  BY <1>1, <1>3, <1>4 DEF ExitRequeues, exchange, database, TypeInv, Moves
<1>6. QED
  BY <1>3, <1>4, <1>5, MovesKeep, SameBook DEF Harmless, ExitRequeues, exchange

-----------------------------------------------------------------------------
(* The held-position sweep *)

LEMMA SweepAdoptsOk ==
    ASSUME TypeInv, SweepAdopts
    PROVE  TypeInv' /\ Harmless
<1>1. Begin("sweep", "clear", Listed, "commit") /\ "commit" \in Thens /\ Listed \in Amounts
  BY ListedIs DEF SweepAdopts, Placing, Thens
<1>2. "sweep" \in Tasks /\ Moves("sweep")
  BY <1>1, Parts, BeginIs
<1>3. used' \in Uses /\ Mounts
  BY SameFaults DEF SweepAdopts
<1>4. TypeInv'
  BY <1>1, <1>2, <1>3 DEF SweepAdopts, exchange, database, TypeInv, Moves
<1>5. QED
  BY <1>2, <1>3, <1>4, MovesKeep, SameBook DEF Harmless, SweepAdopts, exchange

\* A step in which no task moves.
LEMMA Stays ==
    ASSUME TypeInv, task' = task, lock' = lock
    PROVE  Keeps
  BY DEF Keeps

LEMMA SweepAsksOk ==
    ASSUME TypeInv, NEW k \in Kinds, SweepAsks(k)
    PROVE  TypeInv' /\ Harmless
<1>1. checking' \in IdMaps
  BY DEF SweepAsks, TypeInv, IdMaps
<1>2. used' \in Uses /\ Mounts
  BY SameFaults DEF SweepAsks
<1>3. TypeInv'
  BY <1>1, <1>2 DEF SweepAsks, exchange, database, TypeInv
<1>4. QED
  BY <1>2, <1>3, Stays, SameBook DEF Harmless, SweepAsks, exchange

LEMMA SweepHearsOk ==
    ASSUME TypeInv, NEW k \in Kinds, SweepHears(k)
    PROVE  TypeInv' /\ Harmless
<1>1. checking' \in IdMaps /\ tracked' \in IdMaps /\ rowId' \in IdMaps
  <2>1. 0 \in Order /\ Persisted(k, 0) \in IdMaps
    BY Parts, PersistedIs
  <2>2. QED
    BY <2>1 DEF SweepHears, TypeInv, IdMaps
<1>2. used' \in Uses /\ Mounts
  BY SameFaults DEF SweepHears
<1>3. TypeInv'
  BY <1>1, <1>2 DEF SweepHears, exchange, TypeInv
<1>4. QED
  BY <1>2, <1>3, Stays, SameBook DEF Harmless, SweepHears, exchange

LEMMA SweepSyncsOk ==
    ASSUME TypeInv, SweepSyncs
    PROVE  TypeInv' /\ Harmless
<1>1. used' \in Uses /\ Mounts
  BY SameFaults DEF SweepSyncs
<1>2. TypeInv'
  BY <1>1, ListedIs DEF SweepSyncs, exchange, database, TypeInv
<1>3. QED
  BY <1>1, <1>2, Stays, SameBook DEF Harmless, SweepSyncs, exchange

LEMMA SweepRemovesOk ==
    ASSUME TypeInv, SweepRemoves
    PROVE  TypeInv' /\ Harmless
<1>1. Begin("sweep", "cancel", 0, "erase") /\ "erase" \in Thens /\ 0 \in Amounts
  BY Parts DEF SweepRemoves, Cancelling, Thens
<1>2. "sweep" \in Tasks /\ Moves("sweep")
  BY <1>1, Parts, BeginIs
<1>3. used' \in Uses /\ Mounts
  BY SameFaults DEF SweepRemoves
<1>4. TypeInv'
  BY <1>1, <1>2, <1>3 DEF SweepRemoves, exchange, database, TypeInv, Moves
<1>5. QED
  BY <1>2, <1>3, <1>4, MovesKeep, SameBook DEF Harmless, SweepRemoves, exchange

LEMMA SweepErasesOk ==
    ASSUME TypeInv, NEW written \in BOOLEAN, SweepErases(written)
    PROVE  TypeInv' /\ Harmless
<1>1. used' \in Uses /\ Mounts
  BY SameFaults, SpendIs DEF SweepErases, NoFault, Faults
<1>2. "sweep" \in Tasks /\ Moves("sweep")
  BY Parts, EndIs DEF SweepErases
<1>3. row' \in BOOLEAN /\ rowId' \in IdMaps
  BY NoIds DEF SweepErases, database, TypeInv
<1>4. TypeInv'
  BY <1>1, <1>2, <1>3 DEF SweepErases, exchange, TypeInv, Moves
<1>5. QED
  BY <1>1, <1>2, <1>4, MovesKeep, SameBook DEF Harmless, SweepErases, exchange

-----------------------------------------------------------------------------
(* Crash, restart, fills *)

LEMMA CrashOk ==
    ASSUME TypeInv, Crash
    PROVE  TypeInv' /\ Harmless /\ used'.crash = used.crash + 1
<1>1. used' \in Uses /\ Mounts /\ used'.crash = used.crash + 1
  BY SpendIs DEF Crash, Faults
<1>2. NoTask \in Jobs /\ NoTask.pc = "idle"
  <2>1. "bsp" \in Kinds /\ 0 \in Amounts /\ 0 \in Order /\ "idle" \in Thens /\ "idle" \in Pcs
    BY Parts DEF Thens, Pcs
  <2>2. QED
    BY <2>1 DEF NoTask, Jobs
<1>3. /\ task' \in Works /\ \A u \in Tasks : task'[u].pc = "idle"
  BY <1>2 DEF Crash, Works
<1>4. lock' \in Locks
  BY DEF Crash, Locks
<1>5. Keeps
  BY <1>3 DEF Keeps
<1>6. up' \in Ups /\ held' \in BOOLEAN /\ qty' \in Amounts /\ tracked' \in IdMaps /\ checking' \in IdMaps
  BY Parts, NoIds DEF Crash, Ups
<1>7. TypeInv'
  BY <1>1, <1>3, <1>4, <1>6 DEF Crash, exchange, database, TypeInv
<1>8. QED
  BY <1>1, <1>5, <1>7, SameBook DEF Harmless, Crash, exchange

LEMMA RestartOk ==
    ASSUME TypeInv, NEW answered \in BOOLEAN, Restart(answered)
    PROVE  TypeInv' /\ Harmless
<1>1. "sweep" \in Tasks /\ Moves("sweep")
  <2>1. "sweep" \in Tasks /\ "run" \in Pcs /\ "run" \in Thens /\ "again" \in Thens
    BY Parts DEF Pcs, Thens
  <2>2. CASE Step("sweep", "run")
    BY <2>1, <2>2, StepIs
  <2>3. CASE \E a \in {"again", "run"} : Begin("sweep", "clear", Listed, a)
    BY <2>1, <2>3, ListedIs, BeginIs
  <2>4. QED
    BY <2>2, <2>3 DEF Restart, Placing
<1>2. tracked' \in IdMaps
  BY Parts DEF Restart, TypeInv, IdMaps
<1>3. held' \in BOOLEAN /\ qty' \in Amounts /\ up' \in Ups
  <2>1. held' \in BOOLEAN
    BY Zenon DEF Restart, TypeInv
  <2>2. QED
    BY <2>1, Parts, ListedIs DEF Restart, Ups
<1>4. used' \in Uses /\ Mounts
  BY SameFaults DEF Restart
<1>5. TypeInv'
  BY <1>1, <1>2, <1>3, <1>4 DEF Restart, exchange, database, TypeInv, Moves
<1>6. QED
  BY <1>1, <1>4, <1>5, MovesKeep, SameBook DEF Harmless, Restart, exchange

LEMMA RestoresAgainOk ==
    ASSUME TypeInv, RestoresAgain
    PROVE  TypeInv' /\ Harmless
<1>1. Begin("sweep", "clear", Listed, "run") /\ "run" \in Thens /\ Listed \in Amounts
  BY ListedIs DEF RestoresAgain, Placing, Thens
<1>2. "sweep" \in Tasks /\ Moves("sweep")
  BY <1>1, Parts, BeginIs
<1>3. used' \in Uses /\ Mounts
  BY SameFaults DEF RestoresAgain
<1>4. TypeInv'
  BY <1>1, <1>2, <1>3 DEF RestoresAgain, exchange, database, TypeInv, Moves
<1>5. QED
  BY <1>2, <1>3, <1>4, MovesKeep, SameBook DEF Harmless, RestoresAgain, exchange

LEMMA RestoredOk ==
    ASSUME TypeInv, Restored
    PROVE  TypeInv' /\ Harmless
<1>1. "sweep" \in Tasks /\ Moves("sweep")
  BY Parts, EndIs DEF Restored
<1>2. used' \in Uses /\ Mounts
  BY SameFaults DEF Restored
<1>3. TypeInv'
  BY <1>1, <1>2 DEF Restored, exchange, database, TypeInv, Moves, Ups
<1>4. QED
  BY <1>1, <1>2, <1>3, MovesKeep, SameBook DEF Harmless, Restored, exchange

LEMMA FillIs ==
    ASSUME TypeInv, NEW k \in Kinds, NEW i \in Slots, NEW n \in 1..Q, Fill(k, i, n)
    PROVE  /\ book' \in Books /\ n <= book[k][i] /\ i \in Open(k)
           /\ \A j \in Kinds : Open(j)' \subseteq Open(j)
           /\ book'[k][i] = book[k][i] - n
           /\ \A j \in Kinds, l \in Slots : j # k \/ l # i => book'[j][l] = book[j][l]
<1>1. n \in 1..book[k][i] /\ book' = [book EXCEPT ![k][i] = book[k][i] - n]
  BY DEF Fill, TypeInv, Books
<1>2. book[k] \in Book /\ book[k][i] \in Nat /\ book[k][i] <= Q
  BY BookTypes
<1> DEFINE b == [book[k] EXCEPT ![i] = book[k][i] - n]
<1>3. book[k][i] - n \in Sizes /\ n <= book[k][i] /\ n > 0
  BY <1>1, <1>2, Constants DEF Sizes
<1>4. b \in Book /\ b[i] = book[k][i] - n /\ \A l \in Slots : l # i => b[l] = book[k][l]
  BY <1>2, <1>3 DEF Book
<1>5. book' = [book EXCEPT ![k] = b]
  BY <1>1 DEF TypeInv, Books
<1> HIDE DEF b
<1>6. book' \in Books /\ book'[k] = b /\ \A j \in Kinds : j # k => book'[j] = book[j]
  BY <1>4, <1>5 DEF TypeInv, Books
<1>7. /\ book'[k][i] = book[k][i] - n
      /\ \A j \in Kinds, l \in Slots : j # k \/ l # i => book'[j][l] = book[j][l]
  BY <1>4, <1>6
<1>8. i \in Open(k)
  BY <1>2, <1>3, OpenIs, Constants
<1>9. \A j \in Kinds, l \in Slots : book'[j][l] > 0 => book[j][l] > 0
  BY <1>2, <1>3, <1>7, Constants
<1>10. \A j \in Kinds : Open(j)' \subseteq Open(j)
  BY <1>9, OpenIs
<1>11. QED
  BY <1>3, <1>6, <1>7, <1>8, <1>10

LEMMA FillOk ==
    ASSUME TypeInv, NEW k \in Kinds, NEW i \in Slots, NEW n \in 1..Q, Fill(k, i, n)
    PROVE  TypeInv' /\ Harmless
<1>1. book' \in Books /\ \A j \in Kinds : Open(j)' \subseteq Open(j)
  BY FillIs
<1>2. used' \in Uses /\ Mounts
  BY SameFaults DEF Fill
<1>3. net' \in Int /\ net' <= Q
  BY Constants DEF Fill, TypeInv
<1>4. TypeInv'
  BY <1>1, <1>2, <1>3 DEF Fill, database, process, TypeInv
<1>5. QED
  BY <1>1, <1>2, <1>4, Stays DEF Harmless, Fill, process

-----------------------------------------------------------------------------
(* The look at the book, and the post *)

LEMMA PlaceClearsIs ==
    ASSUME TypeInv, NEW t \in Tasks, NEW left, NEW lists \in 0..1, NEW again \in 0..1,
           PlaceClears(t, left, lists, again),
           NEW k \in Kinds, k = task[t].kind
    PROVE  /\ Reconciles(k, left, lists, again)
           /\ lock[k] \in {t, Nobody} /\ task[t].pc = "clear"
           /\ task' \in Works /\ lock' \in Locks
           /\ \A u \in Tasks : u # t => task'[u] = task[u]
           /\ Verified(k, left, again) =>
                /\ task'[t].pc = "post" /\ task'[t].kind = k
                /\ task'[t].n = task[t].n /\ task'[t].then = task[t].then
                /\ lock'[k] = t /\ \A j \in Kinds : j # k => lock'[j] = lock[j]
           /\ ~Verified(k, left, again) => Moves(t)
<1>1. /\ Reconciles(k, left, lists, again)
      /\ lock[k] \in {t, Nobody} /\ task[t].pc = "clear"
  BY DEF PlaceClears, At
<1>2. CASE Verified(k, left, again)
  <2>1. task' = [task EXCEPT ![t].pc = "post"] /\ lock' = [lock EXCEPT ![k] = t]
    BY <1>2 DEF PlaceClears
  <2> DEFINE w == [task[t] EXCEPT !.pc = "post"]
  <2>2. /\ w \in Jobs /\ w.pc = "post" /\ w.kind = k /\ w.n = task[t].n
        /\ w.then = task[t].then
    <3>1. task[t] \in Jobs /\ "post" \in Pcs
      BY TaskIs DEF Pcs
    <3>2. QED
      BY <3>1 DEF Jobs
  <2>3. task' = [task EXCEPT ![t] = w]
    BY <2>1
  <2> HIDE DEF w
  <2>4. task' \in Works /\ task'[t] = w /\ \A u \in Tasks : u # t => task'[u] = task[u]
    BY <2>2, <2>3 DEF TypeInv, Works
  <2>5. lock' \in Locks /\ lock'[k] = t /\ \A j \in Kinds : j # k => lock'[j] = lock[j]
    BY <2>1 DEF TypeInv, Locks
  <2>6. QED
    BY <1>1, <1>2, <2>2, <2>4, <2>5
<1>3. CASE ~Verified(k, left, again)
  <2>1. Moves(t)
    BY <1>3, NextManagerIs DEF PlaceClears
  <2>2. QED
    BY <1>1, <1>3, <2>1 DEF Moves
<1>4. QED
  BY <1>2, <1>3

LEMMA PlaceClearsTypes ==
    ASSUME TypeInv, NEW t \in Tasks, NEW left, NEW lists \in 0..1, NEW again \in 0..1,
           PlaceClears(t, left, lists, again)
    PROVE  TypeInv'
<1>1. PICK k \in Kinds : k = task[t].kind
  BY TaskIs
<1>2. Reconciles(k, left, lists, again) /\ task' \in Works /\ lock' \in Locks
  BY <1>1, PlaceClearsIs
<1>3. used' \in Uses /\ book' \in Books /\ tracked' \in IdMaps
  BY <1>2, ReconcilesIs
<1>4. QED
  BY <1>2, <1>3 DEF PlaceClears, database, TypeInv

LEMMA PlacePostsIs ==
    ASSUME TypeInv, NEW t \in Tasks, NEW reply \in {"resting", "lost", "refused"},
           PlacePosts(t, reply), NEW k \in Kinds, k = task[t].kind
    PROVE  /\ Moves(t) /\ task[t].pc = "post"
           /\ used' \in Uses /\ Mounts
           /\ used'.cancel = used.cancel /\ used'.list = used.list /\ used'.crash = used.crash
           /\ book' \in Books /\ tracked' \in IdMaps
           /\ \A j \in Kinds : j # k => Open(j)' = Open(j)
           /\ \/ reply = "refused" /\ book' = book
              \/ \E i \in Slots : /\ Open(k)' \subseteq Open(k) \cup {i}
                                  /\ book'[k][i] <= task[t].n
                                  /\ \A j \in Slots : j # i => book'[k][j] = book[k][j]
           /\ reply = "resting" =>
                task'[t].pc = "save" /\ task'[t].then = task[t].then
                /\ task'[t].kind = k /\ lock' = Unlocked(t)
           /\ reply # "resting" => NextManager(t, "clear")
<1>1. task[t].pc = "post"
  BY DEF PlacePosts, At
<1>2. /\ used' \in Uses /\ Mounts
      /\ used'.cancel = used.cancel /\ used'.list = used.list /\ used'.crash = used.crash
  <2>1. CASE reply = "lost"
    <3>1. Spend("reply") /\ {"reply", "cancel", "list", "crash"} \subseteq Faults
      BY <2>1 DEF PlacePosts, Faults
    <3>2. QED
      BY <3>1, SpendIs
  <2>2. CASE reply # "lost"
    BY <2>2, SameFaults DEF PlacePosts, NoFault
  <2>3. QED
    BY <2>1, <2>2
<1>3. ASSUME reply # "refused"
      PROVE  /\ NewId(k) \in Slots
             /\ book' = [book EXCEPT ![k][NewId(k)] = Min({task[t].n, Q})]
  BY <1>3, NewIdIs DEF PlacePosts
<1>4. ASSUME reply # "refused"
      PROVE  /\ book' \in Books
             /\ \A j \in Kinds : j # k => Open(j)' = Open(j)
             /\ \E i \in Slots : /\ Open(k)' \subseteq Open(k) \cup {i}
                                /\ book'[k][i] <= task[t].n
                                /\ \A j \in Slots : j # i => book'[k][j] = book[k][j]
  <2> DEFINE i == NewId(k)
             m == Min({task[t].n, Q})
             b == [book[k] EXCEPT ![i] = m]
  <2>1. i \in Slots
    BY <1>3, <1>4
  <2>2. m \in Sizes /\ m <= task[t].n
    BY TaskIs, Constants, MinOfTwo DEF Sizes
  <2>3. book' = [book EXCEPT ![k] = b]
    BY <1>3, <1>4
  <2>4. PICK i0 \in Slots : i0 = i
    BY <2>1
  <2> HIDE DEF i, m
  <2>5. b \in Book /\ b[i0] = m /\ \A l \in Slots : l # i0 => b[l] = book[k][l]
    BY <2>2, <2>4, BookTypes DEF Book
  <2> HIDE DEF b
  <2>6. book' \in Books /\ book'[k] = b /\ \A j \in Kinds : j # k => book'[j] = book[j]
    BY <2>3, <2>5 DEF TypeInv, Books
  <2>7. \A j \in Kinds : j # k => Open(j)' = Open(j)
    BY <2>6, OpenIs
  <2>8. Open(k)' \subseteq Open(k) \cup {i0}
    BY <2>5, <2>6, OpenIs
  <2>9. QED
    BY <2>2, <2>5, <2>6, <2>7, <2>8
<1>5. ASSUME reply = "refused"
      PROVE  book' = book /\ book' \in Books /\ \A j \in Kinds : Open(j)' = Open(j)
  BY <1>5, SameBook DEF PlacePosts, TypeInv
<1>6. tracked' \in IdMaps
  BY <1>3, Parts DEF PlacePosts, TypeInv, IdMaps
<1>7. ASSUME reply = "resting"
      PROVE  /\ Moves(t) /\ lock' = Unlocked(t)
             /\ task'[t].pc = "save" /\ task'[t].then = task[t].then /\ task'[t].kind = k
  <2> DEFINE i == NewId(k)
             w == [task[t] EXCEPT !.pc = "save", !.id = i]
  <2>1. i \in Order
    BY <1>3, <1>7, Parts
  <2>2. task' = [task EXCEPT ![t].pc = "save", ![t].id = i] /\ lock' = Unlocked(t)
    BY <1>7 DEF PlacePosts
  <2> HIDE DEF i
  <2>3. task' = [task EXCEPT ![t] = w]
    BY <2>2 DEF TypeInv, Works
  <2>4. w \in Jobs /\ w.pc = "save" /\ w.then = task[t].then /\ w.kind = k
    <3>1. task[t] \in Jobs /\ "save" \in Pcs
      BY TaskIs DEF Pcs
    <3>2. QED
      BY <2>1, <3>1 DEF Jobs
  <2> HIDE DEF w
  <2>5. task' \in Works /\ task'[t] = w /\ \A u \in Tasks : u # t => task'[u] = task[u]
    BY <2>3, <2>4 DEF TypeInv, Works
  <2>6. Moves(t)
    BY <2>2, <2>4, <2>5, UnlockedIs DEF Moves
  <2>7. QED
    BY <2>2, <2>4, <2>5, <2>6
<1>8. ASSUME reply # "resting" PROVE NextManager(t, "clear") /\ Moves(t)
  BY <1>8, NextManagerIs DEF PlacePosts
<1>9. book' \in Books /\ \A j \in Kinds : j # k => Open(j)' = Open(j)
  BY <1>4, <1>5
<1>10. \/ reply = "refused" /\ book' = book
       \/ \E i \in Slots : /\ Open(k)' \subseteq Open(k) \cup {i}
                           /\ book'[k][i] <= task[t].n
                           /\ \A j \in Slots : j # i => book'[k][j] = book[k][j]
  BY <1>4, <1>5
<1>11. QED
  BY <1>1, <1>2, <1>6, <1>7, <1>8, <1>9, <1>10

LEMMA PlacePostsTypes ==
    ASSUME TypeInv, NEW t \in Tasks, NEW reply \in {"resting", "lost", "refused"},
           PlacePosts(t, reply)
    PROVE  TypeInv'
<1>1. PICK k \in Kinds : k = task[t].kind
  BY TaskIs
<1>2. Moves(t) /\ used' \in Uses /\ book' \in Books /\ tracked' \in IdMaps
  BY <1>1, PlacePostsIs
<1>3. QED
  BY <1>2 DEF PlacePosts, database, TypeInv, Moves

-----------------------------------------------------------------------------
(* Every step *)

Looks == \E t \in Tasks, left \in SUBSET Slots, lists, again \in 0..1 :
             PlaceClears(t, left, lists, again)
Posts == \E t \in Tasks, reply \in {"resting", "lost", "refused"} : PlacePosts(t, reply)

LEMMA PlaceStep ==
    ASSUME TypeInv, NEW t \in Tasks, Place(t)
    PROVE  TypeInv' /\ (Harmless \/ Looks \/ Posts)
<1>1. CASE \E done \in BOOLEAN : PlaceGivesUp(t, done)
  BY <1>1, PlaceGivesUpOk
<1>2. CASE \E left \in SUBSET Slots, lists, again \in 0..1 : PlaceClears(t, left, lists, again)
  BY <1>2, PlaceClearsTypes DEF Looks
<1>3. CASE \E reply \in {"resting", "lost", "refused"} : PlacePosts(t, reply)
  BY <1>3, PlacePostsTypes DEF Posts
<1>4. CASE \E written \in BOOLEAN : PlaceSaves(t, written)
  BY <1>4, PlaceSavesOk
<1>5. QED
  BY <1>1, <1>2, <1>3, <1>4 DEF Place, Slots

LEMMA CancelStep ==
    ASSUME TypeInv, NEW t \in Tasks, Cancel(t)
    PROVE  TypeInv' /\ Harmless
<1>1. CASE \E left \in SUBSET Slots, lists \in 0..1 : CancelSucceeds(t, left, lists)
  BY <1>1, CancelSucceedsOk
<1>2. CASE \E lists, again \in 0..1 : CancelFails(t, lists, again)
  BY <1>2, CancelFailsOk
<1>3. CASE \E written \in BOOLEAN : CancelSaves(t, written)
  BY <1>3, CancelSavesOk
<1>4. QED
  BY <1>1, <1>2, <1>3 DEF Cancel, Slots

LEMMA EntryStep ==
    ASSUME TypeInv, Entry
    PROVE  TypeInv' /\ Harmless
  BY Parts, EntryBuysOk, EntryRegistersOk, CommitsOk DEF Entry

LEMMA ExitStep ==
    ASSUME TypeInv, Exit
    PROVE  TypeInv' /\ Harmless
<1>1. CASE ExitStarts \/ \E n \in 0..Q : ExitSells(n)
  BY <1>1, ExitStartsOk, ExitSellsOk
<1>2. CASE ExitVerifies \/ ExitWriteFails \/ ExitCloses \/ ExitRequeues
  BY <1>2, ExitVerifiesOk, ExitWriteFailsOk, ExitClosesOk, ExitRequeuesOk
<1>3. QED
  BY <1>1, <1>2 DEF Exit

LEMMA SweepStep ==
    ASSUME TypeInv, Sweep
    PROVE  TypeInv' /\ Harmless
<1>1. CASE SweepAdopts \/ SweepSyncs \/ SweepRemoves
  BY <1>1, SweepAdoptsOk, SweepSyncsOk, SweepRemovesOk
<1>2. CASE \E k \in Kinds : SweepAsks(k) \/ SweepHears(k)
  BY <1>2, SweepAsksOk, SweepHearsOk
<1>3. CASE \E b \in BOOLEAN : SweepErases(b) \/ Commits("sweep", b)
  BY <1>3, Parts, SweepErasesOk, CommitsOk
<1>4. QED
  BY <1>1, <1>2, <1>3 DEF Sweep

LEMMA NextStep ==
    ASSUME TypeInv, Next
    PROVE  TypeInv' /\ (Harmless \/ Looks \/ Posts)
<1>1. CASE \E t \in Tasks : Place(t) \/ Cancel(t)
  BY <1>1, PlaceStep, CancelStep
<1>2. CASE Entry \/ Exit \/ Sweep
  BY <1>2, EntryStep, ExitStep, SweepStep
<1>3. CASE (\E answered \in BOOLEAN : Restart(answered)) \/ RestoresAgain \/ Restored
  BY <1>3, RestartOk, RestoresAgainOk, RestoredOk
<1>4. CASE Crash
  BY <1>4, CrashOk
<1>5. CASE \E k \in Kinds, i \in Slots, n \in 1..Q : Fill(k, i, n)
  BY <1>5, FillOk
<1>6. QED
  BY <1>1, <1>2, <1>3, <1>4, <1>5 DEF Next, Process, Slots

LEMMA InitTypes == Init => TypeInv
<1> SUFFICES ASSUME Init PROVE TypeInv
  OBVIOUS
<1>1. NoTask \in Jobs
  <2>1. "bsp" \in Kinds /\ 0 \in Amounts /\ 0 \in Order /\ "idle" \in Thens /\ "idle" \in Pcs
    BY Parts DEF Thens, Pcs
  <2>2. QED
    BY <2>1 DEF NoTask, Jobs
<1>2. task \in Works /\ lock \in Locks
  BY <1>1 DEF Init, Works, Locks
<1>3. book \in Books
  BY Parts DEF Init, Books, Book, Slots
<1>4. used \in Uses /\ entries \in 0..MaxEntries /\ net \in Int /\ net <= Q
  BY Constants DEF Init, Uses
<1>5. QED
  BY <1>2, <1>3, <1>4, NoIds, Parts DEF Init, TypeInv, Ups

LEMMA TypeStep == TypeInv /\ [Next]_vars => TypeInv'
<1> SUFFICES ASSUME TypeInv, [Next]_vars PROVE TypeInv'
  OBVIOUS
<1>1. CASE Next
  BY <1>1, NextStep
<1>2. CASE UNCHANGED vars
  BY <1>2 DEF vars, exchange, database, process, TypeInv
<1>3. QED
  BY <1>1, <1>2

LEMMA TypesAlways == Spec => []TypeInv
  BY InitTypes, TypeStep, PTL DEF Spec

\* Type correctness: every state of the two managers, the exchange's book and
\* the three tasks is of the shape the code can produce.
THEOREM TypeCorrect == Spec => []TypeOK
  BY TypesAlways, TypeInvIs, PTL

-----------------------------------------------------------------------------
(* How many orders are on the book *)

\* How many may be there when one more is posted.
Roomy(k) ==
    /\ Cardinality(Open(k)) <= Failures
    /\ k = "pts" => Cardinality(Open(k)) <= used.list /\ 2 * Cardinality(Open(k)) <= Failures

\* How many may be there at any time.
Stacked(k) ==
    /\ Cardinality(Open(k)) <= 1 + Failures
    /\ k = "pts" => /\ Cardinality(Open(k)) <= 1 + used.list
                    /\ 2 * Cardinality(Open(k)) <= 2 + Failures

\* Whoever is about to post holds the lock of its manager, and there is room.
BookInv ==
    /\ \A k \in Kinds : Stacked(k)
    /\ \A t \in Tasks, k \in Kinds :
           task[t].pc = "post" /\ task[t].kind = k => lock[k] = t /\ Roomy(k)

LEMMA FailuresIs ==
    ASSUME TypeInv, Mounts
    PROVE  /\ Failures \in Nat /\ Failures' \in Nat /\ Failures' >= Failures
           /\ used.list \in Nat /\ used'.list \in Nat /\ used'.list >= used.list
           /\ used.cancel \in Nat
  BY UsedIs DEF Mounts, Failures

\* Fewer orders and more failures leave what was room.
LEMMA RoomStays ==
    ASSUME TypeInv, Mounts, NEW k \in Kinds, Open(k)' \subseteq Open(k)
    PROVE  (Stacked(k) => Stacked(k)') /\ (Roomy(k) => Roomy(k)')
<1> DEFINE a == Cardinality(Open(k))
           b == Cardinality(Open(k)')
           f == Failures
           g == Failures'
           l == used.list
           m == used'.list
<1>1. a \in Nat /\ b \in Nat /\ b <= a
  BY OpenIs, SetSizes
<1>2. f \in Nat /\ g \in Nat /\ f <= g /\ l \in Nat /\ m \in Nat /\ l <= m
  BY FailuresIs
<1>3. /\ Stacked(k) <=> (a <= 1 + f /\ (k = "pts" => a <= 1 + l /\ 2 * a <= 2 + f))
      /\ Stacked(k)' <=> (b <= 1 + g /\ (k = "pts" => b <= 1 + m /\ 2 * b <= 2 + g))
      /\ Roomy(k) <=> (a <= f /\ (k = "pts" => a <= l /\ 2 * a <= f))
      /\ Roomy(k)' <=> (b <= g /\ (k = "pts" => b <= m /\ 2 * b <= g))
  BY DEF Stacked, Roomy
<1> HIDE DEF a, b, f, g, l, m
<1>4. QED
  BY <1>1, <1>2, <1>3

LEMMA HarmlessBook ==
    ASSUME TypeInv, BookInv, Harmless
    PROVE  BookInv'
<1>1. Mounts /\ Keeps /\ \A k \in Kinds : Open(k)' \subseteq Open(k)
  BY DEF Harmless
<1>2. ASSUME NEW k \in Kinds PROVE Stacked(k)'
  BY <1>1, RoomStays DEF BookInv
<1>3. ASSUME NEW t \in Tasks, NEW k \in Kinds, task'[t].pc = "post", task'[t].kind = k
      PROVE  lock'[k] = t /\ Roomy(k)'
  <2>1. task[t].pc = "post" /\ task[t].kind = k
    BY <1>1, <1>3 DEF Keeps
  <2>2. lock[k] = t /\ Roomy(k)
    BY <2>1 DEF BookInv
  <2>3. lock'[k] = t
    BY <1>1, <1>3, <2>1, <2>2 DEF Keeps
  <2>4. QED
    BY <1>1, <2>2, <2>3, RoomStays
<1>4. QED
  BY <1>2, <1>3 DEF BookInv

\* The manager has looked at the book: what it did not cancel has cost a
\* failed call each, or all of it a failed listing.
LEMMA LookMakesRoom ==
    ASSUME TypeInv, BookInv, NEW k \in Kinds, NEW left, NEW lists \in 0..1, NEW again \in 0..1,
           Reconciles(k, left, lists, again), Verified(k, left, again)
    PROVE  Roomy(k)'
<1>1. /\ Mounts
      /\ used'.cancel = used.cancel + (IF lists = 1 THEN 0 ELSE Cardinality(left))
      /\ used'.list = used.list + lists + again
      /\ left \in SUBSET Slots /\ left \subseteq Open(k) /\ Open(k)' = left
  BY ReconcilesIs
<1> DEFINE a == Cardinality(Open(k))
           b == Cardinality(left)
           c == used.cancel
           l == used.list
           cc == used'.cancel
           ll == used'.list
<1>2. a \in Nat /\ b \in Nat /\ b <= a /\ (left = {} => b = 0)
  BY <1>1, OpenIs, SetSizes
<1>3. c \in Nat /\ l \in Nat /\ cc \in Nat /\ ll \in Nat
  BY <1>1, UsedIs DEF Mounts
<1>4. /\ Roomy(k)' <=> (b <= cc + ll /\ (k = "pts" => b <= ll /\ 2 * b <= cc + ll))
      /\ a <= 1 + (c + l) /\ (k = "pts" => a <= 1 + l /\ 2 * a <= 2 + (c + l))
  BY <1>1 DEF Roomy, BookInv, Stacked, Failures
<1>5. k = "pts" => b = 0 \/ again = 1
  BY <1>2 DEF Verified
<1>6. cc = c + (IF lists = 1 THEN 0 ELSE b) /\ ll = l + lists + again
  BY <1>1
<1> HIDE DEF a, b, c, l, cc, ll
<1>7. CASE lists = 1
  BY <1>2, <1>3, <1>4, <1>5, <1>6, <1>7
<1>8. CASE lists = 0
  BY <1>2, <1>3, <1>4, <1>5, <1>6, <1>8
<1>9. QED
  BY <1>7, <1>8

LEMMA LooksBook ==
    ASSUME TypeInv, BookInv, Looks
    PROVE  BookInv'
<1>1. PICK t \in Tasks, left \in SUBSET Slots, lists \in 0..1, again \in 0..1 :
          PlaceClears(t, left, lists, again)
  BY DEF Looks
<1>2. PICK k \in Kinds : k = task[t].kind
  BY TaskIs
<1>3. /\ Reconciles(k, left, lists, again)
      /\ lock[k] \in {t, Nobody} /\ task[t].pc = "clear"
      /\ \A u \in Tasks : u # t => task'[u] = task[u]
      /\ Verified(k, left, again) =>
           /\ task'[t].pc = "post" /\ task'[t].kind = k
           /\ lock'[k] = t /\ \A j \in Kinds : j # k => lock'[j] = lock[j]
      /\ ~Verified(k, left, again) => Moves(t)
  BY <1>1, <1>2, PlaceClearsIs
<1>4. Mounts /\ \A j \in Kinds : Open(j)' \subseteq Open(j)
  BY <1>3, ReconcilesIs
<1>5. CASE ~Verified(k, left, again)
  BY <1>3, <1>4, <1>5, MovesKeep, HarmlessBook DEF Harmless
<1>6. CASE Verified(k, left, again)
  <2>1. Roomy(k)'
    BY <1>3, <1>6, LookMakesRoom
  <2>2. ASSUME NEW j \in Kinds PROVE Stacked(j)'
    BY <1>4, RoomStays DEF BookInv
  <2>3. ASSUME NEW u \in Tasks, NEW j \in Kinds, task'[u].pc = "post", task'[u].kind = j
        PROVE  lock'[j] = u /\ Roomy(j)'
    <3>1. CASE u = t
      BY <1>3, <1>6, <2>1, <2>3, <3>1
    <3>2. CASE u # t
      <4>1. lock[j] = u /\ Roomy(j)
        BY <1>3, <2>3, <3>2 DEF BookInv
      <4>2. j # k
        BY <1>3, <3>2, <4>1, Parts
      <4>3. lock'[j] = u
        BY <1>3, <1>6, <4>1, <4>2
      <4>4. QED
        BY <1>4, <4>1, <4>3, RoomStays
    <3>3. QED
      BY <3>1, <3>2
  <2>4. QED
    BY <2>2, <2>3 DEF BookInv
<1>7. QED
  BY <1>5, <1>6

LEMMA PostsBook ==
    ASSUME TypeInv, BookInv, Posts
    PROVE  BookInv'
<1>1. PICK t \in Tasks, reply \in {"resting", "lost", "refused"} : PlacePosts(t, reply)
  BY DEF Posts
<1>2. PICK k \in Kinds : k = task[t].kind
  BY TaskIs
<1>3. /\ Moves(t) /\ task[t].pc = "post" /\ Mounts
      /\ used'.cancel = used.cancel /\ used'.list = used.list
      /\ \A j \in Kinds : j # k => Open(j)' = Open(j)
      /\ \/ book' = book
         \/ \E i \in Slots : Open(k)' \subseteq Open(k) \cup {i}
  BY <1>1, <1>2, PlacePostsIs
<1>4. lock[k] = t /\ Roomy(k)
  BY <1>2, <1>3 DEF BookInv
<1>5. Stacked(k)'
  <2>1. CASE book' = book
    BY <1>3, <2>1, SameBook, RoomStays DEF BookInv
  <2>2. CASE \E i \in Slots : Open(k)' \subseteq Open(k) \cup {i}
    <3>1. PICK i \in Slots : Open(k)' \subseteq Open(k) \cup {i}
      BY <2>2
    <3> DEFINE a == Cardinality(Open(k))
               b == Cardinality(Open(k)')
               r == Cardinality(Open(k)' \ {i})
    <3>2. a \in Nat /\ b \in Nat /\ r \in Nat /\ b <= r + 1 /\ r <= a
      <4>1. Open(k)' \ {i} \in SUBSET Open(k)
        BY <3>1
      <4>2. Open(k) \in SUBSET Slots /\ Open(k)' \in SUBSET Slots /\ Open(k)' \ {i} \in SUBSET Slots
        BY OpenIs
      <4>3. QED
        BY <4>1, <4>2, SetSizes
    <3>3. Failures \in Nat /\ Failures' = Failures /\ used.list \in Nat /\ used'.list = used.list
      BY <1>3, FailuresIs DEF Failures
    <3> DEFINE f == Failures
               l == used.list
    <3>4. /\ Stacked(k)' <=> (b <= 1 + f /\ (k = "pts" => b <= 1 + l /\ 2 * b <= 2 + f))
          /\ a <= f /\ (k = "pts" => a <= l /\ 2 * a <= f)
          /\ f \in Nat /\ l \in Nat
      BY <1>4, <3>3 DEF Stacked, Roomy
    <3> HIDE DEF a, b, r, f, l
    <3>5. QED
      BY <3>2, <3>4
  <2>3. QED
    BY <1>3, <2>1, <2>2
<1>6. ASSUME NEW j \in Kinds PROVE Stacked(j)'
  BY <1>3, <1>5, RoomStays DEF BookInv
<1>7. ASSUME NEW u \in Tasks, NEW j \in Kinds, task'[u].pc = "post", task'[u].kind = j
      PROVE  lock'[j] = u /\ Roomy(j)'
  <2>1. u # t /\ task'[u] = task[u]
    BY <1>3, <1>7 DEF Moves
  <2>2. lock[j] = u /\ Roomy(j)
    BY <1>7, <2>1 DEF BookInv
  <2>3. j # k
    BY <1>4, <2>1, <2>2
  <2>4. lock'[j] = u
    BY <1>3, <2>1, <2>2, Parts DEF Moves
  <2>5. QED
    BY <1>3, <2>2, <2>3, <2>4, RoomStays
<1>8. QED
  BY <1>6, <1>7 DEF BookInv

LEMMA InitBook == Init => BookInv
<1> SUFFICES ASSUME Init PROVE BookInv
  OBVIOUS
<1>1. \A k \in Kinds : Open(k) = {}
  BY DEF Init, Open
<1>2. Cardinality({}) = 0 /\ Failures = 0 /\ used.list = 0
  BY FS_EmptySet DEF Init, Failures, Faults
<1>3. \A k \in Kinds : Stacked(k)
  BY <1>1, <1>2 DEF Stacked
<1>4. \A t \in Tasks : task[t].pc = "idle"
  BY DEF Init, NoTask
<1>5. QED
  BY <1>3, <1>4 DEF BookInv

LEMMA BookStep == TypeInv /\ BookInv /\ [Next]_vars => BookInv'
<1> SUFFICES ASSUME TypeInv, BookInv, [Next]_vars PROVE BookInv'
  OBVIOUS
<1>1. CASE Next
  BY <1>1, NextStep, HarmlessBook, LooksBook, PostsBook
<1>2. CASE UNCHANGED vars
  <2>1. Mounts /\ Keeps
    BY <1>2, SameFaults, Stays DEF vars, process
  <2>2. Harmless
    BY <1>2, <2>1, SameBook DEF Harmless, vars, exchange
  <2>3. QED
    BY <2>2, HarmlessBook
<1>3. QED
  BY <1>1, <1>2

LEMMA BookAlways == Spec => []BookInv
  BY InitTypes, TypeStep, InitBook, BookStep, PTL DEF Spec

\* SlBackstopManager.place: every backstop on the book beyond the first has
\* cost a failed cancel or a failed listing, whatever tasks, restarts, lost
\* replies and stale ids come between, and with both managers on.
THEOREM NeverStacksBackstops == Spec => []StackedBackstop
<1>1. TypeInv /\ BookInv => StackedBackstop
  BY Parts DEF BookInv, Stacked, StackedBackstop
<1>2. QED
  BY <1>1, TypesAlways, BookAlways, PTL

\* ProfitTakeSellManager.place: every take-profit on the book beyond the first
\* has cost a failed listing at the second look and another failure before it.
THEOREM NeverStacksTakeProfits == Spec => []StackedTakeProfit
<1>1. TypeInv /\ BookInv => StackedTakeProfit
  <2> SUFFICES ASSUME TypeInv, BookInv PROVE StackedTakeProfit
    OBVIOUS
  <2> DEFINE a == Cardinality(Open("pts"))
             l == used.list
             f == Failures
  <2>1. a <= 1 + l /\ 2 * a <= 2 + f
    BY Parts DEF BookInv, Stacked
  <2>2. a \in Nat /\ l \in Nat /\ f \in Nat
    BY OpenIs, SetSizes, Parts, UsedIs DEF Failures
  <2>3. StackedTakeProfit <=> (a - 1 <= l /\ 2 * (a - 1) <= f)
    BY DEF StackedTakeProfit
  <2> HIDE DEF a, l, f
  <2>4. QED
    BY <2>1, <2>2, <2>3
<1>2. QED
  BY <1>1, TypesAlways, BookAlways, PTL

-----------------------------------------------------------------------------
(* With one manager, and neither crashes nor failed cancels or listings *)

\* One of the two managers is switched on.
OneManager == Settings \subseteq {{"bsp"}, {"pts"}}

Posting(t) == task[t].pc \in {"clear", "post"}
AtWork == {"clear", "post", "save", "cancel", "unsave"}
AfterCancel == {"unsave", "sell", "verify", "delete", "requeue"}
Restoring == {"again", "run"}
NothingOpen == \A k \in Kinds : Open(k) = {}

Runs ==
    /\ up = "running"
    /\ \A t \in Tasks : task[t].pc \notin Restoring /\ task[t].then \notin Restoring

KindIs == \A t \in Tasks : task[t].pc \in AtWork => task[t].kind \in enabled

\* There is one order at most, and it sells no more than is held.
BookIs ==
    /\ net >= 0
    /\ \A k \in Kinds, i \in Slots : i \in Open(k) =>
           /\ k \in enabled /\ book[k][i] <= net
           /\ \A j \in Open(k) : j = i

\* One task at most is on its way to post, with an empty book, what is held.
PostingIs ==
    \A t \in Tasks :
        /\ Posting(t) =>
             /\ \A k \in Kinds : task[t].kind = k => lock[k] = t
             /\ NothingOpen /\ task[t].n \in 1..net /\ held
        /\ Posting(t) \/ task[t].pc = "save" => task[t].then # "sell"

LockIs == \A k \in Kinds, t \in Tasks : lock[k] = t => Posting(t)

\* The exit sells when the book is empty and nobody is about to post.
ExitIs ==
    /\ task["exit"].pc \in AfterCancel => NothingOpen /\ \A t \in Tasks : ~Posting(t)
    /\ task["exit"].pc = "delete" => net = 0
    /\ task["exit"].pc = "requeue" => task["exit"].n \in 1..net

\* What is bought and not yet held is the entry's, and has no order.
NewIs ==
    /\ ~held => NothingOpen
    /\ ~held /\ net > 0 =>
         /\ \A t \in Tasks : t # "entry" => task[t].pc = "idle"
         /\ task["entry"].pc \in {"idle", "bought"}
    /\ task["entry"].pc = "bought" => ~held /\ net > 0

Calm == Runs /\ KindIs /\ BookIs /\ PostingIs /\ LockIs /\ ExitIs /\ NewIs
CalmInv == Untroubled => Calm

LEMMA Sole ==
    ASSUME TypeInv, OneManager
    PROVE  \E e \in Kinds : enabled = {e} /\ First = e /\ IsLast(e)
<1>1. enabled = {"bsp"} \/ enabled = {"pts"}
  BY DEF TypeInv, OneManager
<1>2. QED
  BY <1>1 DEF First, IsLast, Kinds

LEMMA OnePoster ==
    ASSUME TypeInv, OneManager, Calm, NEW t \in Tasks, NEW u \in Tasks, Posting(t), Posting(u)
    PROVE  t = u
<1>1. PICK e \in Kinds : enabled = {e}
  BY Sole
<1>2. task[t].kind = e /\ task[u].kind = e
  BY <1>1 DEF Calm, KindIs, Posting, AtWork
<1>3. QED
  BY <1>2 DEF Calm, PostingIs

\* Whoever moves on beyond the manager that is on returns to its caller.
LEMMA LastOne ==
    ASSUME TypeInv, OneManager, Calm, NEW t \in Tasks, task[t].pc \in AtWork,
           NEW p \in {"clear", "cancel"}, NextManager(t, p)
    PROVE  Returns(t)
<1>1. PICK e \in Kinds : enabled = {e} /\ IsLast(e)
  BY Sole
<1>2. task[t].kind = e
  BY <1>1 DEF Calm, KindIs
<1>3. QED
  BY <1>1, <1>2, NextManagerIs

LEMMA NoneOfThree == \A a, b, c \in Nat : a + b + c = 0 => a = 0 /\ b = 0 /\ c = 0
  OBVIOUS

\* A manager that looks at the book without a failure leaves nothing on it.
LEMMA LookEmpties ==
    ASSUME TypeInv, OneManager, Calm, Untroubled, Untroubled',
           NEW k \in enabled, NEW left, NEW lists \in 0..1, NEW again \in 0..1,
           Reconciles(k, left, lists, again)
    PROVE  left = {} /\ NothingOpen'
<1>1. k \in Kinds
  BY Constants DEF TypeInv
<1>2. /\ used'.cancel = used.cancel + (IF lists = 1 THEN 0 ELSE Cardinality(left))
      /\ used'.list = used.list + lists + again /\ Mounts
      /\ left \in SUBSET Slots /\ Open(k)' = left
      /\ \A j \in Kinds : j # k => Open(j)' = Open(j)
  BY <1>1, ReconcilesIs
<1>3. /\ used.cancel = 0 /\ used.list = 0 /\ used'.cancel = 0 /\ used'.list = 0
  <2>1. /\ used.cancel + used.list + used.crash = 0
        /\ used'.cancel + used'.list + used'.crash = 0
    BY DEF Untroubled, Failures
  <2>2. QED
    <3>1. Mounts
      BY <1>2
    <3>2. used'.cancel = 0 /\ used'.list = 0
      BY <2>1, <3>1, NoneOfThree DEF Mounts
    <3>3. used.cancel = 0 /\ used.list = 0
      BY <2>1, UsedIs, NoneOfThree
    <3>4. QED
      BY <3>2, <3>3
<1>4. lists = 0 /\ Cardinality(left) = 0
  <2> DEFINE a == Cardinality(left)
  <2>1. a \in Nat
    BY <1>2, SetSizes
  <2>2. used'.cancel = used.cancel + (IF lists = 1 THEN 0 ELSE a)
    BY <1>2
  <2> HIDE DEF a
  <2>3. lists = 0 /\ a = 0
    BY <1>2, <1>3, <2>1, <2>2
  <2>4. QED
    BY <2>3 DEF a
<1>5. left = {}
  BY <1>2, <1>4, SetSizes
<1>6. ASSUME NEW j \in Kinds PROVE Open(j)' = {}
  <2>1. CASE j = k
    BY <1>2, <1>5, <2>1
  <2>2. CASE j # k
    <3>1. PICK e \in Kinds : enabled = {e}
      BY Sole
    <3>2. j \notin enabled
      BY <2>2, <3>1
    <3>3. Open(j) = {}
      BY <3>2, OpenIs DEF Calm, BookIs
    <3>4. QED
      BY <1>2, <2>2, <3>3
  <2>3. QED
    BY <2>1, <2>2
<1>7. QED
  BY <1>5, <1>6 DEF NothingOpen

LEMMA StillCalm ==
    ASSUME TypeInv, Mounts, Untroubled'
    PROVE  /\ Untroubled /\ used'.cancel = used.cancel /\ used'.crash = used.crash
<1>1. used'.cancel + used'.list + used'.crash = 0
  BY DEF Untroubled, Failures
<1>2. used.cancel + used.list + used.crash = 0 /\ used'.cancel = used.cancel /\ used'.crash = used.crash
  <2>1. used'.cancel = 0 /\ used'.list = 0 /\ used'.crash = 0
    BY <1>1, NoneOfThree DEF Mounts
  <2>2. used.cancel = 0 /\ used.list = 0 /\ used.crash = 0
    BY <2>1, UsedIs DEF Mounts
  <2>3. QED
    BY <2>1, <2>2
<1>3. QED
  BY <1>2 DEF Untroubled, Failures

LEMMA Empty ==
    ASSUME NothingOpen, \A k \in Kinds : Open(k)' \subseteq Open(k)
    PROVE  NothingOpen'
  BY DEF NothingOpen

\* The book shrinks, and what is held stays.
LEMMA SmallerBook ==
    ASSUME TypeInv, BookIs, net' = net, enabled' = enabled, book' \in Books,
           \A k \in Kinds : Open(k)' \subseteq Open(k),
           \A k \in Kinds, i \in Slots : book'[k][i] <= book[k][i]
    PROVE  BookIs'
<1>1. ASSUME NEW k \in Kinds, NEW i \in Slots, i \in Open(k)'
      PROVE  k \in enabled' /\ book'[k][i] <= net' /\ \A j \in Open(k)' : j = i
  <2>1. i \in Open(k)
    BY <1>1
  <2>2. book[k][i] \in Nat /\ book'[k][i] \in Nat /\ net \in Int
    <3>1. book[k][i] \in Sizes /\ book'[k][i] \in Sizes
      BY DEF TypeInv, Books, Book
    <3>2. QED
      BY <3>1, Constants DEF Sizes, TypeInv
  <2>3. k \in enabled /\ book[k][i] <= net /\ \A j \in Open(k) : j = i
    BY <2>1 DEF BookIs
  <2>4. book'[k][i] <= book[k][i]
    OBVIOUS
  <2>5. book'[k][i] <= net
    BY <2>2, <2>3, <2>4
  <2>6. QED
    BY <2>3, <2>5
<1>2. net' >= 0
  BY DEF BookIs
<1>3. QED
  BY <1>1, <1>2 DEF BookIs

LEMMA EmptyBook ==
    ASSUME NothingOpen', net' >= 0
    PROVE  BookIs'
  BY DEF BookIs, NothingOpen

-----------------------------------------------------------------------------
(* A task moves on, and is not on its way to post when it has *)

LEMMA CalmMove ==
    ASSUME TypeInv, OneManager, Calm, NEW t \in Tasks, Moves(t),
           up' = up, enabled' = enabled, BookIs',
           task'[t].pc # "clear",
           task'[t].pc \notin Restoring /\ task'[t].then \notin Restoring,
           task'[t].pc \in AtWork => task'[t].kind \in enabled,
           task'[t].pc = "save" => task'[t].then # "sell",
           \A k \in Kinds : lock'[k] \in {lock[k], Nobody} /\ lock'[k] # t,
           (NothingOpen => NothingOpen') \/ task[t].pc = "post",
           (net' = net /\ held' = held) \/ (\A u \in Tasks : ~Posting(u)),
           t = "exit" \/ net' = net,
           t = "exit" /\ task'[t].pc \in AfterCancel =>
               NothingOpen' /\ \A u \in Tasks : u # t => ~Posting(u),
           t = "exit" /\ task'[t].pc = "delete" => net' = 0,
           t = "exit" /\ task'[t].pc = "requeue" => task'[t].n \in 1..net',
           task'[t].pc # "bought",
           task["entry"].pc = "bought" /\ t # "entry" => net' = net /\ held' = held,
           ~held' => NothingOpen',
           ~held' /\ net' > 0 => ~held /\ net' = net /\ task'[t].pc = "idle"
    PROVE  Calm'
<1> "entry" \in Tasks /\ "exit" \in Tasks /\ "sweep" \in Tasks /\ Nobody \notin Tasks
  BY Parts
<1>1. /\ \A u \in Tasks : u # t => task'[u] = task[u]
      /\ task'[t].pc # "post" /\ ~Posting(t)'
      /\ \A u \in Tasks : u # t => (Posting(u)' <=> Posting(u))
  BY DEF Moves, Posting
<1>2. Runs'
  BY <1>1 DEF Calm, Runs
<1>3. KindIs'
  BY <1>1 DEF Calm, KindIs
<1>4. PostingIs'
  <2>1. ASSUME NEW u \in Tasks, Posting(u)'
        PROVE  /\ \A k \in Kinds : task'[u].kind = k => lock'[k] = u
               /\ NothingOpen' /\ task'[u].n \in 1..net' /\ held'
    <3>1. u # t /\ Posting(u) /\ task'[u] = task[u]
      BY <1>1, <2>1
    <3>2. /\ \A k \in Kinds : task[u].kind = k => lock[k] = u
          /\ NothingOpen /\ task[u].n \in 1..net /\ held
      BY <3>1 DEF Calm, PostingIs
    <3>3. \A k \in Kinds : task'[u].kind = k => lock'[k] = u
      BY <3>1, <3>2 DEF Moves
    <3>4. task[t].pc # "post"
      BY <3>1, OnePoster DEF Posting
    <3>5. NothingOpen' /\ net' = net /\ held' = held
      BY <3>1, <3>2, <3>4
    <3>6. QED
      BY <3>1, <3>2, <3>3, <3>5
  <2>2. ASSUME NEW u \in Tasks, Posting(u)' \/ task'[u].pc = "save"
        PROVE  task'[u].then # "sell"
    BY <1>1, <2>2 DEF Calm, PostingIs
  <2>3. QED
    BY <2>1, <2>2 DEF PostingIs
<1>5. LockIs'
  BY <1>1 DEF Calm, LockIs
<1>6. ExitIs'
  <2>1. CASE t = "exit"
    BY <1>1, <2>1 DEF ExitIs
  <2>2. CASE t # "exit"
    <3>1. task'["exit"] = task["exit"] /\ net' = net
      BY <1>1, <2>2
    <3>2. ASSUME task["exit"].pc \in AfterCancel
          PROVE  NothingOpen' /\ \A u \in Tasks : ~Posting(u)'
      <4>1. NothingOpen /\ \A u \in Tasks : ~Posting(u)
        BY <3>2 DEF Calm, ExitIs
      <4>2. task[t].pc # "post"
        BY <4>1 DEF Posting
      <4>3. QED
        BY <1>1, <4>1, <4>2
    <3>3. QED
      BY <3>1, <3>2 DEF Calm, ExitIs
  <2>3. QED
    BY <2>1, <2>2
<1>7. NewIs'
  <2>1. ASSUME ~held', net' > 0
        PROVE  /\ \A u \in Tasks : u # "entry" => task'[u].pc = "idle"
               /\ task'["entry"].pc \in {"idle", "bought"}
    BY <1>1, <2>1 DEF Calm, NewIs
  <2>2. ASSUME task'["entry"].pc = "bought"
        PROVE  ~held' /\ net' > 0
    BY <1>1, <2>2 DEF Calm, NewIs
  <2>3. QED
    BY <2>1, <2>2 DEF NewIs
<1>8. QED
  BY <1>2, <1>3, <1>4, <1>5, <1>6, <1>7 DEF Calm

LEMMA NotLocked ==
    ASSUME TypeInv, Calm, NEW t \in Tasks, ~Posting(t)
    PROVE  \A k \in Kinds : lock[k] # t
  BY DEF Calm, LockIs

\* A step in which no task moves, nothing is filled and nothing is bought.
LEMMA CalmStill ==
    ASSUME Calm, book' = book, net' = net, held' = held, up' = up, enabled' = enabled,
           task' = task, lock' = lock
    PROVE  Calm'
<1>1. /\ \A k \in Kinds : Open(k)' = Open(k)
      /\ NothingOpen' <=> NothingOpen
      /\ \A t \in Tasks : Posting(t)' <=> Posting(t)
  BY SameBook DEF NothingOpen, Posting
<1>2. Runs' /\ KindIs' /\ LockIs'
  BY <1>1 DEF Calm, Runs, KindIs, LockIs
<1>3. BookIs'
  BY <1>1 DEF Calm, BookIs
<1>4. PostingIs'
  BY <1>1 DEF Calm, PostingIs
<1>5. ExitIs' /\ NewIs'
  BY <1>1 DEF Calm, ExitIs, NewIs
<1>6. QED
  BY <1>2, <1>3, <1>4, <1>5 DEF Calm

LEMMA CalmReturns ==
    ASSUME TypeInv, OneManager, Calm, NEW t \in Tasks, Returns(t),
           task[t].pc \in {"post", "save", "unsave"},
           up' = up, enabled' = enabled, net' = net, held' = held, BookIs',
           (NothingOpen => NothingOpen') \/ task[t].pc = "post",
           ~held => NothingOpen'
    PROVE  Calm'
<1>1. /\ Moves(t) /\ task'[t].pc = task[t].then /\ task'[t].then = "idle"
      /\ lock' = Unlocked(t)
  BY ReturnsIs
<1>2. task'[t].pc \in {"idle", "commit", "sell", "erase"}
  <2>1. task[t].then \in Thens /\ task[t].then \notin Restoring
    BY TaskIs DEF Calm, Runs
  <2>2. QED
    BY <1>1, <2>1 DEF Thens, Restoring
<1>3. /\ task'[t].pc \notin AtWork /\ task'[t].pc \notin Restoring /\ task'[t].then \notin Restoring
      /\ task'[t].pc \notin {"clear", "bought", "save", "delete", "requeue"}
      /\ task'[t].pc \in AfterCancel => task'[t].pc = "sell"
  BY <1>1, <1>2 DEF AtWork, Restoring, AfterCancel
<1>4. \A k \in Kinds : lock'[k] \in {lock[k], Nobody} /\ lock'[k] # t
  BY <1>1, UnlockedIs, Parts
<1>5. ASSUME t = "exit", task'[t].pc \in AfterCancel
      PROVE  NothingOpen' /\ \A u \in Tasks : u # t => ~Posting(u)
  <2>1. task[t].then = "sell"
    BY <1>1, <1>3, <1>5
  <2>2. task[t].pc = "unsave"
    BY <2>1 DEF Calm, PostingIs, Posting
  <2>3. NothingOpen /\ \A u \in Tasks : ~Posting(u)
    BY <1>5, <2>2 DEF Calm, ExitIs, AfterCancel
  <2>4. QED
    BY <2>2, <2>3
<1>6. ~(~held /\ net > 0)
  BY DEF Calm, NewIs
<1>7. t = "exit" \/ net' = net
  OBVIOUS
<1>8. QED
  BY <1>1, <1>3, <1>4, <1>5, <1>6, <1>7, CalmMove

LEMMA PlaceSavesCalm ==
    ASSUME TypeInv, OneManager, Calm, NEW t \in Tasks, NEW written \in BOOLEAN,
           PlaceSaves(t, written)
    PROVE  Calm'
<1>1. /\ task[t].pc = "save" /\ NextManager(t, "clear")
      /\ book' = book /\ net' = net /\ held' = held /\ up' = up /\ enabled' = enabled
  BY DEF PlaceSaves, At, exchange
<1>2. Returns(t)
  BY <1>1, LastOne DEF AtWork
<1>3. NothingOpen' <=> NothingOpen
  BY <1>1, SameBook DEF NothingOpen
<1>4. BookIs'
  BY <1>1, SameBook DEF Calm, BookIs
<1>5. ~held => NothingOpen'
  BY <1>3 DEF Calm, NewIs
<1>6. QED
  BY <1>1, <1>2, <1>3, <1>4, <1>5, CalmReturns

LEMMA CancelSavesCalm ==
    ASSUME TypeInv, OneManager, Calm, NEW t \in Tasks, NEW written \in BOOLEAN,
           CancelSaves(t, written)
    PROVE  Calm'
<1>1. /\ task[t].pc = "unsave" /\ NextManager(t, "cancel")
      /\ book' = book /\ net' = net /\ held' = held /\ up' = up /\ enabled' = enabled
  BY DEF CancelSaves, At, exchange
<1>2. Returns(t)
  BY <1>1, LastOne DEF AtWork
<1>3. NothingOpen' <=> NothingOpen
  BY <1>1, SameBook DEF NothingOpen
<1>4. BookIs'
  BY <1>1, SameBook DEF Calm, BookIs
<1>5. ~held => NothingOpen'
  BY <1>3 DEF Calm, NewIs
<1>6. QED
  BY <1>1, <1>2, <1>3, <1>4, <1>5, CalmReturns

LEMMA PlacePostsCalm ==
    ASSUME TypeInv, OneManager, Calm, NEW t \in Tasks,
           NEW reply \in {"resting", "lost", "refused"}, PlacePosts(t, reply)
    PROVE  Calm'
<1>1. PICK k \in Kinds : k = task[t].kind
  BY TaskIs
<1>2. /\ Moves(t) /\ task[t].pc = "post"
      /\ book' \in Books
      /\ \A j \in Kinds : j # k => Open(j)' = Open(j)
      /\ \/ reply = "refused" /\ book' = book
         \/ \E i \in Slots : /\ Open(k)' \subseteq Open(k) \cup {i}
                             /\ book'[k][i] <= task[t].n
                             /\ \A j \in Slots : j # i => book'[k][j] = book[k][j]
      /\ reply = "resting" =>
           task'[t].pc = "save" /\ task'[t].then = task[t].then
           /\ task'[t].kind = k /\ lock' = Unlocked(t)
      /\ reply # "resting" => NextManager(t, "clear")
  BY <1>1, PlacePostsIs
<1>3. net' = net /\ held' = held /\ up' = up /\ enabled' = enabled
  BY DEF PlacePosts, database
<1>4. Posting(t)
  BY <1>2 DEF Posting
<1>5. NothingOpen /\ task[t].n \in 1..net /\ held /\ task[t].then # "sell" /\ k \in enabled
  BY <1>1, <1>4 DEF Calm, PostingIs, KindIs, Posting, AtWork
<1>6. BookIs'
  <2>1. CASE book' = book
    BY <1>3, <2>1, SameBook DEF Calm, BookIs
  <2>2. CASE \E i \in Slots : Open(k)' \subseteq Open(k) \cup {i} /\ book'[k][i] <= task[t].n
    <3>1. PICK i \in Slots : Open(k)' \subseteq Open(k) \cup {i} /\ book'[k][i] <= task[t].n
      BY <2>2
    <3>2. book'[k][i] \in Nat /\ net \in Int
      <4>1. book'[k][i] \in Sizes
        BY <1>2 DEF Books, Book
      <4>2. QED
        BY <4>1, Constants DEF Sizes, TypeInv
    <3>3. book'[k][i] <= net' /\ net' >= 0
      BY <1>3, <1>5, <3>1, <3>2
    <3>4. ASSUME NEW j \in Kinds, NEW x \in Open(j)' PROVE j = k /\ x = i
      BY <1>2, <1>5, <3>1, <3>4 DEF NothingOpen
    <3>5. QED
      BY <1>3, <1>5, <3>3, <3>4 DEF BookIs
  <2>3. QED
    BY <1>2, <2>1, <2>2
<1>7. CASE reply # "resting"
  <2>1. Returns(t)
    BY <1>2, <1>7, LastOne DEF AtWork
  <2>2. QED
    BY <1>2, <1>3, <1>5, <1>6, <2>1, CalmReturns
<1>8. CASE reply = "resting"
  <2>1. /\ task'[t].pc = "save" /\ task'[t].then = task[t].then
        /\ task'[t].kind = k /\ lock' = Unlocked(t)
    BY <1>2, <1>8
  <2>2. \A j \in Kinds : lock'[j] \in {lock[j], Nobody} /\ lock'[j] # t
    BY <2>1, UnlockedIs, Parts
  <2>3. task'[t].pc \notin Restoring /\ task'[t].then \notin Restoring
    BY <2>1 DEF Calm, Runs, Restoring
  <2>4. task'[t].pc \notin AfterCancel /\ task'[t].pc \notin {"clear", "bought", "delete", "requeue"}
    BY <2>1 DEF AfterCancel
  <2>5. /\ net' = net /\ held' = held /\ held'
        /\ task'[t].pc \in AtWork => task'[t].kind \in enabled
    BY <1>3, <1>5, <2>1
  <2>6. QED
    BY <1>2, <1>3, <1>5, <1>6, <2>1, <2>2, <2>3, <2>4, <2>5, CalmMove
<1>9. QED
  BY <1>7, <1>8

LEMMA CancelSucceedsCalm ==
    ASSUME TypeInv, OneManager, Calm, Untroubled, Untroubled', NEW t \in Tasks, NEW left,
           NEW lists \in 0..1, CancelSucceeds(t, left, lists)
    PROVE  Calm'
<1>1. PICK k \in Kinds : k = task[t].kind
  BY TaskIs
<1>2. /\ task[t].pc = "cancel" /\ lock[k] = Nobody /\ Reconciles(k, left, lists, 0)
      /\ Step(t, "unsave") /\ 0 \in 0..1
      /\ net' = net /\ held' = held /\ up' = up /\ enabled' = enabled
  BY <1>1 DEF CancelSucceeds, At
<1>3. /\ Moves(t) /\ lock' = lock /\ task'[t].pc = "unsave"
      /\ task'[t].kind = k /\ task'[t].then = task[t].then
  BY <1>1, <1>2, StepIs DEF Pcs
<1>4. k \in enabled
  BY <1>1, <1>2 DEF Calm, KindIs, AtWork
<1>5. NothingOpen'
  BY <1>2, <1>4, LookEmpties
<1>6. BookIs'
  BY <1>2, <1>5, EmptyBook DEF Calm, BookIs
<1>7. \A u \in Tasks : ~Posting(u)
  <2>1. ASSUME NEW u \in Tasks, Posting(u) PROVE FALSE
    <3>1. PICK e \in Kinds : enabled = {e}
      BY Sole
    <3>2. task[u].kind = k
      BY <1>4, <2>1, <3>1 DEF Calm, KindIs, Posting, AtWork
    <3>3. QED
      BY <1>2, <2>1, <3>2, Parts DEF Calm, PostingIs
  <2>2. QED
    BY <2>1
<1>8. \A j \in Kinds : lock'[j] \in {lock[j], Nobody} /\ lock'[j] # t
  BY <1>3, <1>7, NotLocked
<1>9. /\ task'[t].pc \notin Restoring /\ task'[t].then \notin Restoring
      /\ task'[t].pc \notin {"clear", "save", "bought", "delete", "requeue"}
      /\ task'[t].kind \in enabled
  BY <1>3, <1>4 DEF Calm, Runs, Restoring
<1>10. ~(~held /\ net > 0)
  BY <1>2 DEF Calm, NewIs
<1>11. QED
  BY <1>2, <1>3, <1>5, <1>6, <1>7, <1>8, <1>9, <1>10, CalmMove

LEMMA EndCalm ==
    ASSUME TypeInv, OneManager, Calm, NEW t \in Tasks, End(t), ~Posting(t),
           book' = book, net' = net, held' = held, up' = up, enabled' = enabled
    PROVE  Calm'
<1>1. Moves(t) /\ lock' = lock /\ task'[t].pc = "idle" /\ task'[t].then = "idle"
  BY EndIs
<1>2. NothingOpen' <=> NothingOpen
  BY SameBook DEF NothingOpen
<1>3. BookIs'
  BY SameBook DEF Calm, BookIs
<1>4. \A j \in Kinds : lock'[j] \in {lock[j], Nobody} /\ lock'[j] # t
  BY <1>1, NotLocked
<1>5. /\ task'[t].pc \notin Restoring /\ task'[t].then \notin Restoring
      /\ task'[t].pc \notin AtWork /\ task'[t].pc \notin AfterCancel
      /\ task'[t].pc \notin {"clear", "save", "bought", "delete", "requeue"}
  BY <1>1 DEF AtWork, AfterCancel, Restoring
<1>6. ~held => NothingOpen'
  BY <1>2 DEF Calm, NewIs
<1>7. QED
  BY <1>1, <1>2, <1>3, <1>4, <1>5, <1>6, CalmMove

-----------------------------------------------------------------------------
(* A task sets out to post, and looks at the book *)

LEMMA CalmBegins ==
    ASSUME TypeInv, OneManager, Calm, NEW t \in Tasks, NEW n \in Amounts, NEW then \in Thens,
           then \notin Restoring, then # "sell",
           Begin(t, "clear", n, then), n \in 1..net,
           net' = net, book' = book, up' = up, enabled' = enabled, held',
           NothingOpen, \A u \in Tasks : ~Posting(u),
           t = "exit" \/ task["exit"].pc \notin AfterCancel,
           t = "entry" \/ task["entry"].pc # "bought"
    PROVE  Calm'
<1> "entry" \in Tasks /\ "exit" \in Tasks /\ "sweep" \in Tasks /\ Nobody \notin Tasks
  BY Parts
<1>1. PICK e \in Kinds : enabled = {e} /\ First = e
  BY Sole
<1>2. n # 0
  BY Constants DEF TypeInv
<1>3. /\ Moves(t)
      /\ task'[t].pc = "clear" /\ task'[t].kind = e
      /\ task'[t].n = n /\ task'[t].then = then
      /\ Enters(t, "clear", e, lock)
  BY <1>1, <1>2, BeginIs
<1>4. /\ \A k \in Kinds : lock[k] = Nobody
      /\ lock \in Locks
  BY DEF Calm, LockIs, TypeInv, Locks
<1>5. lock'[e] = t /\ \A k \in Kinds : k # e => lock'[k] = Nobody
  BY <1>3, <1>4 DEF Enters, Locks
<1>6. /\ NothingOpen'
      /\ \A u \in Tasks : u # t => task'[u] = task[u] /\ ~Posting(u)'
      /\ Posting(t)'
  BY <1>3, SameBook DEF NothingOpen, Posting, Moves
<1>7. Runs' /\ KindIs'
  BY <1>1, <1>3, <1>6 DEF Calm, Runs, KindIs, Restoring
<1>8. BookIs'
  BY <1>6, EmptyBook DEF Calm, BookIs
<1>9. PostingIs'
  <2>1. ASSUME NEW u \in Tasks, Posting(u)'
        PROVE  /\ \A k \in Kinds : task'[u].kind = k => lock'[k] = u
               /\ NothingOpen' /\ task'[u].n \in 1..net' /\ held' /\ task'[u].then # "sell"
    <3>1. u = t
      BY <1>6, <2>1
    <3>2. QED
      BY <1>3, <1>5, <1>6, <3>1
  <2>2. ASSUME NEW u \in Tasks, task'[u].pc = "save" PROVE task'[u].then # "sell"
    BY <1>3, <1>6, <2>2 DEF Calm, PostingIs
  <2>3. QED
    BY <2>1, <2>2 DEF PostingIs
<1>10. LockIs'
  BY <1>5, <1>6 DEF LockIs
<1>11. ExitIs'
  <2>1. task'["exit"].pc \notin AfterCancel
    BY <1>3, <1>6 DEF AfterCancel
  <2>2. QED
    BY <2>1 DEF ExitIs, AfterCancel
<1>12. NewIs'
  BY <1>3, <1>6 DEF NewIs
<1>13. QED
  BY <1>7, <1>8, <1>9, <1>10, <1>11, <1>12 DEF Calm

LEMMA PlaceClearsCalm ==
    ASSUME TypeInv, OneManager, Calm, Untroubled, Untroubled', NEW t \in Tasks, NEW left,
           NEW lists \in 0..1, NEW again \in 0..1, PlaceClears(t, left, lists, again)
    PROVE  Calm'
<1> "entry" \in Tasks /\ "exit" \in Tasks /\ "sweep" \in Tasks /\ Nobody \notin Tasks
  BY Parts
<1>1. PICK k \in Kinds : k = task[t].kind
  BY TaskIs
<1>2. task[t].pc = "clear" /\ Reconciles(k, left, lists, again)
  BY <1>1, PlaceClearsIs
<1>3. k \in enabled
  BY <1>1, <1>2 DEF Calm, KindIs, AtWork
<1>4. left = {} /\ NothingOpen'
  BY <1>2, <1>3, LookEmpties
<1>5. /\ \A u \in Tasks : u # t => task'[u] = task[u]
      /\ task'[t].pc = "post" /\ task'[t].kind = k
      /\ task'[t].n = task[t].n /\ task'[t].then = task[t].then
      /\ lock'[k] = t /\ \A j \in Kinds : j # k => lock'[j] = lock[j]
  BY <1>1, <1>4, PlaceClearsIs DEF Verified
<1>6. net' = net /\ held' = held /\ up' = up /\ enabled' = enabled
  BY DEF PlaceClears, database
<1>7. Posting(t) /\ \A u \in Tasks : Posting(u)' <=> Posting(u)
  BY <1>2, <1>5 DEF Posting
<1>8. \A u \in Tasks : u # t => ~Posting(u)
  BY <1>7, OnePoster
<1>9. /\ task[t].n \in 1..net /\ held /\ task[t].then # "sell"
      /\ task["exit"].pc \notin AfterCancel /\ task["entry"].pc # "bought"
  BY <1>7 DEF Calm, PostingIs, ExitIs, NewIs
<1>10. Runs' /\ KindIs'
  BY <1>3, <1>5, <1>6 DEF Calm, Runs, KindIs, Restoring
<1>11. BookIs'
  BY <1>4, <1>6, EmptyBook DEF Calm, BookIs
<1>12. PostingIs'
  <2>1. ASSUME NEW u \in Tasks, Posting(u)'
        PROVE  /\ \A j \in Kinds : task'[u].kind = j => lock'[j] = u
               /\ NothingOpen' /\ task'[u].n \in 1..net' /\ held' /\ task'[u].then # "sell"
    <3>1. u = t
      BY <1>7, <1>8, <2>1
    <3>2. QED
      BY <1>4, <1>5, <1>6, <1>9, <3>1
  <2>2. ASSUME NEW u \in Tasks, task'[u].pc = "save" PROVE task'[u].then # "sell"
    BY <1>5, <2>2 DEF Calm, PostingIs
  <2>3. QED
    BY <2>1, <2>2 DEF PostingIs
<1>13. LockIs'
  BY <1>5, <1>7 DEF Calm, LockIs
<1>14. ExitIs'
  <2>1. task'["exit"].pc \notin AfterCancel
    BY <1>5, <1>9 DEF AfterCancel
  <2>2. QED
    BY <2>1 DEF ExitIs, AfterCancel
<1>15. NewIs'
  BY <1>5, <1>6, <1>9 DEF NewIs
<1>16. QED
  BY <1>10, <1>11, <1>12, <1>13, <1>14, <1>15 DEF Calm

-----------------------------------------------------------------------------
(* The entry *)

LEMMA EntryBuysCalm ==
    ASSUME TypeInv, OneManager, Calm, EntryBuys
    PROVE  Calm'
<1> "entry" \in Tasks /\ "exit" \in Tasks /\ "sweep" \in Tasks /\ Nobody \notin Tasks
  BY Parts
<1>1. \A u \in Tasks : task[u] = NoTask
  BY DEF EntryBuys
<1>2. Step("entry", "bought") /\ "bought" \in Pcs /\ "bought" # "post"
  BY DEF EntryBuys, Pcs
<1>3. /\ Moves("entry") /\ lock' = lock
      /\ task'["entry"].pc = "bought" /\ task'["entry"].then = task["entry"].then
  BY <1>2, StepIs
<1>4. /\ \A u \in Tasks : u # "entry" => task'[u].pc = "idle"
      /\ \A u \in Tasks : task'[u].pc \in {"idle", "bought"} /\ task'[u].then = "idle"
      /\ \A u \in Tasks : ~Posting(u) /\ ~Posting(u)'
  BY <1>1, <1>3 DEF Moves, NoTask, Posting
<1>5. /\ ~held /\ ~held' /\ net' > 0 /\ book' = book /\ up' = up
  BY Constants DEF EntryBuys
<1>6. NothingOpen'
  BY <1>5, SameBook DEF Calm, NewIs, NothingOpen
<1>7. Runs'
  BY <1>4, <1>5 DEF Calm, Runs, Restoring
<1>8. KindIs' /\ PostingIs'
  BY <1>4 DEF KindIs, PostingIs, AtWork
<1>9. BookIs'
  BY <1>5, <1>6, EmptyBook, Constants DEF EntryBuys
<1>10. LockIs'
  BY <1>3, <1>4 DEF Calm, LockIs
<1>11. ExitIs' /\ NewIs'
  BY <1>4, <1>5, <1>6 DEF ExitIs, NewIs, AfterCancel
<1>12. QED
  BY <1>7, <1>8, <1>9, <1>10, <1>11 DEF Calm

LEMMA EntryRegistersCalm ==
    ASSUME TypeInv, OneManager, Calm, NEW lost \in BOOLEAN, EntryRegisters(lost)
    PROVE  Calm'
<1> "entry" \in Tasks /\ "exit" \in Tasks /\ "sweep" \in Tasks
  BY Parts
<1>1. /\ task["entry"].pc = "bought" /\ ~held /\ net > 0
      /\ \A u \in Tasks : u # "entry" => task[u].pc = "idle"
  BY DEF EntryRegisters, At, Calm, NewIs
<1>2. NothingOpen /\ \A u \in Tasks : ~Posting(u)
  BY <1>1 DEF Calm, NewIs, Posting
<1>3. book' = book /\ net' = net /\ up' = up /\ enabled' = enabled
  BY DEF EntryRegisters, exchange
<1>4. CASE lost
  <2>1. Step("entry", "idle") /\ held' = held /\ "idle" \in Pcs
    BY <1>4 DEF EntryRegisters, Pcs
  <2>2. /\ Moves("entry") /\ lock' = lock
        /\ task'["entry"].pc = "idle" /\ task'["entry"].then = task["entry"].then
    BY <2>1, StepIs
  <2>3. NothingOpen' /\ BookIs'
    BY <1>2, <1>3, SameBook, EmptyBook DEF NothingOpen, Calm, BookIs
  <2>4. \A j \in Kinds : lock'[j] \in {lock[j], Nobody} /\ lock'[j] # "entry"
    BY <1>2, <2>2, NotLocked
  <2>5. /\ task'["entry"].pc \notin Restoring /\ task'["entry"].then \notin Restoring
        /\ task'["entry"].pc \notin AtWork
        /\ task'["entry"].pc \notin {"clear", "save", "bought"}
    BY <2>2 DEF AtWork, Restoring, Calm, Runs
  <2>6. QED
    BY <1>2, <1>3, <2>1, <2>2, <2>3, <2>4, <2>5, CalmMove
<1>5. CASE ~lost
  <2>1. Begin("entry", "clear", Listed, "commit") /\ held' /\ "commit" \in Thens
    BY <1>5 DEF EntryRegisters, Placing, Thens
  <2>2. Listed \in Amounts /\ Listed \in 1..net
    BY <1>1, ListedIs DEF TypeInv
  <2>3. "commit" \notin Restoring /\ task["exit"].pc \notin AfterCancel
    BY <1>1 DEF Restoring, AfterCancel
  <2>4. QED
    BY <1>2, <1>3, <2>1, <2>2, <2>3, CalmBegins
<1>6. QED
  BY <1>4, <1>5

LEMMA CommitsCalm ==
    ASSUME TypeInv, OneManager, Calm, NEW t \in Tasks, NEW written \in BOOLEAN,
           Commits(t, written)
    PROVE  Calm'
<1>1. End(t) /\ ~Posting(t)
  BY DEF Commits, At, Posting
<1>2. book' = book /\ net' = net /\ held' = held /\ up' = up /\ enabled' = enabled
  BY DEF Commits, exchange
<1>3. QED
  BY <1>1, <1>2, EndCalm

-----------------------------------------------------------------------------
(* The exit *)

LEMMA CancelBegins ==
    ASSUME TypeInv, OneManager, Calm, NEW t \in Tasks, ~Posting(t), NEW n \in Amounts,
           NEW then \in Thens, then \notin Restoring, Begin(t, "cancel", n, then)
    PROVE  /\ Moves(t) /\ task'[t].pc = "cancel" /\ task'[t].kind \in enabled
           /\ task'[t].then \notin Restoring
           /\ task'[t].pc \notin AfterCancel /\ task'[t].pc \notin Restoring
           /\ task'[t].pc \notin {"clear", "save", "bought", "delete", "requeue"}
           /\ \A j \in Kinds : lock'[j] \in {lock[j], Nobody} /\ lock'[j] # t
<1>1. PICK e \in Kinds : enabled = {e} /\ First = e
  BY Sole
<1>2. /\ Moves(t) /\ task'[t].pc = "cancel" /\ task'[t].kind = e
      /\ task'[t].then = then /\ Enters(t, "cancel", e, lock)
  BY <1>1, BeginIs
<1>3. lock' = lock
  BY <1>2 DEF Enters
<1>4. QED
  BY <1>1, <1>2, <1>3, NotLocked DEF AfterCancel, Restoring

LEMMA ExitStartsCalm ==
    ASSUME TypeInv, OneManager, Calm, ExitStarts
    PROVE  Calm'
<1>1. /\ "exit" \in Tasks /\ "sell" \in Thens /\ "sell" \notin Restoring /\ qty \in Amounts
      /\ ~Posting("exit") /\ Begin("exit", "cancel", qty, "sell")
  BY Parts DEF ExitStarts, Cancelling, Thens, Restoring, Posting, TypeInv
<1>2. /\ book' = book /\ net' = net /\ held' = held /\ held /\ up' = up /\ enabled' = enabled
  BY DEF ExitStarts, exchange
<1>3. (NothingOpen => NothingOpen') /\ BookIs'
  BY <1>2, SameBook DEF NothingOpen, Calm, BookIs
<1>4. /\ Moves("exit") /\ task'["exit"].pc = "cancel" /\ task'["exit"].kind \in enabled
      /\ task'["exit"].then \notin Restoring
      /\ task'["exit"].pc \notin AfterCancel /\ task'["exit"].pc \notin Restoring
      /\ task'["exit"].pc \notin {"clear", "save", "bought", "delete", "requeue"}
      /\ \A j \in Kinds : lock'[j] \in {lock[j], Nobody} /\ lock'[j] # "exit"
  BY <1>1, CancelBegins
<1>5. QED
  BY <1>1, <1>2, <1>3, <1>4, CalmMove

\* The exit has taken the orders back and has not posted since.
LEMMA ExitIsAlone ==
    ASSUME Calm, task["exit"].pc \in AfterCancel
    PROVE  /\ NothingOpen /\ \A u \in Tasks : ~Posting(u)
           /\ ~(~held /\ net > 0) /\ task["entry"].pc # "bought"
  BY Parts DEF Calm, ExitIs, NewIs, AfterCancel

LEMMA ExitSellsCalm ==
    ASSUME TypeInv, OneManager, Calm, NEW n \in 0..Q, ExitSells(n)
    PROVE  Calm'
<1>1. /\ "exit" \in Tasks /\ "verify" \in Pcs /\ Step("exit", "verify")
      /\ task["exit"].pc = "sell" /\ n <= Listed /\ net' = net - n
      /\ book' = book /\ held' = held /\ up' = up /\ enabled' = enabled
  BY Parts DEF ExitSells, At, Pcs
<1>2. /\ NothingOpen /\ \A u \in Tasks : ~Posting(u)
      /\ ~(~held /\ net > 0) /\ task["entry"].pc # "bought"
  BY <1>1, ExitIsAlone DEF AfterCancel
<1>3. /\ Moves("exit") /\ lock' = lock
      /\ task'["exit"].pc = "verify" /\ task'["exit"].then = task["exit"].then
  BY <1>1, StepIs
<1>4. net' >= 0 /\ net' <= net
  BY <1>1, ListedIs, Constants DEF TypeInv, Calm, BookIs
<1>5. NothingOpen' /\ BookIs'
  BY <1>1, <1>2, <1>4, SameBook, EmptyBook DEF NothingOpen
<1>6. \A j \in Kinds : lock'[j] \in {lock[j], Nobody} /\ lock'[j] # "exit"
  BY <1>1, <1>2, <1>3, NotLocked
<1>7. /\ task'["exit"].pc \notin Restoring /\ task'["exit"].then \notin Restoring
      /\ task'["exit"].pc \notin AtWork
      /\ task'["exit"].pc \notin {"clear", "save", "bought", "delete", "requeue"}
  BY <1>1, <1>3 DEF Calm, Runs, Restoring, AtWork
<1>8. ~(~held' /\ net' > 0)
  <2>1. net \in Int /\ net' \in Int
    BY <1>1, Constants DEF TypeInv
  <2>2. net' > 0 => net > 0
    BY <1>4, <2>1
  <2>3. QED
    BY <1>1, <1>2, <2>2
<1>9. QED
  BY <1>1, <1>2, <1>3, <1>5, <1>6, <1>7, <1>8, CalmMove

LEMMA ExitVerifiesCalm ==
    ASSUME TypeInv, OneManager, Calm, ExitVerifies
    PROVE  Calm'
<1>1. /\ task["exit"].pc = "verify"
      /\ book' = book /\ net' = net /\ held' = held /\ up' = up /\ enabled' = enabled
  BY DEF ExitVerifies, At, exchange
<1>2. /\ NothingOpen /\ \A u \in Tasks : ~Posting(u)
      /\ ~(~held /\ net > 0) /\ task["entry"].pc # "bought"
  BY <1>1, ExitIsAlone DEF AfterCancel
<1>3. /\ "exit" \in Tasks /\ Moves("exit") /\ lock' = lock
      /\ task'["exit"].pc = (IF Listed = 0 THEN "delete" ELSE "requeue")
      /\ task'["exit"].n = Listed /\ task'["exit"].then = task["exit"].then
  BY ExitVerifiesIs
<1>4. NothingOpen' /\ BookIs'
  BY <1>1, <1>2, SameBook, EmptyBook DEF NothingOpen, Calm, BookIs
<1>5. \A j \in Kinds : lock'[j] \in {lock[j], Nobody} /\ lock'[j] # "exit"
  BY <1>2, <1>3, NotLocked
<1>6. /\ task'["exit"].pc \notin Restoring /\ task'["exit"].then \notin Restoring
      /\ task'["exit"].pc \notin AtWork
      /\ task'["exit"].pc \notin {"clear", "save", "bought"}
  BY <1>3 DEF Calm, Runs, Restoring, AtWork
<1>7. /\ task'["exit"].pc = "delete" => net' = 0
      /\ task'["exit"].pc = "requeue" => task'["exit"].n \in 1..net'
  <2>1. net \in Int /\ net >= 0 /\ Listed = IF net > 0 THEN net ELSE 0
    BY ListedIs DEF TypeInv, Calm, BookIs
  <2>2. CASE Listed = 0
    <3>1. net = 0 /\ task'["exit"].pc = "delete"
      BY <1>3, <2>1, <2>2
    <3>2. QED
      BY <1>1, <3>1
  <2>3. CASE Listed # 0
    <3>1. Listed \in 1..net /\ task'["exit"].pc = "requeue"
      BY <1>3, <2>1, <2>3
    <3>2. QED
      BY <1>1, <1>3, <3>1
  <2>4. QED
    BY <2>2, <2>3
<1>8. QED
  BY <1>1, <1>2, <1>3, <1>4, <1>5, <1>6, <1>7, CalmMove

LEMMA ExitWriteFailsCalm ==
    ASSUME TypeInv, OneManager, Calm, ExitWriteFails
    PROVE  Calm'
<1>1. "exit" \in Tasks /\ End("exit") /\ ~Posting("exit")
  BY Parts DEF ExitWriteFails, At, Posting
<1>2. book' = book /\ net' = net /\ held' = held /\ up' = up /\ enabled' = enabled
  BY DEF ExitWriteFails, exchange
<1>3. QED
  BY <1>1, <1>2, EndCalm

LEMMA ExitClosesCalm ==
    ASSUME TypeInv, OneManager, Calm, ExitCloses
    PROVE  Calm'
<1>1. /\ task["exit"].pc = "delete" /\ ~held'
      /\ book' = book /\ net' = net /\ up' = up /\ enabled' = enabled
  BY DEF ExitCloses, At, exchange
<1>2. /\ NothingOpen /\ \A u \in Tasks : ~Posting(u)
      /\ task["entry"].pc # "bought"
  BY <1>1, ExitIsAlone DEF AfterCancel
<1>3. net = 0
  BY <1>1 DEF Calm, ExitIs
<1>4. /\ "exit" \in Tasks /\ "idle" \in Thens /\ "idle" \notin Restoring /\ 0 \in Amounts
      /\ Begin("exit", "cancel", 0, "idle")
  BY Parts DEF ExitCloses, Cancelling, Thens, Restoring
<1>5. /\ Moves("exit") /\ task'["exit"].pc = "cancel" /\ task'["exit"].kind \in enabled
      /\ task'["exit"].then \notin Restoring
      /\ task'["exit"].pc \notin AfterCancel /\ task'["exit"].pc \notin Restoring
      /\ task'["exit"].pc \notin {"clear", "save", "bought", "delete", "requeue"}
      /\ \A j \in Kinds : lock'[j] \in {lock[j], Nobody} /\ lock'[j] # "exit"
  BY <1>2, <1>4, CancelBegins
<1>6. NothingOpen' /\ BookIs'
  BY <1>1, <1>2, SameBook, EmptyBook DEF NothingOpen, Calm, BookIs
<1>7. ~(net' > 0)
  BY <1>1, <1>3
<1>8. QED
  BY <1>1, <1>2, <1>4, <1>5, <1>6, <1>7, CalmMove

LEMMA ExitRequeuesCalm ==
    ASSUME TypeInv, OneManager, Calm, ExitRequeues
    PROVE  Calm'
<1>1. /\ task["exit"].pc = "requeue"
      /\ book' = book /\ net' = net /\ held' = held /\ up' = up /\ enabled' = enabled
  BY DEF ExitRequeues, At, exchange
<1>2. /\ NothingOpen /\ \A u \in Tasks : ~Posting(u)
      /\ ~(~held /\ net > 0) /\ task["entry"].pc # "bought"
  BY <1>1, ExitIsAlone DEF AfterCancel
<1>3. PICK n \in Amounts : n = task["exit"].n
  BY Parts, TaskIs
<1>4. n \in 1..net
  BY <1>1, <1>3 DEF Calm, ExitIs
<1>5. held'
  BY <1>1, <1>2, <1>4 DEF TypeInv
<1>6. /\ "exit" \in Tasks /\ "idle" \in Thens /\ "idle" \notin Restoring
      /\ Begin("exit", "clear", n, "idle")
  BY <1>3, Parts DEF ExitRequeues, Placing, Thens, Restoring
<1>7. QED
  BY <1>1, <1>2, <1>4, <1>5, <1>6, CalmBegins

-----------------------------------------------------------------------------
(* The held-position sweep, and fills *)

\* Nothing is posted, and the exit has nothing under way, while contracts
\* are on the account that nobody has registered.
LEMMA SweepAdoptsCalm ==
    ASSUME TypeInv, OneManager, ~Overlapping, Calm, SweepAdopts
    PROVE  Calm'
<1>1. /\ ~held /\ net > 0 /\ task["entry"].pc = "idle" /\ held'
      /\ book' = book /\ net' = net /\ up' = up /\ enabled' = enabled
  BY DEF SweepAdopts, exchange
<1>2. \A u \in Tasks : task[u].pc = "idle"
  BY <1>1 DEF Calm, NewIs
<1>3. /\ NothingOpen /\ \A u \in Tasks : ~Posting(u)
      /\ task["exit"].pc \notin AfterCancel /\ task["entry"].pc # "bought"
  BY <1>1, <1>2, Parts DEF Calm, NewIs, Posting, AfterCancel
<1>4. Listed \in Amounts /\ Listed \in 1..net
  BY <1>1, ListedIs DEF TypeInv
<1>5. /\ "sweep" \in Tasks /\ "commit" \in Thens /\ "commit" \notin Restoring
      /\ Begin("sweep", "clear", Listed, "commit")
  BY Parts DEF SweepAdopts, Placing, Thens, Restoring
<1>6. QED
  BY <1>1, <1>3, <1>4, <1>5, CalmBegins

LEMMA SweepRemovesCalm ==
    ASSUME TypeInv, OneManager, Calm, SweepRemoves
    PROVE  Calm'
<1>1. /\ task["sweep"].pc = "idle" /\ held /\ net = 0 /\ ~held'
      /\ book' = book /\ net' = net /\ up' = up /\ enabled' = enabled
  BY DEF SweepRemoves, SweepIdle, exchange
<1>2. \A u \in Tasks : ~Posting(u)
  <2>1. 1..net = {}
    BY <1>1
  <2>2. QED
    BY <2>1 DEF Calm, PostingIs
<1>3. NothingOpen
  <2>1. ASSUME NEW k \in Kinds, NEW i \in Slots, i \in Open(k) PROVE FALSE
    <3>1. book[k][i] <= 0 /\ book[k][i] > 0 /\ book[k][i] \in Nat
      BY <1>1, <2>1, OpenIs, BookTypes DEF Calm, BookIs
    <3>2. QED
      BY <3>1
  <2>2. QED
    BY <2>1, OpenIs DEF NothingOpen
<1>4. NothingOpen' /\ BookIs'
  BY <1>1, <1>3, SameBook, EmptyBook DEF NothingOpen, Calm, BookIs
<1>5. /\ "sweep" \in Tasks /\ "erase" \in Thens /\ "erase" \notin Restoring /\ 0 \in Amounts
      /\ Begin("sweep", "cancel", 0, "erase")
  BY Parts DEF SweepRemoves, Cancelling, Thens, Restoring
<1>6. /\ Moves("sweep") /\ task'["sweep"].pc = "cancel" /\ task'["sweep"].kind \in enabled
      /\ task'["sweep"].then \notin Restoring
      /\ task'["sweep"].pc \notin AfterCancel /\ task'["sweep"].pc \notin Restoring
      /\ task'["sweep"].pc \notin {"clear", "save", "bought", "delete", "requeue"}
      /\ \A j \in Kinds : lock'[j] \in {lock[j], Nobody} /\ lock'[j] # "sweep"
  BY <1>2, <1>5, CancelBegins
<1>7. task["entry"].pc # "bought" /\ ~(net' > 0)
  BY <1>1 DEF Calm, NewIs
<1>8. QED
  BY <1>1, <1>2, <1>4, <1>5, <1>6, <1>7, CalmMove

LEMMA SweepErasesCalm ==
    ASSUME TypeInv, OneManager, Calm, NEW written \in BOOLEAN, SweepErases(written)
    PROVE  Calm'
<1>1. "sweep" \in Tasks /\ End("sweep") /\ ~Posting("sweep")
  BY Parts DEF SweepErases, At, Posting
<1>2. book' = book /\ net' = net /\ held' = held /\ up' = up /\ enabled' = enabled
  BY DEF SweepErases, exchange
<1>3. QED
  BY <1>1, <1>2, EndCalm

LEMMA FillCalm ==
    ASSUME TypeInv, OneManager, Calm, NEW k \in Kinds, NEW i \in Slots, NEW n \in 1..Q,
           Fill(k, i, n)
    PROVE  Calm'
<1>1. /\ n <= book[k][i] /\ i \in Open(k) /\ book'[k][i] = book[k][i] - n
      /\ \A j \in Kinds : Open(j)' \subseteq Open(j)
  BY FillIs
<1>2. /\ net' = net - n /\ held' = held /\ up' = up /\ enabled' = enabled
      /\ task' = task /\ lock' = lock
  BY DEF Fill, process
<1>3. ~NothingOpen
  BY <1>1 DEF NothingOpen
<1>4. /\ held /\ \A u \in Tasks : ~Posting(u)
      /\ task["exit"].pc \notin AfterCancel /\ task["entry"].pc # "bought"
  BY <1>3 DEF Calm, PostingIs, ExitIs, NewIs
<1>5. /\ book[k][i] <= net /\ book[k][i] \in Nat /\ net \in Int /\ n \in Nat
      /\ k \in enabled /\ \A j \in Open(k) : j = i
  BY <1>1, BookTypes, Constants DEF Calm, BookIs, TypeInv
<1>6. net' >= 0 /\ book'[k][i] <= net'
  BY <1>1, <1>2, <1>5
<1>7. ASSUME NEW j \in Kinds, NEW x \in Slots, x \in Open(j)'
      PROVE  j = k /\ x = i
  <2>1. x \in Open(j)
    BY <1>1, <1>7
  <2>2. j \in enabled
    BY <2>1 DEF Calm, BookIs
  <2>3. PICK e \in Kinds : enabled = {e}
    BY Sole
  <2>4. j = k
    BY <1>5, <2>2, <2>3
  <2>5. QED
    BY <1>5, <2>1, <2>4
<1>8. BookIs'
  <2>1. ASSUME NEW j \in Kinds, NEW x \in Slots, x \in Open(j)'
        PROVE  j \in enabled' /\ book'[j][x] <= net' /\ \A y \in Open(j)' : y = x
    <3>1. j = k /\ x = i
      BY <1>7, <2>1
    <3>2. \A y \in Open(k)' : y = i
      BY <1>1, <1>5
    <3>3. QED
      BY <1>2, <1>5, <1>6, <3>1, <3>2
  <2>2. QED
    BY <1>6, <2>1 DEF BookIs
<1>9. \A u \in Tasks : Posting(u)' <=> Posting(u)
  BY <1>2 DEF Posting
<1>10. Runs' /\ KindIs' /\ LockIs'
  BY <1>2, <1>9 DEF Calm, Runs, KindIs, LockIs
<1>11. PostingIs' /\ ExitIs' /\ NewIs'
  BY <1>2, <1>4, <1>9 DEF Calm, PostingIs, ExitIs, NewIs, AfterCancel
<1>12. QED
  BY <1>8, <1>10, <1>11 DEF Calm

-----------------------------------------------------------------------------
(* Every step of a calm run *)

\* Neither a restart nor a call that fails is a step of a calm run.
LEMMA NotNow ==
    ASSUME TypeInv, Calm, Untroubled, Untroubled'
    PROVE  /\ \A t \in Tasks, done \in BOOLEAN : ~PlaceGivesUp(t, done)
           /\ \A t \in Tasks, lists, again \in 0..1 : ~CancelFails(t, lists, again)
           /\ ~Crash
           /\ \A answered \in BOOLEAN : ~Restart(answered)
           /\ ~RestoresAgain /\ ~Restored
<1>1. Mounts => used'.cancel = used.cancel /\ used'.crash = used.crash
  BY StillCalm
<1>2. used.cancel \in Nat /\ used.crash \in Nat
  BY UsedIs
<1>3. \A t \in Tasks, done \in BOOLEAN : ~PlaceGivesUp(t, done)
  <2>1. ASSUME NEW t \in Tasks, NEW done \in BOOLEAN, PlaceGivesUp(t, done) PROVE FALSE
    <3>1. Mounts /\ used'.cancel = used.cancel + 1
      BY <2>1, PlaceGivesUpOk DEF Harmless
    <3>2. QED
      BY <1>1, <1>2, <3>1
  <2>2. QED
    BY <2>1
<1>4. \A t \in Tasks, lists, again \in 0..1 : ~CancelFails(t, lists, again)
  <2>1. ASSUME NEW t \in Tasks, NEW lists \in 0..1, NEW again \in 0..1,
               CancelFails(t, lists, again)
        PROVE  FALSE
    <3>1. Mounts /\ used'.cancel > used.cancel
      BY <2>1, CancelFailsOk DEF Harmless
    <3>2. QED
      BY <1>1, <1>2, <3>1
  <2>2. QED
    BY <2>1
<1>5. ~Crash
  <2>1. ASSUME Crash PROVE FALSE
    <3>1. Mounts /\ used'.crash = used.crash + 1
      BY <2>1, CrashOk DEF Harmless
    <3>2. QED
      BY <1>1, <1>2, <3>1
  <2>2. QED
    BY <2>1
<1>6. /\ \A answered \in BOOLEAN : ~Restart(answered)
      /\ ~RestoresAgain /\ ~Restored
  BY Parts DEF Calm, Runs, Restoring, Restart, RestoresAgain, Restored, At
<1>7. QED
  BY <1>3, <1>4, <1>5, <1>6

LEMMA NextCalm ==
    ASSUME OneManager, ~Overlapping, TypeInv, Calm, Untroubled, Untroubled', Next
    PROVE  Calm'
<1>1. ASSUME NEW t \in Tasks, Place(t) PROVE Calm'
  <2>1. CASE \E done \in BOOLEAN : PlaceGivesUp(t, done)
    BY <2>1, NotNow
  <2>2. CASE \E left \in SUBSET Slots, lists, again \in 0..1 : PlaceClears(t, left, lists, again)
    BY <2>2, PlaceClearsCalm
  <2>3. CASE \E reply \in {"resting", "lost", "refused"} : PlacePosts(t, reply)
    BY <2>3, PlacePostsCalm
  <2>4. CASE \E written \in BOOLEAN : PlaceSaves(t, written)
    BY <2>4, PlaceSavesCalm
  <2>5. QED
    BY <1>1, <2>1, <2>2, <2>3, <2>4 DEF Place, Slots
<1>2. ASSUME NEW t \in Tasks, Cancel(t) PROVE Calm'
  <2>1. CASE \E left \in SUBSET Slots, lists \in 0..1 : CancelSucceeds(t, left, lists)
    BY <2>1, CancelSucceedsCalm
  <2>2. CASE \E lists, again \in 0..1 : CancelFails(t, lists, again)
    BY <2>2, NotNow
  <2>3. CASE \E written \in BOOLEAN : CancelSaves(t, written)
    BY <2>3, CancelSavesCalm
  <2>4. QED
    BY <1>2, <2>1, <2>2, <2>3 DEF Cancel, Slots
<1>3. CASE Entry
  BY <1>3, Parts, EntryBuysCalm, EntryRegistersCalm, CommitsCalm DEF Entry
<1>4. CASE Exit
  <2>1. CASE ExitStarts \/ \E n \in 0..Q : ExitSells(n)
    BY <2>1, ExitStartsCalm, ExitSellsCalm
  <2>2. CASE ExitVerifies \/ ExitWriteFails \/ ExitCloses \/ ExitRequeues
    BY <2>2, ExitVerifiesCalm, ExitWriteFailsCalm, ExitClosesCalm, ExitRequeuesCalm
  <2>3. QED
    BY <1>4, <2>1, <2>2 DEF Exit
<1>5. CASE Sweep
  <2>1. CASE SweepAdopts \/ SweepRemoves
    BY <2>1, SweepAdoptsCalm, SweepRemovesCalm
  <2>2. CASE SweepSyncs \/ \E k \in Kinds : SweepAsks(k) \/ SweepHears(k)
    BY <2>2, CalmStill DEF SweepSyncs, SweepAsks, SweepHears, exchange
  <2>3. CASE \E b \in BOOLEAN : SweepErases(b) \/ Commits("sweep", b)
    BY <2>3, Parts, SweepErasesCalm, CommitsCalm
  <2>4. QED
    BY <1>5, <2>1, <2>2, <2>3 DEF Sweep
<1>6. CASE \E k \in Kinds, i \in Slots, n \in 1..Q : Fill(k, i, n)
  BY <1>6, FillCalm
<1>7. CASE (\E answered \in BOOLEAN : Restart(answered)) \/ RestoresAgain \/ Restored \/ Crash
  BY <1>7, NotNow
<1>8. QED
  BY <1>1, <1>2, <1>3, <1>4, <1>5, <1>6, <1>7 DEF Next, Process, Slots

\* What failed stays counted.
LEMMA NextMounts ==
    ASSUME TypeInv, Next
    PROVE  Mounts
<1>1. CASE Looks
  <2>1. PICK t \in Tasks, left \in SUBSET Slots, lists \in 0..1, again \in 0..1 :
            PlaceClears(t, left, lists, again)
    BY <1>1 DEF Looks
  <2>2. PICK k \in Kinds : k = task[t].kind
    BY TaskIs
  <2>3. Reconciles(k, left, lists, again)
    BY <2>1, <2>2, PlaceClearsIs
  <2>4. QED
    BY <2>3, ReconcilesIs
<1>2. CASE Posts
  <2>1. PICK t \in Tasks, reply \in {"resting", "lost", "refused"} : PlacePosts(t, reply)
    BY <1>2 DEF Posts
  <2>2. PICK k \in Kinds : k = task[t].kind
    BY TaskIs
  <2>3. QED
    BY <2>1, <2>2, PlacePostsIs
<1>3. QED
  BY <1>1, <1>2, NextStep DEF Harmless

LEMMA InitCalm == Init => CalmInv
<1> SUFFICES ASSUME Init PROVE Calm
  BY DEF CalmInv
<1>1. \A t \in Tasks : task[t] = NoTask /\ task[t].pc = "idle" /\ task[t].then = "idle"
  BY DEF Init, NoTask
<1>2. NothingOpen /\ net = 0 /\ ~held /\ \A k \in Kinds : lock[k] = Nobody
  BY DEF Init, NothingOpen, Open
<1>3. Runs /\ KindIs /\ PostingIs
  BY <1>1 DEF Init, Runs, KindIs, PostingIs, Posting, AtWork, Restoring
<1>4. BookIs /\ LockIs
  BY <1>2, Parts DEF BookIs, LockIs, NothingOpen
<1>5. ExitIs /\ NewIs
  BY <1>1, <1>2, Parts DEF ExitIs, NewIs, AfterCancel
<1>6. QED
  BY <1>3, <1>4, <1>5 DEF Calm

LEMMA CalmStep ==
    ASSUME OneManager, ~Overlapping
    PROVE  TypeInv /\ CalmInv /\ [Next]_vars => CalmInv'
<1> SUFFICES ASSUME TypeInv, CalmInv, [Next]_vars, Untroubled' PROVE Calm'
  BY DEF CalmInv
<1>1. CASE Next
  <2>1. Untroubled
    BY <1>1, NextMounts, StillCalm
  <2>2. Calm
    BY <2>1 DEF CalmInv
  <2>3. QED
    BY <1>1, <2>1, <2>2, NextCalm
<1>2. CASE UNCHANGED vars
  <2>1. Untroubled
    BY <1>2 DEF vars, Untroubled, Failures
  <2>2. Calm
    BY <2>1 DEF CalmInv
  <2>3. QED
    BY <1>2, <2>2, CalmStill DEF vars, exchange, process
<1>3. QED
  BY <1>1, <1>2

LEMMA CalmAlways ==
    ASSUME OneManager, ~Overlapping
    PROVE  Spec => []CalmInv
  BY InitTypes, TypeStep, InitCalm, CalmStep, PTL DEF Spec

\* With one manager on, and a sweep that waits for the entry's bookkeeping,
\* the resting sells and the exit's own never sell more than is held: neither
\* _place_sl_backstop's resting order nor the exit's sell after
\* _cancel_sl_backstop finds fewer contracts than it is for, wherever a fill,
\* a lost reply or a failed write comes between, until a cancel or a listing
\* fails or the process dies.
THEOREM SellsWhatIsHeld ==
    ASSUME OneManager, ~Overlapping
    PROVE  Spec => []NeverOversold
<1>1. CalmInv => NeverOversold
  BY DEF CalmInv, Calm, BookIs, NeverOversold
<1>2. QED
  BY <1>1, CalmAlways, PTL

\* Under the same conditions no resting sell of either manager survives the
\* close of the position it lay beside.
THEOREM NothingLingers ==
    ASSUME OneManager, ~Overlapping
    PROVE  Spec => []NoLingeringSell
<1>1. CalmInv => NoLingeringSell
  BY DEF CalmInv, Calm, NewIs, NothingOpen, NoLingeringSell
<1>2. QED
  BY <1>1, CalmAlways, PTL
=============================================================================
