--------------------------- MODULE DailyPlanProofs ---------------------------
(***************************************************************************)
(* Theorems about the plans (module DailyPlan): their types, the room of a *)
(* day, the time a completion cites, and the three things no step may do:  *)
(* lose a completed promise, leave today with a promise that a change of   *)
(* the tree made impossible, and promise a task twice in a refresh.        *)
(*                                                                         *)
(* Stays, Pulled and Filling are recursive over the days; the lemmas of    *)
(* module Recursion give each its equation, and everything else is argued  *)
(* from those, a day at a time.  A day is sound (DayInv) when its rows are *)
(* few enough, no task is promised twice, what cites time is backed by it, *)
(* and nothing is done ahead of its day; what an operation may make of a   *)
(* row (Succeeds), which rows it may add (Promises, GoodFill) and which it *)
(* may take away keep a day sound.                                         *)
(***************************************************************************)
EXTENDS DailyPlan, Recursion

-----------------------------------------------------------------------------
(* Counting.                                                               *)

\* An image is no larger than the set it is taken of.
LEMMA ImageIsSmaller ==
    ASSUME NEW S, IsFiniteSet(S), NEW f
    PROVE  /\ IsFiniteSet({f[x] : x \in S})
           /\ Cardinality({f[x] : x \in S}) <= Cardinality(S)
<1> DEFINE T == {f[x] : x \in S}
           g == [x \in S |-> f[x]]
<1>1. g \in Surjection(S, T)
  BY DEF Surjection
<1> QED
  BY <1>1, FS_Surjection

\* A finite set of numbers that is not empty has a greatest one.
LEMMA FiniteSetHasGreatest ==
    ASSUME NEW T \in SUBSET Nat, IsFiniteSet(T), T # {}
    PROVE  \E m \in T : \A y \in T : y <= m
<1> DEFINE U == {n \in Nat : \A S \in SUBSET Nat :
                    (IsFiniteSet(S) /\ Cardinality(S) = n /\ S # {}) => \E m \in S : \A y \in S : y <= m}
<1>1. 0 \in U
  BY FS_EmptySet
<1>2. ASSUME NEW n \in Nat, n \in U PROVE n + 1 \in U
  <2>1. SUFFICES ASSUME NEW S \in SUBSET Nat, IsFiniteSet(S), Cardinality(S) = n + 1, S # {}
                 PROVE  \E m \in S : \A y \in S : y <= m
    OBVIOUS
  <2>2. PICK x \in S : TRUE
    BY <2>1
  <2>3. IsFiniteSet(S \ {x}) /\ Cardinality(S \ {x}) = n /\ S \ {x} \in SUBSET Nat
    <3> HIDE DEF U
    <3>1. IsFiniteSet(S \ {x}) /\ Cardinality(S \ {x}) = Cardinality(S) - 1
      BY <2>1, <2>2, FS_RemoveElement
    <3> QED
      BY <2>1, <3>1
  <2>4. CASE S \ {x} = {}
    BY <2>2, <2>4
  <2>5. CASE S \ {x} # {}
    <3>1. PICK m \in S \ {x} : \A y \in S \ {x} : y <= m
      BY <1>2, <2>3, <2>5
    <3>2. m \in Nat /\ x \in Nat
      OBVIOUS
    <3>3. CASE x <= m
      BY <3>1, <3>3
    <3>4. CASE m < x
      <4>1. \A y \in S : y <= x
        BY <3>1, <3>2, <3>4
      <4> QED
        BY <4>1
    <3> QED
      BY <3>2, <3>3, <3>4
  <2> QED
    BY <2>4, <2>5
<1> HIDE DEF U
<1>3. Nat \subseteq U
  BY <1>1, <1>2, Induction
<1>4. Cardinality(T) \in U
  BY <1>3, FS_CardinalityType
<1> QED
  BY <1>4 DEF U

\* Of the queue as many tasks are taken as there is room for.
LEMMA FirstTasksAreFew ==
    ASSUME NEW S \in SUBSET Tasks, NEW n \in Nat
    PROVE  /\ FirstTasks(S, n) \subseteq S
           /\ IsFiniteSet(FirstTasks(S, n))
           /\ Cardinality(FirstTasks(S, n)) \in Nat
           /\ Cardinality(FirstTasks(S, n)) <= n
<1> DEFINE F == FirstTasks(S, n)
<1>1. IsFiniteSet(S) /\ S \in SUBSET Nat
  BY TasksAssumption, FS_Subset
<1>2. F \subseteq S /\ IsFiniteSet(F) /\ Cardinality(F) \in Nat
  BY <1>1, FS_Subset, FS_CardinalityType DEF FirstTasks
<1>3. CASE F = {}
  BY <1>2, <1>3, FS_EmptySet
<1>4. CASE F # {}
  <2>1. PICK m \in F : \A y \in F : y <= m
    <3>1. F \in SUBSET Nat
      BY <1>1, <1>2
    <3> HIDE DEF F
    <3> QED
      BY <1>2, <1>4, <3>1, FiniteSetHasGreatest
  <2> DEFINE before == {u \in S : u < m}
  <2>2. F \ {m} \subseteq before
    <3>1. SUFFICES ASSUME NEW u \in F, u # m PROVE u \in before
      OBVIOUS
    <3>2. u \in S /\ u <= m /\ u \in Nat /\ m \in Nat
      BY <1>1, <1>2, <2>1
    <3> QED
      BY <3>1, <3>2
  <2>3. IsFiniteSet(before) /\ Cardinality(before) \in Nat
    BY <1>1, FS_Subset, FS_CardinalityType
  <2>4. Cardinality(before) < n
    BY <2>1 DEF FirstTasks
  <2>5. IsFiniteSet(F \ {m}) /\ Cardinality(F \ {m}) = Cardinality(F) - 1
    BY <1>2, <2>1, FS_RemoveElement
  <2>6. Cardinality(F \ {m}) <= Cardinality(before)
    BY <2>2, <2>3, FS_Subset
  <2> QED
    BY <1>2, <2>3, <2>4, <2>5, <2>6
<1> QED
  BY <1>3, <1>4

OnePerTask(rows) == \A r, q \in rows : r.task = q.task => r = q

\* As many rows are taken as asked for, when each is about a task of its own.
LEMMA FirstRowsAreFew ==
    ASSUME NEW rows \in SUBSET Row, IsFiniteSet(rows), OnePerTask(rows), NEW n \in Nat
    PROVE  /\ FirstRows(rows, n) \subseteq rows
           /\ IsFiniteSet(FirstRows(rows, n))
           /\ Cardinality(FirstRows(rows, n)) \in Nat
           /\ Cardinality(FirstRows(rows, n)) <= n
<1> DEFINE F == FirstRows(rows, n)
<1>1. \A r \in rows : r.task \in Nat
  BY TasksAssumption DEF Row
<1>2. F \subseteq rows /\ IsFiniteSet(F) /\ Cardinality(F) \in Nat
  BY FS_Subset, FS_CardinalityType DEF FirstRows
<1>3. CASE F = {}
  BY <1>2, <1>3, FS_EmptySet
<1>4. CASE F # {}
  <2> DEFINE task == [r \in rows |-> r.task]
             T == {task[r] : r \in F}
  <2>1. T \in SUBSET Nat /\ T # {}
    BY <1>1, <1>2, <1>4
  <2>2. IsFiniteSet(T)
    <3> HIDE DEF task, F
    <3> QED
      BY <1>2, ImageIsSmaller
  <2>3. PICK m \in T : \A y \in T : y <= m
    <3> HIDE DEF T
    <3> QED
      BY <2>1, <2>2, FiniteSetHasGreatest
  <2>4. PICK r \in F : r.task = m
    BY <1>2, <2>3
  <2> DEFINE before == {q \in rows : Before(q, r)}
  <2>5. F \ {r} \subseteq before
    <3>1. SUFFICES ASSUME NEW q \in F, q # r PROVE q.task < r.task
      BY <1>2 DEF Before
    <3>2. q.task <= r.task /\ q.task # r.task
      BY <1>2, <2>3, <2>4, <3>1 DEF OnePerTask
    <3> QED
      BY <1>1, <1>2, <3>2
  <2>6. IsFiniteSet(before) /\ Cardinality(before) \in Nat
    BY FS_Subset, FS_CardinalityType
  <2>7. Cardinality(before) < n
    BY <2>4 DEF FirstRows
  <2>8. IsFiniteSet(F \ {r}) /\ Cardinality(F \ {r}) = Cardinality(F) - 1
    BY <1>2, <2>4, FS_RemoveElement
  <2>9. Cardinality(F \ {r}) <= Cardinality(before)
    BY <2>5, <2>6, FS_Subset
  <2> QED
    BY <1>2, <2>6, <2>7, <2>8, <2>9
<1> QED
  BY <1>3, <1>4

-----------------------------------------------------------------------------
(* The scheduler's recursions.                                             *)

\* The tables a transaction starts from or leaves: plans and rows by day.
Boards == [plans : [Days -> Plan], items : [Days -> SUBSET Row]]

Kept(tr, b, d, taken) ==
    IF ~ InReach(b, d) THEN {}
    ELSE IF Fixed(b, d) THEN Founded(tr, b, d)
    ELSE FirstRows({r \in Founded(tr, b, d) : r.task \in Eligible(tr) \ taken}, Slots)

Taken(b, stay, d) == UNION {Held(b, e, stay[e]) : e \in today .. d - 1}

LEMMA KeptIsThere ==
    ASSUME NEW tr, NEW b, NEW d, NEW taken
    PROVE  /\ Founded(tr, b, d) \subseteq b.items[d]
           /\ Kept(tr, b, d, taken) \subseteq Founded(tr, b, d)
           /\ (InReach(b, d) /\ Fixed(b, d)) => Kept(tr, b, d, taken) = Founded(tr, b, d)
           /\ ~ Fixed(b, d) =>
                \A r \in Kept(tr, b, d, taken) : r.task \in Eligible(tr) /\ r.task \notin taken
BY DEF Kept, FirstRows, Founded

\* The rows that stay are those their own equation says.
LEMMA StaysAreKept ==
    ASSUME today \in Days, NEW tr, NEW b
    PROVE  \A d \in Days : Stays(tr, b)[d] = Kept(tr, b, d, Taken(b, Stays(tr, b), d))
<1> DEFINE X == UNION {b.items[d] : d \in Days}
           S == SUBSET X
           D == [n \in Nat |-> [f \in [Nat -> S] |->
                   IF n \in Days THEN Kept(tr, b, n, Taken(b, f, n)) ELSE {}]]
           Eq(g) == g = [d \in 0 .. LastDay |->
                   IF d = 0 \/ ~ InReach(b, d) THEN {}
                   ELSE IF Fixed(b, d) THEN Founded(tr, b, d)
                   ELSE FirstRows({r \in Founded(tr, b, d) :
                           r.task \in Eligible(tr) \ UNION {Held(b, e, g[e]) : e \in today .. d - 1}}, Slots)]
           stay == CHOOSE g : Eq(g)
<1>1. LastDay \in Nat /\ today \in Nat /\ today >= 1 /\ Days \subseteq Nat
      /\ \A d \in 0 .. LastDay : d # 0 => d \in Days
  BY BoundsAssumption DEF Days
<1>2. LooksBack(D, S)
  <2>1. ASSUME NEW n \in Nat, NEW taken PROVE (IF n \in Days THEN Kept(tr, b, n, taken) ELSE {}) \in S
    BY KeptIsThere
  <2>2. D \in [Nat -> [[Nat -> S] -> S]]
    <3> HIDE DEF S
    <3> QED
      BY <2>1
  <2>3. ASSUME NEW n \in Nat, NEW f \in [Nat -> S], NEW g \in [Nat -> S], \A i \in 0 .. n - 1 : f[i] = g[i]
        PROVE  D[n][f] = D[n][g]
    <3>1. \A e \in today .. n - 1 : f[e] = g[e]
      BY <1>1, <2>3
    <3>2. Taken(b, f, n) = Taken(b, g, n)
      BY <3>1 DEF Taken
    <3> HIDE DEF S
    <3> QED
      BY <3>2
  <2> HIDE DEF D, S
  <2> QED
    BY <2>2, <2>3 DEF LooksBack
<1>3. S # {}
  OBVIOUS
<1>4. PICK f \in [Nat -> S] : \A n \in Nat : f[n] = D[n][f]
  <2> HIDE DEF D, S
  <2> QED
    BY <1>2, <1>3, RecursionExists
<1>5. \A d \in Days : f[d] = Kept(tr, b, d, Taken(b, f, d))
  <2> HIDE DEF S
  <2> QED
    BY <1>1, <1>4
<1>6. f[0] = {}
  <2>1. 0 \in Nat /\ 0 \notin Days
    BY DEF Days
  <2> HIDE DEF S
  <2> QED
    BY <1>4, <2>1
<1> HIDE DEF S, D, X
<1> DEFINE h == [d \in 0 .. LastDay |-> f[d]]
<1>7. Eq(h)
  <2>1. ASSUME NEW d \in 0 .. LastDay, d # 0
        PROVE  Taken(b, f, d) = UNION {Held(b, e, h[e]) : e \in today .. d - 1}
    <3>1. \A e \in today .. d - 1 : h[e] = f[e]
      BY <1>1
    <3> QED
      BY <3>1 DEF Taken
  <2>2. ASSUME NEW d \in 0 .. LastDay
        PROVE  h[d] = IF d = 0 \/ ~ InReach(b, d) THEN {}
                      ELSE IF Fixed(b, d) THEN Founded(tr, b, d)
                      ELSE FirstRows({r \in Founded(tr, b, d) :
                              r.task \in Eligible(tr) \ UNION {Held(b, e, h[e]) : e \in today .. d - 1}}, Slots)
    <3>1. h[d] = f[d]
      OBVIOUS
    <3> HIDE DEF h
    <3>2. CASE d = 0
      BY <1>6, <3>1, <3>2
    <3>3. CASE d # 0
      BY <1>1, <1>5, <2>1, <3>1, <3>3 DEF Kept
    <3> QED
      BY <3>2, <3>3
  <2>3. h = [d \in 0 .. LastDay |-> h[d]]
    OBVIOUS
  <2> HIDE DEF h
  <2> QED
    BY <2>2, <2>3
<1> HIDE DEF h
<1>8. Eq(stay)
  <2> HIDE DEF Eq
  <2> QED
    BY <1>7
<1>9. Stays(tr, b) = [d \in Days |-> stay[d]]
  BY DEF Stays
<1> HIDE DEF stay
<1>10. \A d \in Days : d \in 0 .. LastDay /\ d # 0
  BY <1>1 DEF Days
<1>11. ASSUME NEW d \in Days PROVE stay[d] = Kept(tr, b, d, Taken(b, stay, d))
  BY <1>8, <1>10 DEF Kept, Taken
<1>12. ASSUME NEW d \in Days PROVE Taken(b, stay, d) = Taken(b, Stays(tr, b), d)
  <2>1. \A e \in today .. d - 1 : e \in Days
    BY <1>1 DEF Days
  <2> QED
    BY <1>9, <2>1 DEF Taken
<1> QED
  BY <1>9, <1>11, <1>12

LEMMA UnionIsSmall ==
    ASSUME NEW S, IsFiniteSet(S), NEW T, IsFiniteSet(T), NEW s \in Nat, NEW t \in Nat,
           Cardinality(S) <= s, Cardinality(T) <= t
    PROVE  IsFiniteSet(S \cup T) /\ Cardinality(S \cup T) \in Nat /\ Cardinality(S \cup T) <= s + t
<1>1. /\ IsFiniteSet(S \cup T)
      /\ Cardinality(S \cup T) = Cardinality(S) + Cardinality(T) - Cardinality(S \cap T)
  BY FS_Union
<1>2. IsFiniteSet(S \cap T)
  BY FS_Subset
<1>3. Cardinality(S) \in Nat /\ Cardinality(T) \in Nat /\ Cardinality(S \cap T) \in Nat
      /\ Cardinality(S \cup T) \in Nat
  BY <1>1, <1>2, FS_CardinalityType
<1> QED
  BY <1>1, <1>3

\* The tasks of some rows are no more than the rows.
LEMMA TasksAreFewer ==
    ASSUME NEW rows, IsFiniteSet(rows)
    PROVE  IsFiniteSet(TasksOf(rows)) /\ Cardinality(TasksOf(rows)) <= Cardinality(rows)
<1> DEFINE task == [r \in rows |-> r.task]
           T == {task[r] : r \in rows}
<1>1. T = TasksOf(rows)
  BY DEF TasksOf
<1>2. IsFiniteSet(T) /\ Cardinality(T) <= Cardinality(rows)
  <2> HIDE DEF task
  <2> QED
    BY ImageIsSmaller
<1> QED
  BY <1>1, <1>2

\* What today takes from later days.
Given(tr, b, stay, d, n) == FirstRows(Spare(tr, b, d, stay[d]), n)
Lacking(tr, b, stay) == Room(b, today, stay[today]) - Cardinality(FromQueue(tr, b, stay))

\* The later days hold rows that could be given up, one for each task.
DaysCanGive(stay) ==
    \A d \in Days : /\ stay[d] \subseteq Row
                    /\ IsFiniteSet(stay[d])
                    /\ d > today => OnePerTask(stay[d])

LEMMA GivenIsSpare ==
    ASSUME NEW tr, NEW b, NEW stay, DaysCanGive(stay), NEW d \in Days, d > today, NEW n \in Nat
    PROVE  /\ Given(tr, b, stay, d, n) \subseteq Spare(tr, b, d, stay[d])
           /\ IsFiniteSet(Given(tr, b, stay, d, n))
           /\ Cardinality(Given(tr, b, stay, d, n)) \in Nat
           /\ Cardinality(Given(tr, b, stay, d, n)) <= n
<1> DEFINE rows == Spare(tr, b, d, stay[d])
<1>1. rows \subseteq stay[d]
  BY DEF Spare
<1>2. rows \in SUBSET Row /\ IsFiniteSet(rows) /\ OnePerTask(rows)
  BY <1>1, FS_Subset DEF DaysCanGive, OnePerTask
<1> HIDE DEF rows
<1>3. /\ FirstRows(rows, n) \subseteq rows
      /\ IsFiniteSet(FirstRows(rows, n))
      /\ Cardinality(FirstRows(rows, n)) \in Nat
      /\ Cardinality(FirstRows(rows, n)) <= n
  BY <1>2, FirstRowsAreFew
<1> QED
  BY <1>3 DEF Given, rows

\* A step from number to number can be repeated.
Iterates(f, a, step) == f[0] = a /\ \A n \in Nat : f[n + 1] = step[n][f[n]]

LEMMA StepsIterate ==
    ASSUME NEW S, NEW a \in S, NEW step, Steps(step, S)
    PROVE  \E f \in [Nat -> S] : Iterates(f, a, step)
BY IterationExists DEF Iterates

LEMMA NumbersIterate ==
    ASSUME NEW a \in Nat, NEW step, Steps(step, Nat)
    PROVE  \E f \in [Nat -> Nat] : Iterates(f, a, step)
BY StepsIterate

\* The count of what today still lacks, day by day.
Counts(short, tr, b, stay) ==
    /\ short \in [0 .. LastDay -> Nat]
    /\ \A d \in 0 .. LastDay : d <= today => short[d] = Lacking(tr, b, stay)
    /\ \A d \in 0 .. LastDay : d > today =>
          short[d] = short[d - 1] - Cardinality(Given(tr, b, stay, d, short[d - 1]))
    /\ \A d \in Days :
          Pulled(tr, b, stay)[d] = IF d <= today THEN {} ELSE Given(tr, b, stay, d, short[d - 1])

LEMMA PulledIsCounted ==
    ASSUME today \in Days, NEW tr, NEW b, NEW stay, DaysCanGive(stay), Lacking(tr, b, stay) \in Nat
    PROVE  \E short : Counts(short, tr, b, stay)
<1> DEFINE a == Lacking(tr, b, stay)
           step == [n \in Nat |-> [x \in Nat |->
                      IF n + 1 <= today THEN a
                      ELSE IF n + 1 \in Days THEN x - Cardinality(Given(tr, b, stay, n + 1, x)) ELSE x]]
           Eq(g) == g = [d \in 0 .. LastDay |->
                      IF d <= today THEN Room(b, today, stay[today]) - Cardinality(FromQueue(tr, b, stay))
                      ELSE g[d - 1] - Cardinality(FirstRows(Spare(tr, b, d, stay[d]), g[d - 1]))]
           short == CHOOSE g : Eq(g)
<1>1. LastDay \in Nat /\ today \in Nat /\ today >= 1 /\ Days \subseteq Nat
      /\ \A d \in 0 .. LastDay : d # 0 => d \in Days /\ d - 1 \in Nat /\ d - 1 \in 0 .. LastDay /\ (d - 1) + 1 = d
  BY BoundsAssumption DEF Days
<1>2. ASSUME NEW d \in Days, d > today, NEW x \in Nat
      PROVE  x - Cardinality(Given(tr, b, stay, d, x)) \in Nat
  <2> HIDE DEF step, short, a
  <2>1. Cardinality(Given(tr, b, stay, d, x)) \in Nat /\ Cardinality(Given(tr, b, stay, d, x)) <= x
    BY <1>2, GivenIsSpare
  <2> QED
    BY <2>1
<1>3. Steps(step, Nat)
  <2>1. ASSUME NEW n \in Nat, NEW x \in Nat
        PROVE  (IF n + 1 <= today THEN a
                ELSE IF n + 1 \in Days THEN x - Cardinality(Given(tr, b, stay, n + 1, x)) ELSE x) \in Nat
    <3> HIDE DEF step, short
    <3>1. n + 1 > today \/ n + 1 <= today
      BY <1>1
    <3> QED
      BY <1>2, <3>1
  <2> HIDE DEF a, short
  <2> QED
    BY <2>1 DEF Steps
<1>3a. PICK f \in [Nat -> Nat] : Iterates(f, a, step)
  <2>1. a \in Nat
    OBVIOUS
  <2> HIDE DEF step, short, a, Eq
  <2> QED
    BY <1>3, <2>1, NumbersIterate
<1>4. f[0] = a /\ \A n \in Nat : f[n + 1] = step[n][f[n]]
  <2> HIDE DEF step, short, a, Eq
  <2> QED
    BY <1>3a DEF Iterates
<1>5. ASSUME NEW d \in 0 .. LastDay
      PROVE  /\ d <= today => f[d] = a
             /\ d > today => f[d] = f[d - 1] - Cardinality(Given(tr, b, stay, d, f[d - 1]))
  <2>1. CASE d = 0
    BY <1>1, <1>4, <2>1
  <2>2. CASE d # 0
    <3>1. f[d] = step[d - 1][f[d - 1]] /\ f[d - 1] \in Nat /\ d - 1 \in Nat
      BY <1>1, <1>4, <2>2
    <3> HIDE DEF a, short
    <3> QED
      BY <1>1, <2>2, <3>1
  <2> QED
    BY <2>1, <2>2
<1> HIDE DEF step
<1> DEFINE h == [d \in 0 .. LastDay |-> f[d]]
<1>6. Eq(h)
  <2>1. ASSUME NEW d \in 0 .. LastDay
        PROVE  h[d] = IF d <= today THEN Room(b, today, stay[today]) - Cardinality(FromQueue(tr, b, stay))
                      ELSE h[d - 1] - Cardinality(FirstRows(Spare(tr, b, d, stay[d]), h[d - 1]))
    <3>1. h[d] = f[d] /\ (d > today => h[d - 1] = f[d - 1])
      BY <1>1
    <3> HIDE DEF h, short
    <3>2. d <= today \/ d > today
      BY <1>1
    <3> QED
      BY <1>1, <1>5, <3>1, <3>2 DEF Given, Lacking
  <2>2. h = [d \in 0 .. LastDay |-> h[d]]
    OBVIOUS
  <2> HIDE DEF h, short
  <2> QED
    BY <2>1, <2>2
<1> HIDE DEF h
<1>7. Eq(short)
  <2> HIDE DEF Eq
  <2> QED
    BY <1>6
<1>8. Pulled(tr, b, stay)
        = [d \in Days |-> IF d <= today THEN {} ELSE FirstRows(Spare(tr, b, d, stay[d]), short[d - 1])]
  BY DEF Pulled
<1> HIDE DEF short
<1>9. \A d \in 0 .. LastDay : d <= today => short[d] = a
  BY <1>7 DEF Lacking
<1>10. \A d \in 0 .. LastDay : d > today =>
          short[d] = short[d - 1] - Cardinality(Given(tr, b, stay, d, short[d - 1]))
  <2> TAKE d \in 0 .. LastDay
  <2>1. d > today => ~ (d <= today)
    BY <1>1
  <2> QED
    BY <1>7, <2>1 DEF Given
<1>11. \A d \in 0 .. LastDay : short[d] \in Nat
  <2> DEFINE T == {n \in Nat : n <= LastDay => short[n] \in Nat}
  <2>1. 0 \in T
    BY <1>1, <1>9
  <2>2. ASSUME NEW n \in Nat, n \in T PROVE n + 1 \in T
    <3>1. CASE n + 1 <= LastDay
      <4>1. n + 1 \in 0 .. LastDay /\ n + 1 # 0 /\ (n + 1) - 1 = n /\ n <= LastDay /\ n + 1 \in Days
        BY <1>1, <3>1 DEF Days
      <4>2. short[n] \in Nat
        BY <2>2, <4>1
      <4>3. CASE n + 1 <= today
        BY <1>9, <4>1, <4>3
      <4>4. CASE n + 1 > today
        BY <1>2, <1>10, <4>1, <4>2, <4>4
      <4> QED
        BY <1>1, <4>3, <4>4
    <3> QED
      BY <1>1, <3>1
  <2> HIDE DEF T
  <2>3. Nat \subseteq T
    BY <2>1, <2>2, Induction
  <2> QED
    BY <1>1, <2>3 DEF T
<1>12. short \in [0 .. LastDay -> Nat]
  BY <1>7, <1>11
<1>13. ASSUME NEW d \in Days
       PROVE  Pulled(tr, b, stay)[d] = IF d <= today THEN {} ELSE Given(tr, b, stay, d, short[d - 1])
  BY <1>8 DEF Given
<1>14. Counts(short, tr, b, stay)
  BY <1>9, <1>10, <1>12, <1>13 DEF Counts
<1> QED
  BY <1>14

\* What is taken from later days was to spare there, and with what the queue
\* gives it fits into today.
LEMMA PulledFits ==
    ASSUME today \in Days, NEW tr, NEW b, NEW stay, DaysCanGive(stay), Lacking(tr, b, stay) \in Nat,
           NEW P, P = UNION {TasksOf(Pulled(tr, b, stay)[e]) : e \in Days}
    PROVE  /\ \A d \in Days : /\ Pulled(tr, b, stay)[d] \subseteq Spare(tr, b, d, stay[d])
                              /\ d <= today => Pulled(tr, b, stay)[d] = {}
           /\ IsFiniteSet(P)
           /\ Cardinality(P) <= Lacking(tr, b, stay)
<1> DEFINE p == Pulled(tr, b, stay)
           a == Lacking(tr, b, stay)
           U(n) == UNION {TasksOf(p[e]) : e \in 1 .. n}
<1>1. LastDay \in Nat /\ today \in Nat /\ today >= 1 /\ Days \subseteq Nat
      /\ \A d \in 0 .. LastDay : d # 0 => d \in Days /\ d - 1 \in Nat /\ d - 1 \in 0 .. LastDay /\ (d - 1) + 1 = d
  BY BoundsAssumption DEF Days
<1>2. PICK short : Counts(short, tr, b, stay)
  BY PulledIsCounted
<1>3. /\ short \in [0 .. LastDay -> Nat]
      /\ \A d \in 0 .. LastDay : d <= today => short[d] = a
      /\ \A d \in 0 .. LastDay : d > today =>
            short[d] = short[d - 1] - Cardinality(Given(tr, b, stay, d, short[d - 1]))
      /\ \A d \in Days : p[d] = IF d <= today THEN {} ELSE Given(tr, b, stay, d, short[d - 1])
  BY <1>2 DEF Counts
<1> HIDE DEF p, a
<1>4. ASSUME NEW d \in Days, d > today
      PROVE  /\ p[d] \subseteq Spare(tr, b, d, stay[d])
             /\ IsFiniteSet(p[d]) /\ Cardinality(p[d]) \in Nat
             /\ short[d] = short[d - 1] - Cardinality(p[d])
  <2>1. d \in 0 .. LastDay /\ d # 0 /\ ~ (d <= today)
    BY <1>1, <1>4 DEF Days
  <2>2. short[d - 1] \in Nat /\ p[d] = Given(tr, b, stay, d, short[d - 1])
    BY <1>1, <1>3, <2>1
  <2> DEFINE n == short[d - 1]
             g == Given(tr, b, stay, d, n)
  <2>3. n \in Nat /\ p[d] = g /\ short[d] = n - Cardinality(g)
    BY <1>3, <1>4, <2>1, <2>2
  <2> HIDE DEF n, U
  <2>4. g \subseteq Spare(tr, b, d, stay[d]) /\ IsFiniteSet(g) /\ Cardinality(g) \in Nat
    BY <1>4, <2>3, GivenIsSpare
  <2> QED
    BY <2>3, <2>4 DEF n
<1>5. ASSUME NEW d \in Days, d <= today PROVE p[d] = {}
  BY <1>3, <1>5
<1>6. ASSUME NEW n \in Nat, n + 1 <= LastDay PROVE U(n + 1) = U(n) \cup TasksOf(p[n + 1])
  <2>1. 1 .. n + 1 = (1 .. n) \cup {n + 1}
    OBVIOUS
  <2> QED
    BY <2>1
<1> HIDE DEF U
<1>7. U(0) = {}
  BY DEF U
<1> DEFINE T == {n \in Nat : n <= LastDay =>
                    IsFiniteSet(U(n)) /\ Cardinality(U(n)) \in Nat /\ Cardinality(U(n)) + short[n] <= a}
<1>8. 0 \in T
  <2>1. IsFiniteSet(U(0)) /\ Cardinality(U(0)) = 0
    BY <1>7, FS_EmptySet
  <2>2. short[0] = a /\ a \in Nat
    BY <1>1, <1>3 DEF a
  <2> QED
    BY <2>1, <2>2
<1>9. ASSUME NEW n \in Nat, n \in T PROVE n + 1 \in T
  <2>1. SUFFICES ASSUME n + 1 <= LastDay
                 PROVE  /\ IsFiniteSet(U(n + 1)) /\ Cardinality(U(n + 1)) \in Nat
                        /\ Cardinality(U(n + 1)) + short[n + 1] <= a
    OBVIOUS
  <2>2. /\ n + 1 \in Days /\ n \in 0 .. LastDay /\ n + 1 \in 0 .. LastDay /\ (n + 1) - 1 = n
        /\ IsFiniteSet(U(n)) /\ Cardinality(U(n)) \in Nat /\ Cardinality(U(n)) + short[n] <= a
    BY <1>1, <1>9, <2>1 DEF Days
  <2>3. short[n] \in Nat /\ short[n + 1] \in Nat /\ a \in Nat
    BY <1>3, <2>2 DEF a
  <2> HIDE DEF T
  <2>4. CASE n + 1 <= today
    <3>1. n <= today
      BY <1>1, <2>4
    <3>2. short[n] = a /\ short[n + 1] = a /\ p[n + 1] = {}
      BY <1>3, <1>5, <2>2, <2>4, <3>1
    <3>3. U(n + 1) = U(n)
      BY <1>6, <2>1, <3>2 DEF TasksOf
    <3> QED
      BY <2>2, <3>2, <3>3
  <2>5. CASE n + 1 > today
    <3>1. /\ IsFiniteSet(p[n + 1]) /\ Cardinality(p[n + 1]) \in Nat
          /\ short[n + 1] = short[n] - Cardinality(p[n + 1])
      BY <1>4, <2>2, <2>5
    <3>2. IsFiniteSet(TasksOf(p[n + 1])) /\ Cardinality(TasksOf(p[n + 1])) <= Cardinality(p[n + 1])
      BY <3>1, TasksAreFewer
    <3>3. /\ IsFiniteSet(U(n + 1)) /\ Cardinality(U(n + 1)) \in Nat
          /\ Cardinality(U(n + 1)) <= Cardinality(U(n)) + Cardinality(p[n + 1])
      <4> DEFINE A == U(n)
                 B == TasksOf(p[n + 1])
                 k == Cardinality(A)
                 m == Cardinality(p[n + 1])
      <4>1. U(n + 1) = A \cup B
        BY <1>6, <2>1
      <4>2. IsFiniteSet(A) /\ IsFiniteSet(B) /\ k \in Nat /\ m \in Nat /\ k <= k /\ Cardinality(B) <= m
        BY <2>2, <3>1, <3>2
      <4> HIDE DEF B, m
      <4>3. IsFiniteSet(A \cup B) /\ Cardinality(A \cup B) \in Nat /\ Cardinality(A \cup B) <= k + m
        <5> HIDE DEF A, k
        <5>1. Cardinality(A) <= k
          BY <4>2 DEF k
        <5> QED
          BY <4>2, <5>1, UnionIsSmall
      <4> QED
        BY <4>1, <4>3 DEF m
    <3> QED
      BY <2>2, <2>3, <3>1, <3>3
  <2> QED
    BY <1>1, <2>4, <2>5
<1> HIDE DEF T
<1>10. LastDay \in T
  BY <1>1, <1>8, <1>9, Induction
<1>11. P = U(LastDay)
  BY DEF U, p, Days
<1>12. IsFiniteSet(P) /\ Cardinality(P) \in Nat /\ Cardinality(P) + short[LastDay] <= a
  BY <1>1, <1>10, <1>11 DEF T
<1>13. short[LastDay] \in Nat /\ a \in Nat
  BY <1>1, <1>3 DEF a
<1>14. \A d \in Days : p[d] \subseteq Spare(tr, b, d, stay[d])
  <2> TAKE d \in Days
  <2>1. d > today \/ d <= today
    BY <1>1
  <2> QED
    BY <1>4, <1>5, <2>1
<1>15. Cardinality(P) <= a
  BY <1>12, <1>13
<1> QED
  BY <1>5, <1>12, <1>14, <1>15 DEF p, a

\* Who is new on a day, when pulled is what today takes from the later days and
\* earlier what the days from today on have taken from the queue before it.
Newcomers(tr, b, stay, pulled, d, earlier) ==
    IF d < today THEN {}
    ELSE IF d = today THEN FromQueue(tr, b, stay) \cup UNION {TasksOf(pulled[e]) : e \in Days}
    ELSE FirstTasks(Queue(tr, b, stay) \ earlier, Room(b, d, stay[d] \ pulled[d]))

LEMMA FillingIsSolved ==
    ASSUME today \in Days, NEW tr, NEW b, NEW stay, NEW pulled, pulled = Pulled(tr, b, stay),
           NEW F, F = Filling(tr, b, stay)
    PROVE  \A d \in Days :
              /\ F[d].rest = stay[d] \ pulled[d]
              /\ F[d].new = Newcomers(tr, b, stay, pulled, d, UNION {F[e].new : e \in today .. d - 1})
<1> DEFINE P == UNION {TasksOf(pulled[e]) : e \in Days}
           S == SUBSET (Eligible(tr) \cup P)
           D == [n \in Nat |-> [f \in [Nat -> S] |->
                   Newcomers(tr, b, stay, pulled, n, UNION {f[e] : e \in today .. n - 1})]]
           Eq(g) == g = [d \in 0 .. LastDay |->
                   IF d < today THEN {}
                   ELSE IF d = today THEN FromQueue(tr, b, stay) \cup UNION {TasksOf(pulled[e]) : e \in Days}
                   ELSE FirstTasks(Queue(tr, b, stay) \ UNION {g[e] : e \in today .. d - 1},
                                   Room(b, d, stay[d] \ pulled[d]))]
           fill == CHOOSE g : Eq(g)
<1>1. LastDay \in Nat /\ today \in Nat /\ today >= 1 /\ Days \subseteq 0 .. LastDay /\ Days \subseteq Nat
  BY BoundsAssumption DEF Days
<1>2. LooksBack(D, S)
  <2>1. ASSUME NEW n \in Nat, NEW earlier PROVE Newcomers(tr, b, stay, pulled, n, earlier) \in S
    BY DEF Newcomers, FirstTasks, Queue, FromQueue
  <2>2. D \in [Nat -> [[Nat -> S] -> S]]
    <3> HIDE DEF S, fill
    <3> QED
      BY <2>1
  <2>3. ASSUME NEW n \in Nat, NEW f \in [Nat -> S], NEW g \in [Nat -> S], \A i \in 0 .. n - 1 : f[i] = g[i]
        PROVE  D[n][f] = D[n][g]
    <3>1. \A e \in today .. n - 1 : f[e] = g[e]
      BY <1>1, <2>3
    <3>2. UNION {f[e] : e \in today .. n - 1} = UNION {g[e] : e \in today .. n - 1}
      BY <3>1
    <3> HIDE DEF S, fill
    <3> QED
      BY <3>2
  <2> HIDE DEF D, S, fill
  <2> QED
    BY <2>2, <2>3 DEF LooksBack
<1>3. S # {}
  OBVIOUS
<1>4. PICK f \in [Nat -> S] : \A n \in Nat : f[n] = D[n][f]
  <2> HIDE DEF D, S, fill
  <2> QED
    BY <1>2, <1>3, RecursionExists
<1>5. \A d \in 0 .. LastDay :
         f[d] = Newcomers(tr, b, stay, pulled, d, UNION {f[e] : e \in today .. d - 1})
  <2> HIDE DEF S, fill
  <2> QED
    BY <1>1, <1>4
<1> HIDE DEF S, D, P, fill
<1> DEFINE h == [d \in 0 .. LastDay |-> f[d]]
<1>6. Eq(h)
  <2>1. ASSUME NEW d \in 0 .. LastDay
        PROVE  UNION {f[e] : e \in today .. d - 1} = UNION {h[e] : e \in today .. d - 1}
    <3>1. \A e \in today .. d - 1 : h[e] = f[e]
      BY <1>1
    <3> QED
      BY <3>1
  <2>2. ASSUME NEW d \in 0 .. LastDay
        PROVE  h[d] = IF d < today THEN {}
                      ELSE IF d = today
                      THEN FromQueue(tr, b, stay) \cup UNION {TasksOf(pulled[e]) : e \in Days}
                      ELSE FirstTasks(Queue(tr, b, stay) \ UNION {h[e] : e \in today .. d - 1},
                                      Room(b, d, stay[d] \ pulled[d]))
    <3>1. h[d] = f[d]
      OBVIOUS
    <3> HIDE DEF h
    <3> QED
      BY <1>5, <2>1, <3>1 DEF Newcomers
  <2>3. h = [d \in 0 .. LastDay |-> h[d]]
    OBVIOUS
  <2> HIDE DEF h
  <2> QED
    BY <2>2, <2>3
<1> HIDE DEF h
<1>7. Eq(fill)
  <2> HIDE DEF Eq
  <2> QED
    BY <1>6 DEF fill
<1>8. F = [d \in Days |-> [new |-> fill[d], rest |-> stay[d] \ pulled[d]]]
  BY DEF Filling, fill
<1>9. ASSUME NEW d \in Days
      PROVE  fill[d] = Newcomers(tr, b, stay, pulled, d, UNION {fill[e] : e \in today .. d - 1})
  BY <1>1, <1>7 DEF Newcomers
<1>10. ASSUME NEW d \in Days
       PROVE  UNION {fill[e] : e \in today .. d - 1} = UNION {F[e].new : e \in today .. d - 1}
  <2>1. \A e \in today .. d - 1 : e \in Days /\ F[e].new = fill[e]
    BY <1>1, <1>8 DEF Days
  <2> QED
    BY <2>1
<1>11. \A d \in Days : F[d].rest = stay[d] \ pulled[d] /\ F[d].new = fill[d]
  BY <1>8
<1> HIDE DEF fill, Eq
<1> QED
  BY <1>9, <1>10, <1>11

-----------------------------------------------------------------------------
(* What is kept of a day's rows.                                           *)

WellFormed(rows) == rows \subseteq Row /\ IsFiniteSet(rows)
WithinRoom(rows) == Cardinality(Counted(rows)) <= Slots

\* No task is promised twice in a day; a promise that was skipped does not count.
Once(rows) ==
    \A r, q \in rows : (r.task = q.task /\ r.st # "skipped" /\ q.st # "skipped") => r = q

\* The time a promise was completed with: sessions that have ended.
Backed(d, r) ==
    r.how = "time" =>
        /\ r.st = "satisfied"
        /\ \A s \in r.cited : sessions[s].status \in {"ended", "invalidated"}
        /\ Reached(Counting(LineOf(d, r)) \cap r.cited)

\* Nothing is done on a later day, and no task has two rows there.
Ahead(d, rows) == d > today => OnePerTask(rows) /\ \A r \in rows : r.st # "satisfied"

DayInv(d, rows) ==
    /\ WellFormed(rows) /\ WithinRoom(rows) /\ Once(rows)
    /\ \A r \in rows : Backed(d, r)
    /\ Ahead(d, rows)

\* What may become of a row: it stays with its task, a skipped one stays
\* skipped, and nothing is completed ahead of its day.
Succeeds(d, r, q) ==
    /\ q \in Row /\ q.task = r.task
    /\ r.st = "skipped" => q.st = "skipped"
    /\ q.st = "satisfied" => r.st = "satisfied" \/ ~ (d > today)
    /\ Backed(d, q)

LEMMA CountedIsFinite ==
    ASSUME NEW rows, IsFiniteSet(rows)
    PROVE  IsFiniteSet(Counted(rows)) /\ Cardinality(Counted(rows)) \in Nat
BY FS_Subset, FS_CardinalityType DEF Counted

\* A day whose rows are rewritten one by one.
LEMMA MappedDay ==
    ASSUME NEW d, NEW rows, DayInv(d, rows), NEW f, \A r \in rows : Succeeds(d, r, f[r])
    PROVE  DayInv(d, {f[r] : r \in rows})
<1> DEFINE new == {f[r] : r \in rows}
           image == {f[r] : r \in Counted(rows)}
<1>1. WellFormed(new)
  <2>1. IsFiniteSet(new)
    BY ImageIsSmaller DEF DayInv, WellFormed
  <2> QED
    BY <2>1 DEF WellFormed, Succeeds
<1>2. WithinRoom(new)
  <2>1. IsFiniteSet(Counted(rows)) /\ Cardinality(Counted(rows)) \in Nat
    BY CountedIsFinite DEF DayInv, WellFormed
  <2>2. IsFiniteSet(image) /\ Cardinality(image) <= Cardinality(Counted(rows))
    BY <2>1, ImageIsSmaller
  <2>3. Counted(new) \in SUBSET image
    BY DEF Counted, Succeeds
  <2>4. IsFiniteSet(Counted(new)) /\ Cardinality(Counted(new)) <= Cardinality(image)
    <3> HIDE DEF new, image
    <3> QED
      BY <2>2, <2>3, FS_Subset
  <2>5. Cardinality(Counted(new)) \in Nat /\ Cardinality(image) \in Nat
    BY <2>2, <2>4, FS_CardinalityType
  <2>6. Cardinality(Counted(rows)) <= Slots
    BY DEF DayInv, WithinRoom
  <2> HIDE DEF new, image
  <2> QED
    BY <2>1, <2>2, <2>4, <2>5, <2>6, BoundsAssumption DEF WithinRoom
<1>3. Once(new)
  <2>1. SUFFICES ASSUME NEW r \in rows, NEW q \in rows, f[r].task = f[q].task,
                        f[r].st # "skipped", f[q].st # "skipped"
                 PROVE  r = q
    BY DEF Once
  <2>2. r.task = q.task /\ r.st # "skipped" /\ q.st # "skipped"
    BY <2>1 DEF Succeeds
  <2> QED
    BY <2>2 DEF DayInv, Once
<1>4. \A r \in new : Backed(d, r)
  BY DEF Succeeds
<1>5. Ahead(d, new)
  <2>1. SUFFICES ASSUME d > today
                 PROVE  OnePerTask(new) /\ \A r \in new : r.st # "satisfied"
    BY DEF Ahead
  <2>2. OnePerTask(rows) /\ \A r \in rows : r.st # "satisfied"
    BY <2>1 DEF DayInv, Ahead
  <2>3. \A r \in new : r.st # "satisfied"
    BY <2>1, <2>2 DEF Succeeds
  <2>4. \A r, q \in rows : f[r].task = f[q].task => f[r] = f[q]
    BY <2>2 DEF OnePerTask, Succeeds
  <2> QED
    BY <2>3, <2>4 DEF OnePerTask
<1> QED
  BY <1>1, <1>2, <1>3, <1>4, <1>5 DEF DayInv

\* A day that loses rows.
LEMMA SmallerDay ==
    ASSUME NEW d, NEW rows, DayInv(d, rows), NEW S \in SUBSET rows
    PROVE  DayInv(d, S)
<1>1. WellFormed(S)
  BY FS_Subset DEF DayInv, WellFormed
<1>2. WithinRoom(S)
  <2>1. IsFiniteSet(Counted(rows)) /\ Cardinality(Counted(rows)) \in Nat
    BY CountedIsFinite DEF DayInv, WellFormed
  <2>2. Counted(S) \in SUBSET Counted(rows)
    BY DEF Counted
  <2>3. IsFiniteSet(Counted(S)) /\ Cardinality(Counted(S)) <= Cardinality(Counted(rows))
    BY <2>1, <2>2, FS_Subset
  <2>4. Cardinality(Counted(S)) \in Nat
    BY <2>3, FS_CardinalityType
  <2>5. Cardinality(Counted(rows)) <= Slots
    BY DEF DayInv, WithinRoom
  <2> QED
    BY <2>1, <2>3, <2>4, <2>5, BoundsAssumption DEF WithinRoom
<1>3. Once(S) /\ Ahead(d, S)
  BY DEF DayInv, Once, Ahead, OnePerTask
<1> QED
  BY <1>1, <1>2, <1>3 DEF DayInv

\* The rows a scheduler or a user puts on a day: promises, one for each task.
Promises(rows) ==
    /\ rows \subseteq Row
    /\ \A r \in rows : r.st = "planned" /\ r.how = "none"
    /\ OnePerTask(rows)

\* A day that gains promises of tasks it did not hold.
LEMMA GrownDay ==
    ASSUME NEW d, NEW rows, DayInv(d, rows), NEW N, Promises(N), IsFiniteSet(N),
           \A r \in N : r.task \notin TasksOf(Counted(rows)),
           d > today => \A r \in N : r.task \notin TasksOf(rows),
           Cardinality(Counted(rows)) + Cardinality(N) <= Slots
    PROVE  DayInv(d, rows \cup N)
<1>1. WellFormed(rows \cup N)
  BY FS_Union DEF DayInv, WellFormed, Promises
<1>2. WithinRoom(rows \cup N)
  <2>1. IsFiniteSet(Counted(rows)) /\ Cardinality(Counted(rows)) \in Nat
    BY CountedIsFinite DEF DayInv, WellFormed
  <2>2. Cardinality(N) \in Nat
    BY FS_CardinalityType
  <2>3. Counted(rows \cup N) = Counted(rows) \cup N
    BY DEF Counted, Promises
  <2>4. /\ Cardinality(Counted(rows) \cup N) \in Nat
        /\ Cardinality(Counted(rows) \cup N) <= Cardinality(Counted(rows)) + Cardinality(N)
    <3> DEFINE A == Counted(rows)
               k == Cardinality(A)
               m == Cardinality(N)
    <3>1. IsFiniteSet(A) /\ k \in Nat /\ m \in Nat /\ Cardinality(A) <= k /\ Cardinality(N) <= m
      BY <2>1, <2>2
    <3> HIDE DEF A, k, m
    <3> QED
      BY <3>1, UnionIsSmall DEF k, m, A
  <2>5. Cardinality(Counted(rows) \cup N) <= Slots
    BY <2>1, <2>2, <2>4, BoundsAssumption
  <2> QED
    BY <2>3, <2>5 DEF WithinRoom
<1>3. Once(rows \cup N)
  <2>1. \A r \in rows, q \in N : r.st # "skipped" => r.task # q.task
    BY DEF TasksOf, Counted
  <2> QED
    BY <2>1 DEF DayInv, Once, Promises, OnePerTask
<1>4. \A r \in rows \cup N : Backed(d, r)
  BY DEF DayInv, Promises, Backed
<1>5. Ahead(d, rows \cup N)
  <2>1. SUFFICES ASSUME d > today
                 PROVE  OnePerTask(rows \cup N) /\ \A r \in rows \cup N : r.st # "satisfied"
    BY DEF Ahead
  <2>2. \A r \in rows, q \in N : r.task # q.task
    BY <2>1 DEF TasksOf
  <2> QED
    BY <2>1, <2>2 DEF DayInv, Ahead, OnePerTask, Promises
<1> QED
  BY <1>1, <1>2, <1>3, <1>4, <1>5 DEF DayInv

-----------------------------------------------------------------------------
(* What the scheduler does to a day.                                       *)

\* Evidence lies on today and the days before it.
PastOnly ==
    /\ \A l \in events : l.day <= today
    /\ \A s \in Sessions : sessions[s].on # None => sessions[s].on.day <= today
    /\ events \subseteq Lines
    /\ sessions \in [Sessions -> Session]
    /\ today \in Days

BoardInv(b) ==
    /\ b \in Boards
    /\ \A d \in Days : DayInv(d, b.items[d])
    /\ \A d \in Days : b.plans[d].status = "none" => b.items[d] = {}

\* A later day is never protected, so it can always be rewritten.
LEMMA LaterDayIsFree ==
    ASSUME PastOnly, NEW b, BoardInv(b), NEW d \in Days, d > today
    PROVE  Protected(d, b.items[d]) = {} /\ ~ Fixed(b, d)
<1>1. SUFFICES ASSUME NEW r \in b.items[d]
               PROVE  /\ r.st # "satisfied" /\ LineOf(d, r) \notin events
                      /\ \A s \in Sessions : sessions[s].on # LineOf(d, r)
  <2>1. d # today
    BY DEF PastOnly, Days
  <2> QED
    BY <2>1 DEF Protected, Focused, Fixed
<1>2. r.st # "satisfied"
  BY DEF BoardInv, DayInv, Ahead
<1>3. r \in Row
  BY DEF BoardInv, Boards
<1>4. LineOf(d, r) \in Lines /\ LineOf(d, r).day = d
  BY <1>3 DEF Row, LineOf, Lines
<1>5. ~ (d <= today)
  BY DEF PastOnly, Days
<1> QED
  BY <1>2, <1>4, <1>5, NoneAssumption DEF PastOnly

LEMMA RoomIs ==
    ASSUME NEW b, NEW d, NEW rows, IsFiniteSet(rows)
    PROVE  /\ Room(b, d, rows) \in Nat
           /\ Room(b, d, rows) > 0 => Cardinality(rows) + Room(b, d, rows) <= Slots
<1>1. Cardinality(rows) \in Nat
  BY FS_CardinalityType
<1>2. Missing(Cardinality(rows)) \in Nat
      /\ (Missing(Cardinality(rows)) > 0 => Cardinality(rows) + Missing(Cardinality(rows)) <= Slots)
  BY <1>1, BoundsAssumption DEF Missing
<1> QED
  BY <1>2 DEF Room

\* What the scheduler puts on a day: what may stay, and whom it adds.
GoodFill(tr, b, d, f) ==
    /\ f.rest \subseteq Founded(tr, b, d)
    /\ Fixed(b, d) => f.rest = Founded(tr, b, d)
    /\ ~ Fixed(b, d) => \A r \in f.rest : r.task \in Eligible(tr)
    /\ f.new \subseteq Eligible(tr) /\ IsFiniteSet(f.new)
    /\ Cardinality(f.new) <= Room(b, d, f.rest)
    /\ f.new \cap Held(b, d, f.rest) = {}
    /\ d = today => \A t \in f.new : FreshLines(b, d, t) # {}

LEMMA StaysGive ==
    ASSUME PastOnly, NEW tr, NEW b, BoardInv(b), NEW stay, stay = Stays(tr, b)
    PROVE  /\ DaysCanGive(stay)
           /\ \A d \in Days : stay[d] \subseteq Founded(tr, b, d) /\ Founded(tr, b, d) \subseteq b.items[d]
           /\ \A d \in Days : ~ InReach(b, d) => stay[d] = {}
           /\ \A d \in Days : (InReach(b, d) /\ Fixed(b, d)) => stay[d] = Founded(tr, b, d)
           /\ \A d \in Days : ~ Fixed(b, d) =>
                 \A r \in stay[d] : r.task \in Eligible(tr) /\ r.task \notin Taken(b, stay, d)
           /\ Lacking(tr, b, stay) \in Nat
           /\ FromQueue(tr, b, stay) \subseteq Queue(tr, b, stay)
           /\ IsFiniteSet(FromQueue(tr, b, stay))
           /\ Cardinality(FromQueue(tr, b, stay)) \in Nat
           /\ Cardinality(FromQueue(tr, b, stay)) + Lacking(tr, b, stay) = Room(b, today, stay[today])
<1>1. today \in Days
  BY DEF PastOnly
<1>2. \A d \in Days : stay[d] = Kept(tr, b, d, Taken(b, stay, d))
  BY <1>1, StaysAreKept
<1>3. \A d \in Days : stay[d] \subseteq Founded(tr, b, d) /\ Founded(tr, b, d) \subseteq b.items[d]
  BY <1>2, KeptIsThere
<1>4. \A d \in Days : ~ InReach(b, d) => stay[d] = {}
  BY <1>2 DEF Kept
<1>5. DaysCanGive(stay)
  <2>1. ASSUME NEW d \in Days PROVE WellFormed(b.items[d]) /\ (d > today => OnePerTask(b.items[d]))
    BY DEF BoardInv, DayInv, Ahead
  <2>2. ASSUME NEW d \in Days PROVE stay[d] \in SUBSET b.items[d]
    BY <1>3
  <2>3. ASSUME NEW d \in Days
        PROVE  stay[d] \subseteq Row /\ IsFiniteSet(stay[d]) /\ (d > today => OnePerTask(stay[d]))
    BY <2>1, <2>2, FS_Subset DEF WellFormed, OnePerTask
  <2> QED
    BY <2>3 DEF DaysCanGive
<1>6. Room(b, today, stay[today]) \in Nat
  <2>1. IsFiniteSet(stay[today])
    BY <1>1, <1>5 DEF DaysCanGive
  <2> QED
    BY <2>1, RoomIs
<1>7. /\ FromQueue(tr, b, stay) \subseteq Queue(tr, b, stay)
      /\ IsFiniteSet(FromQueue(tr, b, stay))
      /\ Cardinality(FromQueue(tr, b, stay)) \in Nat
      /\ Cardinality(FromQueue(tr, b, stay)) <= Room(b, today, stay[today])
  <2> DEFINE q == {t \in Queue(tr, b, stay) : Promotable(tr, b, t)}
             n == Room(b, today, stay[today])
  <2>1. q \in SUBSET Tasks /\ q \subseteq Queue(tr, b, stay) /\ n \in Nat
    BY <1>6 DEF Queue, Eligible
  <2>2. FromQueue(tr, b, stay) = FirstTasks(q, n)
    BY DEF FromQueue
  <2> HIDE DEF q, n
  <2>3. /\ FirstTasks(q, n) \subseteq q /\ IsFiniteSet(FirstTasks(q, n))
        /\ Cardinality(FirstTasks(q, n)) \in Nat /\ Cardinality(FirstTasks(q, n)) <= n
    BY <2>1, FirstTasksAreFew
  <2> QED
    BY <2>1, <2>2, <2>3 DEF n
<1>8. /\ Lacking(tr, b, stay) \in Nat
      /\ Cardinality(FromQueue(tr, b, stay)) + Lacking(tr, b, stay) = Room(b, today, stay[today])
  BY <1>6, <1>7 DEF Lacking
<1>9. \A d \in Days : (InReach(b, d) /\ Fixed(b, d)) => stay[d] = Founded(tr, b, d)
  BY <1>2, KeptIsThere
<1>10. \A d \in Days : ~ Fixed(b, d) =>
          \A r \in stay[d] : r.task \in Eligible(tr) /\ r.task \notin Taken(b, stay, d)
  BY <1>2, KeptIsThere
<1> QED
  BY <1>3, <1>4, <1>5, <1>7, <1>8, <1>9, <1>10

\* Nobody is pulled from a day that is fixed, and who is pulled was promised there.
LEMMA PulledIsFound ==
    ASSUME PastOnly, NEW tr, NEW b, BoardInv(b), NEW stay, stay = Stays(tr, b),
           NEW pulled, pulled = Pulled(tr, b, stay),
           NEW P, P = UNION {TasksOf(pulled[e]) : e \in Days}
    PROVE  /\ \A d \in Days : pulled[d] \subseteq Spare(tr, b, d, stay[d]) /\ pulled[d] \subseteq stay[d]
           /\ \A d \in Days : d <= today => pulled[d] = {}
           /\ IsFiniteSet(P)
           /\ Cardinality(P) <= Lacking(tr, b, stay)
           /\ \A t \in P : /\ t \in Eligible(tr) /\ Promotable(tr, b, t)
                           /\ \E e \in Days : e > today /\ InReach(b, e) /\ t \in TasksOf(stay[e])
           /\ P \cap Held(b, today, stay[today]) = {}
<1>1. today \in Days /\ today \in Nat
  BY DEF PastOnly, Days
<1>2. DaysCanGive(stay) /\ Lacking(tr, b, stay) \in Nat
  BY StaysGive
<1>3. /\ \A d \in Days : /\ pulled[d] \subseteq Spare(tr, b, d, stay[d])
                         /\ d <= today => pulled[d] = {}
      /\ IsFiniteSet(P) /\ Cardinality(P) <= Lacking(tr, b, stay)
  BY <1>1, <1>2, PulledFits
<1>4. \A d \in Days : Spare(tr, b, d, stay[d]) \subseteq stay[d]
  BY DEF Spare
<1>5. ASSUME NEW t \in P
      PROVE  /\ t \in Eligible(tr) /\ Promotable(tr, b, t)
             /\ \E e \in Days : e > today /\ InReach(b, e) /\ t \in TasksOf(stay[e])
             /\ t \notin Held(b, today, stay[today])
  <2>1. PICK e \in Days : t \in TasksOf(pulled[e])
    OBVIOUS
  <2>2. PICK r \in pulled[e] : r.task = t
    BY <2>1 DEF TasksOf
  <2>3. e > today
    <3>1. e \in Nat /\ ~ (e <= today)
      BY <1>3, <2>2 DEF Days
    <3> QED
      BY <1>1, <3>1
  <2>4. ~ Fixed(b, e)
    BY <2>3, LaterDayIsFree
  <2>5. r \in stay[e] /\ InReach(b, e) /\ Promotable(tr, b, t)
    BY <1>3, <2>2 DEF Spare
  <2>6. t \in Eligible(tr) /\ t \notin Taken(b, stay, e)
    BY <2>2, <2>4, <2>5, StaysGive
  <2>7. today \in today .. e - 1
    BY <1>1, <2>3 DEF Days
  <2>8. Held(b, today, stay[today]) \subseteq Taken(b, stay, e)
    BY <2>7 DEF Taken
  <2> QED
    BY <2>2, <2>3, <2>5, <2>6, <2>8 DEF TasksOf
<1> QED
  BY <1>3, <1>4, <1>5

LEMMA HeldShrinks ==
    ASSUME NEW b, NEW d, NEW rows, NEW S \in SUBSET rows
    PROVE  Held(b, d, S) \subseteq Held(b, d, rows)
BY DEF Held, TasksOf, Counted

LEMMA FillIsGood ==
    ASSUME PastOnly, NEW tr, NEW b, BoardInv(b), NEW stay, stay = Stays(tr, b),
           NEW F, F = Filling(tr, b, stay), NEW d \in Days, InReach(b, d)
    PROVE  GoodFill(tr, b, d, F[d])
<1> DEFINE pulled == Pulled(tr, b, stay)
           P == UNION {TasksOf(pulled[e]) : e \in Days}
           earlier == UNION {F[e].new : e \in today .. d - 1}
           rest == F[d].rest
           new == F[d].new
<1>1. today \in Days /\ today \in Nat /\ d \in Nat /\ d >= today
  BY DEF PastOnly, Days, InReach
<1>2. rest = stay[d] \ pulled[d] /\ new = Newcomers(tr, b, stay, pulled, d, earlier)
  BY <1>1, FillingIsSolved
<1>3. /\ pulled[d] \subseteq stay[d]
      /\ d <= today => pulled[d] = {}
      /\ IsFiniteSet(P) /\ Cardinality(P) <= Lacking(tr, b, stay)
      /\ \A t \in P : t \in Eligible(tr) /\ Promotable(tr, b, t)
      /\ P \cap Held(b, today, stay[today]) = {}
  BY PulledIsFound
<1>4. /\ stay[d] \subseteq Founded(tr, b, d)
      /\ Fixed(b, d) => stay[d] = Founded(tr, b, d)
      /\ ~ Fixed(b, d) => \A r \in stay[d] : r.task \in Eligible(tr)
      /\ IsFiniteSet(stay[d])
  <2>1. DaysCanGive(stay)
    BY StaysGive
  <2> QED
    BY <2>1, StaysGive DEF DaysCanGive
<1>5. Fixed(b, d) => d = today
  BY <1>1, LaterDayIsFree
<1> HIDE DEF pulled, P, earlier
<1>6. /\ rest \subseteq Founded(tr, b, d)
      /\ Fixed(b, d) => rest = Founded(tr, b, d)
      /\ ~ Fixed(b, d) => \A r \in rest : r.task \in Eligible(tr)
  <2>1. Fixed(b, d) => rest = stay[d]
    BY <1>1, <1>2, <1>3, <1>5
  <2> QED
    BY <1>2, <1>4, <2>1
<1>7. Queue(tr, b, stay) \subseteq Eligible(tr) /\ Queue(tr, b, stay) \cap Held(b, d, stay[d]) = {}
  BY DEF Queue
<1>8. Held(b, d, rest) \subseteq Held(b, d, stay[d])
  <2>1. rest \in SUBSET stay[d]
    BY <1>2
  <2> QED
    BY <2>1, HeldShrinks
<1>9. CASE d = today
  <2>1. new = FromQueue(tr, b, stay) \cup P /\ rest = stay[d]
    BY <1>1, <1>2, <1>3, <1>9 DEF Newcomers, P
  <2>2. /\ FromQueue(tr, b, stay) \subseteq Queue(tr, b, stay)
        /\ IsFiniteSet(FromQueue(tr, b, stay))
        /\ Cardinality(FromQueue(tr, b, stay)) \in Nat
        /\ Lacking(tr, b, stay) \in Nat
        /\ Cardinality(FromQueue(tr, b, stay)) + Lacking(tr, b, stay) = Room(b, today, stay[today])
    BY StaysGive
  <2>3. IsFiniteSet(new) /\ Cardinality(new) <= Room(b, d, rest)
    <3> DEFINE A == FromQueue(tr, b, stay)
               k == Cardinality(A)
               m == Lacking(tr, b, stay)
    <3>1. IsFiniteSet(A) /\ k \in Nat /\ m \in Nat /\ Cardinality(A) <= k /\ Cardinality(P) <= m
      BY <1>3, <2>2
    <3>2. new = A \cup P /\ Room(b, d, rest) = k + m
      BY <1>9, <2>1, <2>2
    <3> HIDE DEF A, k, m, new, rest
    <3>3. IsFiniteSet(A \cup P) /\ Cardinality(A \cup P) <= k + m
      BY <1>3, <3>1, UnionIsSmall
    <3> QED
      BY <3>2, <3>3
  <2>4. \A t \in new : Promotable(tr, b, t)
    BY <1>3, <2>1 DEF FromQueue, FirstTasks
  <2>5. \A t \in new : FreshLines(b, d, t) # {}
    BY <1>9, <2>4 DEF Promotable
  <2>6. new \subseteq Eligible(tr) /\ new \cap Held(b, d, rest) = {}
    BY <1>3, <1>7, <1>8, <1>9, <2>1, <2>2
  <2> QED
    BY <1>6, <2>3, <2>5, <2>6 DEF GoodFill
<1>10. CASE d # today
  <2> DEFINE q == Queue(tr, b, stay) \ earlier
             n == Room(b, d, rest)
  <2>1. new = FirstTasks(q, n)
    BY <1>1, <1>2, <1>10 DEF Newcomers
  <2>2. IsFiniteSet(rest)
    BY <1>2, <1>4, FS_Subset
  <2>3. q \in SUBSET Tasks /\ n \in Nat
    BY <2>2, RoomIs DEF Queue, Eligible
  <2>4. q \subseteq Queue(tr, b, stay)
    OBVIOUS
  <2> HIDE DEF q, n, rest, new
  <2>5. new \subseteq q /\ IsFiniteSet(new) /\ Cardinality(new) <= n
    BY <2>1, <2>3, FirstTasksAreFew
  <2>6. new \subseteq Eligible(tr) /\ new \cap Held(b, d, rest) = {}
    BY <1>7, <1>8, <2>4, <2>5
  <2>7. GoodFill(tr, b, d, F[d])
    BY <1>6, <1>10, <2>5, <2>6 DEF GoodFill, n, rest, new
  <2> QED
    BY <2>7
<1> QED
  BY <1>9, <1>10

\* A row that is added starts a line that is free.
LEMMA LineForIsALine ==
    ASSUME NEW b, NEW d, NEW t, Fixed(b, d) => FreshLines(b, d, t) # {}
    PROVE  LineFor(b, d, t) \in 1 .. MaxLines
<1>1. CASE ~ Fixed(b, d)
  BY <1>1, BoundsAssumption DEF LineFor
<1>2. CASE Fixed(b, d)
  <2> DEFINE T == FreshLines(b, d, t)
  <2>1. T \in SUBSET Nat /\ T # {} /\ T \subseteq 1 .. MaxLines
    BY <1>2 DEF FreshLines
  <2>2. LineFor(b, d, t) = CHOOSE x \in T : \A y \in T : x <= y
    BY <1>2 DEF LineFor, Min
  <2> HIDE DEF T
  <2>3. \E x \in T : \A y \in T : x <= y
    BY <2>1, LeastNumber
  <2>4. LineFor(b, d, t) \in T
    BY <2>2, <2>3
  <2> QED
    BY <2>1, <2>4
<1> QED
  BY <1>1, <1>2

LEMMA NewRowIsAPromise ==
    ASSUME NEW t \in Tasks, NEW n \in 1 .. MaxLines, NEW scope \in SUBSET Tasks
    PROVE  /\ NewRow(t, n, scope) \in Row
           /\ NewRow(t, n, scope).task = t
           /\ NewRow(t, n, scope).st = "planned" /\ NewRow(t, n, scope).how = "none"
BY DEF NewRow, Row

\* A rewritten row follows its task's first line.
LEMMA CopyIsARow ==
    ASSUME NEW r \in Row
    PROVE  LET q == [r EXCEPT !.line = 1, !.scope = {}] IN
           /\ q \in Row /\ q.task = r.task /\ q.st = r.st /\ q.how = r.how /\ q.cited = r.cited
<1>1. 1 \in 1 .. MaxLines
  BY BoundsAssumption
<1> QED
  BY <1>1 DEF Row

LEMMA EligibleAreTasks ==
    ASSUME NEW tr
    PROVE  Eligible(tr) \subseteq Tasks /\ \A t \in Eligible(tr) : Executable(tr, t)
BY DEF Eligible

Appended(b, d, f) == {NewRow(t, LineFor(b, d, t), {}) : t \in f.new}
Remaining(b, d, f) ==
    IF Fixed(b, d) \/ (f.new = {} /\ f.rest = b.items[d]) THEN f.rest ELSE Copied(f.rest)

LEMMA AppendedArePromises ==
    ASSUME PastOnly, NEW tr, NEW b, BoardInv(b), NEW d \in Days, InReach(b, d), NEW f, GoodFill(tr, b, d, f)
    PROVE  /\ Promises(Appended(b, d, f))
           /\ IsFiniteSet(Appended(b, d, f))
           /\ Cardinality(Appended(b, d, f)) <= Cardinality(f.new)
           /\ TasksOf(Appended(b, d, f)) = f.new
<1> DEFINE row == [t \in f.new |-> NewRow(t, LineFor(b, d, t), {})]
           N == {row[t] : t \in f.new}
<1>1. d # today => ~ Fixed(b, d)
  <2>1. d >= today /\ d \in Nat /\ today \in Nat
    BY DEF InReach, PastOnly, Days
  <2> QED
    BY <2>1, LaterDayIsFree
<1>2. ASSUME NEW t \in f.new
      PROVE  row[t] \in Row /\ row[t].task = t /\ row[t].st = "planned" /\ row[t].how = "none"
  <2>1. t \in Tasks
    BY EligibleAreTasks DEF GoodFill
  <2>2. LineFor(b, d, t) \in 1 .. MaxLines
    BY <1>1, LineForIsALine DEF GoodFill
  <2> QED
    BY <2>1, <2>2, NewRowIsAPromise
<1>3. N = Appended(b, d, f)
  BY DEF Appended
<1> HIDE DEF row
<1>4. IsFiniteSet(N) /\ Cardinality(N) <= Cardinality(f.new)
  BY ImageIsSmaller DEF GoodFill
<1>5. Promises(N)
  BY <1>2 DEF Promises, OnePerTask
<1>6. TasksOf(N) = f.new
  BY <1>2 DEF TasksOf
<1> QED
  BY <1>3, <1>4, <1>5, <1>6

\* What remains is the rows that stay, or copies of them.
LEMMA RemainingIsKept ==
    ASSUME PastOnly, NEW tr, NEW b, BoardInv(b), NEW d \in Days, NEW f, GoodFill(tr, b, d, f)
    PROVE  /\ DayInv(d, Remaining(b, d, f))
           /\ Cardinality(Remaining(b, d, f)) <= Cardinality(f.rest)
           /\ IsFiniteSet(f.rest)
           /\ TasksOf(Remaining(b, d, f)) = TasksOf(f.rest)
<1>1. f.rest \in SUBSET b.items[d]
  BY KeptIsThere DEF GoodFill
<1>2. DayInv(d, f.rest)
  BY <1>1, SmallerDay DEF BoardInv
<1>3. IsFiniteSet(f.rest) /\ Cardinality(f.rest) \in Nat /\ f.rest \subseteq Row
  BY <1>2, FS_CardinalityType DEF DayInv, WellFormed
<1>4. CASE Remaining(b, d, f) = f.rest
  BY <1>2, <1>3, <1>4
<1>5. CASE Remaining(b, d, f) # f.rest
  <2> DEFINE copy == [r \in f.rest |-> [r EXCEPT !.line = 1, !.scope = {}]]
  <2>1. ~ Fixed(b, d) /\ Remaining(b, d, f) = {copy[r] : r \in f.rest}
    BY <1>5 DEF Remaining, Copied
  <2>2. ASSUME NEW r \in f.rest
        PROVE  /\ copy[r] \in Row /\ copy[r].task = r.task /\ copy[r].st = r.st /\ copy[r].how = r.how
               /\ Succeeds(d, r, copy[r])
    <3>1. copy[r] \in Row /\ copy[r].task = r.task /\ copy[r].st = r.st /\ copy[r].how = r.how
      BY <1>3, CopyIsARow
    <3>2. r.st # "satisfied"
      BY <1>1, <2>1 DEF Fixed, Protected
    <3>3. r.how # "time"
      BY <1>2, <3>2 DEF DayInv, Backed
    <3> HIDE DEF copy
    <3> QED
      BY <3>1, <3>2, <3>3 DEF Succeeds, Backed
  <2> HIDE DEF copy
  <2>3. DayInv(d, Remaining(b, d, f))
    BY <1>2, <2>1, <2>2, MappedDay
  <2>4. Cardinality(Remaining(b, d, f)) <= Cardinality(f.rest)
    BY <1>3, <2>1, ImageIsSmaller
  <2>5. TasksOf(Remaining(b, d, f)) = TasksOf(f.rest)
    BY <2>1, <2>2 DEF TasksOf
  <2> QED
    BY <1>3, <2>3, <2>4, <2>5
<1> QED
  BY <1>4, <1>5

LEMMA DayRowsAre ==
    ASSUME NEW b, NEW d, NEW f
    PROVE  DayRows(b, d, f) = Remaining(b, d, f) \cup Appended(b, d, f)
BY DEF DayRows, Remaining, Appended

LEMMA ScheduledDay ==
    ASSUME PastOnly, NEW tr, NEW b, BoardInv(b), NEW d \in Days, InReach(b, d), NEW f, GoodFill(tr, b, d, f)
    PROVE  DayInv(d, DayRows(b, d, f))
<1> DEFINE rows == Remaining(b, d, f)
           N == Appended(b, d, f)
<1>1. DayInv(d, rows) /\ Cardinality(rows) <= Cardinality(f.rest) /\ IsFiniteSet(f.rest)
      /\ TasksOf(rows) = TasksOf(f.rest)
  BY RemainingIsKept
<1>2. Promises(N) /\ IsFiniteSet(N) /\ Cardinality(N) <= Cardinality(f.new) /\ TasksOf(N) = f.new
  BY AppendedArePromises
<1>3. d > today => ~ Fixed(b, d)
  BY LaterDayIsFree
<1>4. ~ Fixed(b, d) => \A r \in N : r.task \notin TasksOf(rows)
  BY <1>1, <1>2 DEF GoodFill, Held, TasksOf
<1>5. \A r \in N : r.task \notin TasksOf(Counted(rows))
  <2>1. CASE ~ Fixed(b, d)
    BY <1>4, <2>1 DEF TasksOf, Counted
  <2>2. CASE Fixed(b, d)
    <3>1. rows = f.rest
      BY <2>2 DEF Remaining
    <3> QED
      BY <1>2, <2>2, <3>1 DEF GoodFill, Held, TasksOf
  <2> QED
    BY <2>1, <2>2
<1>6. IsFiniteSet(Counted(rows)) /\ Cardinality(Counted(rows)) \in Nat /\ Cardinality(Counted(rows)) <= Slots
  BY <1>1, CountedIsFinite DEF DayInv, WellFormed, WithinRoom
<1>7. Cardinality(Counted(rows)) + Cardinality(N) <= Slots
  <2> DEFINE n == Room(b, d, f.rest)
  <2>1. n \in Nat /\ (n > 0 => Cardinality(f.rest) + n <= Slots)
    BY <1>1, RoomIs
  <2>2. Cardinality(N) \in Nat /\ Cardinality(f.new) \in Nat /\ Cardinality(f.new) <= n
    BY <1>2, FS_CardinalityType DEF GoodFill
  <2>3. Cardinality(f.rest) \in Nat
    BY <1>1, FS_CardinalityType
  <2>4. Cardinality(Counted(rows)) <= Cardinality(f.rest)
    <3>1. IsFiniteSet(rows) /\ Counted(rows) \in SUBSET rows
      BY <1>1 DEF DayInv, WellFormed, Counted
    <3>2. Cardinality(Counted(rows)) <= Cardinality(rows) /\ Cardinality(rows) \in Nat
      BY <3>1, FS_Subset, FS_CardinalityType
    <3> HIDE DEF rows
    <3> QED
      BY <1>1, <1>6, <2>3, <3>2
  <2> HIDE DEF n, rows, N
  <2>5. CASE n = 0
    BY <1>2, <1>6, <2>2, <2>5, BoundsAssumption
  <2>6. CASE n > 0
    BY <1>2, <1>6, <2>1, <2>2, <2>3, <2>4, <2>6, BoundsAssumption
  <2> QED
    BY <2>1, <2>5, <2>6
<1> HIDE DEF rows, N
<1>8. DayInv(d, rows \cup N)
  <2>1. d > today => \A r \in N : r.task \notin TasksOf(rows)
    BY <1>3, <1>4
  <2> QED
    BY <1>1, <1>2, <1>5, <1>7, <2>1, GrownDay
<1> QED
  BY <1>8, DayRowsAre DEF rows, N

-----------------------------------------------------------------------------
(* What a transaction of the scheduler leaves.                             *)

\* A promise that is closed or withdrawn, or whose scope is forgotten.
Retires(r, q) ==
    /\ q \in Row /\ q.task = r.task /\ q.line = r.line /\ q.how = r.how /\ q.cited = r.cited
    /\ q.st = r.st \/ (r.st = "planned" /\ q.st \in {"skipped", "not_completed"})

LEMMA RetiredRowSucceeds ==
    ASSUME NEW d, NEW rows, DayInv(d, rows), NEW r \in rows, NEW q, Retires(r, q)
    PROVE  Succeeds(d, r, q)
<1>1. Backed(d, r)
  BY DEF DayInv
<1>2. LineOf(d, q) = LineOf(d, r)
  BY DEF LineOf, Retires
<1>3. Backed(d, q)
  BY <1>1, <1>2 DEF Backed, Retires
<1>4. d > today => r.st # "satisfied"
  BY DEF DayInv, Ahead
<1> QED
  BY <1>3, <1>4 DEF Succeeds, Retires

LEMMA RetiredDay ==
    ASSUME NEW d, NEW rows, DayInv(d, rows), NEW f, \A r \in rows : Retires(r, f[r])
    PROVE  DayInv(d, {f[r] : r \in rows})
BY RetiredRowSucceeds, MappedDay

LEMMA MissedDay ==
    ASSUME NEW d, NEW rows, DayInv(d, rows)
    PROVE  DayInv(d, Missed(rows))
<1> DEFINE f == [r \in rows |-> IF r.st = "planned" THEN [r EXCEPT !.st = "not_completed"] ELSE r]
<1>1. Missed(rows) = {f[r] : r \in rows}
  BY DEF Missed
<1>2. ASSUME NEW r \in rows PROVE Retires(r, f[r])
  <2>1. r \in Row
    BY DEF DayInv, WellFormed
  <2> QED
    BY <2>1 DEF Retires, Row
<1> HIDE DEF f
<1> QED
  BY <1>1, <1>2, RetiredDay

LEMMA ExpiredBoard ==
    ASSUME NEW b, BoardInv(b)
    PROVE  /\ BoardInv(Expired(b))
           /\ \A d \in Days : ~ (d < today) =>
                 Expired(b).plans[d] = b.plans[d] /\ Expired(b).items[d] = b.items[d]
<1> DEFINE x == Expired(b)
           over == {d \in Days : d < today /\ b.plans[d].status = "active"}
<1>1. /\ x.plans = [d \in Days |-> IF d \in over THEN [b.plans[d] EXCEPT !.status = "closed"] ELSE b.plans[d]]
      /\ x.items = [d \in Days |-> IF d \in over THEN Missed(b.items[d]) ELSE b.items[d]]
      /\ x = [plans |-> x.plans, items |-> x.items]
  BY DEF Expired
<1>2. b.plans \in [Days -> Plan] /\ b.items \in [Days -> SUBSET Row]
  BY DEF BoardInv, Boards
<1> HIDE DEF x
<1>3. ASSUME NEW d \in Days PROVE DayInv(d, x.items[d])
  BY <1>1, MissedDay DEF BoardInv
<1>4. x.plans \in [Days -> Plan]
  BY <1>1, <1>2 DEF Plan
<1>5. x.items \in [Days -> SUBSET Row]
  <2>1. \A d \in Days : x.items[d] \in SUBSET Row
    BY <1>3 DEF DayInv, WellFormed
  <2> HIDE DEF over
  <2> QED
    BY <1>1, <2>1
<1>6. x \in Boards
  BY <1>1, <1>4, <1>5 DEF Boards
<1>7. ASSUME NEW d \in Days, x.plans[d].status = "none" PROVE x.items[d] = {}
  <2>1. d \notin over
    BY <1>1, <1>2, <1>7 DEF Plan
  <2> QED
    BY <1>1, <1>7, <2>1 DEF BoardInv
<1> QED
  BY <1>1, <1>3, <1>6, <1>7 DEF BoardInv, x

LEMMA ScheduledBoard ==
    ASSUME PastOnly, NEW tr, NEW b, BoardInv(b)
    PROVE  BoardInv(Scheduled(tr, b, Filling(tr, b, Stays(tr, b))))
<1> DEFINE F == Filling(tr, b, Stays(tr, b))
           x == Scheduled(tr, b, F)
<1>1. \A d \in Days : InReach(b, d) => GoodFill(tr, b, d, F[d])
  BY FillIsGood
<1> HIDE DEF F
<1>2. /\ x.plans = [d \in Days |->
            IF ~ InReach(b, d) THEN b.plans[d]
            ELSE [b.plans[d] EXCEPT !.status = "active",
                    !.frozen = @ \/ /\ d = today /\ ~ b.plans[d].removed
                                    /\ F[d].new # {} \/ F[d].rest # {}
                                    /\ ~ Withdrawn(b, d, F[d].rest)]]
      /\ x.items = [d \in Days |-> IF InReach(b, d) THEN DayRows(b, d, F[d]) ELSE b.items[d]]
      /\ x = [plans |-> x.plans, items |-> x.items]
  BY DEF Scheduled
<1>3. b.plans \in [Days -> Plan] /\ b.items \in [Days -> SUBSET Row]
  BY DEF BoardInv, Boards
<1> HIDE DEF x
<1>4. ASSUME NEW d \in Days PROVE DayInv(d, x.items[d])
  <2>1. CASE InReach(b, d)
    <3>1. DayInv(d, DayRows(b, d, F[d]))
      BY <1>1, <2>1, ScheduledDay
    <3> QED
      BY <1>2, <2>1, <3>1
  <2>2. CASE ~ InReach(b, d)
    BY <1>2, <2>2 DEF BoardInv
  <2> QED
    BY <2>1, <2>2
<1>5. ASSUME NEW d \in Days
      PROVE  x.plans[d] \in Plan /\ (InReach(b, d) => x.plans[d].status = "active")
  <2>1. b.plans[d] \in Plan
    BY <1>3
  <2>2. CASE ~ InReach(b, d)
    BY <1>2, <2>1, <2>2
  <2>3. CASE InReach(b, d)
    <3> DEFINE fr == b.plans[d].frozen \/ /\ d = today /\ ~ b.plans[d].removed
                                          /\ F[d].new # {} \/ F[d].rest # {}
                                          /\ ~ Withdrawn(b, d, F[d].rest)
    <3>1. x.plans[d] = [b.plans[d] EXCEPT !.status = "active", !.frozen = fr]
      BY <1>2, <2>1, <2>3
    <3>2. fr \in BOOLEAN
      OBVIOUS
    <3> HIDE DEF fr
    <3> QED
      BY <2>1, <3>1, <3>2 DEF Plan
  <2> QED
    BY <2>2, <2>3
<1>6. x.plans \in [Days -> Plan]
  BY <1>2, <1>5
<1>7. x.items \in [Days -> SUBSET Row]
  <2>1. \A d \in Days : x.items[d] \in SUBSET Row
    BY <1>4 DEF DayInv, WellFormed
  <2> QED
    BY <1>2, <2>1
<1>8. x \in Boards
  BY <1>2, <1>6, <1>7 DEF Boards
<1>9. ASSUME NEW d \in Days, x.plans[d].status = "none" PROVE x.items[d] = {}
  <2>1. ~ InReach(b, d)
    BY <1>5, <1>9
  <2>2. x.plans[d] = b.plans[d] /\ x.items[d] = b.items[d]
    BY <1>2, <2>1
  <2> QED
    BY <1>9, <2>2 DEF BoardInv
<1> QED
  BY <1>4, <1>8, <1>9 DEF BoardInv, x, F

LEMMA RescheduledBoard ==
    ASSUME PastOnly, NEW tr, NEW b, BoardInv(b)
    PROVE  BoardInv(Rescheduled(tr, b))
BY ExpiredBoard, ScheduledBoard DEF Rescheduled

\* What Released does to the rows of today.
Withdraw(tr, r) == IF r.st = "planned" /\ ~ Executable(tr, r.task) THEN [r EXCEPT !.st = "skipped"] ELSE r

Withdrawals(tr, rows) == {Withdraw(tr, r) : r \in rows}

LEMMA ReleasedIs ==
    ASSUME NEW tr, NEW b, BoardInv(b), today \in Days
    PROVE  /\ Released(tr, b).plans = b.plans
           /\ \A d \in Days : d # today => Released(tr, b).items[d] = b.items[d]
           /\ Released(tr, b).items[today] =
                 IF b.plans[today].status # "active" THEN b.items[today]
                 ELSE Withdrawals(tr, b.items[today])
           /\ BoardInv(Released(tr, b))
<1> DEFINE x == Released(tr, b)
           f == [r \in b.items[today] |-> Withdraw(tr, r)]
           rows == {f[r] : r \in b.items[today]}
<1>1. b.plans \in [Days -> Plan] /\ b.items \in [Days -> SUBSET Row]
      /\ b = [plans |-> b.plans, items |-> b.items]
  BY DEF BoardInv, Boards
<1>2. CASE b.plans[today].status # "active"
  <2>1. x = b
    BY <1>2 DEF Released
  <2> QED
    BY <1>2, <2>1
<1>3. CASE b.plans[today].status = "active"
  <2>1. x = [b EXCEPT !.items = [b.items EXCEPT ![today] = rows]]
    BY <1>3 DEF Released, Withdraw
  <2>2. ASSUME NEW r \in b.items[today] PROVE Retires(r, f[r])
    <3>1. r \in Row
      BY <1>1
    <3> QED
      BY <3>1 DEF Retires, Row, Withdraw
  <2>3. rows = Withdrawals(tr, b.items[today])
    BY DEF Withdrawals
  <2> HIDE DEF f
  <2>4. DayInv(today, rows)
    BY <2>2, RetiredDay DEF BoardInv
  <2> HIDE DEF x, rows
  <2>5. /\ x.plans = b.plans
        /\ x.items = [b.items EXCEPT ![today] = rows]
        /\ x = [plans |-> x.plans, items |-> x.items]
    BY <1>1, <2>1
  <2>6. x.items[today] = rows /\ \A d \in Days : d # today => x.items[d] = b.items[d]
    BY <1>1, <2>5
  <2>7. \A d \in Days : DayInv(d, x.items[d])
    BY <2>4, <2>6 DEF BoardInv
  <2>8. x \in Boards
    <3>1. rows \in SUBSET Row
      BY <2>4 DEF DayInv, WellFormed
    <3> QED
      BY <1>1, <2>5, <3>1 DEF Boards
  <2>9. ASSUME NEW d \in Days, x.plans[d].status = "none" PROVE x.items[d] = {}
    BY <1>3, <2>5, <2>6, <2>9 DEF BoardInv
  <2>10. BoardInv(x)
    BY <2>7, <2>8, <2>9 DEF BoardInv
  <2> QED
    BY <1>3, <2>3, <2>5, <2>6, <2>10 DEF x
<1> QED
  BY <1>2, <1>3

LEMMA FrozenIs ==
    ASSUME NEW b, BoardInv(b), today \in Days
    PROVE  /\ Frozen(b).items = b.items
           /\ \A d \in Days : d # today => Frozen(b).plans[d] = b.plans[d]
           /\ b.plans[today].status # "none" => Frozen(b).plans[today].status = b.plans[today].status
           /\ BoardInv(Frozen(b))
<1> DEFINE x == Frozen(b)
           q == [b.plans[today] EXCEPT !.frozen = TRUE]
           v == IF b.plans[today].status = "none" THEN "active" ELSE b.plans[today].status
           p == [q EXCEPT !.status = v]
           y == [b EXCEPT !.plans = [b.plans EXCEPT ![today] = q]]
<1>1. b.plans \in [Days -> Plan] /\ b.items \in [Days -> SUBSET Row]
      /\ b = [plans |-> b.plans, items |-> b.items]
  BY DEF BoardInv, Boards
<1>2. x = [b EXCEPT !.plans = [b.plans EXCEPT ![today] = p]]
  <2>1. x = [y EXCEPT !.plans = [y.plans EXCEPT ![today] = [y.plans[today] EXCEPT !.status = v]]]
    <3> HIDE DEF v
    <3> QED
      BY DEF Frozen, v
  <2> HIDE DEF x, v, q
  <2>2. y = [plans |-> y.plans, items |-> b.items] /\ y.plans = [b.plans EXCEPT ![today] = q]
    BY <1>1
  <2>3. y.plans[today] = q
    BY <1>1, <2>2
  <2> HIDE DEF y
  <2>4. x = [plans |-> [y.plans EXCEPT ![today] = p], items |-> b.items]
    BY <2>1, <2>2, <2>3
  <2>5. [y.plans EXCEPT ![today] = p] = [b.plans EXCEPT ![today] = p]
    <3> HIDE DEF p
    <3> QED
      BY <1>1, <2>2
  <2> HIDE DEF p
  <2> QED
    BY <1>1, <2>4, <2>5
<1>3. b.plans[today] \in Plan
  BY <1>1
<1>4. p \in Plan /\ p.status # "none"
      /\ (b.plans[today].status # "none" => p.status = b.plans[today].status)
  BY <1>3 DEF Plan
<1> HIDE DEF x, p
<1>5. /\ x.items = b.items
      /\ x.plans = [b.plans EXCEPT ![today] = p]
      /\ x = [plans |-> x.plans, items |-> x.items]
  BY <1>1, <1>2
<1>6. x.plans[today] = p /\ \A d \in Days : d # today => x.plans[d] = b.plans[d]
  BY <1>1, <1>5
<1>7. x \in Boards
  BY <1>1, <1>4, <1>5 DEF Boards
<1>8. BoardInv(x)
  BY <1>4, <1>5, <1>6, <1>7 DEF BoardInv
<1> QED
  BY <1>4, <1>5, <1>6, <1>8 DEF x

-----------------------------------------------------------------------------
(* The inductive invariant, and what a step has to show.                   *)

Sound == PastOnly /\ BoardInv(Board) /\ tree \in [Tasks -> Node]
PlanInv == Sound /\ edits \in 0 .. MaxEdits

LEMMA BackedStands ==
    ASSUME sessions' = sessions, NEW d, NEW r, Backed(d, r)
    PROVE  Backed(d, r)'
BY DEF Backed, Reached, MinutesOf, Counting, LineOf

\* A step that posts a sound board and takes no backing away leaves one.
LEMMA BoardStands ==
    ASSUME today \in Days, today' \in Days, today' >= today, NEW x, BoardInv(x), Posted(x),
           \A d \in Days : \A r \in x.items[d] : Backed(d, r)'
    PROVE  BoardInv(Board)'
<1>1. plans' = x.plans /\ items' = x.items /\ x \in Boards
  BY DEF Posted, BoardInv
<1>2. Board' \in Boards
  BY <1>1 DEF Board, Boards
<1>3. ASSUME NEW d \in Days PROVE DayInv(d, items[d])'
  <2>1. DayInv(d, items'[d])
    BY <1>1 DEF BoardInv
  <2>2. WellFormed(items[d])' /\ WithinRoom(items[d])' /\ Once(items[d])'
    BY <2>1 DEF DayInv, WellFormed, WithinRoom, Once, Counted
  <2>3. (\A r \in items[d] : Backed(d, r))'
    BY <1>1
  <2>4. Ahead(d, items[d])'
    <3>1. d > today' => d > today
      BY DEF Days
    <3> QED
      BY <2>1, <3>1 DEF DayInv, Ahead, OnePerTask
  <2> QED
    BY <2>2, <2>3, <2>4 DEF DayInv
<1>4. \A d \in Days : plans'[d].status = "none" => items'[d] = {}
  BY <1>1 DEF BoardInv
<1> QED
  BY <1>2, <1>3, <1>4 DEF BoardInv, Board

\* A transaction on the plans, whatever becomes of the tree.
LEMMA PlansChange ==
    ASSUME Sound, today' = today, sessions' = sessions, NEW x, BoardInv(x), Posted(x),
           tree' \in [Tasks -> Node],
           \A l \in events' : l \in events \/ (l \in Lines /\ l.day <= today)
    PROVE  Sound'
<1>1. \A d \in Days : \A r \in x.items[d] : Backed(d, r)'
  BY BackedStands DEF BoardInv, DayInv
<1>2. today \in Days /\ today' \in Days /\ today' >= today
  BY DEF Sound, PastOnly, Days
<1>3. BoardInv(Board)'
  BY <1>1, <1>2, BoardStands
<1>4. PastOnly'
  BY DEF Sound, PastOnly
<1> QED
  BY <1>3, <1>4 DEF Sound

\* A transaction on one plan.
LEMMA DayChanges ==
    ASSUME Sound, OnPlans, NEW d \in Days, NEW rows, DayInv(d, rows),
           NEW p \in Plan, p.status = "none" => rows = {},
           plans' = [plans EXCEPT ![d] = p], items' = [items EXCEPT ![d] = rows],
           \A l \in events' : l \in events \/ (l \in Lines /\ l.day <= today)
    PROVE  Sound'
<1> DEFINE x == [plans |-> plans', items |-> items']
<1>1. plans \in [Days -> Plan] /\ items \in [Days -> SUBSET Row]
  BY DEF Sound, BoardInv, Board, Boards
<1>2. x.plans = plans' /\ x.items = items'
  OBVIOUS
<1>3. x \in Boards
  <2>1. rows \in SUBSET Row
    BY DEF DayInv, WellFormed
  <2> QED
    BY <1>1, <2>1 DEF Boards
<1> HIDE DEF x
<1>4. \A e \in Days : DayInv(e, x.items[e])
  BY <1>1, <1>2 DEF Sound, BoardInv, Board
<1>5. \A e \in Days : x.plans[e].status = "none" => x.items[e] = {}
  BY <1>1, <1>2 DEF Sound, BoardInv, Board
<1>6. BoardInv(x) /\ Posted(x)
  BY <1>2, <1>3, <1>4, <1>5 DEF BoardInv, Posted
<1> QED
  BY <1>6, PlansChange DEF OnPlans, Sound

\* What is there of a day in a sound state.
LEMMA DayIsSound ==
    ASSUME Sound, NEW d \in Days
    PROVE  /\ DayInv(d, items[d]) /\ items[d] \subseteq Row /\ IsFiniteSet(items[d])
           /\ plans[d] \in Plan
           /\ plans[d].status = "none" => items[d] = {}
           /\ plans \in [Days -> Plan] /\ items \in [Days -> SUBSET Row]
BY DEF Sound, BoardInv, Board, Boards, DayInv, WellFormed

\* The rows for the tasks somebody chose.
LEMMA ChosenArePromises ==
    ASSUME NEW S \in SUBSET Tasks, IsFiniteSet(S),
           NEW line, \A t \in S : line[t] \in 1 .. MaxLines,
           NEW scope, \A t \in S : scope[t] \in SUBSET Tasks,
           NEW N, N = {NewRow(t, line[t], scope[t]) : t \in S}
    PROVE  /\ Promises(N) /\ IsFiniteSet(N) /\ Cardinality(N) <= Cardinality(S)
           /\ TasksOf(N) = S
<1> DEFINE row == [t \in S |-> NewRow(t, line[t], scope[t])]
           M == {row[t] : t \in S}
<1>1. M = N
  OBVIOUS
<1>2. ASSUME NEW t \in S
      PROVE  row[t] \in Row /\ row[t].task = t /\ row[t].st = "planned" /\ row[t].how = "none"
  BY NewRowIsAPromise
<1> HIDE DEF row
<1>3. IsFiniteSet(M) /\ Cardinality(M) <= Cardinality(S)
  BY ImageIsSmaller
<1>4. Promises(M) /\ TasksOf(M) = S
  BY <1>2 DEF Promises, OnePerTask, TasksOf
<1> HIDE DEF M
<1> QED
  BY <1>1, <1>3, <1>4

\* Rows that fill up what the ones that stay leave free.
LEMMA RoomLeft ==
    ASSUME NEW d, NEW rows, DayInv(d, rows), NEW K, IsFiniteSet(K), Cardinality(rows) <= Cardinality(K),
           NEW N, IsFiniteSet(N), Cardinality(N) <= Missing(Cardinality(K))
    PROVE  Cardinality(Counted(rows)) + Cardinality(N) <= Slots
<1>1. IsFiniteSet(rows) /\ IsFiniteSet(Counted(rows)) /\ Counted(rows) \in SUBSET rows
      /\ Cardinality(Counted(rows)) <= Slots
  BY CountedIsFinite DEF DayInv, WellFormed, WithinRoom, Counted
<1>2. /\ Cardinality(rows) \in Nat /\ Cardinality(Counted(rows)) \in Nat
      /\ Cardinality(K) \in Nat /\ Cardinality(N) \in Nat
      /\ Cardinality(Counted(rows)) <= Cardinality(rows)
  BY <1>1, FS_CardinalityType, FS_Subset
<1> QED
  BY <1>1, <1>2, BoundsAssumption DEF Missing

\* A row that is replaced by what it may become.
LEMMA ReplacedDay ==
    ASSUME NEW d, NEW rows, DayInv(d, rows), NEW r \in rows, NEW q, Succeeds(d, r, q)
    PROVE  DayInv(d, (rows \ {r}) \cup {q})
<1> DEFINE f == [x \in rows |-> IF x = r THEN q ELSE x]
<1>1. {f[x] : x \in rows} = (rows \ {r}) \cup {q}
  OBVIOUS
<1>2. ASSUME NEW x \in rows PROVE Succeeds(d, x, f[x])
  <2>1. Succeeds(d, x, x)
    BY DEF DayInv, WellFormed, Succeeds, Ahead
  <2> QED
    BY <2>1
<1> HIDE DEF f
<1> QED
  BY <1>1, <1>2, MappedDay

-----------------------------------------------------------------------------
(* The operations on plans keep the invariant.                             *)

LEMMA AboveAreTasks ==
    ASSUME NEW tr, NEW t
    PROVE  Above(tr, t) \in SUBSET Tasks
BY DEF Above

LEMMA CandidatesAreTasks ==
    ASSUME NEW asked
    PROVE  Candidates(asked) \in SUBSET Tasks
BY EligibleAreTasks DEF Candidates

\* An empty day is a sound one.
LEMMA EmptyDay ==
    ASSUME Sound, NEW d \in Days
    PROVE  DayInv(d, {})
<1>1. DayInv(d, items[d])
  BY DayIsSound
<1> QED
  BY <1>1, SmallerDay

LEMMA CreateKeepsSound ==
    ASSUME Sound, NEW d \in Days, NEW asked, NEW scoped, CreateDailyPlan(d, asked, scoped)
    PROVE  Sound'
<1> DEFINE chosen == FirstTasks(Candidates(asked), Slots)
           line == [t \in chosen |-> 1]
           scope == [t \in chosen |-> IF scoped THEN Above(tree, t) ELSE {}]
           N == {NewRow(t, line[t], scope[t]) : t \in chosen}
           p == [status |-> "active", removed |-> FALSE, frozen |-> d <= today /\ chosen # {}]
<1>1. chosen \in SUBSET Tasks /\ IsFiniteSet(chosen) /\ Cardinality(chosen) \in Nat
      /\ Cardinality(chosen) <= Slots
  BY CandidatesAreTasks, FirstTasksAreFew, BoundsAssumption
<1>2. /\ plans' = [plans EXCEPT ![d] = p]
      /\ items' = [items EXCEPT ![d] = N]
      /\ events' = events /\ OnPlans
  BY DEF CreateDailyPlan
<1>3. p \in Plan /\ p.status # "none"
  BY DEF Plan
<1>4. \A t \in chosen : line[t] \in 1 .. MaxLines /\ scope[t] \in SUBSET Tasks
  BY AboveAreTasks, BoundsAssumption
<1> HIDE DEF chosen, line, scope, p
<1>5. Promises(N) /\ IsFiniteSet(N) /\ Cardinality(N) <= Cardinality(chosen)
  BY <1>1, <1>4, ChosenArePromises
<1> HIDE DEF N
<1>6. DayInv(d, {} \cup N)
  <2>1. Counted({}) = {} /\ TasksOf({}) = {} /\ Cardinality({}) = 0
    BY FS_EmptySet DEF Counted, TasksOf
  <2>2. Cardinality(N) \in Nat /\ 0 + Cardinality(N) <= Slots
    BY <1>1, <1>5, FS_CardinalityType, BoundsAssumption
  <2>3. DayInv(d, {})
    BY EmptyDay
  <2> QED
    BY <1>5, <2>1, <2>2, <2>3, GrownDay
<1>7. DayInv(d, N)
  BY <1>6
<1> QED
  BY <1>2, <1>3, <1>7, DayChanges

LEMMA ContinuedIsALine ==
    ASSUME Sound, NEW d \in Days, NEW t
    PROVE  Continued(d, t) \in 1 .. MaxLines
<1> DEFINE own == {q \in items[d] : q.task = t}
           f == [r \in own |-> r.line]
           lines == {f[r] : r \in own}
<1>1. items[d] \subseteq Row /\ IsFiniteSet(items[d])
  BY DayIsSound
<1>2. lines \subseteq 1 .. MaxLines
  BY <1>1 DEF Row
<1>3. IsFiniteSet(lines)
  <2>1. IsFiniteSet(own)
    BY <1>1, FS_Subset
  <2> HIDE DEF f, own
  <2> QED
    BY <2>1, ImageIsSmaller
<1>4. Continued(d, t) = IF lines = {} THEN 1 ELSE Max(lines)
  <2>1. lines = {r.line : r \in own}
    OBVIOUS
  <2> QED
    BY <2>1 DEF Continued
<1> HIDE DEF lines
<1>5. CASE lines = {}
  BY <1>4, <1>5, BoundsAssumption
<1>6. CASE lines # {}
  <2>1. lines \in SUBSET Nat
    BY <1>2
  <2>2. \E m \in lines : \A y \in lines : y <= m
    BY <1>3, <1>6, <2>1, FiniteSetHasGreatest
  <2>3. Max(lines) = CHOOSE m \in lines : \A y \in lines : y <= m
    BY <2>1 DEF Max
  <2>4. Max(lines) \in lines
    BY <2>2, <2>3
  <2> QED
    BY <1>2, <1>4, <1>6, <2>4
<1> QED
  BY <1>5, <1>6

\* The rows a replan keeps lose their scope.
Unscoped(rows) == {[r EXCEPT !.scope = {}] : r \in rows}

LEMMA UnscopedDay ==
    ASSUME NEW d, NEW rows, DayInv(d, rows), NEW kept \in SUBSET rows
    PROVE  /\ DayInv(d, Unscoped(kept))
           /\ IsFiniteSet(kept) /\ Cardinality(Unscoped(kept)) <= Cardinality(kept)
           /\ TasksOf(Unscoped(kept)) = TasksOf(kept)
<1> DEFINE f == [r \in kept |-> [r EXCEPT !.scope = {}]]
<1>1. DayInv(d, kept)
  BY SmallerDay
<1>2. kept \subseteq Row /\ IsFiniteSet(kept)
  BY <1>1 DEF DayInv, WellFormed
<1>3. Unscoped(kept) = {f[r] : r \in kept}
  BY DEF Unscoped
<1>4. ASSUME NEW r \in kept PROVE Retires(r, f[r])
  <2>1. r \in Row
    BY <1>2
  <2> QED
    BY <2>1 DEF Retires, Row
<1> HIDE DEF f
<1>5. DayInv(d, Unscoped(kept))
  BY <1>1, <1>3, <1>4, RetiredDay
<1>6. Cardinality(Unscoped(kept)) <= Cardinality(kept)
  BY <1>2, <1>3, ImageIsSmaller
<1>7. TasksOf(Unscoped(kept)) = TasksOf(kept)
  BY <1>3, <1>4 DEF TasksOf, Retires
<1> QED
  BY <1>2, <1>5, <1>6, <1>7

LEMMA ReplanKeepsSound ==
    ASSUME Sound, NEW d \in Days, NEW asked, ReplanDailyPlan(d, asked)
    PROVE  Sound'
<1> DEFINE kept == Retained(d, items[d])
           heads == ProtectedParents(tree, d, items[d])
           from == {t \in Candidates(asked) \ TasksOf(kept) : asked = {} => ~ DescendsFrom(tree, t, heads)}
           n == Missing(Cardinality(kept))
           chosen == FirstTasks(from, n)
           line == [t \in chosen |-> Continued(d, t)]
           scope == [t \in chosen |-> IF asked = {} THEN {} ELSE Above(tree, t)]
           N == {NewRow(t, line[t], scope[t]) : t \in chosen}
           rows == Unscoped(kept)
           p == [plans[d] EXCEPT !.removed = FALSE,
                                 !.frozen = plans[d].frozen \/ (d <= today /\ (kept # {} \/ chosen # {}))]
<1>1. /\ DayInv(d, items[d]) /\ plans[d] \in Plan /\ plans[d].status = "active"
      /\ plans \in [Days -> Plan] /\ items \in [Days -> SUBSET Row]
  BY DayIsSound DEF ReplanDailyPlan
<1>2. items' = [items EXCEPT ![d] = rows \cup N]
  BY DEF ReplanDailyPlan, Unscoped
<1>3. plans' = [plans EXCEPT ![d] = p]
  <2> DEFINE fr == plans[d].frozen \/ (d <= today /\ (kept # {} \/ chosen # {}))
  <2>1. plans' = [plans EXCEPT ![d].removed = FALSE,
                               ![d].frozen = @ \/ (d <= today /\ (kept # {} \/ chosen # {}))]
    BY DEF ReplanDailyPlan
  <2> HIDE DEF kept, chosen
  <2> QED
    BY <1>1, <2>1
<1>4. p \in Plan /\ p.status # "none"
  <2> DEFINE fr == plans[d].frozen \/ (d <= today /\ (kept # {} \/ chosen # {}))
  <2>1. fr \in BOOLEAN
    OBVIOUS
  <2>2. p = [plans[d] EXCEPT !.removed = FALSE, !.frozen = fr]
    OBVIOUS
  <2> HIDE DEF fr, p
  <2> QED
    BY <1>1, <2>1, <2>2 DEF Plan
<1>5. kept \in SUBSET items[d]
  BY DEF Retained, Protected
<1>6. from \in SUBSET Tasks /\ from \cap TasksOf(kept) = {}
  BY CandidatesAreTasks
<1>7. events' = events /\ OnPlans
  BY DEF ReplanDailyPlan
<1> HIDE DEF kept, p
<1>8. /\ DayInv(d, rows) /\ IsFiniteSet(kept) /\ Cardinality(rows) <= Cardinality(kept)
      /\ TasksOf(rows) = TasksOf(kept)
  BY <1>1, <1>5, UnscopedDay
<1>9. n \in Nat
  <2>1. Cardinality(kept) \in Nat
    BY <1>8, FS_CardinalityType
  <2> QED
    BY <2>1, BoundsAssumption DEF Missing
<1> HIDE DEF from, rows
<1>10. chosen \subseteq from /\ IsFiniteSet(chosen) /\ Cardinality(chosen) <= n
  <2> HIDE DEF n
  <2> QED
    BY <1>6, <1>9, FirstTasksAreFew
<1>11. \A t \in chosen : line[t] \in 1 .. MaxLines /\ scope[t] \in SUBSET Tasks
  BY AboveAreTasks, ContinuedIsALine
<1> HIDE DEF chosen, line, scope
<1>12. /\ Promises(N) /\ IsFiniteSet(N) /\ Cardinality(N) <= Cardinality(chosen)
       /\ TasksOf(N) = chosen
  BY <1>6, <1>10, <1>11, ChosenArePromises
<1> HIDE DEF N
<1>13. Cardinality(N) <= Missing(Cardinality(kept))
  <2>1. Cardinality(N) \in Nat /\ Cardinality(chosen) \in Nat
    BY <1>10, <1>12, FS_CardinalityType
  <2> HIDE DEF n
  <2>2. Cardinality(N) <= n
    BY <1>9, <1>10, <1>12, <2>1
  <2> QED
    BY <2>2 DEF n
<1>14. Cardinality(Counted(rows)) + Cardinality(N) <= Slots
  BY <1>8, <1>12, <1>13, RoomLeft
<1>15. \A r \in N : r.task \notin TasksOf(rows)
  BY <1>6, <1>8, <1>10, <1>12 DEF TasksOf
<1>16. \A r \in N : r.task \notin TasksOf(Counted(rows))
  BY <1>15 DEF TasksOf, Counted
<1>17. DayInv(d, rows \cup N)
  BY <1>8, <1>12, <1>14, <1>15, <1>16, GrownDay
<1> QED
  BY <1>2, <1>3, <1>4, <1>7, <1>17, DayChanges

LEMMA CloseKeepsSound ==
    ASSUME Sound, NEW d \in Days, NEW status \in {"active", "closed", "cancelled"}, CloseDailyPlan(d, status)
    PROVE  Sound'
<1> DEFINE p == [plans[d] EXCEPT !.status = status]
           rows == IF status = "closed" THEN Missed(items[d]) ELSE items[d]
<1>1. /\ DayInv(d, items[d]) /\ plans[d] \in Plan
      /\ plans \in [Days -> Plan] /\ items \in [Days -> SUBSET Row]
  BY DayIsSound
<1>2. p \in Plan /\ p.status # "none"
  BY <1>1 DEF Plan
<1>3. DayInv(d, rows)
  BY <1>1, MissedDay
<1>4. plans' = [plans EXCEPT ![d] = p] /\ items' = [items EXCEPT ![d] = rows] /\ events' = events /\ OnPlans
  BY <1>1 DEF CloseDailyPlan
<1> HIDE DEF p, rows
<1> QED
  BY <1>2, <1>3, <1>4, DayChanges

LEMMA AddKeepsSound ==
    ASSUME Sound, NEW d \in Days, NEW t \in Tasks, AddPlanItem(d, t)
    PROVE  Sound'
<1> DEFINE N == {NewRow(t, 1, {})}
           rows == items[d] \cup N
           p == [plans[d] EXCEPT !.frozen = plans[d].frozen \/ d <= today]
<1>1. /\ DayInv(d, items[d]) /\ plans[d] \in Plan /\ plans[d].status = "active"
      /\ plans \in [Days -> Plan] /\ items \in [Days -> SUBSET Row]
  BY DayIsSound DEF AddPlanItem
<1>2. p \in Plan /\ p.status # "none"
  <2> DEFINE fr == plans[d].frozen \/ d <= today
  <2>1. fr \in BOOLEAN
    OBVIOUS
  <2>2. p = [plans[d] EXCEPT !.frozen = fr]
    OBVIOUS
  <2> HIDE DEF fr, p
  <2> QED
    BY <1>1, <2>1, <2>2 DEF Plan
<1>3. plans' = [plans EXCEPT ![d] = p] /\ items' = [items EXCEPT ![d] = rows] /\ events' = events /\ OnPlans
  BY <1>1 DEF AddPlanItem
<1>4. DayInv(d, rows)
  <2>1. /\ NewRow(t, 1, {}) \in Row /\ NewRow(t, 1, {}).task = t
        /\ NewRow(t, 1, {}).st = "planned" /\ NewRow(t, 1, {}).how = "none"
    <3>1. 1 \in 1 .. MaxLines
      BY BoundsAssumption
    <3> QED
      BY <3>1, NewRowIsAPromise
  <2>2. Promises(N) /\ \A r \in N : r.task = t
    BY <2>1 DEF Promises, OnePerTask
  <2>3. IsFiniteSet(N) /\ Cardinality(N) = 1
    BY FS_Singleton
  <2>4. t \notin TasksOf(items[d]) /\ Cardinality(Counted(items[d])) < Slots
    BY DEF AddPlanItem
  <2>5. t \notin TasksOf(Counted(items[d]))
    BY <2>4 DEF TasksOf, Counted
  <2>6. Cardinality(Counted(items[d])) + Cardinality(N) <= Slots
    <3>1. Cardinality(Counted(items[d])) \in Nat
      BY <1>1, CountedIsFinite DEF DayInv, WellFormed
    <3> QED
      BY <2>3, <2>4, <3>1, BoundsAssumption
  <2> HIDE DEF N
  <2> QED
    BY <1>1, <2>2, <2>3, <2>4, <2>5, <2>6, GrownDay
<1> HIDE DEF p, rows
<1> QED
  BY <1>2, <1>3, <1>4, DayChanges

\* A row of a plan is replaced, with or without the record of a completion.
LEMMA RowChanges ==
    ASSUME Sound, OnPlans, NEW d \in Days, NEW r \in items[d], NEW q, Actionable(d, r),
           Succeeds(d, r, q), items' = Replaced(d, r, q), plans' = plans,
           events' = events \/ events' = events \cup {LineOf(d, r)}
    PROVE  Sound'
<1> DEFINE rows == (items[d] \ {r}) \cup {q}
<1>1. /\ DayInv(d, items[d]) /\ items[d] \subseteq Row /\ plans[d] \in Plan
      /\ plans \in [Days -> Plan] /\ items \in [Days -> SUBSET Row]
  BY DayIsSound
<1>2. DayInv(d, rows)
  BY <1>1, ReplacedDay
<1>3. plans' = [plans EXCEPT ![d] = plans[d]] /\ items' = [items EXCEPT ![d] = rows]
  BY <1>1 DEF Replaced
<1>4. plans[d].status = "active" /\ d <= today
  BY DEF Actionable
<1>5. \A l \in events' : l \in events \/ (l \in Lines /\ l.day <= today)
  BY <1>1, <1>4 DEF LineOf, Lines, Row
<1> HIDE DEF rows
<1> QED
  BY <1>1, <1>2, <1>3, <1>4, <1>5, DayChanges

\* Today and the days before it are not ahead.
LEMMA ActionableIsNotAhead ==
    ASSUME Sound, NEW d \in Days, NEW r, Actionable(d, r)
    PROVE  ~ (d > today)
BY DEF Actionable, Sound, PastOnly, Days

LEMMA SkipKeepsSound ==
    ASSUME Sound, NEW d \in Days, NEW r \in items[d], SkipPlanItem(d, r)
    PROVE  Sound'
<1> DEFINE q == [r EXCEPT !.st = "skipped"]
<1>1. DayInv(d, items[d]) /\ r \in Row
  BY DayIsSound
<1>2. r.st # "satisfied"
  BY DEF SkipPlanItem
<1>3. q \in Row /\ q.task = r.task /\ q.st = "skipped" /\ q.how = r.how
  BY <1>1 DEF Row
<1>4. r.how # "time"
  BY <1>1, <1>2 DEF DayInv, Backed
<1>5. items' = Replaced(d, r, q) /\ Actionable(d, r) /\ plans' = plans /\ events' = events /\ OnPlans
  BY DEF SkipPlanItem
<1> HIDE DEF q
<1>6. Succeeds(d, r, q)
  BY <1>3, <1>4 DEF Succeeds, Backed
<1> QED
  BY <1>5, <1>6, RowChanges

LEMMA CompleteKeepsSound ==
    ASSUME Sound, NEW d \in Days, NEW r \in items[d], NEW how \in {"result", "time"},
           NEW cited \in SUBSET Sessions, CompletePlanItem(d, r, how, cited)
    PROVE  Sound'
<1> DEFINE q == [r EXCEPT !.st = "satisfied", !.how = how, !.cited = cited]
<1>1. r \in Row
  BY DayIsSound
<1>2. q \in Row /\ q.task = r.task /\ q.line = r.line /\ q.st = "satisfied" /\ q.how = how /\ q.cited = cited
  BY <1>1 DEF Row
<1>3. /\ items' = Replaced(d, r, q) /\ Actionable(d, r) /\ plans' = plans
      /\ events' = events \cup {LineOf(d, r)} /\ OnPlans /\ r.st = "planned"
      /\ how = "time" => cited \subseteq Counting(LineOf(d, r)) /\ Reached(cited)
  BY DEF CompletePlanItem
<1> HIDE DEF q
<1>4. Backed(d, q)
  <2>1. SUFFICES ASSUME how = "time"
                 PROVE  /\ \A s \in cited : sessions[s].status \in {"ended", "invalidated"}
                        /\ Reached(Counting(LineOf(d, q)) \cap cited)
    BY <1>2 DEF Backed
  <2>2. LineOf(d, q) = LineOf(d, r)
    BY <1>2 DEF LineOf
  <2>3. Counting(LineOf(d, q)) \cap cited = cited
    BY <1>3, <2>1, <2>2
  <2>4. \A s \in cited : sessions[s].status = "ended"
    BY <1>3, <2>1 DEF Counting
  <2> QED
    BY <1>3, <2>1, <2>3, <2>4
<1>5. Succeeds(d, r, q)
  BY <1>2, <1>3, <1>4, ActionableIsNotAhead DEF Succeeds
<1> QED
  BY <1>3, <1>5, RowChanges

\* A completion that is taken back leaves a row the invariant allows.
LEMMA ReopenedSucceeds ==
    ASSUME NEW d, NEW rows, DayInv(d, rows), NEW r \in rows, r.st = "satisfied"
    PROVE  Succeeds(d, r, Reopened(d, r)) /\ Reopened(d, r).how = "none"
<1> DEFINE st == IF plans[d].status # "active" THEN "not_completed"
                 ELSE IF Executable(tree, r.task) THEN "planned" ELSE "skipped"
           q == [r EXCEPT !.st = st, !.how = "none", !.cited = {}]
<1>1. r \in Row
  BY DEF DayInv, WellFormed
<1>2. Reopened(d, r) = q
  BY DEF Reopened
<1>3. st \in {"planned", "not_completed", "skipped"}
  OBVIOUS
<1> HIDE DEF st
<1>4. q \in Row /\ q.task = r.task /\ q.st = st /\ q.how = "none"
  BY <1>1, <1>3 DEF Row
<1> HIDE DEF q
<1> QED
  BY <1>2, <1>3, <1>4 DEF Succeeds, Backed

LEMMA ReopenKeepsSound ==
    ASSUME Sound, NEW d \in Days, NEW r \in items[d], ReopenPlanItem(d, r)
    PROVE  Sound'
<1>1. DayInv(d, items[d]) /\ r.st = "satisfied"
  BY DayIsSound DEF ReopenPlanItem
<1>2. Succeeds(d, r, Reopened(d, r))
  BY <1>1, ReopenedSucceeds
<1>3. items' = Replaced(d, r, Reopened(d, r)) /\ Actionable(d, r) /\ plans' = plans /\ events' = events /\ OnPlans
  BY DEF ReopenPlanItem
<1> QED
  BY <1>2, <1>3, RowChanges

LEMMA DeleteKeepsSound ==
    ASSUME Sound, NEW chosen, DeletePlanItems(chosen)
    PROVE  Sound'
<1> DEFINE p == [plans[today] EXCEPT !.removed = TRUE]
           rows == items[today] \ chosen
<1>1. today \in Days
  BY DEF Sound, PastOnly
<1>2. /\ DayInv(today, items[today]) /\ plans[today] \in Plan /\ plans[today].status = "active"
      /\ plans \in [Days -> Plan] /\ items \in [Days -> SUBSET Row]
  BY <1>1, DayIsSound DEF DeletePlanItems
<1>3. p \in Plan /\ p.status # "none"
  BY <1>2 DEF Plan
<1>4. DayInv(today, rows)
  <2>1. rows \in SUBSET items[today]
    OBVIOUS
  <2> QED
    BY <1>2, <2>1, SmallerDay
<1>5. /\ plans' = [plans EXCEPT ![today] = p] /\ items' = [items EXCEPT ![today] = rows]
      /\ events' = events /\ OnPlans
  BY <1>2 DEF DeletePlanItems
<1> HIDE DEF p, rows
<1> QED
  BY <1>1, <1>3, <1>4, <1>5, DayChanges

-----------------------------------------------------------------------------
(* Changes of the tree keep the invariant.                                 *)

\* The tree, changed, is a tree of the same tasks.
LEMMA TreeStaysTyped ==
    ASSUME tree \in [Tasks -> Node], NEW recovering, TreeChange(recovering)
    PROVE  tree' \in [Tasks -> Node]
<1>1. ASSUME NEW next \in [Tasks -> States], Restated(next) PROVE tree' \in [Tasks -> Node]
  <2>1. \A t \in Tasks : [tree[t] EXCEPT !.state = next[t]] \in Node
    BY DEF Node
  <2> QED
    BY <1>1, <2>1 DEF Restated
<1>2. ASSUME NEW t \in Tasks, NEW p \in Tasks \cup {None}, MoveTask(t, p) PROVE tree' \in [Tasks -> Node]
  <2>1. tree' = [tree EXCEPT ![t].parent = p]
    BY <1>2 DEF MoveTask
  <2>2. [tree[t] EXCEPT !.parent = p] \in Node
    BY DEF Node
  <2> QED
    BY <2>1, <2>2
<1> QED
  BY <1>1, <1>2 DEF TreeChange, EditTree, RestoreTasks

LEMMA BoardIsSound ==
    ASSUME Sound
    PROVE  BoardInv(Board) /\ today \in Days /\ PastOnly
BY DEF Sound, PastOnly

LEMMA ChangeTreeKeepsSound ==
    ASSUME Sound, ChangeTree
    PROVE  Sound'
<1>1. PICK recovering \in BOOLEAN :
         TreeChange(recovering) /\ Reflected(recovering) /\ UNCHANGED <<today, events, sessions>>
  BY DEF ChangeTree
<1> DEFINE b == Released(tree', Board)
           c == IF recovering THEN Frozen(b) ELSE b
           x == Rescheduled(tree', c)
<1>2. tree' \in [Tasks -> Node]
  BY <1>1, TreeStaysTyped DEF Sound
<1>3. BoardInv(b)
  BY BoardIsSound, ReleasedIs
<1> HIDE DEF b
<1>4. BoardInv(c)
  BY <1>3, BoardIsSound, FrozenIs
<1>5. Posted(x)
  BY <1>1 DEF Reflected, b
<1> HIDE DEF c
<1>6. BoardInv(x)
  BY <1>4, BoardIsSound, RescheduledBoard
<1> HIDE DEF x
<1> QED
  BY <1>1, <1>2, <1>5, <1>6, PlansChange

LEMMA RefreshKeepsSound ==
    ASSUME Sound, RefreshSchedule
    PROVE  Sound'
<1> DEFINE x == Rescheduled(tree, Board)
<1>1. Posted(x) /\ events' = events /\ OnPlans
  BY DEF RefreshSchedule
<1>2. BoardInv(x)
  BY BoardIsSound, RescheduledBoard
<1> HIDE DEF x
<1> QED
  BY <1>1, <1>2, PlansChange DEF OnPlans, Sound

LEMMA CreateTaskKeepsSound ==
    ASSUME Sound, NEW t \in Tasks, NEW p \in Tasks \cup {None}, CreateTask(t, p)
    PROVE  Sound'
<1>1. tree' \in [Tasks -> Node]
  <2>1. tree' = [tree EXCEPT ![t] = [state |-> "open", parent |-> p]]
    BY DEF CreateTask
  <2>2. [state |-> "open", parent |-> p] \in Node
    BY DEF Node, States, Here
  <2>3. tree \in [Tasks -> Node]
    BY DEF Sound
  <2> QED
    BY <2>1, <2>2, <2>3
<1>2. Posted(Board) /\ UNCHANGED <<today, events, sessions>>
  BY DEF CreateTask, Posted, Board
<1> QED
  BY <1>1, <1>2, BoardIsSound, PlansChange

\* A promise that is completed with its task, before the days are rescheduled.
LEMMA CompletedBoard ==
    ASSUME Sound, NEW d \in Days, NEW r \in items[d], CompletePlanItemWithTask(d, r)
    PROVE  BoardInv([plans |-> plans,
                     items |-> Replaced(d, r, [r EXCEPT !.st = "satisfied", !.how = "result"])])
<1> DEFINE q == [r EXCEPT !.st = "satisfied", !.how = "result"]
           done == Replaced(d, r, q)
           b == [plans |-> plans, items |-> done]
<1>1. /\ DayInv(d, items[d]) /\ r \in Row
      /\ plans \in [Days -> Plan] /\ items \in [Days -> SUBSET Row]
  BY DayIsSound
<1>2. Actionable(d, r) /\ r.st = "planned"
  BY DEF CompletePlanItemWithTask
<1>3. Succeeds(d, r, q)
  <2>1. q \in Row /\ q.task = r.task /\ q.st = "satisfied" /\ q.how = "result"
    BY <1>1 DEF Row
  <2> HIDE DEF q
  <2> QED
    BY <1>2, <2>1, ActionableIsNotAhead DEF Succeeds, Backed
<1> HIDE DEF q
<1>4. BoardInv(b)
  <2> DEFINE rows == (items[d] \ {r}) \cup {q}
  <2>1. DayInv(d, rows)
    BY <1>1, <1>3, ReplacedDay
  <2>2. rows \in SUBSET Row /\ done = [items EXCEPT ![d] = rows]
    BY <2>1 DEF DayInv, WellFormed, Replaced
  <2>3. plans[d].status # "none"
    BY <1>2 DEF Actionable
  <2> HIDE DEF rows, done
  <2>4. b \in Boards
    BY <1>1, <2>2 DEF Boards
  <2>5. \A e \in Days : DayInv(e, b.items[e])
    BY <1>1, <2>1, <2>2, DayIsSound
  <2>6. \A e \in Days : b.plans[e].status = "none" => b.items[e] = {}
    BY <1>1, <2>2, <2>3, DayIsSound
  <2> QED
    BY <2>4, <2>5, <2>6 DEF BoardInv
<1> QED
  BY <1>4 DEF q

LEMMA CompleteWithTaskKeepsSound ==
    ASSUME Sound, NEW d \in Days, NEW r \in items[d], CompletePlanItemWithTask(d, r)
    PROVE  Sound'
<1> DEFINE b == [plans |-> plans,
                 items |-> Replaced(d, r, [r EXCEPT !.st = "satisfied", !.how = "result"])]
           c == Released(tree', b)
           x == Rescheduled(tree', c)
<1>1. r \in Row
  BY DayIsSound
<1>2. /\ Posted(x) /\ d <= today /\ UNCHANGED <<today, sessions>>
      /\ events' = events \cup {LineOf(d, r)}
      /\ tree' = [tree EXCEPT ![r.task].state = "shut"]
  BY DEF CompletePlanItemWithTask, Actionable
<1>3. tree' \in [Tasks -> Node]
  <2>1. tree \in [Tasks -> Node] /\ r.task \in Tasks
    BY <1>1 DEF Sound, Row
  <2>2. [tree[r.task] EXCEPT !.state = "shut"] \in Node
    BY <2>1 DEF Node, States, Here
  <2> QED
    BY <1>2, <2>1, <2>2
<1>4. BoardInv(b)
  BY CompletedBoard
<1> HIDE DEF b
<1>5. BoardInv(c)
  BY <1>4, BoardIsSound, ReleasedIs
<1> HIDE DEF c
<1>6. BoardInv(x)
  BY <1>5, BoardIsSound, RescheduledBoard
<1>7. \A l \in events' : l \in events \/ (l \in Lines /\ l.day <= today)
  BY <1>1, <1>2 DEF LineOf, Lines, Row
<1> HIDE DEF x
<1> QED
  BY <1>2, <1>3, <1>6, <1>7, PlansChange

LEMMA EditPlanKeepsSound ==
    ASSUME Sound, EditPlan
    PROVE  Sound'
<1>1. ASSUME NEW d \in Days, NEW asked, NEW scoped, CreateDailyPlan(d, asked, scoped) \/ ReplanDailyPlan(d, asked)
      PROVE  Sound'
  BY <1>1, CreateKeepsSound, ReplanKeepsSound
<1>2. ASSUME NEW d \in Days, NEW asked, ApplyDailyPlanProposal(d, asked) PROVE Sound'
  BY <1>1, <1>2 DEF ApplyDailyPlanProposal
<1>3. ASSUME NEW d \in Days, NEW r \in items[d],
             \/ CompletePlanItem(d, r, "result", {})
             \/ \E cited \in SUBSET Sessions : CompletePlanItem(d, r, "time", cited)
      PROVE  Sound'
  <2>1. {} \in SUBSET Sessions
    OBVIOUS
  <2> QED
    BY <1>3, <2>1, CompleteKeepsSound
<1>4. ASSUME NEW d \in Days, NEW r \in items[d], CompletePlanItemWithTask(d, r) PROVE Sound'
  BY <1>4, CompleteWithTaskKeepsSound
<1> QED
  BY <1>1, <1>2, <1>3, <1>4, CloseKeepsSound, AddKeepsSound, SkipKeepsSound, ReopenKeepsSound, DeleteKeepsSound
     DEF EditPlan

-----------------------------------------------------------------------------
(* Focus sessions and the end of the day.                                  *)

\* Time that is recorded for other sessions does not change.
LEMMA OtherMinutesStand ==
    ASSUME NEW S \in SUBSET Sessions, \A s \in S : sessions'[s].minutes = sessions[s].minutes
    PROVE  Reached(S)' <=> Reached(S)
<1>1. [s \in S |-> sessions'[s].minutes] = [s \in S |-> sessions[s].minutes]
  OBVIOUS
<1> QED
  BY <1>1 DEF Reached, MinutesOf

\* A session that a completion does not cite may start or end.
LEMMA UncitedSessionChanges ==
    ASSUME sessions \in [Sessions -> Session], NEW s \in Sessions, NEW v,
           sessions' = [sessions EXCEPT ![s] = v],
           sessions[s].status \in {"none", "running"},
           NEW d, NEW r \in Row, Backed(d, r)
    PROVE  Backed(d, r)'
<1> DEFINE l == LineOf(d, r)
           S == Counting(l) \cap r.cited
<1>1. SUFFICES ASSUME r.how = "time"
               PROVE  /\ r.st = "satisfied"
                      /\ \A c \in r.cited : sessions'[c].status \in {"ended", "invalidated"}
                      /\ Reached(Counting(l) \cap r.cited)'
  BY DEF Backed, LineOf
<1>2. r.st = "satisfied" /\ (\A c \in r.cited : sessions[c].status \in {"ended", "invalidated"}) /\ Reached(S)
  BY <1>1 DEF Backed
<1>3. r.cited \subseteq Sessions
  BY DEF Row
<1>4. \A c \in r.cited : c # s /\ sessions'[c] = sessions[c]
  BY <1>2, <1>3
<1>5. PICK T : T = S
  OBVIOUS
<1>6. (Counting(l) \cap r.cited)' = T
  BY <1>3, <1>4, <1>5 DEF Counting, LineOf
<1>7. T \in SUBSET Sessions /\ \A c \in T : sessions'[c].minutes = sessions[c].minutes
  BY <1>3, <1>4, <1>5
<1>8. Reached(T)' <=> Reached(T)
  BY <1>7, OtherMinutesStand
<1>9. Reached(Counting(l) \cap r.cited)'
  BY <1>2, <1>5, <1>6, <1>8 DEF Reached, MinutesOf
<1> QED
  BY <1>2, <1>4, <1>9

LEMMA SessionKeepsSound ==
    ASSUME Sound, NEW s \in Sessions, NEW v \in Session, sessions' = [sessions EXCEPT ![s] = v],
           sessions[s].status \in {"none", "running"},
           v.on = None \/ v.on.day <= today,
           UNCHANGED <<tree, today, plans, items, events>>
    PROVE  Sound'
<1>1. sessions \in [Sessions -> Session] /\ today \in Days
  BY DEF Sound, PastOnly
<1>2. \A d \in Days : \A r \in items[d] : Backed(d, r)'
  <2> TAKE d \in Days
  <2> TAKE r \in items[d]
  <2>1. r \in Row /\ Backed(d, r)
    BY DayIsSound DEF DayInv
  <2> QED
    BY <1>1, <2>1, UncitedSessionChanges
<1>3. BoardInv(Board)'
  <2>1. Posted(Board) /\ Board.items = items /\ BoardInv(Board)
    BY DEF Posted, Board, Sound
  <2>2. today' \in Days /\ today' >= today
    BY <1>1 DEF Days
  <2>3. \A d \in Days : \A r \in Board.items[d] : Backed(d, r)'
    BY <1>2, <2>1
  <2> QED
    BY <1>1, <2>1, <2>2, <2>3, BoardStands
<1>4. PastOnly'
  <2>1. sessions' \in [Sessions -> Session]
    BY <1>1
  <2>2. \A q \in Sessions : sessions'[q].on # None => sessions'[q].on.day <= today
    BY <1>1 DEF Sound, PastOnly
  <2> QED
    BY <2>1, <2>2 DEF Sound, PastOnly
<1> QED
  BY <1>3, <1>4 DEF Sound

LEMMA StartKeepsSound ==
    ASSUME Sound, NEW s \in Sessions, NEW d \in Days, NEW r \in items[d], StartSession(s, d, r)
    PROVE  Sound'
<1> DEFINE v == [on |-> LineOf(d, r), status |-> "running", minutes |-> 0]
<1>1. /\ sessions' = [sessions EXCEPT ![s] = v] /\ sessions[s].status = "none" /\ d <= today
      /\ UNCHANGED <<tree, today, plans, items, events>>
  BY DEF StartSession, Actionable
<1>2. LineOf(d, r) \in Lines /\ LineOf(d, r).day = d
  BY DayIsSound DEF LineOf, Lines, Row
<1>3. v \in Session /\ v.on.day <= today
  BY <1>1, <1>2, BoundsAssumption DEF Session
<1> HIDE DEF v
<1> QED
  BY <1>1, <1>3, SessionKeepsSound

LEMMA EndKeepsSound ==
    ASSUME Sound, NEW s \in Sessions, NEW n \in 1 .. Target, EndSession(s, n)
    PROVE  Sound'
<1> DEFINE v == [sessions[s] EXCEPT !.status = "ended", !.minutes = n]
<1>1. sessions \in [Sessions -> Session] /\ (sessions[s].on = None \/ sessions[s].on.day <= today)
  BY DEF Sound, PastOnly
<1>2. /\ sessions' = [sessions EXCEPT ![s] = v] /\ sessions[s].status = "running"
      /\ UNCHANGED <<tree, today, plans, items, events>>
  BY <1>1 DEF EndSession
<1>3. v \in Session /\ v.on = sessions[s].on
  <2>1. sessions[s] \in Session /\ n \in 0 .. Target
    BY <1>1, BoundsAssumption
  <2> QED
    BY <2>1 DEF Session
<1> HIDE DEF v
<1> QED
  BY <1>1, <1>2, <1>3, SessionKeepsSound

\* What is left of the time a completion cites, when a session is taken back.
LEMMA WhatIsLeftCounts ==
    ASSUME sessions \in [Sessions -> Session], NEW s \in Sessions,
           sessions[s].status = "ended",
           sessions' = [sessions EXCEPT ![s].status = "invalidated"],
           NEW d, NEW r \in Row, Backed(d, r), ~ Undone(s, d, r)
    PROVE  Backed(d, r)'
<1> DEFINE l == LineOf(d, r)
           S == (Counting(l) \cap r.cited) \ {s}
<1>1. SUFFICES ASSUME r.how = "time"
               PROVE  /\ r.st = "satisfied"
                      /\ \A c \in r.cited : sessions'[c].status \in {"ended", "invalidated"}
                      /\ Reached(Counting(l) \cap r.cited)'
  BY DEF Backed, LineOf
<1>2. /\ r.st = "satisfied" /\ \A c \in r.cited : sessions[c].status \in {"ended", "invalidated"}
      /\ Reached(Counting(l) \cap r.cited)
  BY <1>1 DEF Backed
<1>3. r.cited \subseteq Sessions
  BY DEF Row
<1>4. /\ sessions'[s] = [sessions[s] EXCEPT !.status = "invalidated"]
      /\ \A c \in Sessions : c # s => sessions'[c] = sessions[c]
  OBVIOUS
<1>5. sessions[s] \in Session
  OBVIOUS
<1>6. sessions'[s].status = "invalidated" /\ sessions'[s].minutes = sessions[s].minutes
      /\ sessions'[s].on = sessions[s].on
  BY <1>4, <1>5 DEF Session
<1>7. \A c \in r.cited : sessions'[c].status \in {"ended", "invalidated"}
  BY <1>2, <1>3, <1>4, <1>6
<1>8. PICK T : T = S
  OBVIOUS
<1>9. Reached(T)
  <2>1. CASE sessions[s].on = l
    BY <1>1, <1>2, <1>8, <2>1 DEF Undone
  <2>2. CASE sessions[s].on # l
    <3>1. s \notin Counting(l)
      BY <2>2 DEF Counting
    <3>2. T = Counting(l) \cap r.cited
      BY <1>8, <3>1
    <3> QED
      BY <1>2, <3>2
  <2> QED
    BY <2>1, <2>2
<1>10. (Counting(l) \cap r.cited)' = T
  BY <1>3, <1>4, <1>6, <1>8 DEF Counting, LineOf
<1>11. T \in SUBSET Sessions /\ \A c \in T : sessions'[c].minutes = sessions[c].minutes
  BY <1>3, <1>4, <1>8
<1>12. Reached(T)' <=> Reached(T)
  BY <1>11, OtherMinutesStand
<1>13. Reached(Counting(l) \cap r.cited)'
  BY <1>9, <1>10, <1>12 DEF Reached, MinutesOf
<1> QED
  BY <1>2, <1>7, <1>13

LEMMA InvalidateKeepsSound ==
    ASSUME Sound, NEW s \in Sessions, InvalidateSession(s)
    PROVE  Sound'
<1> DEFINE f(d) == [r \in items[d] |-> IF Undone(s, d, r) THEN Reopened(d, r) ELSE r]
           x == [plans |-> plans, items |-> items']
<1>1. /\ sessions \in [Sessions -> Session] /\ today \in Days
      /\ plans \in [Days -> Plan] /\ items \in [Days -> SUBSET Row]
  BY DayIsSound DEF Sound, PastOnly
<1>2. /\ sessions[s].status = "ended" /\ sessions' = [sessions EXCEPT ![s].status = "invalidated"]
      /\ items' = [d \in Days |-> {f(d)[r] : r \in items[d]}]
      /\ UNCHANGED <<tree, today, plans, events>>
  BY DEF InvalidateSession
<1>3. ASSUME NEW d \in Days, NEW r \in items[d], NEW q, q = f(d)[r]
      PROVE  Succeeds(d, r, q) /\ Backed(d, q)'
  <2>1. DayInv(d, items[d]) /\ r \in Row /\ Backed(d, r)
    BY DayIsSound DEF DayInv
  <2>2. CASE Undone(s, d, r)
    <3>1. Succeeds(d, r, Reopened(d, r)) /\ Reopened(d, r).how = "none"
      BY <2>1, <2>2, ReopenedSucceeds DEF Undone
    <3>2. q = Reopened(d, r)
      BY <1>3, <2>2
    <3>3. Succeeds(d, r, q) /\ q.how = "none"
      BY <3>1, <3>2
    <3> QED
      BY <3>3 DEF Backed
  <2>3. CASE ~ Undone(s, d, r)
    <3>1. q = r
      BY <1>3, <2>3
    <3>2. Backed(d, r)'
      BY <1>1, <1>2, <2>1, <2>3, WhatIsLeftCounts
    <3>3. Succeeds(d, r, r)
      BY <2>1 DEF Succeeds, DayInv, Ahead
    <3> QED
      BY <3>1, <3>2, <3>3
  <2> QED
    BY <2>2, <2>3
<1> HIDE DEF f
<1>4. ASSUME NEW d \in Days PROVE DayInv(d, items'[d])
  <2>1. items'[d] = {f(d)[r] : r \in items[d]}
    BY <1>2
  <2>2. DayInv(d, {f(d)[r] : r \in items[d]})
    BY <1>3, DayIsSound, MappedDay
  <2> QED
    BY <2>1, <2>2
<1>5. x.plans = plans' /\ x.items = items' /\ x.plans = plans
  BY <1>2
<1>6. BoardInv(x)
  <2>1. x \in Boards
    <3>1. \A d \in Days : items'[d] \in SUBSET Row
      BY <1>4 DEF DayInv, WellFormed
    <3>2. items' \in [Days -> SUBSET Row]
      BY <1>2, <3>1
    <3> QED
      BY <1>1, <3>2 DEF Boards
  <2> HIDE DEF x
  <2>2. \A d \in Days : plans[d].status = "none" => items'[d] = {}
    BY <1>2, DayIsSound
  <2> QED
    BY <1>4, <1>5, <2>1, <2>2 DEF BoardInv
<1> HIDE DEF x
<1>7. \A d \in Days : \A q \in x.items[d] : Backed(d, q)'
  <2> TAKE d \in Days
  <2> TAKE q \in x.items[d]
  <2>1. PICK r \in items[d] : q = f(d)[r]
    BY <1>2, <1>5
  <2> QED
    BY <1>3, <2>1
<1>8. BoardInv(Board)'
  <2>1. today' \in Days /\ today' >= today
    BY <1>1, <1>2 DEF Days
  <2> QED
    BY <1>1, <1>5, <1>6, <1>7, <2>1, BoardStands DEF Posted
<1>9. PastOnly'
  <2>1. [sessions[s] EXCEPT !.status = "invalidated"] \in Session
    BY <1>1 DEF Session
  <2>2. sessions' \in [Sessions -> Session]
    BY <1>1, <1>2, <2>1
  <2>3. \A q \in Sessions : sessions'[q].on = sessions[q].on
    BY <1>1, <1>2 DEF Session
  <2> QED
    BY <1>2, <2>2, <2>3 DEF Sound, PastOnly
<1> QED
  BY <1>2, <1>8, <1>9 DEF Sound

LEMMA NextDayKeepsSound ==
    ASSUME Sound, NextDay
    PROVE  Sound'
<1>1. /\ today \in Days /\ today' = today + 1 /\ today < LastDay /\ LastDay \in Nat
      /\ UNCHANGED <<tree, plans, items, events, sessions>>
  BY BoundsAssumption DEF Sound, PastOnly, NextDay
<1>2. today' \in Days /\ today' >= today /\ today \in Nat
  BY <1>1 DEF Days
<1>3. BoardInv(Board)'
  <2>1. Posted(Board) /\ BoardInv(Board)
    BY <1>1 DEF Posted, Board, Sound
  <2>2. \A d \in Days : \A r \in Board.items[d] : Backed(d, r)'
    BY <1>1, <2>1, BackedStands DEF BoardInv, DayInv
  <2> QED
    BY <1>1, <1>2, <2>1, <2>2, BoardStands
<1>4. PastOnly'
  <2>1. \A l \in events : l.day \in Nat /\ l.day <= today
    BY DEF Sound, PastOnly, Lines, Days
  <2>2. \A s \in Sessions : sessions[s].on # None => sessions[s].on.day \in Nat /\ sessions[s].on.day <= today
    BY DEF Sound, PastOnly, Session, Lines, Days
  <2> QED
    BY <1>1, <1>2, <2>1, <2>2 DEF Sound, PastOnly
<1> QED
  BY <1>1, <1>3, <1>4 DEF Sound

-----------------------------------------------------------------------------
(* The invariant.                                                          *)

LEMMA InitIsSound ==
    ASSUME PlanInit
    PROVE  PlanInv
<1>1. today \in Days /\ LastDay \in Nat
  BY BoundsAssumption DEF PlanInit, Days
<1>2. PastOnly
  BY <1>1, BoundsAssumption DEF PlanInit, PastOnly, Session
<1>3. tree \in [Tasks -> Node]
  BY DEF PlanInit, Node, States, Here
<1>4. ASSUME NEW d \in Days PROVE DayInv(d, {})
  <2>1. Counted({}) = {} /\ IsFiniteSet({}) /\ Cardinality({}) = 0
    BY FS_EmptySet DEF Counted
  <2> QED
    BY <2>1, BoundsAssumption DEF DayInv, WellFormed, WithinRoom, Once, Ahead, OnePerTask
<1>5. /\ plans = [d \in Days |-> [status |-> "none", frozen |-> FALSE, removed |-> FALSE]]
      /\ items = [d \in Days |-> {}] /\ edits = 0
  BY DEF PlanInit
<1>6. Board \in Boards
  BY <1>5 DEF Board, Boards, Plan
<1>7. BoardInv(Board)
  BY <1>4, <1>5, <1>6 DEF BoardInv, Board
<1> QED
  BY <1>2, <1>3, <1>5, <1>7, BoundsAssumption DEF PlanInv, Sound

LEMMA StepKeepsSound ==
    ASSUME PlanInv, PlanNext
    PROVE  PlanInv'
<1>1. Sound /\ edits \in 0 .. MaxEdits
  BY DEF PlanInv
<1>2. CASE ByUser
  <2>1. edits' \in 0 .. MaxEdits
    BY <1>1, <1>2, BoundsAssumption DEF ByUser
  <2>2. Sound'
    BY <1>1, <1>2, ChangeTreeKeepsSound, CreateTaskKeepsSound, EditPlanKeepsSound DEF ByUser
  <2> QED
    BY <2>1, <2>2 DEF PlanInv
<1>3. CASE Focus
  <2>1. Sound'
    BY <1>1, <1>3, StartKeepsSound, EndKeepsSound, InvalidateKeepsSound DEF Focus
  <2>2. edits' = edits
    BY <1>3 DEF Focus, StartSession, EndSession, InvalidateSession
  <2> QED
    BY <1>1, <2>1, <2>2 DEF PlanInv
<1>4. CASE RefreshSchedule
  BY <1>1, <1>4, RefreshKeepsSound DEF PlanInv, RefreshSchedule
<1>5. CASE NextDay
  BY <1>1, <1>5, NextDayKeepsSound DEF PlanInv, NextDay
<1> QED
  BY <1>2, <1>3, <1>4, <1>5 DEF PlanNext

LEMMA StutterKeepsSound ==
    ASSUME PlanInv, UNCHANGED planVars
    PROVE  PlanInv'
<1>1. UNCHANGED <<tree, today, plans, items, events, sessions, edits>>
  BY DEF planVars
<1>2. Sound'
  <2>1. Posted(Board)
    BY <1>1 DEF Posted, Board
  <2>2. tree' \in [Tasks -> Node]
    BY <1>1 DEF PlanInv, Sound
  <2> QED
    BY <1>1, <2>1, <2>2, BoardIsSound, PlansChange DEF PlanInv
<1> QED
  BY <1>1, <1>2 DEF PlanInv

\* In every plan, whatever the user and the scheduler did: the rows are rows of
\* the plan, few enough for the day, no task is promised twice in a day, nothing
\* is done ahead of its day, and time that a completion cites has been spent.
THEOREM PlanIsSound == PlanSpec => []PlanInv
<1>1. PlanInit => PlanInv
  BY InitIsSound
<1>2. PlanInv /\ [PlanNext]_planVars => PlanInv'
  BY StepKeepsSound, StutterKeepsSound
<1> QED
  BY <1>1, <1>2, PTL DEF PlanSpec

\* The types of the plans (PlanTypeOK): every operation of planning.go and
\* planprogress.go leaves rows, plans and sessions of the forms the tables have.
THEOREM PlanTypes == PlanSpec => []PlanTypeOK
<1>1. PlanInv => PlanTypeOK
  BY DEF PlanInv, Sound, PastOnly, BoardInv, Board, Boards, PlanTypeOK
<1> QED
  BY <1>1, PlanIsSound, PTL

\* No revision promises more than the day has room for (RoomIsKept): replans,
\* proposals, additions, the scheduler's filling, skips and corrections count
\* the rows that stay before they add any.
THEOREM DaysAreNotOverfilled == PlanSpec => []RoomIsKept
<1>1. PlanInv => RoomIsKept
  BY DEF PlanInv, Sound, BoardInv, Board, DayInv, WithinRoom, RoomIsKept
<1> QED
  BY <1>1, PlanIsSound, PTL

\* A promise completed by focus time is backed by time that still counts
\* (TimeIsBacked): copies keep what they cite, and a session that is taken back
\* takes the completion with it when the rest does not reach the target.
THEOREM TimeStaysBacked == PlanSpec => []TimeIsBacked
<1>1. PlanInv => TimeIsBacked
  BY DEF PlanInv, Sound, BoardInv, Board, DayInv, Backed, TimeIsBacked
<1> QED
  BY <1>1, PlanIsSound, PTL

-----------------------------------------------------------------------------
(* Completed promises are carried along.                                   *)

\* Completed rows are left as they are.
Preserves(b, c) == \A d \in Days : \A r \in b.items[d] : r.st = "satisfied" => r \in c.items[d]

\* The lines of completed rows are still there.
CarriesOn(d) ==
    \A r \in items[d] : r.st = "satisfied" => \E q \in items'[d] : LineOf(d, q) = LineOf(d, r)

LEMMA ExpiredPreserves ==
    ASSUME NEW b
    PROVE  Preserves(b, Expired(b))
BY DEF Preserves, Expired, Missed

LEMMA ScheduledPreserves ==
    ASSUME PastOnly, NEW tr, NEW b, BoardInv(b)
    PROVE  Preserves(b, Scheduled(tr, b, Filling(tr, b, Stays(tr, b))))
<1> DEFINE F == Filling(tr, b, Stays(tr, b))
           x == Scheduled(tr, b, F)
<1>1. \A d \in Days : InReach(b, d) => GoodFill(tr, b, d, F[d])
  BY FillIsGood
<1> HIDE DEF F
<1>2. x.items = [d \in Days |-> IF InReach(b, d) THEN DayRows(b, d, F[d]) ELSE b.items[d]]
  BY DEF Scheduled
<1> HIDE DEF x
<1>3. ASSUME NEW d \in Days, NEW r \in b.items[d], r.st = "satisfied" PROVE r \in x.items[d]
  <2>1. CASE ~ InReach(b, d)
    BY <1>2, <2>1
  <2>2. CASE InReach(b, d)
    <3>1. r \in Protected(d, b.items[d]) /\ Fixed(b, d)
      BY <1>3 DEF Protected, Fixed
    <3>2. r \in Founded(tr, b, d)
      BY <3>1 DEF Founded, Unfounded
    <3>3. r \in Remaining(b, d, F[d])
      BY <1>1, <2>2, <3>1, <3>2 DEF GoodFill, Remaining
    <3> QED
      BY <1>2, <2>2, <3>3, DayRowsAre
  <2> QED
    BY <2>1, <2>2
<1> QED
  BY <1>3 DEF Preserves, x, F

LEMMA RescheduledPreserves ==
    ASSUME PastOnly, NEW tr, NEW b, BoardInv(b)
    PROVE  Preserves(b, Rescheduled(tr, b))
<1> DEFINE e == Expired(b)
           x == Scheduled(tr, e, Filling(tr, e, Stays(tr, e)))
<1>1. BoardInv(e) /\ Preserves(b, e)
  BY ExpiredBoard, ExpiredPreserves
<1> HIDE DEF e
<1>2. Preserves(e, x)
  BY <1>1, ScheduledPreserves
<1>3. x = Rescheduled(tr, b)
  BY DEF Rescheduled, e
<1> HIDE DEF x
<1> QED
  BY <1>1, <1>2, <1>3 DEF Preserves

LEMMA ReleasedPreserves ==
    ASSUME NEW tr, NEW b, BoardInv(b), today \in Days
    PROVE  Preserves(b, Released(tr, b))
<1> DEFINE x == Released(tr, b)
<1>1. /\ \A d \in Days : d # today => x.items[d] = b.items[d]
      /\ x.items[today] = IF b.plans[today].status # "active" THEN b.items[today]
                          ELSE Withdrawals(tr, b.items[today])
  BY ReleasedIs
<1> HIDE DEF x
<1>2. ASSUME NEW d \in Days, NEW r \in b.items[d], r.st = "satisfied" PROVE r \in x.items[d]
  <2>1. CASE d # today
    BY <1>1, <2>1
  <2>2. CASE d = today
    <3>1. Withdraw(tr, r) = r
      BY <1>2 DEF Withdraw
    <3> QED
      BY <1>1, <1>2, <2>2, <3>1 DEF Withdrawals
  <2> QED
    BY <2>1, <2>2
<1> QED
  BY <1>2 DEF Preserves, x

\* A step that posts a board which leaves completed rows alone.
LEMMA PreservingCarries ==
    ASSUME NEW x, Posted(x), Preserves(Board, x), NEW d \in Days
    PROVE  CarriesOn(d)
BY DEF CarriesOn, Posted, Preserves, Board

LEMMA ScheduleCarries ==
    ASSUME Sound, RefreshSchedule \/ ChangeTree, NEW d \in Days
    PROVE  CarriesOn(d)
<1>1. CASE RefreshSchedule
  <2>1. Posted(Rescheduled(tree, Board))
    BY <1>1 DEF RefreshSchedule
  <2>2. Preserves(Board, Rescheduled(tree, Board))
    BY BoardIsSound, RescheduledPreserves
  <2> QED
    BY <2>1, <2>2, PreservingCarries
<1>2. CASE ChangeTree
  <2>1. PICK recovering \in BOOLEAN : Reflected(recovering)
    BY <1>2 DEF ChangeTree
  <2> DEFINE b == Released(tree', Board)
             c == IF recovering THEN Frozen(b) ELSE b
             x == Rescheduled(tree', c)
  <2>2. Posted(x)
    BY <2>1 DEF Reflected
  <2>3. BoardInv(b) /\ Preserves(Board, b)
    BY BoardIsSound, ReleasedIs, ReleasedPreserves
  <2> HIDE DEF b
  <2>4. BoardInv(c) /\ c.items = b.items
    BY <2>3, BoardIsSound, FrozenIs
  <2> HIDE DEF c
  <2>5. Preserves(c, x)
    BY <2>4, BoardIsSound, RescheduledPreserves
  <2> HIDE DEF x
  <2>6. Preserves(Board, x)
    BY <2>3, <2>4, <2>5 DEF Preserves
  <2> QED
    BY <2>2, <2>6, PreservingCarries
<1> QED
  BY <1>1, <1>2

\* A row that is replaced keeps its line.
LEMMA ReplacedCarries ==
    ASSUME Sound, NEW e \in Days, NEW r \in items[e], NEW q, items' = Replaced(e, r, q),
           LineOf(e, q) = LineOf(e, r), NEW d \in Days
    PROVE  CarriesOn(d)
<1>1. items \in [Days -> SUBSET Row]
  BY DayIsSound
<1>2. CASE d # e
  BY <1>1, <1>2 DEF Replaced, CarriesOn
<1>3. CASE d = e
  <2>1. items'[d] = (items[d] \ {r}) \cup {q}
    BY <1>1, <1>3 DEF Replaced
  <2> QED
    BY <1>3, <2>1 DEF CarriesOn
<1> QED
  BY <1>2, <1>3

LEMMA EditedRowCarries ==
    ASSUME Sound, NEW e \in Days, NEW r \in items[e], NEW d \in Days,
           \/ SkipPlanItem(e, r) \/ ReopenPlanItem(e, r)
           \/ \E how \in {"result", "time"}, cited \in SUBSET Sessions : CompletePlanItem(e, r, how, cited)
    PROVE  CarriesOn(d)
<1>1. PICK q : items' = Replaced(e, r, q) /\ q.task = r.task /\ q.line = r.line
  <2>1. r \in Row
    BY DayIsSound
  <2>2. CASE SkipPlanItem(e, r)
    BY <2>1, <2>2 DEF SkipPlanItem, Row
  <2>3. CASE ReopenPlanItem(e, r)
    <3>1. Reopened(e, r).task = r.task /\ Reopened(e, r).line = r.line
      BY <2>1 DEF Reopened, Row
    <3> QED
      BY <2>3, <3>1 DEF ReopenPlanItem
  <2>4. ASSUME NEW how, NEW cited, CompletePlanItem(e, r, how, cited)
        PROVE  \E q : items' = Replaced(e, r, q) /\ q.task = r.task /\ q.line = r.line
    <3> DEFINE q == [r EXCEPT !.st = "satisfied", !.how = how, !.cited = cited]
    <3>1. q.task = r.task /\ q.line = r.line
      BY <2>1 DEF Row
    <3>2. items' = Replaced(e, r, q)
      BY <2>4 DEF CompletePlanItem
    <3> HIDE DEF q
    <3> QED
      BY <3>1, <3>2
  <2> QED
    BY <2>2, <2>3, <2>4
<1> QED
  BY <1>1, ReplacedCarries DEF LineOf

LEMMA CompleteWithTaskCarries ==
    ASSUME Sound, NEW e \in Days, NEW r \in items[e], CompletePlanItemWithTask(e, r), NEW d \in Days
    PROVE  CarriesOn(d)
<1> DEFINE q == [r EXCEPT !.st = "satisfied", !.how = "result"]
           b == [plans |-> plans, items |-> Replaced(e, r, q)]
           c == Released(tree', b)
           x == Rescheduled(tree', c)
<1>1. Posted(x) /\ r.st = "planned"
  BY DEF CompletePlanItemWithTask
<1>2. BoardInv(b)
  BY CompletedBoard
<1>3. BoardInv(c) /\ Preserves(b, c)
  BY <1>2, BoardIsSound, ReleasedIs, ReleasedPreserves
<1>4. b.items = [items EXCEPT ![e] = (items[e] \ {r}) \cup {q}]
  BY DEF Replaced
<1> HIDE DEF b, q
<1> HIDE DEF c
<1>5. Preserves(c, x)
  BY <1>3, BoardIsSound, RescheduledPreserves
<1> HIDE DEF x
<1>6. Preserves(Board, b)
  <2>1. items \in [Days -> SUBSET Row]
    BY DayIsSound
  <2> QED
    BY <1>1, <1>4, <2>1 DEF Preserves, Board
<1>7. Preserves(Board, x)
  BY <1>3, <1>5, <1>6 DEF Preserves
<1> QED
  BY <1>1, <1>7, PreservingCarries

LEMMA ReplanCarries ==
    ASSUME Sound, NEW e \in Days, NEW asked, ReplanDailyPlan(e, asked), NEW d \in Days
    PROVE  CarriesOn(d)
<1> DEFINE kept == Retained(e, items[e])
<1>1. items \in [Days -> SUBSET Row] /\ items[e] \subseteq Row
  BY DayIsSound
<1>2. Unscoped(kept) \subseteq items'[e] /\ (d # e => items'[d] = items[d])
  BY <1>1 DEF ReplanDailyPlan, Unscoped
<1>3. ASSUME NEW r \in items[e], r.st = "satisfied" PROVE \E q \in items'[e] : LineOf(e, q) = LineOf(e, r)
  <2>1. r \in kept /\ r \in Row
    BY <1>1, <1>3 DEF Retained, Protected
  <2>2. [r EXCEPT !.scope = {}] \in items'[e]
    BY <1>2, <2>1 DEF Unscoped
  <2>3. LineOf(e, [r EXCEPT !.scope = {}]) = LineOf(e, r)
    BY <2>1 DEF LineOf, Row
  <2> QED
    BY <2>2, <2>3
<1> HIDE DEF kept
<1> QED
  BY <1>2, <1>3 DEF CarriesOn

LEMMA CreateCarries ==
    ASSUME Sound, NEW e \in Days, NEW asked, NEW scoped, CreateDailyPlan(e, asked, scoped), NEW d \in Days
    PROVE  CarriesOn(d)
<1>1. items \in [Days -> SUBSET Row] /\ items[e] = {}
  BY DayIsSound DEF CreateDailyPlan
<1>2. d # e => items'[d] = items[d]
  BY <1>1 DEF CreateDailyPlan
<1> QED
  BY <1>1, <1>2 DEF CarriesOn

LEMMA CloseCarries ==
    ASSUME Sound, NEW e \in Days, NEW status, CloseDailyPlan(e, status), NEW d \in Days
    PROVE  CarriesOn(d)
<1>1. items \in [Days -> SUBSET Row]
  BY DayIsSound
<1>2. CASE d # e
  BY <1>1, <1>2 DEF CloseDailyPlan, CarriesOn
<1>3. CASE d = e
  <2>1. items'[d] = IF status = "closed" THEN Missed(items[d]) ELSE items[d]
    BY <1>1, <1>3 DEF CloseDailyPlan
  <2>2. \A r \in items[d] : r.st = "satisfied" => r \in Missed(items[d])
    BY DEF Missed
  <2> QED
    BY <2>1, <2>2 DEF CarriesOn
<1> QED
  BY <1>2, <1>3

LEMMA AddCarries ==
    ASSUME Sound, NEW e \in Days, NEW t, AddPlanItem(e, t), NEW d \in Days
    PROVE  CarriesOn(d)
<1>1. items \in [Days -> SUBSET Row]
  BY DayIsSound
<1>2. items[d] \subseteq items'[d]
  BY <1>1 DEF AddPlanItem
<1> QED
  BY <1>2 DEF CarriesOn

\* The one operation that takes a row away says so.
LEMMA DeleteCarries ==
    ASSUME Sound, NEW chosen, DeletePlanItems(chosen), NEW d \in Days
    PROVE  CarriesOn(d) \/ (d = today /\ plans'[d].removed)
<1>1. plans \in [Days -> Plan] /\ items \in [Days -> SUBSET Row] /\ today \in Days
  BY DayIsSound, BoardIsSound
<1>2. CASE d # today
  BY <1>1, <1>2 DEF DeletePlanItems, CarriesOn
<1>3. CASE d = today
  <2>1. plans'[d] = [plans[d] EXCEPT !.removed = TRUE] /\ plans[d] \in Plan
    BY <1>1, <1>3 DEF DeletePlanItems
  <2> QED
    BY <1>3, <2>1 DEF Plan
<1> QED
  BY <1>2, <1>3

LEMMA InvalidateCarries ==
    ASSUME Sound, NEW s \in Sessions, InvalidateSession(s), NEW d \in Days
    PROVE  CarriesOn(d)
<1>1. items[d] \subseteq Row
  BY DayIsSound
<1>2. items'[d] = {IF Undone(s, d, r) THEN Reopened(d, r) ELSE r : r \in items[d]}
  BY DEF InvalidateSession
<1>3. ASSUME NEW r \in items[d] PROVE \E q \in items'[d] : LineOf(d, q) = LineOf(d, r)
  <2>1. LineOf(d, Reopened(d, r)) = LineOf(d, r)
    BY <1>1 DEF LineOf, Reopened, Row
  <2> QED
    BY <1>2, <2>1
<1> QED
  BY <1>3 DEF CarriesOn

LEMMA StepCarries ==
    ASSUME Sound, PlanNext, NEW d \in Days
    PROVE  CarriesOn(d) \/ (d = today /\ plans'[d].removed)
<1>1. (items' = items) => CarriesOn(d)
  BY DEF CarriesOn
<1>2. CASE Focus
  BY <1>1, <1>2, InvalidateCarries DEF Focus, StartSession, EndSession
<1>3. CASE RefreshSchedule \/ ChangeTree
  BY <1>3, ScheduleCarries
<1>4. CASE NextDay \/ \E t \in Tasks, p \in Tasks \cup {None} : CreateTask(t, p)
  BY <1>1, <1>4 DEF NextDay, CreateTask
<1>5. CASE EditPlan
  <2>1. ASSUME NEW e \in Days, NEW asked, NEW scoped,
               CreateDailyPlan(e, asked, scoped) \/ ReplanDailyPlan(e, asked)
        PROVE  CarriesOn(d)
    BY <2>1, CreateCarries, ReplanCarries
  <2>2. ASSUME NEW e \in Days, NEW asked, ApplyDailyPlanProposal(e, asked) PROVE CarriesOn(d)
    BY <2>1, <2>2 DEF ApplyDailyPlanProposal
  <2>3. ASSUME NEW e \in Days, NEW r \in items[e],
               \/ SkipPlanItem(e, r) \/ ReopenPlanItem(e, r)
               \/ CompletePlanItem(e, r, "result", {})
               \/ \E cited \in SUBSET Sessions : CompletePlanItem(e, r, "time", cited)
        PROVE  CarriesOn(d)
    <3>1. {} \in SUBSET Sessions /\ "result" \in {"result", "time"} /\ "time" \in {"result", "time"}
      OBVIOUS
    <3> QED
      BY <2>3, <3>1, EditedRowCarries
  <2>4. ASSUME NEW e \in Days, NEW r \in items[e], CompletePlanItemWithTask(e, r) PROVE CarriesOn(d)
    BY <2>4, CompleteWithTaskCarries
  <2> QED
    BY <1>5, <2>1, <2>2, <2>3, <2>4, CloseCarries, AddCarries, DeleteCarries DEF EditPlan
<1> QED
  BY <1>2, <1>3, <1>4, <1>5 DEF PlanNext, ByUser

\* A completed promise leaves its plan only when the user deletes it there
\* (EvidenceIsKept): the scheduler never rewrites a day with evidence, and a
\* replan keeps every completed row.
THEOREM CompletedPromisesStay == PlanSpec => EvidenceIsKept
<1>1. ASSUME PlanInv, [PlanNext]_planVars
      PROVE  [\A d \in Days : \A r \in items[d] :
                 (r.st = "satisfied" /\ ~ \E q \in items'[d] : LineOf(d, q) = LineOf(d, r))
                     => d = today /\ plans'[d].removed]_planVars
  BY <1>1, StepCarries DEF PlanInv, CarriesOn
<1> QED
  BY <1>1, PlanIsSound, PTL DEF PlanSpec, EvidenceIsKept

-----------------------------------------------------------------------------
(* What is above a task.                                                   *)

\* The parents met on the way up, one level at a time.
Climbs(up, tr, t) ==
    /\ up[0] = {tr[t].parent}
    /\ \A n \in Nat : up[n + 1] = up[n] \cup {tr[a].parent : a \in up[n] \cap Tasks}

LEMMA AboveIsClimbed ==
    ASSUME NEW tr, NEW t
    PROVE  \E up : Climbs(up, tr, t) /\ Above(tr, t) = up[Cardinality(Tasks)] \cap Tasks
<1> DEFINE S == SUBSET {tr[a].parent : a \in Tasks \cup {t}}
           start == {tr[t].parent}
           more(A) == A \cup {tr[a].parent : a \in A \cap Tasks}
           step == [n \in Nat |-> [A \in S |-> more(A)]]
           Eq(g) == g = [n \in Nat |-> IF n = 0 THEN {tr[t].parent}
                           ELSE g[n - 1] \cup {tr[a].parent : a \in g[n - 1] \cap Tasks}]
           up == CHOOSE g : Eq(g)
<1>1. start \in S
  OBVIOUS
<1>2. Steps(step, S)
  <2>1. \A A \in S : more(A) \in S
    OBVIOUS
  <2> HIDE DEF S, more, up
  <2> QED
    BY <2>1 DEF Steps
<1>3. PICK f \in [Nat -> S] : Iterates(f, start, step)
  <2> HIDE DEF S, start, step, up
  <2> QED
    BY <1>1, <1>2, StepsIterate
<1>4. f[0] = {tr[t].parent} /\ \A n \in Nat : f[n + 1] = more(f[n])
  <2>1. f[0] = start /\ \A n \in Nat : f[n + 1] = step[n][f[n]]
    <3> HIDE DEF S, start, step, up
    <3> QED
      BY <1>3 DEF Iterates
  <2>2. start = {tr[t].parent}
    OBVIOUS
  <2> HIDE DEF S, more, up, start
  <2> QED
    BY <2>1, <2>2
<1>5. Eq(f)
  <2>1. f = [n \in Nat |-> f[n]]
    OBVIOUS
  <2>2. ASSUME NEW n \in Nat, n # 0 PROVE f[n] = more(f[n - 1])
    <3>1. n - 1 \in Nat /\ (n - 1) + 1 = n
      BY <2>2
    <3> HIDE DEF more, up, S
    <3> QED
      BY <1>4, <3>1
  <2> HIDE DEF S, up, step
  <2> QED
    BY <1>4, <2>1, <2>2
<1> HIDE DEF S, step, start
<1>6. Eq(up)
  <2> HIDE DEF Eq
  <2> QED
    BY <1>5
<1>7. Above(tr, t) = up[Cardinality(Tasks)] \cap Tasks
  BY DEF Above
<1> HIDE DEF up
<1>8. up[0] = {tr[t].parent}
  BY <1>6
<1>9. ASSUME NEW n \in Nat
      PROVE  up[n + 1] = up[n] \cup {tr[a].parent : a \in up[n] \cap Tasks}
  <2>1. n + 1 \in Nat /\ n + 1 # 0 /\ (n + 1) - 1 = n
    OBVIOUS
  <2> QED
    BY <1>6, <2>1
<1> QED
  BY <1>7, <1>8, <1>9 DEF Climbs

LEMMA ClimbGrows ==
    ASSUME NEW up, NEW tr, NEW t, Climbs(up, tr, t), NEW m \in Nat, NEW n \in Nat, n <= m
    PROVE  up[n] \subseteq up[m]
<1> DEFINE T == {k \in Nat : \A i \in Nat : i <= k => up[i] \subseteq up[k]}
<1>1. 0 \in T
  OBVIOUS
<1>2. ASSUME NEW k \in Nat, k \in T PROVE k + 1 \in T
  <2>1. up[k] \subseteq up[k + 1]
    BY DEF Climbs
  <2>2. \A i \in Nat : i <= k + 1 => i <= k \/ i = k + 1
    OBVIOUS
  <2> QED
    BY <1>2, <2>1, <2>2
<1> HIDE DEF T
<1>3. m \in T
  BY <1>1, <1>2, Induction
<1> QED
  BY <1>3 DEF T

\* A new task changes nothing for those that can be worked on: it is not above
\* them.
LEMMA CreatedIsNotAbove ==
    ASSUME NEW tr, NEW new, NEW t \in Tasks, tr[t].state # "open",
           \A a \in Tasks : a # t => new[a] = tr[a],
           NEW x \in Tasks, Executable(tr, x)
    PROVE  Executable(new, x)
<1> DEFINE N == Cardinality(Tasks)
<1>1. N \in Nat
  BY TasksAssumption, FS_CardinalityType
<1>2. PICK u : Climbs(u, tr, x) /\ Above(tr, x) = u[N] \cap Tasks
  BY AboveIsClimbed
<1>3. PICK v : Climbs(v, new, x) /\ Above(new, x) = v[N] \cap Tasks
  BY AboveIsClimbed
<1> HIDE DEF N
<1>4. x # t /\ \A a \in u[N] \cap Tasks : a # t /\ new[a] = tr[a]
  BY <1>2 DEF Executable
<1> DEFINE T == {n \in Nat : n <= N => v[n] = u[n]}
<1>5. 0 \in T
  BY <1>2, <1>3, <1>4 DEF Climbs
<1>6. ASSUME NEW n \in Nat, n \in T PROVE n + 1 \in T
  <2>1. SUFFICES ASSUME n + 1 <= N PROVE v[n + 1] = u[n + 1]
    OBVIOUS
  <2>2. n <= N /\ v[n] = u[n]
    BY <1>1, <1>6, <2>1
  <2>3. u[n] \subseteq u[N]
    BY <1>1, <1>2, <2>2, ClimbGrows
  <2>4. \A a \in u[n] \cap Tasks : new[a] = tr[a]
    BY <1>4, <2>3
  <2>5. /\ v[n + 1] = v[n] \cup {new[a].parent : a \in v[n] \cap Tasks}
        /\ u[n + 1] = u[n] \cup {tr[a].parent : a \in u[n] \cap Tasks}
    BY <1>2, <1>3 DEF Climbs
  <2> QED
    BY <2>2, <2>4, <2>5
<1> HIDE DEF T
<1>7. N \in T
  BY <1>1, <1>5, <1>6, Induction
<1>8. Above(new, x) = Above(tr, x)
  BY <1>1, <1>2, <1>3, <1>7 DEF T
<1> QED
  BY <1>2, <1>4, <1>8 DEF Executable

-----------------------------------------------------------------------------
(* Changes of the tree reach today.                                        *)

\* An open promise of today that cannot be kept was one before, or can be kept.
StillOpen(r) ==
    \E q \in items[today] : LineOf(today, q) = LineOf(today, r) /\ q.st = "planned"
                            /\ ~ Executable(tree, q.task)
ReachesToday ==
    \A r \in items'[today] :
        (plans'[today].status = "active" /\ r.st = "planned" /\ ~ Executable(tree', r.task)) => StillOpen(r)

LEMMA ScheduledIs ==
    ASSUME NEW tr, NEW b, NEW F, NEW x, x = Scheduled(tr, b, F), NEW d \in Days
    PROVE  /\ InReach(b, d) => x.items[d] = Remaining(b, d, F[d]) \cup Appended(b, d, F[d])
           /\ ~ InReach(b, d) => x.items[d] = b.items[d] /\ x.plans[d] = b.plans[d]
<1>1. x.items = [e \in Days |-> IF InReach(b, e) THEN DayRows(b, e, F[e]) ELSE b.items[e]]
  BY DEF Scheduled
<1>2. x.plans = [e \in Days |->
            IF ~ InReach(b, e) THEN b.plans[e]
            ELSE [b.plans[e] EXCEPT !.status = "active",
                    !.frozen = @ \/ /\ e = today /\ ~ b.plans[e].removed
                                    /\ F[e].new # {} \/ F[e].rest # {}
                                    /\ ~ Withdrawn(b, e, F[e].rest)]]
  BY DEF Scheduled
<1>3. x.items[d] = IF InReach(b, d) THEN DayRows(b, d, F[d]) ELSE b.items[d]
  BY <1>1
<1>4. ~ InReach(b, d) => x.plans[d] = b.plans[d]
  BY <1>2
<1> QED
  BY <1>3, <1>4, DayRowsAre

\* The scheduler leaves a promise that cannot be kept only where it was.
LEMMA HopelessWasThere ==
    ASSUME PastOnly, NEW tr, NEW b, BoardInv(b), NEW x, x = Rescheduled(tr, b),
           NEW r \in x.items[today], r.st = "planned", ~ Executable(tr, r.task)
    PROVE  r \in b.items[today] /\ (x.plans[today].status = "active" => b.plans[today].status = "active")
<1> DEFINE e == Expired(b)
           F == Filling(tr, e, Stays(tr, e))
<1>1. today \in Days /\ ~ (today < today)
  BY DEF PastOnly, Days
<1>2. BoardInv(e) /\ e.plans[today] = b.plans[today] /\ e.items[today] = b.items[today]
  BY <1>1, ExpiredBoard
<1>3. x = Scheduled(tr, e, F)
  BY DEF Rescheduled
<1> HIDE DEF e
<1>4. InReach(e, today) => GoodFill(tr, e, today, F[today])
  BY <1>1, <1>2, FillIsGood
<1> HIDE DEF F
<1>5. CASE ~ InReach(e, today)
  BY <1>1, <1>2, <1>3, <1>5, ScheduledIs
<1>6. CASE InReach(e, today)
  <2>1. x.items[today] = Remaining(e, today, F[today]) \cup Appended(e, today, F[today])
    BY <1>1, <1>3, <1>6, ScheduledIs
  <2>2. \A q \in Appended(e, today, F[today]) : q.task \in F[today].new
    <3>1. TasksOf(Appended(e, today, F[today])) = F[today].new
      BY <1>1, <1>2, <1>4, <1>6, AppendedArePromises
    <3> QED
      BY <3>1 DEF TasksOf
  <2>3. r \in Remaining(e, today, F[today])
    BY <1>4, <1>6, <2>1, <2>2, EligibleAreTasks DEF GoodFill
  <2>4. Fixed(e, today)
    <3>1. TasksOf(Remaining(e, today, F[today])) = TasksOf(F[today].rest)
      BY <1>1, <1>2, <1>4, <1>6, RemainingIsKept
    <3>2. PICK q \in F[today].rest : q.task = r.task
      BY <2>3, <3>1 DEF TasksOf
    <3> QED
      BY <1>4, <1>6, <3>2, EligibleAreTasks DEF GoodFill
  <2>5. r \in e.items[today]
    BY <1>4, <1>6, <2>3, <2>4, KeptIsThere DEF Remaining, GoodFill
  <2>6. e.plans[today].status = "active"
    BY <1>1, <1>2, <1>6, <2>5 DEF InReach, BoardInv
  <2> QED
    BY <1>2, <2>5, <2>6
<1> QED
  BY <1>5, <1>6

LEMMA ReleasedPromisesAreOpen ==
    ASSUME NEW tr, NEW b, BoardInv(b), today \in Days, b.plans[today].status = "active",
           NEW r \in Released(tr, b).items[today], r.st = "planned"
    PROVE  Executable(tr, r.task)
<1> DEFINE x == Released(tr, b)
<1>1. x.items[today] = IF b.plans[today].status # "active" THEN b.items[today]
                       ELSE Withdrawals(tr, b.items[today])
  BY ReleasedIs
<1>2. r \in x.items[today]
  OBVIOUS
<1> HIDE DEF x
<1>3. PICK q \in b.items[today] : r = Withdraw(tr, q)
  BY <1>1, <1>2 DEF Withdrawals
<1>4. q \in Row
  BY DEF BoardInv, Boards
<1>5. Withdraw(tr, q).st = "planned" => Withdraw(tr, q) = q /\ Executable(tr, q.task)
  BY <1>4 DEF Withdraw, Row
<1> QED
  BY <1>3, <1>5

\* Withdrawn and rescheduled, today has no open promise that cannot be kept.
LEMMA ReflectedReaches ==
    ASSUME PastOnly, NEW tr, NEW b, BoardInv(b), NEW recovering, NEW x,
           x = Rescheduled(tr, IF recovering THEN Frozen(Released(tr, b)) ELSE Released(tr, b)),
           x.plans[today].status = "active", NEW r \in x.items[today], r.st = "planned"
    PROVE  Executable(tr, r.task)
<1> DEFINE e == Released(tr, b)
           c == IF recovering THEN Frozen(e) ELSE e
<1>1. SUFFICES ASSUME ~ Executable(tr, r.task) PROVE FALSE
  OBVIOUS
<1>2. today \in Days
  BY DEF PastOnly
<1>3. BoardInv(e) /\ e.plans = b.plans
  BY <1>2, ReleasedIs
<1> HIDE DEF e
<1>4. BoardInv(c) /\ c.items = e.items
      /\ (e.plans[today].status # "none" => c.plans[today].status = e.plans[today].status)
  BY <1>2, <1>3, FrozenIs
<1>5. x = Rescheduled(tr, c)
  BY DEF e
<1> HIDE DEF c
<1>6. r \in e.items[today] /\ c.plans[today].status = "active"
  BY <1>1, <1>4, <1>5, HopelessWasThere
<1>7. b.plans[today].status = "active"
  BY <1>2, <1>3, <1>4, <1>6 DEF BoardInv
<1> QED
  BY <1>1, <1>2, <1>6, <1>7, ReleasedPromisesAreOpen DEF e

LEMMA TreeChangesReach ==
    ASSUME Sound,
           \/ ChangeTree
           \/ \E d \in Days : \E r \in items[d] : CompletePlanItemWithTask(d, r)
    PROVE  ReachesToday
<1>1. CASE ChangeTree
  <2>1. PICK recovering \in BOOLEAN : Reflected(recovering)
    BY <1>1 DEF ChangeTree
  <2> DEFINE b == Released(tree', Board)
             x == Rescheduled(tree', IF recovering THEN Frozen(b) ELSE b)
  <2>2. plans' = x.plans /\ items' = x.items
    BY <2>1 DEF Reflected, Posted
  <2>3. \A r \in x.items[today] : (x.plans[today].status = "active" /\ r.st = "planned")
                                     => Executable(tree', r.task)
    BY BoardIsSound, ReflectedReaches
  <2> HIDE DEF x
  <2> QED
    BY <2>2, <2>3 DEF ReachesToday
<1>2. ASSUME NEW d \in Days, NEW q \in items[d], CompletePlanItemWithTask(d, q) PROVE ReachesToday
  <2> DEFINE b == [plans |-> plans,
                   items |-> Replaced(d, q, [q EXCEPT !.st = "satisfied", !.how = "result"])]
             x == Rescheduled(tree', Released(tree', b))
  <2>1. plans' = x.plans /\ items' = x.items
    BY <1>2 DEF CompletePlanItemWithTask, Posted
  <2>2. BoardInv(b)
    BY <1>2, CompletedBoard
  <2> HIDE DEF b
  <2>3. x = Rescheduled(tree', IF FALSE THEN Frozen(Released(tree', b)) ELSE Released(tree', b))
    OBVIOUS
  <2>4. \A r \in x.items[today] : (x.plans[today].status = "active" /\ r.st = "planned")
                                     => Executable(tree', r.task)
    <3> HIDE DEF x
    <3> QED
      BY <2>2, <2>3, BoardIsSound, ReflectedReaches
  <2> HIDE DEF x
  <2> QED
    BY <2>1, <2>4 DEF ReachesToday
<1> QED
  BY <1>1, <1>2

LEMMA RefreshReaches ==
    ASSUME Sound, RefreshSchedule
    PROVE  ReachesToday
<1> DEFINE x == Rescheduled(tree, Board)
<1>1. items' = x.items /\ tree' = tree
  BY DEF RefreshSchedule, Posted, OnPlans
<1>2. \A r \in x.items[today] : (r.st = "planned" /\ ~ Executable(tree, r.task)) => r \in Board.items[today]
  BY BoardIsSound, HopelessWasThere
<1>3. Board.items = items
  BY DEF Board
<1> HIDE DEF x
<1> QED
  BY <1>1, <1>2, <1>3 DEF ReachesToday, StillOpen

\* Rows of today that stay as they are, or can be done, or continue open ones.
LEMMA RowsReach ==
    ASSUME tree' = tree,
           \A r \in items'[today] :
               r.st = "planned" =>
                  \/ Executable(tree, r.task)
                  \/ \E q \in items[today] : q.task = r.task /\ q.line = r.line /\ q.st = "planned"
    PROVE  ReachesToday
BY DEF ReachesToday, StillOpen, LineOf

LEMMA EditPlanReaches ==
    ASSUME Sound, EditPlan
    PROVE  ReachesToday
<1>1. /\ today \in Days /\ items \in [Days -> SUBSET Row]
      /\ \A asked : \A t \in Candidates(asked) : Executable(tree, t)
  BY BoardIsSound, DayIsSound, EligibleAreTasks DEF Candidates
<1>2. ASSUME NEW d \in Days, NEW asked, NEW scoped, CreateDailyPlan(d, asked, scoped)
      PROVE  ReachesToday
  <2>1. \A r \in items'[d] : r.task \in Candidates(asked)
    <3> DEFINE chosen == FirstTasks(Candidates(asked), Slots)
               scope(t) == IF scoped THEN Above(tree, t) ELSE {}
    <3>1. items'[d] = {NewRow(t, 1, scope(t)) : t \in chosen}
      BY <1>1, <1>2 DEF CreateDailyPlan
    <3>2. chosen \subseteq Candidates(asked) /\ \A t \in chosen : NewRow(t, 1, scope(t)).task = t
      BY DEF FirstTasks, NewRow
    <3> HIDE DEF chosen, scope
    <3> QED
      BY <3>1, <3>2
  <2>2. tree' = tree /\ (d # today => items'[today] = items[today])
    BY <1>1, <1>2 DEF CreateDailyPlan, OnPlans
  <2> QED
    BY <1>1, <2>1, <2>2, RowsReach
<1>3. ASSUME NEW d \in Days, NEW asked, ReplanDailyPlan(d, asked) PROVE ReachesToday
  <2>1. tree' = tree /\ (d # today => items'[today] = items[today])
    BY <1>1, <1>3 DEF ReplanDailyPlan, OnPlans
  <2>2. CASE d # today
    BY <2>1, <2>2, RowsReach
  <2>3. CASE d = today
    <3> DEFINE kept == Retained(d, items[d])
               heads == ProtectedParents(tree, d, items[d])
               from == {t \in Candidates(asked) \ TasksOf(kept) : asked = {} => ~ DescendsFrom(tree, t, heads)}
               chosen == FirstTasks(from, Missing(Cardinality(kept)))
               scope(t) == IF asked = {} THEN {} ELSE Above(tree, t)
    <3>1. items'[d] = Unscoped(kept) \cup {NewRow(t, Continued(d, t), scope(t)) : t \in chosen}
      BY <1>1, <1>3 DEF ReplanDailyPlan, Unscoped
    <3>2. \A t \in chosen : t \in Candidates(asked) /\ NewRow(t, Continued(d, t), scope(t)).task = t
      BY DEF FirstTasks, NewRow
    <3>3. \A q \in kept : q \in items[d] /\ q \in Row
      BY <1>1 DEF Retained, Protected
    <3> HIDE DEF kept, chosen, scope
    <3>4. ASSUME NEW r \in Unscoped(kept)
          PROVE  \E q \in items[d] : q.task = r.task /\ q.line = r.line /\ q.st = r.st
      <4>1. PICK q \in kept : r = [q EXCEPT !.scope = {}]
        BY DEF Unscoped
      <4>2. q \in items[d] /\ q \in Row
        BY <3>3
      <4>3. q.task = r.task /\ q.line = r.line /\ q.st = r.st
        BY <4>1, <4>2 DEF Row
      <4> QED
        BY <4>2, <4>3
    <3>5. ASSUME NEW r \in items'[d], r.st = "planned"
          PROVE  \/ Executable(tree, r.task)
                 \/ \E q \in items[d] : q.task = r.task /\ q.line = r.line /\ q.st = "planned"
      <4>1. CASE r \in Unscoped(kept)
        BY <3>4, <3>5, <4>1
      <4>2. CASE r \notin Unscoped(kept)
        <5>1. r.task \in Candidates(asked)
          BY <3>1, <3>2, <4>2
        <5> QED
          BY <1>1, <5>1
      <4> QED
        BY <4>1, <4>2
    <3> QED
      BY <2>1, <2>3, <3>5, RowsReach
  <2> QED
    BY <2>2, <2>3
<1>4. ASSUME NEW d \in Days, NEW asked, ApplyDailyPlanProposal(d, asked) PROVE ReachesToday
  BY <1>2, <1>3, <1>4 DEF ApplyDailyPlanProposal
<1>5. ASSUME NEW d \in Days, NEW status, CloseDailyPlan(d, status) PROVE ReachesToday
  <2>1. \A r \in items'[today] : r.st = "planned" => r \in items[today]
    BY <1>1, <1>5 DEF CloseDailyPlan, Missed, Row
  <2> QED
    BY <1>5, <2>1, RowsReach DEF CloseDailyPlan, OnPlans
<1>6. ASSUME NEW d \in Days, NEW t \in Tasks, AddPlanItem(d, t) PROVE ReachesToday
  <2>1. \A r \in items'[today] : r \in items[today] \/ r.task = t
    BY <1>1, <1>6 DEF AddPlanItem, NewRow
  <2>2. Executable(tree, t) /\ tree' = tree
    BY <1>6, EligibleAreTasks DEF AddPlanItem, OnPlans
  <2> QED
    BY <2>1, <2>2, RowsReach
<1>7. ASSUME NEW d \in Days, NEW r \in items[d], NEW q, items' = Replaced(d, r, q), OnPlans,
             q.st = "planned" => Executable(tree, q.task)
      PROVE  ReachesToday
  <2>1. \A x \in items'[today] : x \in items[today] \/ x = q
    BY <1>1, <1>7 DEF Replaced
  <2> QED
    BY <1>7, <2>1, RowsReach DEF OnPlans
<1>8. ASSUME NEW d \in Days, NEW r \in items[d],
             \/ SkipPlanItem(d, r) \/ ReopenPlanItem(d, r)
             \/ CompletePlanItem(d, r, "result", {})
             \/ \E cited \in SUBSET Sessions : CompletePlanItem(d, r, "time", cited)
      PROVE  ReachesToday
  <2>1. r \in Row
    BY <1>1
  <2>2. CASE SkipPlanItem(d, r)
    <3> DEFINE q == [r EXCEPT !.st = "skipped"]
    <3>1. q.st = "skipped" /\ items' = Replaced(d, r, q) /\ OnPlans
      BY <2>1, <2>2 DEF SkipPlanItem, Row
    <3> HIDE DEF q
    <3> QED
      BY <1>7, <3>1
  <2>3. CASE ReopenPlanItem(d, r)
    <3> DEFINE q == Reopened(d, r)
    <3>1. q.task = r.task /\ (q.st = "planned" => Executable(tree, r.task))
      BY <2>1 DEF Reopened, Row
    <3>2. items' = Replaced(d, r, q) /\ OnPlans
      BY <2>3 DEF ReopenPlanItem
    <3> HIDE DEF q
    <3> QED
      BY <1>7, <3>1, <3>2
  <2>4. ASSUME NEW how, NEW cited, CompletePlanItem(d, r, how, cited) PROVE ReachesToday
    <3> DEFINE q == [r EXCEPT !.st = "satisfied", !.how = how, !.cited = cited]
    <3>1. q.st = "satisfied"
      BY <2>1 DEF Row
    <3>2. items' = Replaced(d, r, q) /\ OnPlans
      BY <2>4 DEF CompletePlanItem
    <3> HIDE DEF q
    <3> QED
      BY <1>7, <3>1, <3>2
  <2> QED
    BY <1>8, <2>2, <2>3, <2>4
<1>9. ASSUME NEW chosen, DeletePlanItems(chosen) PROVE ReachesToday
  <2>1. \A r \in items'[today] : r \in items[today]
    BY <1>1, <1>9 DEF DeletePlanItems
  <2> QED
    BY <1>9, <2>1, RowsReach DEF DeletePlanItems, OnPlans
<1> QED
  BY <1>2, <1>3, <1>4, <1>5, <1>6, <1>8, <1>9, TreeChangesReach DEF EditPlan

LEMMA CreateTaskReaches ==
    ASSUME Sound, NEW t \in Tasks, NEW p, CreateTask(t, p)
    PROVE  ReachesToday
<1>1. tree[t].state # "open" /\ items' = items /\ \A a \in Tasks : a # t => tree'[a] = tree[a]
  BY DEF CreateTask, Sound
<1>2. \A r \in items[today] : r.task \in Tasks
  BY BoardIsSound, DayIsSound DEF Row
<1>3. \A r \in items[today] : Executable(tree, r.task) => Executable(tree', r.task)
  BY <1>1, <1>2, CreatedIsNotAbove
<1> QED
  BY <1>1, <1>3 DEF ReachesToday, StillOpen

LEMMA FocusReaches ==
    ASSUME Sound, Focus
    PROVE  ReachesToday
<1>1. ASSUME NEW s, InvalidateSession(s) PROVE ReachesToday
  <2>1. today \in Days /\ items[today] \subseteq Row
    BY BoardIsSound, DayIsSound
  <2>2. items'[today] = {IF Undone(s, today, r) THEN Reopened(today, r) ELSE r : r \in items[today]}
    BY <1>1, <2>1 DEF InvalidateSession
  <2>3. \A r \in items[today] : /\ Reopened(today, r).task = r.task
                                /\ Reopened(today, r).st = "planned" => Executable(tree, r.task)
    BY <2>1 DEF Reopened, Row
  <2>4. \A r \in items'[today] : r.st = "planned" => r \in items[today] \/ Executable(tree, r.task)
    BY <2>2, <2>3
  <2> QED
    BY <1>1, <2>4, RowsReach DEF InvalidateSession
<1>2. CASE items' = items /\ tree' = tree
  BY <1>2, RowsReach
<1> QED
  BY <1>1, <1>2 DEF Focus, StartSession, EndSession

LEMMA StepReachesToday ==
    ASSUME Sound, PlanNext
    PROVE  ReachesToday
<1>1. CASE NextDay
  BY <1>1, RowsReach DEF NextDay
<1> QED
  BY <1>1, TreeChangesReach, CreateTaskReaches, EditPlanReaches, FocusReaches, RefreshReaches
     DEF PlanNext, ByUser

\* No change of the tree leaves today with an open promise that it made
\* impossible (ChangesReachToday): what Released withdraws is not put back by the
\* scheduler, which appends and keeps only what can be done.
THEOREM TreeChangesReachToday == PlanSpec => ChangesReachToday
<1>1. ASSUME PlanInv, [PlanNext]_planVars
      PROVE  [\A r \in items'[today] :
                 (plans'[today].status = "active" /\ r.st = "planned" /\ ~ Executable(tree', r.task))
                     => \E q \in items[today] : /\ LineOf(today, q) = LineOf(today, r) /\ q.st = "planned"
                                                /\ ~ Executable(tree, q.task)]_planVars
  BY <1>1, StepReachesToday DEF PlanInv, ReachesToday, StillOpen
<1> QED
  BY <1>1, PlanIsSound, PTL DEF PlanSpec, ChangesReachToday

-----------------------------------------------------------------------------
(* A refresh gives a task one place.                                       *)

LEMMA QueueIsFree ==
    ASSUME NEW tr, NEW b, NEW stay, NEW d \in Days, InReach(b, d)
    PROVE  Queue(tr, b, stay) \cap Held(b, d, stay[d]) = {}
BY DEF Queue

\* Of two days that keep a task the earlier one holds it.
LEMMA KeptOnOneDay ==
    ASSUME PastOnly, NEW tr, NEW b, BoardInv(b), NEW stay, stay = Stays(tr, b),
           NEW d \in Days, NEW e \in Days, today <= d, d < e
    PROVE  Held(b, d, stay[d]) \cap TasksOf(stay[e]) = {}
<1>1. d \in Nat /\ e \in Nat /\ today \in Nat /\ e > today
  BY DEF PastOnly, Days
<1>2. ~ Fixed(b, e)
  BY <1>1, LaterDayIsFree
<1>3. \A r \in stay[e] : r.task \notin Taken(b, stay, e)
  BY <1>2, StaysGive
<1>4. d \in today .. e - 1
  BY <1>1
<1>5. Held(b, d, stay[d]) \subseteq Taken(b, stay, e)
  BY <1>4 DEF Taken
<1> QED
  BY <1>3, <1>5 DEF TasksOf

\* A task that is pulled to today is not left on a later day.
LEMMA PulledIsNotLeft ==
    ASSUME PastOnly, NEW tr, NEW b, BoardInv(b), NEW stay, stay = Stays(tr, b),
           NEW pulled, pulled = Pulled(tr, b, stay),
           NEW d \in Days, NEW r \in pulled[d], NEW e \in Days, today < e, NEW q \in stay[e] \ pulled[e]
    PROVE  r.task # q.task
<1>1. pulled[d] \subseteq stay[d] /\ (d <= today => pulled[d] = {})
  BY PulledIsFound
<1>2. d \in Nat /\ e \in Nat /\ today \in Nat /\ today < d /\ today <= d /\ today <= e
  BY <1>1 DEF PastOnly, Days
<1>3. DaysCanGive(stay)
  BY StaysGive
<1>4. ~ Fixed(b, d) /\ ~ Fixed(b, e)
  BY <1>2, LaterDayIsFree
<1>5. Held(b, d, stay[d]) = TasksOf(stay[d]) /\ Held(b, e, stay[e]) = TasksOf(stay[e])
  BY <1>4 DEF Held
<1>6. r.task \in TasksOf(stay[d]) /\ q.task \in TasksOf(stay[e])
  BY <1>1 DEF TasksOf
<1>7. CASE d = e
  <2>1. OnePerTask(stay[e]) /\ r \in stay[e] /\ r # q
    BY <1>1, <1>2, <1>3, <1>7 DEF DaysCanGive
  <2> QED
    BY <2>1 DEF OnePerTask
<1>8. CASE d < e
  <2>1. Held(b, d, stay[d]) \cap TasksOf(stay[e]) = {}
    BY <1>2, <1>8, KeptOnOneDay
  <2> QED
    BY <1>5, <1>6, <2>1
<1>9. CASE e < d
  <2>1. Held(b, e, stay[e]) \cap TasksOf(stay[d]) = {}
    BY <1>2, <1>9, KeptOnOneDay
  <2> QED
    BY <1>5, <1>6, <2>1
<1> QED
  BY <1>2, <1>7, <1>8, <1>9

\* The tasks the scheduler puts or leaves on a day.
Promised(b, d, f) == Held(b, d, f.rest) \cup f.new

LEMMA PlacesAreApart ==
    ASSUME PastOnly, NEW tr, NEW b, BoardInv(b), NEW stay, stay = Stays(tr, b),
           NEW F, F = Filling(tr, b, stay),
           NEW d \in Days, InReach(b, d), NEW e \in Days, InReach(b, e), d < e
    PROVE  Promised(b, d, F[d]) \cap Promised(b, e, F[e]) = {}
<1> DEFINE pulled == Pulled(tr, b, stay)
           P == UNION {TasksOf(pulled[x]) : x \in Days}
           earlier(x) == UNION {F[y].new : y \in today .. x - 1}
           Q == Queue(tr, b, stay)
<1>1. /\ today \in Days /\ today \in Nat /\ d \in Nat /\ e \in Nat
      /\ today <= d /\ today < e /\ d \in today .. e - 1
  BY DEF PastOnly, Days, InReach
<1>2. ASSUME NEW x \in Days
      PROVE  /\ F[x].rest = stay[x] \ pulled[x]
             /\ F[x].new = Newcomers(tr, b, stay, pulled, x, earlier(x))
  BY <1>1, FillingIsSolved
<1>3. ~ Fixed(b, e)
  BY <1>1, LaterDayIsFree
<1>4. /\ F[e].new \subseteq Q \ earlier(e)
      /\ d # today => F[d].new \subseteq Q
      /\ d = today => F[d].new = FromQueue(tr, b, stay) \cup P
  <2> HIDE DEF pulled, earlier
  <2>1. ASSUME NEW x \in Days, x > today PROVE F[x].new \subseteq Q \ earlier(x)
    <3>1. ~ (x < today) /\ x # today
      BY <1>1, <2>1 DEF Days
    <3>2. F[x].new = FirstTasks(Q \ earlier(x), Room(b, x, stay[x] \ pulled[x]))
      BY <1>2, <3>1 DEF Newcomers
    <3> HIDE DEF Q
    <3> QED
      BY <3>2 DEF FirstTasks
  <2>2. d = today => F[d].new = FromQueue(tr, b, stay) \cup P
    <3>1. d = today => ~ (d < today)
      BY <1>1
    <3> QED
      BY <1>2, <3>1 DEF Newcomers
  <2>3. d # today => d > today
    BY <1>1
  <2> HIDE DEF P, Q
  <2> QED
    BY <1>1, <2>1, <2>2, <2>3
<1>5. FromQueue(tr, b, stay) \subseteq Q
  BY StaysGive
<1>6. Q \cap Held(b, d, stay[d]) = {} /\ Q \cap Held(b, e, stay[e]) = {}
  BY QueueIsFree
<1>7. Held(b, d, F[d].rest) \subseteq Held(b, d, stay[d]) /\ Held(b, e, F[e].rest) \subseteq Held(b, e, stay[e])
  <2>1. F[d].rest \in SUBSET stay[d] /\ F[e].rest \in SUBSET stay[e]
    BY <1>2
  <2> QED
    BY <2>1, HeldShrinks
<1>8. Held(b, e, F[e].rest) = TasksOf(F[e].rest) /\ Held(b, e, stay[e]) = TasksOf(stay[e])
  BY <1>3 DEF Held
<1>9. Held(b, d, stay[d]) \cap TasksOf(stay[e]) = {}
  BY <1>1, KeptOnOneDay
<1>10. F[d].new \subseteq earlier(e)
  BY <1>1
<1>11. P \cap TasksOf(F[e].rest) = {}
  <2>1. ASSUME NEW x \in Days, NEW r \in pulled[x], NEW q \in stay[e] \ pulled[e] PROVE r.task # q.task
    BY <1>1, PulledIsNotLeft
  <2> HIDE DEF pulled
  <2>2. SUFFICES ASSUME NEW t \in P, t \in TasksOf(F[e].rest) PROVE FALSE
    OBVIOUS
  <2>3. PICK x \in Days : t \in TasksOf(pulled[x])
    BY <2>2
  <2>4. F[e].rest = stay[e] \ pulled[e]
    BY <1>2
  <2> QED
    BY <2>1, <2>2, <2>3, <2>4 DEF TasksOf
<1> HIDE DEF pulled, P, earlier, Q
<1>12. F[d].new \cap F[e].new = {}
  BY <1>4, <1>10
<1>13. Held(b, d, F[d].rest) \cap Held(b, e, F[e].rest) = {}
  BY <1>7, <1>8, <1>9
<1>14. Held(b, d, F[d].rest) \cap F[e].new = {}
  BY <1>4, <1>6, <1>7
<1>15. F[d].new \cap Held(b, e, F[e].rest) = {}
  <2>1. Q \cap Held(b, e, F[e].rest) = {}
    BY <1>6, <1>7
  <2> QED
    BY <1>4, <1>5, <1>8, <1>11, <2>1
<1> QED
  BY <1>12, <1>13, <1>14, <1>15 DEF Promised

\* An open promise the scheduler leaves is one of those.
LEMMA OpenIsPromised ==
    ASSUME PastOnly, NEW tr, NEW b, BoardInv(b), NEW d \in Days, InReach(b, d), NEW f, GoodFill(tr, b, d, f),
           NEW r \in Remaining(b, d, f) \cup Appended(b, d, f), r.st = "planned"
    PROVE  r.task \in Promised(b, d, f)
<1>1. TasksOf(Appended(b, d, f)) = f.new
  BY AppendedArePromises
<1>2. TasksOf(Remaining(b, d, f)) = TasksOf(f.rest)
  BY RemainingIsKept
<1>3. CASE r \in Appended(b, d, f)
  BY <1>1, <1>3 DEF TasksOf, Promised
<1>4. CASE r \in Remaining(b, d, f) /\ ~ Fixed(b, d)
  BY <1>2, <1>4 DEF TasksOf, Promised, Held
<1>5. CASE r \in Remaining(b, d, f) /\ Fixed(b, d)
  BY <1>5 DEF Remaining, TasksOf, Promised, Held, Counted
<1> QED
  BY <1>3, <1>4, <1>5

OneTaskOnePlace(b, x) ==
    \A d, e \in {y \in Days : InReach(b, y)} : \A r \in x.items[d], q \in x.items[e] :
        (r.task = q.task /\ r.st = "planned" /\ q.st = "planned") => d = e /\ r = q

LEMMA ScheduledOnce ==
    ASSUME PastOnly, NEW tr, NEW b, BoardInv(b), NEW x,
           x = Scheduled(tr, b, Filling(tr, b, Stays(tr, b)))
    PROVE  OneTaskOnePlace(b, x)
<1> DEFINE F == Filling(tr, b, Stays(tr, b))
<1>1. ASSUME NEW d \in Days, InReach(b, d)
      PROVE  /\ GoodFill(tr, b, d, F[d])
             /\ x.items[d] = Remaining(b, d, F[d]) \cup Appended(b, d, F[d])
  BY <1>1, FillIsGood, ScheduledIs
<1>2. \A d, e \in Days : (InReach(b, d) /\ InReach(b, e) /\ d < e) =>
         Promised(b, d, F[d]) \cap Promised(b, e, F[e]) = {}
  <2> DEFINE stay == Stays(tr, b)
  <2>1. F = Filling(tr, b, stay)
    OBVIOUS
  <2> HIDE DEF F
  <2> QED
    BY <2>1, PlacesAreApart
<1> HIDE DEF F
<1>3. ASSUME NEW d \in Days, InReach(b, d), NEW r \in x.items[d], r.st = "planned"
      PROVE  r.task \in Promised(b, d, F[d])
  BY <1>1, <1>3, OpenIsPromised
<1>4. BoardInv(x)
  BY ScheduledBoard
<1>5. SUFFICES ASSUME NEW d \in Days, InReach(b, d), NEW e \in Days, InReach(b, e),
                      NEW r \in x.items[d], NEW q \in x.items[e], r.task = q.task,
                      r.st = "planned", q.st = "planned"
               PROVE  d = e /\ r = q
  BY DEF OneTaskOnePlace
<1>6. r.task \in Promised(b, d, F[d]) /\ r.task \in Promised(b, e, F[e])
  BY <1>3, <1>5
<1>7. d = e
  <2>1. d \in Nat /\ e \in Nat
    BY DEF Days
  <2>2. ~ (d < e) /\ ~ (e < d)
    BY <1>2, <1>5, <1>6
  <2> QED
    BY <2>1, <2>2
<1>8. Once(x.items[d])
  BY <1>4 DEF BoardInv, DayInv
<1> QED
  BY <1>5, <1>7, <1>8 DEF Once

LEMMA RefreshPlacesOnce ==
    ASSUME Sound, RefreshSchedule
    PROVE  \A d, e \in {x \in Days : InReach(Board, x)} : \A r \in items'[d], q \in items'[e] :
              (r.task = q.task /\ r.st = "planned" /\ q.st = "planned") => d = e /\ r = q
<1> DEFINE b == Expired(Board)
           x == Scheduled(tree, b, Filling(tree, b, Stays(tree, b)))
<1>1. items' = x.items
  BY DEF RefreshSchedule, Posted, Rescheduled
<1>2. BoardInv(b) /\ \A d \in Days : ~ (d < today) => b.plans[d] = Board.plans[d]
  BY BoardIsSound, ExpiredBoard
<1> HIDE DEF b
<1>3. OneTaskOnePlace(b, x)
  BY <1>2, BoardIsSound, ScheduledOnce
<1> HIDE DEF x
<1>4. \A d \in Days : InReach(Board, d) => InReach(b, d)
  <2>1. \A d \in Days : today <= d => ~ (d < today)
    BY BoardIsSound DEF Days
  <2> QED
    BY <1>2, <2>1 DEF InReach
<1> QED
  BY <1>1, <1>3, <1>4 DEF OneTaskOnePlace

\* A refresh leaves no task promised in two places from today on
\* (OnePlaceAtATime): a day keeps only what no earlier day holds, the queue leaves
\* out what any day keeps, and what is pulled to today is taken from its day.
THEOREM RefreshGivesOnePlace == PlanSpec => OnePlaceAtATime
<1>1. ASSUME PlanInv, PlanNext, edits' = edits, sessions' = sessions, today' = today
      PROVE  RefreshSchedule
  <2>1. ~ ByUser
    BY <1>1 DEF ByUser, PlanInv
  <2>2. ~ NextDay
    BY <1>1 DEF NextDay, PlanInv, Sound, PastOnly, Days
  <2>3. ~ Focus
    <3>1. sessions \in [Sessions -> Session]
      BY <1>1 DEF PlanInv, Sound, PastOnly
    <3>2. \A s \in Sessions : \A d, r : ~ StartSession(s, d, r)
      BY <1>1, <3>1 DEF StartSession
    <3>3. \A s \in Sessions : \A n : ~ EndSession(s, n)
      BY <1>1, <3>1 DEF EndSession, Session
    <3>4. \A s \in Sessions : ~ InvalidateSession(s)
      BY <1>1, <3>1 DEF InvalidateSession, Session
    <3> QED
      BY <3>2, <3>3, <3>4 DEF Focus
  <2> QED
    BY <1>1, <2>1, <2>2, <2>3 DEF PlanNext
<1>2. ASSUME PlanInv, [PlanNext]_planVars
      PROVE  [(edits' = edits /\ sessions' = sessions /\ today' = today) =>
                 \A d, e \in {x \in Days : InReach(Board, x)} : \A r \in items'[d], q \in items'[e] :
                     (r.task = q.task /\ r.st = "planned" /\ q.st = "planned") => d = e /\ r = q]_planVars
  BY <1>1, <1>2, RefreshPlacesOnce DEF PlanInv
<1> QED
  BY <1>2, PlanIsSound, PTL DEF PlanSpec, OnePlaceAtATime

=============================================================================
