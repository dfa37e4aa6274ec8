--------------------------- MODULE TaskTreeProofs ---------------------------
(***************************************************************************)
(* The task tree keeps its live branches, its batches and its order of     *)
(* work, for any number of goals and tasks.                                *)
(***************************************************************************)
EXTENDS TaskTree, Recursion

-----------------------------------------------------------------------------
(* Paths.                                                                  *)

Edges == [Tasks -> SUBSET Tasks]
Closed(next, S) == \A x \in S : next[x] \subseteq S
Grown(next, S) == S \cup UNION {next[x] : x \in S}

\* The iteration of Reach is defined: its rounds satisfy their own equation.
LEMMA RoundsExist ==
    ASSUME NEW next \in Edges, NEW t \in Tasks
    PROVE  \E w \in [Nat -> SUBSET Tasks] :
              /\ w[0] = {t}
              /\ \A n \in Nat : w[n + 1] = Grown(next, w[n])
              /\ Reach(next, t) = w[Cardinality(Tasks)]
<1> DEFINE step == [n \in Nat |-> [X \in SUBSET Tasks |-> Grown(next, X)]]
           within == CHOOSE w : w = [n \in Nat |->
              IF n = 0 THEN {t} ELSE w[n - 1] \cup UNION {next[x] : x \in w[n - 1]}]
<1>1. \A X \in SUBSET Tasks : Grown(next, X) \in SUBSET Tasks
  BY DEF Grown, Edges
<1>2. step \in [Nat -> [SUBSET Tasks -> SUBSET Tasks]] /\ {t} \in SUBSET Tasks
  BY <1>1
<1>3. PICK w \in [Nat -> SUBSET Tasks] : w[0] = {t} /\ \A n \in Nat : w[n + 1] = step[n][w[n]]
  <2> DEFINE S == SUBSET Tasks
             a == {t}
  <2>1. a \in S /\ Steps(step, S)
    BY <1>2 DEF Steps
  <2> HIDE DEF step, within, S, a
  <2>2. \E w \in [Nat -> S] : w[0] = a /\ \A n \in Nat : w[n + 1] = step[n][w[n]]
    BY <2>1, IterationExists
  <2> QED
    BY <2>2 DEF S, a
<1>4. \A n \in Nat : w[n + 1] = Grown(next, w[n])
  BY <1>3
<1>5. w = [n \in Nat |-> IF n = 0 THEN {t} ELSE w[n - 1] \cup UNION {next[x] : x \in w[n - 1]}]
  <2>1. ASSUME NEW n \in Nat, n # 0 PROVE w[n] = w[n - 1] \cup UNION {next[x] : x \in w[n - 1]}
    <3>1. n - 1 \in Nat /\ (n - 1) + 1 = n
      BY <2>1
    <3> QED
      BY <3>1, <1>4 DEF Grown
  <2> QED
    BY <1>3, <2>1
<1>6. within = [n \in Nat |->
              IF n = 0 THEN {t} ELSE within[n - 1] \cup UNION {next[x] : x \in within[n - 1]}]
  BY <1>5
<1>7. Reach(next, t) = within[Cardinality(Tasks)]
  BY DEF Reach
<1> HIDE DEF within, step
<1>8. within[0] = {t} /\ \A n \in Nat : within[n + 1] = Grown(next, within[n])
  <2>1. ASSUME NEW n \in Nat PROVE within[n + 1] = Grown(next, within[n])
    <3>1. n + 1 \in Nat /\ n + 1 # 0 /\ (n + 1) - 1 = n
      OBVIOUS
    <3> QED
      BY <1>6, <3>1 DEF Grown
  <2> QED
    BY <1>6, <2>1
<1>9. within \in [Nat -> SUBSET Tasks]
  <2> DEFINE T == {n \in Nat : within[n] \in SUBSET Tasks}
  <2>1. 0 \in T
    BY <1>8
  <2>2. \A n \in Nat : n \in T => n + 1 \in T
    BY <1>8, <1>1
  <2> HIDE DEF T
  <2>3. \A n \in Nat : n \in T
    BY <2>1, <2>2, Induction
  <2>4. \A n \in Nat : within[n] \in SUBSET Tasks
    BY <2>3 DEF T
  <2> QED
    BY <1>6, <2>4
<1> QED
  BY <1>7, <1>8, <1>9

\* What is reached from t is the least set that holds t and is closed under the
\* edges: after as many rounds as there are tasks nothing new can be found.
LEMMA ReachIsLeast ==
    ASSUME NEW next \in Edges, NEW t \in Tasks
    PROVE  /\ Reach(next, t) \in SUBSET Tasks
           /\ t \in Reach(next, t)
           /\ Closed(next, Reach(next, t))
           /\ \A S \in SUBSET Tasks : (t \in S /\ Closed(next, S)) => Reach(next, t) \subseteq S
<1>1. PICK w \in [Nat -> SUBSET Tasks] :
         /\ w[0] = {t}
         /\ \A n \in Nat : w[n + 1] = Grown(next, w[n])
         /\ Reach(next, t) = w[Cardinality(Tasks)]
  BY RoundsExist
<1>2. Cardinality(Tasks) \in Nat
  BY TasksAssumption, FS_CardinalityType
<1>3. \A n \in Nat : IsFiniteSet(w[n]) /\ Cardinality(w[n]) \in Nat
                     /\ Cardinality(w[n]) <= Cardinality(Tasks)
  BY <1>1, TasksAssumption, FS_Subset, FS_CardinalityType
<1>4. Closed(next, w[Cardinality(Tasks)])
  <2> DEFINE T == {n \in Nat : Closed(next, w[n]) \/ Cardinality(w[n]) >= n + 1}
  <2>1. 0 \in T
    <3>1. Cardinality(w[0]) = 1
      BY <1>1, FS_Singleton
    <3> QED
      BY <3>1
  <2>2. ASSUME NEW n \in Nat, n \in T PROVE n + 1 \in T
    <3>1. w[n + 1] = Grown(next, w[n]) /\ w[n] \subseteq w[n + 1] /\ n + 1 \in Nat
      BY <1>1 DEF Grown
    <3>2. CASE Closed(next, w[n])
      <4>1. w[n + 1] = w[n]
        BY <3>1, <3>2 DEF Grown, Closed
      <4> QED
        BY <3>1, <3>2, <4>1
    <3>3. CASE ~ Closed(next, w[n])
      <4>1. w[n + 1] # w[n]
        BY <3>1, <3>3 DEF Grown, Closed
      <4>2. Cardinality(w[n]) <= Cardinality(w[n + 1]) /\ Cardinality(w[n]) # Cardinality(w[n + 1])
        BY <3>1, <4>1, <1>3, FS_Subset
      <4>3. Cardinality(w[n + 1]) >= (n + 1) + 1
        BY <4>2, <1>3, <3>1, <3>3, <2>2
      <4> QED
        BY <3>1, <4>3
    <3> QED
      BY <3>2, <3>3
  <2> HIDE DEF T
  <2>3. Cardinality(Tasks) \in T
    BY <2>1, <2>2, <1>2, Induction
  <2> QED
    BY <2>3, <1>2, <1>3 DEF T
<1>5. t \in w[Cardinality(Tasks)]
  <2> DEFINE T == {n \in Nat : t \in w[n]}
  <2>1. 0 \in T
    BY <1>1
  <2>2. \A n \in Nat : n \in T => n + 1 \in T
    BY <1>1 DEF Grown
  <2> HIDE DEF T
  <2>3. Cardinality(Tasks) \in T
    BY <2>1, <2>2, <1>2, Induction
  <2> QED
    BY <2>3 DEF T
<1>6. ASSUME NEW S \in SUBSET Tasks, t \in S, Closed(next, S) PROVE w[Cardinality(Tasks)] \subseteq S
  <2> DEFINE T == {n \in Nat : w[n] \subseteq S}
  <2>1. 0 \in T
    BY <1>1, <1>6
  <2>2. \A n \in Nat : n \in T => n + 1 \in T
    BY <1>1, <1>6 DEF Grown, Closed
  <2> HIDE DEF T
  <2>3. Cardinality(Tasks) \in T
    BY <2>1, <2>2, <1>2, Induction
  <2> QED
    BY <2>3 DEF T
<1> QED
  BY <1>1, <1>2, <1>4, <1>5, <1>6

\* What is reached from something reached is reached.
LEMMA ReachIsTransitive ==
    ASSUME NEW next \in Edges, NEW t \in Tasks, NEW x \in Reach(next, t)
    PROVE  Reach(next, x) \subseteq Reach(next, t)
<1>1. x \in Tasks
  BY ReachIsLeast
<1> QED
  BY <1>1, ReachIsLeast

\* What is reached and is not the start is reached from a successor of it.
LEMMA ReachFromSuccessor ==
    ASSUME NEW next \in Edges, NEW t \in Tasks, NEW x \in Reach(next, t), x # t
    PROVE  \E y \in next[t] : x \in Reach(next, y)
<1> DEFINE S == {t} \cup {z \in Tasks : \E y \in next[t] : z \in Reach(next, y)}
<1>1. next[t] \subseteq Tasks /\ \A z \in Tasks : next[z] \subseteq Tasks
  BY DEF Edges
<1>2. S \in SUBSET Tasks /\ t \in S
  OBVIOUS
<1>3. next[t] \subseteq S
  BY <1>1, ReachIsLeast
<1>4. ASSUME NEW z \in S, z # t PROVE next[z] \subseteq S
  <2>1. PICK y \in next[t] : z \in Reach(next, y)
    BY <1>4
  <2>2. next[z] \subseteq Reach(next, y)
    BY <2>1, <1>1, ReachIsLeast DEF Closed
  <2> QED
    BY <2>1, <2>2, <1>1, <1>4
<1>5. Closed(next, S)
  BY <1>3, <1>4 DEF Closed
<1> HIDE DEF S
<1>6. x \in S
  BY <1>2, <1>5, ReachIsLeast
<1> QED
  BY <1>6 DEF S

-----------------------------------------------------------------------------
(* The inductive invariant of the tree, of two tables: a proposal passes   *)
(* through tables that are never the current ones.                         *)

TablesOK(gs, ts) == gs \in [Goals -> GoalRow] /\ ts \in [Tasks -> TaskRow]

\* A goal is in its own batch or in none, and one that does not exist in none.
GoalsOK(gs) ==
    \A g \in Goals : /\ gs[g].batch \in {None, g}
                     /\ gs[g].status = "absent" => gs[g].batch = None

\* A parent belongs to the same goal, in the bin too.
HangsWell(ts) ==
    \A t \in Tasks : Present(ts, t) =>
        \A p \in Above(ts, t) : GoalOf[p] = GoalOf[t]

\* A kept task has a live goal and a kept parent.
KeptUp(gs, ts) ==
    \A t \in Tasks : Kept(ts, t) =>
        /\ GoalLive(gs, GoalOf[t])
        /\ \A p \in Above(ts, t) : Kept(ts, p)

\* Who went into the bin with a goal: tasks of that goal, and with each of them
\* its parent.
WentWithGoal(gs, ts, t, g) ==
    /\ GoalOf[t] = g /\ gs[g].batch = g
    /\ \A p \in Above(ts, t) : ts[p].batch = g

\* Who went into the bin with a task: what hangs below it, and with each of them
\* but the root its parent.
WentWithTask(ts, t, r) ==
    /\ ts[r].batch = r /\ GoalOf[t] = GoalOf[r] /\ r \in Ancestors(ts, t)
    /\ t # r => ts[t].parent \in Tasks /\ ts[ts[t].parent].batch = r

BinOK(gs, ts) ==
    \A t \in Tasks : ts[t].batch # None =>
        /\ Present(ts, t)
        /\ ts[t].batch \in Goals => WentWithGoal(gs, ts, t, ts[t].batch)
        /\ ts[t].batch \in Tasks => WentWithTask(ts, t, ts[t].batch)

TreeOK(gs, ts) == TablesOK(gs, ts) /\ GoalsOK(gs) /\ HangsWell(ts) /\ KeptUp(gs, ts) /\ BinOK(gs, ts)

\* Parents and prerequisites form no circle.
Ordered(ts) == Acyclic([x \in Tasks |-> Needs(ts, x)], Tasks)

\* The task somebody works on is kept: the deletions look at the focus first.
FocusOK(ts) == focus # None => focus \in Tasks /\ Kept(ts, focus)

GoodTables(gs, ts) == TreeOK(gs, ts) /\ Ordered(ts) /\ FocusOK(ts)

TreeInv == GoodTables(goals, tasks) /\ focus \in Tasks \cup {None}

-----------------------------------------------------------------------------
(* Paths in the tree.                                                      *)

LEMMA AncestorsAreLeast ==
    ASSUME NEW ts, NEW t \in Tasks
    PROVE  /\ Ancestors(ts, t) \in SUBSET Tasks
           /\ t \in Ancestors(ts, t)
           /\ \A a \in Ancestors(ts, t) : Above(ts, a) \subseteq Ancestors(ts, t)
           /\ \A S \in SUBSET Tasks :
                 (t \in S /\ \A x \in S : Above(ts, x) \subseteq S) => Ancestors(ts, t) \subseteq S
<1> DEFINE next == [x \in Tasks |-> Above(ts, x)]
<1>1. next \in Edges /\ \A x \in Tasks : next[x] = Above(ts, x)
  BY DEF Edges, Above
<1>2. Ancestors(ts, t) = Reach(next, t)
  BY DEF Ancestors
<1> HIDE DEF next
<1> QED
  BY <1>1, <1>2, ReachIsLeast DEF Closed

\* An ancestor other than the task itself is one of its parent.
LEMMA AncestorsOfParent ==
    ASSUME NEW ts, NEW t \in Tasks, NEW a \in Ancestors(ts, t), a # t
    PROVE  ts[t].parent \in Tasks /\ a \in Ancestors(ts, ts[t].parent)
<1> DEFINE next == [x \in Tasks |-> Above(ts, x)]
<1>1. next \in Edges /\ next[t] = Above(ts, t)
  BY DEF Edges, Above
<1>2. \A x \in Tasks : Ancestors(ts, x) = Reach(next, x)
  BY DEF Ancestors
<1> HIDE DEF next
<1>3. \E y \in next[t] : a \in Reach(next, y)
  BY <1>1, <1>2, ReachFromSuccessor
<1> QED
  BY <1>1, <1>2, <1>3 DEF Above

\* The invariant speaks of one edge at a time; here it is of whole branches.
LEMMA KeptBranchIsLive ==
    ASSUME NEW gs, NEW ts, TreeOK(gs, ts), NEW t \in Tasks, Kept(ts, t)
    PROVE  TaskLive(gs, ts, t)
<1> DEFINE S == {a \in Tasks : Kept(ts, a) /\ GoalOf[a] = GoalOf[t]}
<1>1. S \in SUBSET Tasks /\ t \in S
  OBVIOUS
<1>2. \A x \in S : Above(ts, x) \subseteq S
  BY DEF TreeOK, KeptUp, HangsWell, Kept, Above
<1> HIDE DEF S
<1>3. Ancestors(ts, t) \subseteq S
  BY <1>1, <1>2, AncestorsAreLeast
<1> QED
  BY <1>3 DEF S, TaskLive, TreeOK, KeptUp

\* The way up from a task of a batch to the batch's root stays inside the batch:
\* it is still there when edges outside the batch change.
LEMMA RootStaysAbove ==
    ASSUME NEW ts, NEW us, NEW r \in Tasks, NEW t \in Tasks,
           r \in Ancestors(ts, t), ts[t].batch = r,
           \A x \in Tasks : ts[x].batch = r => Above(us, x) = Above(ts, x),
           \A x \in Tasks : (ts[x].batch = r /\ x # r) =>
              ts[x].parent \in Tasks /\ ts[ts[x].parent].batch = r
    PROVE  r \in Ancestors(us, t)
<1>1. SUFFICES ASSUME r \notin Ancestors(us, t) PROVE FALSE
  OBVIOUS
<1> DEFINE S == {x \in Ancestors(us, t) : ts[x].batch = r}
<1>2. S \in SUBSET Tasks /\ t \in S
  BY AncestorsAreLeast
<1>3. ASSUME NEW x \in S PROVE Above(ts, x) \subseteq S
  <2>1. x \in Tasks /\ x # r /\ ts[x].batch = r /\ Above(us, x) \subseteq Ancestors(us, t)
    BY <1>1, AncestorsAreLeast
  <2>2. Above(ts, x) = Above(us, x) /\ \A p \in Above(ts, x) : ts[p].batch = r
    BY <2>1 DEF Above
  <2> QED
    BY <2>1, <2>2
<1> HIDE DEF S
<1>4. r \in S
  BY <1>2, <1>3, AncestorsAreLeast
<1> QED
  BY <1>1, <1>4 DEF S

\* The table with one row replaced.
LEMMA RowTyped ==
    ASSUME NEW gs, NEW ts, TablesOK(gs, ts), NEW t \in Tasks, NEW row \in TaskRow
    PROVE  /\ [ts EXCEPT ![t] = row] \in [Tasks -> TaskRow]
           /\ [ts EXCEPT ![t] = row][t] = row
           /\ \A x \in Tasks : x # t => [ts EXCEPT ![t] = row][x] = ts[x]
BY DEF TablesOK

-----------------------------------------------------------------------------
(* What the operations do to the tree.                                     *)

\* A task that is created, moved, rewired or restated: its new row is not in the
\* bin and hangs below a kept task of the same goal, if it hangs anywhere.
LEMMA RowReplaced ==
    ASSUME NEW gs, NEW ts, TreeOK(gs, ts), NEW t \in Tasks, NEW row \in TaskRow,
           ts[t].batch = None, row.batch = None, row.status # "absent",
           GoalLive(gs, GoalOf[t]),
           row.parent # None => Kept(ts, row.parent) /\ GoalOf[row.parent] = GoalOf[t]
    PROVE  TreeOK(gs, [ts EXCEPT ![t] = row])
<1> DEFINE us == [ts EXCEPT ![t] = row]
<1>1. us \in [Tasks -> TaskRow] /\ us[t] = row /\ \A x \in Tasks : x # t => us[x] = ts[x]
  BY RowTyped DEF TreeOK
<1>2. row.parent \in Tasks \cup {None} /\ Above(us, t) \subseteq {row.parent} \cap Tasks
      /\ None \notin Tasks
  BY <1>1, NoneAssumption DEF TaskRow, Above
<1>3. \A x \in Tasks : x # t => Above(us, x) = Above(ts, x)
  BY <1>1 DEF Above
<1> HIDE DEF us
<1>4. \A x \in Tasks : Kept(ts, x) \/ x = t => Kept(us, x)
  BY <1>1 DEF Kept, Present
<1>5. HangsWell(us)
  <2>1. \A p \in Above(us, t) : GoalOf[p] = GoalOf[t]
    BY <1>2
  <2> QED
    BY <1>1, <1>3, <2>1 DEF TreeOK, HangsWell, Present
<1>6. KeptUp(gs, us)
  <2>1. \A p \in Above(us, t) : Kept(us, p)
    BY <1>2, <1>4
  <2>2. \A x \in Tasks : x # t /\ Kept(us, x) => Kept(ts, x)
    BY <1>1 DEF Kept, Present
  <2>3. \A x \in Tasks : x # t /\ Kept(us, x) =>
           GoalLive(gs, GoalOf[x]) /\ \A p \in Above(us, x) : p \in Tasks /\ Kept(ts, p)
    BY <1>3, <2>2 DEF TreeOK, KeptUp, Above
  <2> QED
    BY <1>4, <2>1, <2>3 DEF KeptUp
<1>7. BinOK(gs, us)
  <2> SUFFICES ASSUME NEW x \in Tasks, us[x].batch # None
               PROVE  /\ Present(us, x)
                      /\ us[x].batch \in Goals => WentWithGoal(gs, us, x, us[x].batch)
                      /\ us[x].batch \in Tasks => WentWithTask(us, x, us[x].batch)
    BY DEF BinOK
  <2>1. x # t /\ us[x] = ts[x] /\ ts[x].batch # None
    BY <1>1
  <2>2. \A y \in Tasks : ts[y].batch = ts[x].batch => y # t /\ us[y] = ts[y]
    BY <1>1, <2>1
  <2>3. Present(us, x)
    BY <2>1 DEF Present, TreeOK, BinOK
  <2>4. ASSUME us[x].batch \in Goals PROVE WentWithGoal(gs, us, x, us[x].batch)
    <3>1. WentWithGoal(gs, ts, x, ts[x].batch)
      BY <2>1, <2>4 DEF TreeOK, BinOK
    <3>2. \A p \in Above(us, x) : p \in Tasks /\ p \in Above(ts, x)
      BY <2>1, <1>3 DEF Above
    <3> QED
      BY <2>1, <2>2, <3>1, <3>2 DEF WentWithGoal
  <2>5. ASSUME us[x].batch \in Tasks PROVE WentWithTask(us, x, us[x].batch)
    <3> DEFINE r == ts[x].batch
    <3>1. \A y \in Tasks : ts[y].batch = r => WentWithTask(ts, y, r)
      BY <2>1, <2>5 DEF TreeOK, BinOK
    <3>2. r \in Ancestors(us, x)
      <4>1. r \in Ancestors(ts, x) /\ r \in Tasks
        BY <2>1, <2>5, <3>1 DEF WentWithTask
      <4>2. \A y \in Tasks : ts[y].batch = r => Above(us, y) = Above(ts, y)
        BY <2>2, <1>3
      <4>3. \A y \in Tasks : (ts[y].batch = r /\ y # r) =>
               ts[y].parent \in Tasks /\ ts[ts[y].parent].batch = r
        BY <3>1 DEF WentWithTask
      <4> HIDE DEF r
      <4> QED
        BY <4>1, <4>2, <4>3, RootStaysAbove DEF r
    <3> QED
      BY <2>1, <2>2, <2>5, <3>1, <3>2 DEF WentWithTask
  <2> QED
    BY <2>3, <2>4, <2>5
<1> QED
  BY <1>1, <1>5, <1>6, <1>7 DEF TreeOK, TablesOK, us

\* A step that a replaced row makes keeps what somebody works on.
LEMMA FocusOnReplaced ==
    ASSUME NEW gs, NEW ts, TablesOK(gs, ts), FocusOK(ts), NEW t \in Tasks, NEW row \in TaskRow,
           row.batch = None, row.status # "absent"
    PROVE  FocusOK([ts EXCEPT ![t] = row])
BY RowTyped DEF FocusOK, Kept, Present

\* A deletion: the task and the kept ones below it make a batch of their own.
LEMMA TreeAfterDeletion ==
    ASSUME NEW gs, NEW ts, GoodTables(gs, ts), NEW t \in Tasks, NEW us \in Deleted(gs, ts, t)
    PROVE  GoodTables(gs, us)
<1> DEFINE d == Doomed(ts, t)
<1>1. TaskLive(gs, ts, t) /\ NoFocusOn(d)
      /\ us = [x \in Tasks |-> IF x \in d THEN [ts[x] EXCEPT !.batch = t] ELSE ts[x]]
  BY DEF Deleted
<1>2. /\ d \subseteq Tasks /\ t \in d /\ Kept(ts, t)
      /\ \A x \in d : Kept(ts, x) /\ t \in Ancestors(ts, x)
      /\ \A x \in Tasks : Kept(ts, x) /\ t \in Ancestors(ts, x) => x \in d
  BY <1>1, AncestorsAreLeast DEF Doomed, Subtree, TaskLive, Kept
<1> HIDE DEF d
<1>3. us \in [Tasks -> TaskRow]
      /\ \A x \in Tasks : us[x].status = ts[x].status /\ us[x].parent = ts[x].parent
                          /\ us[x].dependsOn = ts[x].dependsOn
                          /\ us[x].batch = IF x \in d THEN t ELSE ts[x].batch
  BY <1>1 DEF GoodTables, TreeOK, TablesOK, TaskRow, Batches
<1>4. \A x \in Tasks : Above(us, x) = Above(ts, x) /\ Needs(us, x) = Needs(ts, x)
                       /\ (Present(us, x) <=> Present(ts, x)) /\ Above(us, x) \subseteq Tasks
                       /\ Ancestors(us, x) = Ancestors(ts, x)
  <2>1. \A x \in Tasks : Above(us, x) = Above(ts, x)
    BY <1>3 DEF Above
  <2>2. [x \in Tasks |-> Above(us, x)] = [x \in Tasks |-> Above(ts, x)]
    BY <2>1
  <2> QED
    BY <1>3, <2>1, <2>2 DEF Needs, Present, Above, Ancestors
<1>5. t # None /\ t \notin Goals /\ \A x \in Tasks : ts[x].batch # t
  BY <1>2, NoneAssumption DEF GoodTables, TreeOK, BinOK, WentWithTask, Kept
<1>6. \A x \in Tasks : Kept(us, x) <=> Kept(ts, x) /\ x \notin d
  BY <1>2, <1>3, <1>5 DEF Kept, Present
\* Above a doomed task other than the root everything is doomed, and nowhere else.
<1>7. ASSUME NEW x \in d, x # t PROVE ts[x].parent \in d
  <2>1. ts[x].parent \in Tasks /\ t \in Ancestors(ts, ts[x].parent)
    BY <1>2, <1>7, AncestorsOfParent
  <2>2. Kept(ts, ts[x].parent)
    BY <2>1, <1>2, <1>7 DEF GoodTables, TreeOK, KeptUp, Above
  <2> QED
    BY <2>1, <2>2, <1>2
<1>8. ASSUME NEW x \in Tasks, NEW p \in Above(ts, x), p \in d, Kept(ts, x) PROVE x \in d
  <2>1. t \in Ancestors(ts, p) /\ p \in Ancestors(ts, x) /\ p \in Tasks
    BY <1>2, <1>8, AncestorsAreLeast DEF Above
  <2>2. Ancestors(ts, p) \subseteq Ancestors(ts, x)
    BY <2>1, AncestorsAreLeast
  <2> QED
    BY <2>1, <2>2, <1>2, <1>8
<1>9. HangsWell(us)
  BY <1>4 DEF HangsWell, GoodTables, TreeOK
<1>10. KeptUp(gs, us)
  <2> SUFFICES ASSUME NEW x \in Tasks, Kept(us, x)
               PROVE  GoalLive(gs, GoalOf[x]) /\ \A p \in Above(us, x) : Kept(us, p)
    BY DEF KeptUp
  <2>1. Kept(ts, x) /\ x \notin d
    BY <1>6
  <2>2. GoalLive(gs, GoalOf[x]) /\ \A p \in Above(ts, x) : p \in Tasks /\ Kept(ts, p)
    BY <2>1, <1>4 DEF GoodTables, TreeOK, KeptUp
  <2> QED
    BY <2>1, <2>2, <1>4, <1>6, <1>8
<1>11. BinOK(gs, us)
  <2> SUFFICES ASSUME NEW x \in Tasks, us[x].batch # None
               PROVE  /\ Present(us, x)
                      /\ us[x].batch \in Goals => WentWithGoal(gs, us, x, us[x].batch)
                      /\ us[x].batch \in Tasks => WentWithTask(us, x, us[x].batch)
    BY DEF BinOK
  <2>1. CASE x \in d
    <3>1. us[x].batch = t /\ us[t].batch = t /\ Kept(ts, x)
      BY <2>1, <1>2, <1>3
    <3>2. GoalOf[t] = GoalOf[x]
      BY <3>1, <2>1, <1>2, KeptBranchIsLive DEF GoodTables, TaskLive
    <3>3. x # t => us[x].parent \in Tasks /\ us[us[x].parent].batch = t
      BY <2>1, <1>2, <1>3, <1>7
    <3> QED
      BY <3>1, <3>2, <3>3, <2>1, <1>2, <1>4, <1>5 DEF WentWithTask, Kept
  <2>2. CASE x \notin d
    <3>1. us[x].batch = ts[x].batch /\ ts[x].batch # None
      BY <2>2, <1>3
    <3>2. \A y \in Tasks : ts[y].batch = ts[x].batch => us[y].batch = ts[y].batch
      BY <3>1, <1>2, <1>3 DEF Kept
    <3>3. Present(ts, x)
          /\ (ts[x].batch \in Goals => WentWithGoal(gs, ts, x, ts[x].batch))
          /\ (ts[x].batch \in Tasks => WentWithTask(ts, x, ts[x].batch))
      BY <3>1 DEF GoodTables, TreeOK, BinOK
    <3>4. ts[x].batch \in Goals => WentWithGoal(gs, us, x, us[x].batch)
      BY <3>1, <3>2, <3>3, <1>4 DEF WentWithGoal
    <3>5. ts[x].batch \in Tasks => WentWithTask(us, x, us[x].batch)
      BY <3>1, <3>2, <3>3, <1>3, <1>4 DEF WentWithTask
    <3> QED
      BY <3>1, <3>3, <3>4, <3>5, <1>4
  <2> QED
    BY <2>1, <2>2
<1>12. Ordered(us)
  <2>1. [x \in Tasks |-> Needs(us, x)] = [x \in Tasks |-> Needs(ts, x)]
    BY <1>4
  <2> QED
    BY <2>1 DEF GoodTables, Ordered
<1>13. FocusOK(us)
  BY <1>1, <1>6 DEF GoodTables, FocusOK, NoFocusOn
<1> QED
  BY <1>3, <1>9, <1>10, <1>11, <1>12, <1>13 DEF GoodTables, TreeOK, TablesOK

\* A restoration: only the root of a batch can come back, and the whole batch
\* comes with it.
LEMMA TreeAfterRestoration ==
    ASSUME NEW gs, NEW ts, GoodTables(gs, ts), NEW t \in Tasks, NEW us \in Restored(gs, ts, t)
    PROVE  GoodTables(gs, us)
<1> DEFINE b == ReturnsWith(ts, t)
<1>1. /\ ts[t].batch # None /\ GoalLive(gs, GoalOf[t])
      /\ ts[t].parent # None => TaskLive(gs, ts, ts[t].parent)
      /\ us = [x \in Tasks |-> IF x \in b THEN [ts[x] EXCEPT !.batch = None] ELSE ts[x]]
  BY DEF Restored
<1>2. ts[t].batch = t
  <2>1. ts[t].batch \notin Goals
    BY <1>1, NoneAssumption DEF GoodTables, TreeOK, BinOK, WentWithGoal, GoalLive
  <2>2. ts[t].batch \in Tasks
    BY <1>1, <2>1 DEF GoodTables, TreeOK, TablesOK, TaskRow, Batches
  <2>3. ASSUME ts[t].batch # t PROVE FALSE
    <3>1. ts[t].parent \in Tasks /\ ts[ts[t].parent].batch = ts[t].batch
      BY <1>1, <2>2, <2>3 DEF GoodTables, TreeOK, BinOK, WentWithTask
    <3>2. TaskLive(gs, ts, ts[t].parent)
      BY <1>1, <3>1, NoneAssumption
    <3>3. Kept(ts, ts[t].parent)
      BY <3>1, <3>2, AncestorsAreLeast DEF TaskLive
    <3> QED
      BY <1>1, <3>1, <3>3 DEF Kept
  <2> QED
    BY <2>3
<1>3. \A x \in Tasks : ts[x].batch = t =>
         Present(ts, x) /\ WentWithTask(ts, x, t)
  BY <1>1, <1>2 DEF GoodTables, TreeOK, BinOK
<1>4. b = {x \in Tasks : ts[x].batch = t}
  BY <1>2, <1>3 DEF ReturnsWith, Subtree, WentWithTask
<1> HIDE DEF b
<1>5. us \in [Tasks -> TaskRow]
      /\ \A x \in Tasks : us[x].status = ts[x].status /\ us[x].parent = ts[x].parent
                          /\ us[x].dependsOn = ts[x].dependsOn
                          /\ us[x].batch = IF x \in b THEN None ELSE ts[x].batch
  BY <1>1 DEF GoodTables, TreeOK, TablesOK, TaskRow, Batches
<1>6. \A x \in Tasks : Above(us, x) = Above(ts, x) /\ Needs(us, x) = Needs(ts, x)
                       /\ (Present(us, x) <=> Present(ts, x)) /\ Above(us, x) \subseteq Tasks
                       /\ Ancestors(us, x) = Ancestors(ts, x)
  <2>1. \A x \in Tasks : Above(us, x) = Above(ts, x)
    BY <1>5 DEF Above
  <2>2. [x \in Tasks |-> Above(us, x)] = [x \in Tasks |-> Above(ts, x)]
    BY <2>1
  <2> QED
    BY <1>5, <2>1, <2>2 DEF Needs, Present, Above, Ancestors
<1>7. \A x \in Tasks : Kept(us, x) <=> Kept(ts, x) \/ x \in b
  BY <1>2, <1>3, <1>4, <1>5, <1>6, NoneAssumption DEF Kept, Present
<1>8. HangsWell(us)
  BY <1>6 DEF HangsWell, GoodTables, TreeOK
<1>9. KeptUp(gs, us)
  <2> SUFFICES ASSUME NEW x \in Tasks, Kept(us, x)
               PROVE  GoalLive(gs, GoalOf[x]) /\ \A p \in Above(us, x) : Kept(us, p)
    BY DEF KeptUp
  <2>1. CASE Kept(ts, x)
    BY <2>1, <1>6, <1>7 DEF GoodTables, TreeOK, KeptUp
  <2>2. CASE x \in b /\ x # t
    <3>1. GoalOf[x] = GoalOf[t] /\ \A p \in Above(us, x) : p \in b
      BY <2>2, <1>3, <1>4, <1>6 DEF WentWithTask, Above
    <3> QED
      BY <3>1, <1>1, <1>6, <1>7
  <2>3. CASE x = t
    <3>1. ASSUME NEW p \in Above(us, t) PROVE Kept(us, p)
      <4>1. p = ts[t].parent /\ p \in Tasks
        BY <3>1, <1>6 DEF Above
      <4>2. TaskLive(gs, ts, p)
        BY <4>1, <1>1, NoneAssumption
      <4> QED
        BY <4>1, <4>2, <1>7, AncestorsAreLeast DEF TaskLive
    <3> QED
      BY <2>3, <3>1, <1>1
  <2> QED
    BY <2>1, <2>2, <2>3, <1>7
<1>10. BinOK(gs, us)
  <2> SUFFICES ASSUME NEW x \in Tasks, us[x].batch # None
               PROVE  /\ Present(us, x)
                      /\ us[x].batch \in Goals => WentWithGoal(gs, us, x, us[x].batch)
                      /\ us[x].batch \in Tasks => WentWithTask(us, x, us[x].batch)
    BY DEF BinOK
  <2>1. us[x].batch = ts[x].batch /\ ts[x].batch # None /\ ts[x].batch # t
    BY <1>4, <1>5
  <2>2. \A y \in Tasks : ts[y].batch = ts[x].batch => us[y].batch = ts[y].batch
    BY <2>1, <1>4, <1>5
  <2>3. Present(ts, x)
        /\ (ts[x].batch \in Goals => WentWithGoal(gs, ts, x, ts[x].batch))
        /\ (ts[x].batch \in Tasks => WentWithTask(ts, x, ts[x].batch))
    BY <2>1 DEF GoodTables, TreeOK, BinOK
  <2>4. ts[x].batch \in Goals => WentWithGoal(gs, us, x, us[x].batch)
    BY <2>1, <2>2, <2>3, <1>6 DEF WentWithGoal
  <2>5. ts[x].batch \in Tasks => WentWithTask(us, x, us[x].batch)
    BY <2>1, <2>2, <2>3, <1>5, <1>6 DEF WentWithTask
  <2> QED
    BY <2>1, <2>3, <2>4, <2>5, <1>6
<1>11. Ordered(us)
  <2>1. [x \in Tasks |-> Needs(us, x)] = [x \in Tasks |-> Needs(ts, x)]
    BY <1>6
  <2> QED
    BY <2>1 DEF GoodTables, Ordered
<1>12. FocusOK(us)
  BY <1>7 DEF GoodTables, FocusOK
<1> QED
  BY <1>5, <1>8, <1>9, <1>10, <1>11, <1>12 DEF GoodTables, TreeOK, TablesOK

-----------------------------------------------------------------------------
(* The order of work.                                                      *)

\* A row whose graph is valid closes no circle, not even one through deleted
\* rows: a circle that is new passes through the changed task, behind which the
\* check has looked; one that avoids what is behind it was there before.
LEMMA ValidRowKeepsOrder ==
    ASSUME NEW gs, NEW ts, TablesOK(gs, ts), Ordered(ts), NEW t \in Tasks, NEW row \in TaskRow,
           GraphValid([ts EXCEPT ![t] = row], t)
    PROVE  Ordered([ts EXCEPT ![t] = row])
<1> DEFINE us == [ts EXCEPT ![t] = row]
           old == [x \in Tasks |-> Needs(ts, x)]
           new == [x \in Tasks |-> Needs(us, x)]
<1>1. us \in [Tasks -> TaskRow] /\ \A x \in Tasks : x # t => us[x] = ts[x]
  BY RowTyped
<1>2. old \in Edges /\ new \in Edges /\ \A x \in Tasks : x # t => new[x] = old[x]
  BY <1>1 DEF Edges, Needs, Above, TaskRow, TablesOK
<1>3. \A x \in Reach(new, t) : \A y \in new[x] : x \notin Reach(new, y)
  BY DEF GraphValid, Behind, Acyclic
<1>4. \A x \in Tasks : \A y \in old[x] : x \notin Reach(old, y)
  BY DEF Ordered, Acyclic
<1> HIDE DEF us, old, new
<1>5. ASSUME NEW x \in Tasks, NEW y \in new[x], x \in Reach(new, y) PROVE FALSE
  <2>1. y \in Tasks
    BY <1>2 DEF Edges
  <2>2. x \notin Reach(new, t) /\ x # t
    BY <1>3, <1>5, <1>2, ReachIsLeast
  <2>3. y \in old[x]
    BY <2>2, <1>2
  <2> DEFINE S == Reach(old, y) \cup Reach(new, t)
  <2>4. S \in SUBSET Tasks /\ y \in S
    BY <2>1, <1>2, ReachIsLeast
  <2>5. Closed(new, S)
    <3>1. \A z \in Reach(new, t) : new[z] \subseteq Reach(new, t)
      BY <1>2, ReachIsLeast DEF Closed
    <3>2. t \in Reach(new, t)
      BY <1>2, ReachIsLeast
    <3>3. \A z \in Reach(old, y) : z \in Tasks /\ old[z] \subseteq Reach(old, y)
      BY <2>1, <1>2, ReachIsLeast DEF Closed
    <3> QED
      BY <3>1, <3>2, <3>3, <1>2 DEF Closed
  <2> HIDE DEF S
  <2>6. x \in S
    BY <2>1, <2>4, <2>5, <1>2, <1>5, ReachIsLeast
  <2>7. x \in Reach(old, y)
    BY <2>2, <2>6 DEF S
  <2> QED
    BY <2>3, <2>7, <1>4
<1> QED
  BY <1>5 DEF Ordered, Acyclic, new, us

\* A row that needs what it needed before keeps the order.
LEMMA SameNeedsKeepOrder ==
    ASSUME NEW gs, NEW ts, TablesOK(gs, ts), Ordered(ts), NEW t \in Tasks, NEW row \in TaskRow,
           row.parent = ts[t].parent, row.dependsOn = ts[t].dependsOn
    PROVE  Ordered([ts EXCEPT ![t] = row])
<1> DEFINE us == [ts EXCEPT ![t] = row]
<1>1. \A x \in Tasks : Needs(us, x) = Needs(ts, x)
  BY RowTyped DEF Needs, Above
<1>2. [x \in Tasks |-> Needs(us, x)] = [x \in Tasks |-> Needs(ts, x)]
  BY <1>1
<1> QED
  BY <1>2 DEF Ordered

-----------------------------------------------------------------------------
(* The operations on one task.                                             *)

LEMMA LiveTask ==
    ASSUME NEW gs, NEW ts, NEW t \in Tasks, TaskLive(gs, ts, t)
    PROVE  Kept(ts, t) /\ GoalLive(gs, GoalOf[t])
BY AncestorsAreLeast DEF TaskLive

\* An allowed parent is kept.
LEMMA AllowedParent ==
    ASSUME NEW gs, NEW ts, NEW t \in Tasks, NEW p \in Tasks \cup {None}, p # None,
           ParentAllowed(gs, ts, t, p)
    PROVE  Kept(ts, p) /\ GoalOf[p] = GoalOf[t]
BY LiveTask DEF ParentAllowed

LEMMA TablesAfterCreation ==
    ASSUME NEW gs, NEW ts, GoodTables(gs, ts), NEW t \in Tasks, NEW p \in Tasks \cup {None},
           NEW deps \in SUBSET Tasks, NEW us \in Created(gs, ts, t, p, deps)
    PROVE  GoodTables(gs, us)
<1> DEFINE row == [status |-> "ready", parent |-> p, dependsOn |-> deps, batch |-> None]
<1>1. row \in TaskRow /\ row.batch = None /\ row.status # "absent"
  BY DEF TaskRow, TaskStatuses, Batches
<1>2. us = [ts EXCEPT ![t] = row] /\ ~ Present(ts, t) /\ GoalLive(gs, GoalOf[t])
      /\ ParentAllowed(gs, ts, t, p) /\ GraphValid([ts EXCEPT ![t] = row], t)
  BY DEF Created, DependenciesValid
<1>3. ts[t].batch = None
  BY <1>2 DEF GoodTables, TreeOK, BinOK
<1>4. row.parent # None => Kept(ts, row.parent) /\ GoalOf[row.parent] = GoalOf[t]
  BY <1>2, AllowedParent
<1> HIDE DEF row
<1>5. TreeOK(gs, us)
  BY <1>1, <1>2, <1>3, <1>4, RowReplaced DEF GoodTables
<1>6. Ordered(us)
  BY <1>1, <1>2, ValidRowKeepsOrder DEF GoodTables, TreeOK
<1>7. FocusOK(us)
  BY <1>1, <1>2, FocusOnReplaced DEF GoodTables, TreeOK
<1> QED
  BY <1>5, <1>6, <1>7 DEF GoodTables

LEMMA TablesAfterMove ==
    ASSUME NEW gs, NEW ts, GoodTables(gs, ts), NEW t \in Tasks, NEW p \in Tasks \cup {None},
           NEW us \in Moved(gs, ts, t, p)
    PROVE  GoodTables(gs, us)
<1> DEFINE row == [ts[t] EXCEPT !.parent = p]
<1>1. us = [ts EXCEPT ![t].parent = p] /\ TaskLive(gs, ts, t) /\ ParentAllowed(gs, ts, t, p)
      /\ GraphValid(us, t)
  BY DEF Moved, Movable, DependenciesValid
<1>2. us = [ts EXCEPT ![t] = row]
  BY <1>1
<1>3. ts[t].batch = None /\ ts[t].status # "absent" /\ GoalLive(gs, GoalOf[t])
  BY <1>1, LiveTask DEF Kept, Present
<1>4. row \in TaskRow /\ row.batch = None /\ row.status # "absent" /\ row.parent = p
  BY <1>3 DEF GoodTables, TreeOK, TablesOK, TaskRow
<1>5. p # None => Kept(ts, p) /\ GoalOf[p] = GoalOf[t]
  BY <1>1, AllowedParent
<1> HIDE DEF row
<1>6. TreeOK(gs, us)
  BY <1>2, <1>3, <1>4, <1>5, RowReplaced DEF GoodTables
<1>7. Ordered(us)
  <2>1. GraphValid([ts EXCEPT ![t] = row], t) /\ TablesOK(gs, ts) /\ Ordered(ts) /\ row \in TaskRow
    BY <1>1, <1>2, <1>4 DEF GoodTables, TreeOK
  <2>2. Ordered([ts EXCEPT ![t] = row])
    BY <2>1, ValidRowKeepsOrder
  <2> QED
    BY <2>2, <1>2
<1>8. FocusOK(us)
  BY <1>2, <1>4, FocusOnReplaced DEF GoodTables, TreeOK
<1> QED
  BY <1>6, <1>7, <1>8 DEF GoodTables

\* A kept task below the parent it has: what a change that does not move it needs.
LEMMA KeptInPlace ==
    ASSUME NEW gs, NEW ts, TreeOK(gs, ts), NEW t \in Tasks, TaskLive(gs, ts, t)
    PROVE  /\ ts[t].batch = None /\ ts[t].status # "absent" /\ GoalLive(gs, GoalOf[t])
           /\ ts[t].parent # None =>
                 Kept(ts, ts[t].parent) /\ GoalOf[ts[t].parent] = GoalOf[t]
<1>1. Kept(ts, t) /\ GoalLive(gs, GoalOf[t])
  BY LiveTask
<1>2. ts[t].parent \in Tasks \cup {None}
  BY DEF TreeOK, TablesOK, TaskRow
<1> QED
  BY <1>1, <1>2 DEF TreeOK, KeptUp, HangsWell, Kept, Present, Above

LEMMA TablesAfterRewiring ==
    ASSUME NEW gs, NEW ts, GoodTables(gs, ts), NEW t \in Tasks, NEW deps \in SUBSET Tasks,
           NEW us \in Rewired(gs, ts, t, deps)
    PROVE  GoodTables(gs, us)
<1> DEFINE row == [ts[t] EXCEPT !.dependsOn = deps]
<1>1. us = [ts EXCEPT ![t].dependsOn = deps] /\ TaskLive(gs, ts, t) /\ GraphValid(us, t)
  BY DEF Rewired, DependenciesValid
<1>2. us = [ts EXCEPT ![t] = row]
  BY <1>1
<1>3. /\ ts[t].batch = None /\ ts[t].status # "absent" /\ GoalLive(gs, GoalOf[t])
      /\ ts[t].parent # None => Kept(ts, ts[t].parent) /\ GoalOf[ts[t].parent] = GoalOf[t]
  BY <1>1, KeptInPlace DEF GoodTables
<1>4. row \in TaskRow /\ row.batch = None /\ row.status # "absent" /\ row.parent = ts[t].parent
  BY <1>3 DEF GoodTables, TreeOK, TablesOK, TaskRow
<1> HIDE DEF row
<1>5. TreeOK(gs, us)
  BY <1>2, <1>3, <1>4, RowReplaced DEF GoodTables
<1>6. Ordered(us)
  <2>1. GraphValid([ts EXCEPT ![t] = row], t) /\ TablesOK(gs, ts) /\ Ordered(ts) /\ row \in TaskRow
    BY <1>1, <1>2, <1>4 DEF GoodTables, TreeOK
  <2>2. Ordered([ts EXCEPT ![t] = row])
    BY <2>1, ValidRowKeepsOrder
  <2> QED
    BY <2>2, <1>2
<1>7. FocusOK(us)
  BY <1>2, <1>4, FocusOnReplaced DEF GoodTables, TreeOK
<1> QED
  BY <1>5, <1>6, <1>7 DEF GoodTables

\* A new status, of an edit, a completion or its reversal.
LEMMA TablesAfterStatus ==
    ASSUME NEW gs, NEW ts, GoodTables(gs, ts), NEW t \in Tasks, TaskLive(gs, ts, t),
           NEW status \in TaskStatuses \ {"absent"}
    PROVE  GoodTables(gs, [ts EXCEPT ![t].status = status])
<1> DEFINE row == [ts[t] EXCEPT !.status = status]
           us == [ts EXCEPT ![t].status = status]
<1>1. us = [ts EXCEPT ![t] = row]
  OBVIOUS
<1>2. /\ ts[t].batch = None /\ ts[t].status # "absent" /\ GoalLive(gs, GoalOf[t])
      /\ ts[t].parent # None => Kept(ts, ts[t].parent) /\ GoalOf[ts[t].parent] = GoalOf[t]
  BY KeptInPlace DEF GoodTables
<1>3. row \in TaskRow /\ row.batch = None /\ row.status # "absent" /\ row.parent = ts[t].parent
      /\ row.dependsOn = ts[t].dependsOn
  BY <1>2 DEF GoodTables, TreeOK, TablesOK, TaskRow
<1> HIDE DEF row, us
<1>4. TreeOK(gs, us)
  BY <1>1, <1>2, <1>3, RowReplaced DEF GoodTables
<1>5. Ordered(us) /\ FocusOK(us)
  BY <1>1, <1>3, SameNeedsKeepOrder, FocusOnReplaced DEF GoodTables, TreeOK
<1> QED
  BY <1>4, <1>5 DEF GoodTables, us

\* One entry of an approved patch.
LEMMA TablesAfterEntry ==
    ASSUME NEW gs, NEW ts, GoodTables(gs, ts), NEW entry \in Entries, NEW us \in Patched(gs, ts, entry)
    PROVE  GoodTables(gs, us)
<1>1. entry.task \in Tasks /\ {} \in SUBSET Tasks
  BY DEF Entries
<1>2. CASE entry.op = "create"
  <2>1. entry.parent \in Tasks \cup {None}
    BY <1>2 DEF Entries
  <2>2. us \in Created(gs, ts, entry.task, entry.parent, {})
    BY <1>2 DEF Patched
  <2> QED
    BY <1>1, <2>1, <2>2, TablesAfterCreation
<1>3. CASE entry.op = "move"
  <2>1. entry.parent \in Tasks \cup {None}
    BY <1>3 DEF Entries
  <2>2. us \in Moved(gs, ts, entry.task, entry.parent)
    BY <1>3 DEF Patched
  <2> QED
    BY <1>1, <2>1, <2>2, TablesAfterMove
<1>4. CASE entry.op = "supersede"
  <2>1. us = [ts EXCEPT ![entry.task].status = "superseded"] /\ TaskLive(gs, ts, entry.task)
    BY <1>4 DEF Patched, Restated
  <2>2. "superseded" \in TaskStatuses \ {"absent"}
    BY DEF TaskStatuses
  <2> QED
    BY <1>1, <2>1, <2>2, TablesAfterStatus
<1>5. CASE entry.op = "delete"
  <2>1. us \in Deleted(gs, ts, entry.task)
    BY <1>5 DEF Patched
  <2> QED
    BY <1>1, <2>1, TreeAfterDeletion
<1>6. CASE entry.op \notin {"create", "move", "supersede", "delete"}
  <2>1. us \in Restored(gs, ts, entry.task)
    BY <1>6 DEF Patched
  <2> QED
    BY <1>1, <2>1, TreeAfterRestoration
<1> QED
  BY <1>2, <1>3, <1>4, <1>5, <1>6

-----------------------------------------------------------------------------
(* The operations on one goal.                                             *)

\* A goal that is created or changes its status: nothing enters or leaves a bin.
LEMMA TreeAfterGoalStatus ==
    ASSUME NEW gs, NEW ts, TreeOK(gs, ts), NEW hs \in [Goals -> GoalRow], GoalsOK(hs),
           \A g \in Goals : hs[g].batch = gs[g].batch /\ (GoalLive(gs, g) => GoalLive(hs, g))
    PROVE  TreeOK(hs, ts)
<1>1. \A t \in Tasks : GoalOf[t] \in Goals
  BY GoalsAssumption
<1>2. KeptUp(hs, ts)
  BY <1>1 DEF TreeOK, KeptUp
<1>3. BinOK(hs, ts)
  <2>1. \A t, g : g \in Goals /\ WentWithGoal(gs, ts, t, g) => WentWithGoal(hs, ts, t, g)
    BY DEF WentWithGoal
  <2> QED
    BY <2>1 DEF TreeOK, BinOK
<1> QED
  BY <1>2, <1>3 DEF TreeOK, TablesOK

LEMMA GoalIsCreated ==
    ASSUME NEW gs, NEW ts, TreeOK(gs, ts), NEW g \in Goals, gs[g].status = "absent"
    PROVE  TreeOK([gs EXCEPT ![g] = [status |-> "active", batch |-> None]], ts)
<1> DEFINE hs == [gs EXCEPT ![g] = [status |-> "active", batch |-> None]]
<1>1. gs \in [Goals -> GoalRow] /\ gs[g].batch = None
  BY DEF TreeOK, TablesOK, GoalsOK
<1>2. hs \in [Goals -> GoalRow] /\ hs[g] = [status |-> "active", batch |-> None]
      /\ \A h \in Goals : h # g => hs[h] = gs[h]
  BY <1>1 DEF GoalRow, GoalStatuses, Batches
<1> HIDE DEF hs
<1>3. GoalsOK(hs)
  BY <1>2 DEF TreeOK, GoalsOK
<1>4. \A h \in Goals : hs[h].batch = gs[h].batch /\ (GoalLive(gs, h) => GoalLive(hs, h))
  BY <1>1, <1>2 DEF GoalLive
<1>5. TreeOK(hs, ts)
  BY <1>2, <1>3, <1>4, TreeAfterGoalStatus
<1> QED
  BY <1>5 DEF hs

LEMMA GoalIsUpdated ==
    ASSUME NEW gs, NEW ts, TreeOK(gs, ts), NEW g \in Goals, GoalLive(gs, g),
           NEW status \in GoalMoves[gs[g].status]
    PROVE  TreeOK([gs EXCEPT ![g].status = status], ts)
<1> DEFINE hs == [gs EXCEPT ![g].status = status]
<1>1. gs \in [Goals -> GoalRow] /\ gs[g].status \in GoalStatuses \ {"absent"}
  BY DEF TreeOK, TablesOK, GoalRow, GoalLive
<1>2. status \in GoalStatuses \ {"absent"}
  BY <1>1 DEF GoalMoves, GoalStatuses
<1>3. hs \in [Goals -> GoalRow] /\ hs[g].status = status
      /\ \A h \in Goals : hs[h].batch = gs[h].batch /\ (h # g => hs[h] = gs[h])
  BY <1>1, <1>2 DEF GoalRow
<1> HIDE DEF hs
<1>4. GoalsOK(hs)
  BY <1>2, <1>3 DEF TreeOK, GoalsOK
<1>5. \A h \in Goals : hs[h].batch = gs[h].batch /\ (GoalLive(gs, h) => GoalLive(hs, h))
  BY <1>2, <1>3 DEF GoalLive
<1>6. TreeOK(hs, ts)
  BY <1>3, <1>4, <1>5, TreeAfterGoalStatus
<1> QED
  BY <1>6 DEF hs

\* Tables whose tasks differ in their batches alone.
Rebatched(ts, us) ==
    /\ us \in [Tasks -> TaskRow]
    /\ \A x \in Tasks : /\ us[x].status = ts[x].status /\ us[x].parent = ts[x].parent
                        /\ us[x].dependsOn = ts[x].dependsOn

LEMMA RebatchedShape ==
    ASSUME NEW ts, NEW us, Rebatched(ts, us)
    PROVE  /\ \A x \in Tasks : /\ Above(us, x) = Above(ts, x) /\ Above(us, x) \subseteq Tasks
                               /\ (Present(us, x) <=> Present(ts, x))
                               /\ Ancestors(us, x) = Ancestors(ts, x)
           /\ Ordered(ts) => Ordered(us)
           /\ HangsWell(ts) => HangsWell(us)
<1>1. \A x \in Tasks : Above(us, x) = Above(ts, x) /\ Needs(us, x) = Needs(ts, x)
                       /\ Above(us, x) \subseteq Tasks /\ (Present(us, x) <=> Present(ts, x))
  BY DEF Rebatched, Above, Needs, Present
<1>2. [x \in Tasks |-> Above(us, x)] = [x \in Tasks |-> Above(ts, x)]
      /\ [x \in Tasks |-> Needs(us, x)] = [x \in Tasks |-> Needs(ts, x)]
  BY <1>1
<1>3. \A x \in Tasks : Ancestors(us, x) = Ancestors(ts, x)
  BY <1>2 DEF Ancestors
<1>4. Ordered(ts) => Ordered(us)
  BY <1>2 DEF Ordered
<1>5. HangsWell(ts) => HangsWell(us)
  BY <1>1 DEF HangsWell
<1> QED
  BY <1>1, <1>3, <1>4, <1>5

\* The deletion of a goal takes every kept task of it.
LEMMA TablesAfterGoalDeletion ==
    ASSUME TreeInv, NEW g \in Goals, DeleteGoal(g)
    PROVE  GoodTables(goals', tasks')
<1> DEFINE gone == {t \in Tasks : GoalOf[t] = g /\ Kept(tasks, t)}
<1>1. /\ GoalLive(goals, g) /\ NoFocusOn(gone) /\ UNCHANGED focus
      /\ goals' = [goals EXCEPT ![g].batch = g]
      /\ tasks' = [t \in Tasks |-> IF t \in gone THEN [tasks[t] EXCEPT !.batch = g] ELSE tasks[t]]
  BY DEF DeleteGoal
<1>2. TreeOK(goals, tasks) /\ Ordered(tasks) /\ FocusOK(tasks)
  BY DEF TreeInv, GoodTables
<1>3. g # None /\ g \notin Tasks
  BY NoneAssumption
<1>4. goals' \in [Goals -> GoalRow] /\ goals'[g].batch = g /\ goals[g].batch = None
      /\ \A h \in Goals : goals'[h].status = goals[h].status /\ (h # g => goals'[h] = goals[h])
  BY <1>1, <1>2 DEF TreeOK, TablesOK, GoalRow, Batches, GoalLive
<1>5. Rebatched(tasks, tasks')
      /\ \A x \in Tasks : tasks'[x].batch = IF x \in gone THEN g ELSE tasks[x].batch
  BY <1>1, <1>2 DEF Rebatched, TreeOK, TablesOK, TaskRow, Batches
<1>6. \A x \in Tasks : x \in gone <=> GoalOf[x] = g /\ Kept(tasks, x)
  OBVIOUS
<1> HIDE DEF gone
<1>7. /\ \A x \in Tasks : /\ Above(tasks', x) = Above(tasks, x) /\ Above(tasks', x) \subseteq Tasks
                          /\ (Present(tasks', x) <=> Present(tasks, x))
                          /\ Ancestors(tasks', x) = Ancestors(tasks, x)
      /\ Ordered(tasks') /\ HangsWell(tasks')
  BY <1>2, <1>5, RebatchedShape DEF TreeOK
<1>8. \A x \in Tasks : Kept(tasks', x) <=> Kept(tasks, x) /\ x \notin gone
  BY <1>3, <1>5, <1>6, <1>7 DEF Kept
<1>9. GoalsOK(goals')
  BY <1>1, <1>2, <1>4 DEF TreeOK, GoalsOK, GoalLive
\* The parent of a kept task is kept and of the same goal.
<1>10. \A x \in Tasks : Kept(tasks, x) =>
          \A p \in Above(tasks, x) : p \in Tasks /\ Kept(tasks, p) /\ GoalOf[p] = GoalOf[x]
  BY <1>2, <1>7 DEF TreeOK, KeptUp, HangsWell, Kept
<1>11. KeptUp(goals', tasks')
  <2> SUFFICES ASSUME NEW x \in Tasks, Kept(tasks', x)
               PROVE  GoalLive(goals', GoalOf[x]) /\ \A p \in Above(tasks', x) : Kept(tasks', p)
    BY DEF KeptUp
  <2>1. Kept(tasks, x) /\ GoalOf[x] # g /\ GoalOf[x] \in Goals
    BY <1>6, <1>8, GoalsAssumption
  <2>2. GoalLive(goals, GoalOf[x])
    BY <2>1, <1>2 DEF TreeOK, KeptUp
  <2> QED
    BY <2>1, <2>2, <1>4, <1>6, <1>7, <1>8, <1>10 DEF GoalLive
<1>12. BinOK(goals', tasks')
  <2> SUFFICES ASSUME NEW x \in Tasks, tasks'[x].batch # None
               PROVE  /\ Present(tasks', x)
                      /\ tasks'[x].batch \in Goals => WentWithGoal(goals', tasks', x, tasks'[x].batch)
                      /\ tasks'[x].batch \in Tasks => WentWithTask(tasks', x, tasks'[x].batch)
    BY DEF BinOK
  <2>1. CASE x \in gone
    <3>1. tasks'[x].batch = g /\ Kept(tasks, x) /\ GoalOf[x] = g
      BY <2>1, <1>5, <1>6
    <3>2. \A p \in Above(tasks', x) : tasks'[p].batch = g
      BY <3>1, <1>5, <1>6, <1>7, <1>10
    <3> QED
      BY <3>1, <3>2, <1>3, <1>4, <1>7 DEF WentWithGoal, Kept
  <2>2. CASE x \notin gone
    <3>1. tasks'[x].batch = tasks[x].batch /\ tasks[x].batch # None
      BY <2>2, <1>5
    <3>2. \A y \in Tasks : tasks[y].batch = tasks[x].batch => tasks'[y].batch = tasks[y].batch
      BY <3>1, <1>5, <1>6 DEF Kept
    <3>3. Present(tasks, x)
          /\ (tasks[x].batch \in Goals => WentWithGoal(goals, tasks, x, tasks[x].batch))
          /\ (tasks[x].batch \in Tasks => WentWithTask(tasks, x, tasks[x].batch))
      BY <3>1, <1>2 DEF TreeOK, BinOK
    <3>4. ASSUME tasks[x].batch \in Goals PROVE WentWithGoal(goals', tasks', x, tasks'[x].batch)
      <4>1. tasks[x].batch # g
        BY <3>3, <3>4, <1>3, <1>4 DEF WentWithGoal
      <4> QED
        BY <3>1, <3>2, <3>3, <3>4, <4>1, <1>4, <1>7 DEF WentWithGoal
    <3>5. tasks[x].batch \in Tasks => WentWithTask(tasks', x, tasks'[x].batch)
      BY <3>1, <3>2, <3>3, <1>5, <1>7 DEF WentWithTask, Rebatched
    <3> QED
      BY <3>1, <3>3, <3>4, <3>5, <1>7
  <2> QED
    BY <2>1, <2>2
<1>13. FocusOK(tasks')
  BY <1>1, <1>2, <1>8 DEF FocusOK, NoFocusOn
<1> QED
  BY <1>4, <1>5, <1>7, <1>9, <1>11, <1>12, <1>13 DEF GoodTables, TreeOK, TablesOK, Rebatched

\* The restoration of a goal brings back every task that went with it.
LEMMA TablesAfterGoalRestoration ==
    ASSUME TreeInv, NEW g \in Goals, RestoreGoal(g)
    PROVE  GoodTables(goals', tasks')
<1> DEFINE back == {t \in Tasks : GoalOf[t] = g /\ tasks[t].batch = goals[g].batch}
<1>1. /\ goals[g].batch # None /\ UNCHANGED focus
      /\ goals' = [goals EXCEPT ![g].batch = None]
      /\ tasks' = [t \in Tasks |-> IF t \in back THEN [tasks[t] EXCEPT !.batch = None] ELSE tasks[t]]
  BY DEF RestoreGoal
<1>2. TreeOK(goals, tasks) /\ Ordered(tasks) /\ FocusOK(tasks)
  BY DEF TreeInv, GoodTables
<1>3. g # None /\ g \notin Tasks /\ goals[g].batch = g /\ goals[g].status # "absent"
  BY <1>1, <1>2, NoneAssumption DEF TreeOK, GoalsOK
<1>4. goals' \in [Goals -> GoalRow] /\ goals'[g].batch = None
      /\ \A h \in Goals : goals'[h].status = goals[h].status /\ (h # g => goals'[h] = goals[h])
  BY <1>1, <1>2 DEF TreeOK, TablesOK, GoalRow, Batches
<1>5. Rebatched(tasks, tasks')
      /\ \A x \in Tasks : tasks'[x].batch = IF x \in back THEN None ELSE tasks[x].batch
  BY <1>1, <1>2 DEF Rebatched, TreeOK, TablesOK, TaskRow, Batches
<1>6. \A x \in Tasks : x \in back <=> tasks[x].batch = g
  BY <1>2, <1>3 DEF TreeOK, BinOK, WentWithGoal
<1> HIDE DEF back
<1>7. /\ \A x \in Tasks : /\ Above(tasks', x) = Above(tasks, x) /\ Above(tasks', x) \subseteq Tasks
                          /\ (Present(tasks', x) <=> Present(tasks, x))
                          /\ Ancestors(tasks', x) = Ancestors(tasks, x)
      /\ Ordered(tasks') /\ HangsWell(tasks')
  BY <1>2, <1>5, RebatchedShape DEF TreeOK
<1>8. \A x \in back : Present(tasks, x) /\ WentWithGoal(goals, tasks, x, g) /\ x \in Tasks
  BY <1>2, <1>3, <1>6, <1>1 DEF TreeOK, BinOK, back
<1>9. \A x \in Tasks : Kept(tasks', x) <=> Kept(tasks, x) \/ x \in back
  BY <1>3, <1>5, <1>6, <1>7, <1>8 DEF Kept
<1>10. GoalsOK(goals')
  BY <1>1, <1>2, <1>4 DEF TreeOK, GoalsOK
<1>11. KeptUp(goals', tasks')
  <2> SUFFICES ASSUME NEW x \in Tasks, Kept(tasks', x)
               PROVE  GoalLive(goals', GoalOf[x]) /\ \A p \in Above(tasks', x) : Kept(tasks', p)
    BY DEF KeptUp
  <2>1. CASE Kept(tasks, x)
    <3>1. GoalLive(goals, GoalOf[x]) /\ \A p \in Above(tasks', x) : p \in Tasks /\ Kept(tasks, p)
      BY <2>1, <1>2, <1>7 DEF TreeOK, KeptUp
    <3>2. GoalOf[x] \in Goals /\ GoalOf[x] # g
      BY <3>1, <1>1, GoalsAssumption DEF GoalLive
    <3> QED
      BY <3>1, <3>2, <1>4, <1>9 DEF GoalLive
  <2>2. CASE x \in back
    <3>1. GoalOf[x] = g /\ \A p \in Above(tasks', x) : p \in back
      BY <2>2, <1>6, <1>7, <1>8 DEF WentWithGoal
    <3> QED
      BY <3>1, <1>3, <1>4, <1>7, <1>9 DEF GoalLive
  <2> QED
    BY <2>1, <2>2, <1>9
<1>12. BinOK(goals', tasks')
  <2> SUFFICES ASSUME NEW x \in Tasks, tasks'[x].batch # None
               PROVE  /\ Present(tasks', x)
                      /\ tasks'[x].batch \in Goals => WentWithGoal(goals', tasks', x, tasks'[x].batch)
                      /\ tasks'[x].batch \in Tasks => WentWithTask(tasks', x, tasks'[x].batch)
    BY DEF BinOK
  <2>1. tasks'[x].batch = tasks[x].batch /\ tasks[x].batch # None /\ tasks[x].batch # g
    BY <1>5, <1>6
  <2>2. \A y \in Tasks : tasks[y].batch = tasks[x].batch => tasks'[y].batch = tasks[y].batch
    BY <2>1, <1>5, <1>6
  <2>3. Present(tasks, x)
        /\ (tasks[x].batch \in Goals => WentWithGoal(goals, tasks, x, tasks[x].batch))
        /\ (tasks[x].batch \in Tasks => WentWithTask(tasks, x, tasks[x].batch))
    BY <2>1, <1>2 DEF TreeOK, BinOK
  <2>4. tasks[x].batch \in Goals => WentWithGoal(goals', tasks', x, tasks'[x].batch)
    BY <2>1, <2>2, <2>3, <1>4, <1>7 DEF WentWithGoal
  <2>5. tasks[x].batch \in Tasks => WentWithTask(tasks', x, tasks'[x].batch)
    BY <2>1, <2>2, <2>3, <1>5, <1>7 DEF WentWithTask, Rebatched
  <2> QED
    BY <2>1, <2>3, <2>4, <2>5, <1>7
<1>13. FocusOK(tasks')
  BY <1>1, <1>2, <1>9 DEF FocusOK
<1> QED
  BY <1>4, <1>5, <1>7, <1>10, <1>11, <1>12, <1>13 DEF GoodTables, TreeOK, TablesOK, Rebatched

-----------------------------------------------------------------------------
(* The invariant holds.                                                    *)

LEMMA TreeInvInitially == TreeInit => TreeInv
<1> SUFFICES ASSUME TreeInit PROVE TreeInv
  OBVIOUS
<1>1. goals \in [Goals -> GoalRow] /\ tasks \in [Tasks -> TaskRow] /\ focus = None
  BY DEF TreeInit, NoTask, GoalRow, TaskRow, GoalStatuses, TaskStatuses, Batches
<1>2. \A t \in Tasks : ~ Present(tasks, t) /\ tasks[t].batch = None
  BY DEF TreeInit, NoTask, Present
<1>3. GoalsOK(goals)
  BY DEF TreeInit, GoalsOK
<1>4. TreeOK(goals, tasks)
  BY <1>1, <1>2, <1>3 DEF TreeOK, TablesOK, HangsWell, KeptUp, BinOK, Kept
<1>5. \A x \in Tasks : Needs(tasks, x) = {}
  BY NoneAssumption DEF TreeInit, NoTask, Needs, Above
<1>6. Ordered(tasks)
  <2>1. \A x \in Tasks : [z \in Tasks |-> Needs(tasks, z)][x] = {}
    BY <1>5
  <2> QED
    BY <2>1 DEF Ordered, Acyclic
<1> QED
  BY <1>1, <1>4, <1>6 DEF TreeInv, GoodTables, FocusOK

LEMMA GoalOpsKeepTree ==
    ASSUME TreeInv, GoalOps
    PROVE  TreeInv'
<1>1. PICK g \in Goals :
        CreateGoal(g) \/ DeleteGoal(g) \/ RestoreGoal(g) \/ \E s \in GoalEdits : UpdateGoal(g, s)
  BY DEF GoalOps
<1>2. GoodTables(goals', tasks') /\ UNCHANGED focus
  <2>1. TreeOK(goals, tasks) /\ Ordered(tasks) /\ FocusOK(tasks)
    BY DEF TreeInv, GoodTables
  <2>2. CASE CreateGoal(g)
    <3>1. TreeOK(goals', tasks)
      BY <2>1, <2>2, GoalIsCreated DEF CreateGoal
    <3> QED
      BY <2>1, <2>2, <3>1 DEF CreateGoal, GoodTables
  <2>3. CASE \E s \in GoalEdits : UpdateGoal(g, s)
    <3>1. PICK s \in GoalEdits : UpdateGoal(g, s)
      BY <2>3
    <3>2. /\ GoalLive(goals, g) /\ s \in GoalMoves[goals[g].status]
          /\ goals' = [goals EXCEPT ![g].status = s] /\ UNCHANGED <<tasks, focus>>
      BY <3>1 DEF UpdateGoal
    <3>3. TreeOK(goals', tasks)
      BY <2>1, <3>1, <3>2, GoalIsUpdated
    <3> QED
      BY <2>1, <3>2, <3>3 DEF GoodTables
  <2>4. CASE DeleteGoal(g)
    BY <2>4, TablesAfterGoalDeletion DEF DeleteGoal
  <2>5. CASE RestoreGoal(g)
    BY <2>5, TablesAfterGoalRestoration DEF RestoreGoal
  <2> QED
    BY <1>1, <2>2, <2>3, <2>4, <2>5
<1> QED
  BY <1>2 DEF TreeInv, GoodTables, FocusOK

LEMMA TaskOpsKeepTree ==
    ASSUME TreeInv, TaskOps
    PROVE  TreeInv'
<1>1. GoodTables(goals, tasks)
  BY DEF TreeInv
<1>2. PICK t \in Tasks :
        \/ \E p \in Tasks \cup {None} : MoveTask(t, p) \/ \E d \in Lists : CreateTask(t, p, d)
        \/ \E d \in Lists : SetDependencies(t, d)
        \/ \E s \in TaskEdits : SetTaskStatus(t, s)
        \/ DeleteTask(t) \/ RestoreTask(t) \/ CompleteTask(t) \/ ReopenTask(t)
  BY DEF TaskOps
<1>3. \A d \in Lists : d \in SUBSET Tasks
  BY DEF Lists
<1>4. GoodTables(goals, tasks') /\ UNCHANGED <<goals, focus>>
  <2>1. ASSUME NEW p \in Tasks \cup {None}, MoveTask(t, p)
        PROVE  GoodTables(goals, tasks') /\ UNCHANGED <<goals, focus>>
    BY <1>1, <2>1, TablesAfterMove DEF MoveTask
  <2>2. ASSUME NEW p \in Tasks \cup {None}, NEW d \in Lists, CreateTask(t, p, d)
        PROVE  GoodTables(goals, tasks') /\ UNCHANGED <<goals, focus>>
    BY <1>1, <1>3, <2>2, TablesAfterCreation DEF CreateTask
  <2>3. ASSUME NEW d \in Lists, SetDependencies(t, d)
        PROVE  GoodTables(goals, tasks') /\ UNCHANGED <<goals, focus>>
    BY <1>1, <1>3, <2>3, TablesAfterRewiring DEF SetDependencies
  <2>4. ASSUME NEW s \in TaskEdits, SetTaskStatus(t, s)
        PROVE  GoodTables(goals, tasks') /\ UNCHANGED <<goals, focus>>
    <3>1. tasks' = [tasks EXCEPT ![t].status = s] /\ TaskLive(goals, tasks, t)
          /\ UNCHANGED <<goals, focus>>
      BY <2>4 DEF SetTaskStatus, Restated
    <3>2. s \in TaskStatuses \ {"absent"}
      BY EditsAssumption
    <3> QED
      BY <1>1, <3>1, <3>2, TablesAfterStatus
  <2>5. CASE DeleteTask(t)
    BY <1>1, <2>5, TreeAfterDeletion DEF DeleteTask
  <2>6. CASE RestoreTask(t)
    BY <1>1, <2>6, TreeAfterRestoration DEF RestoreTask
  <2>7. CASE CompleteTask(t)
    <3>1. tasks' = [tasks EXCEPT ![t].status = "completed"] /\ TaskLive(goals, tasks, t)
          /\ UNCHANGED <<goals, focus>> /\ "completed" \in TaskStatuses \ {"absent"}
      BY <2>7 DEF CompleteTask, Executable, TaskStatuses
    <3> QED
      BY <1>1, <3>1, TablesAfterStatus
  <2>8. CASE ReopenTask(t)
    <3>1. tasks' = [tasks EXCEPT ![t].status = "in_progress"] /\ TaskLive(goals, tasks, t)
          /\ UNCHANGED <<goals, focus>> /\ "in_progress" \in TaskStatuses \ {"absent"}
      BY <2>8 DEF ReopenTask, TaskStatuses
    <3> QED
      BY <1>1, <3>1, TablesAfterStatus
  <2> QED
    BY <1>2, <2>1, <2>2, <2>3, <2>4, <2>5, <2>6, <2>7, <2>8
<1> QED
  BY <1>4 DEF TreeInv, GoodTables, FocusOK

\* A proposal is one transaction over tables in between; each entry leaves good
\* tables to the next.
LEMMA ProposalOpsKeepTree ==
    ASSUME TreeInv, ProposalOps
    PROVE  TreeInv'
<1>1. GoodTables(goals, tasks)
  BY DEF TreeInv
<1>2. PICK g \in Goals : \/ \E first \in Entries : ApplyProposal(g, first)
                         \/ \E t \in Tasks : GoalWithTasks(g, t)
  BY DEF ProposalOps
<1>3. CASE \E first \in Entries : ApplyProposal(g, first)
  <2>1. PICK first \in Entries : ApplyProposal(g, first)
    BY <1>3
  <2>2. PICK mid \in Patched(goals, tasks, first), second \in Entries :
           tasks' \in Patched(goals, mid, second) /\ UNCHANGED <<goals, focus>>
    BY <2>1 DEF ApplyProposal, ApplyPatch
  <2>3. GoodTables(goals, mid)
    BY <1>1, <2>2, TablesAfterEntry
  <2>4. GoodTables(goals, tasks')
    BY <2>2, <2>3, TablesAfterEntry
  <2> QED
    BY <2>2, <2>4 DEF TreeInv, GoodTables, FocusOK
<1>4. CASE \E t \in Tasks : GoalWithTasks(g, t)
  <2>1. PICK t \in Tasks : GoalWithTasks(g, t)
    BY <1>4
  <2> DEFINE born == [goals EXCEPT ![g] = [status |-> "active", batch |-> None]]
  <2>2. goals[g].status = "absent" /\ goals' = born /\ UNCHANGED focus
        /\ tasks' \in Created(born, tasks, t, None, {})
    BY <2>1 DEF GoalWithTasks
  <2>3. GoodTables(born, tasks)
    BY <1>1, <2>2, GoalIsCreated DEF GoodTables
  <2> HIDE DEF born
  <2>4. GoodTables(born, tasks')
    <3>1. None \in Tasks \cup {None} /\ {} \in SUBSET Tasks
      OBVIOUS
    <3> QED
      BY <2>2, <2>3, <3>1, TablesAfterCreation
  <2> QED
    BY <2>2, <2>4 DEF TreeInv, GoodTables, FocusOK
<1> QED
  BY <1>2, <1>3, <1>4

LEMMA FocusOpsKeepTree ==
    ASSUME TreeInv, FocusOps
    PROVE  TreeInv'
<1>1. CASE EndFocus
  BY <1>1 DEF EndFocus, TreeInv, GoodTables, FocusOK
<1>2. CASE \E t \in Tasks : BeginFocus(t)
  <2>1. PICK t \in Tasks : BeginFocus(t)
    BY <1>2
  <2>2. Kept(tasks, t)
    BY <2>1, LiveTask DEF BeginFocus, Executable
  <2> QED
    BY <2>1, <2>2 DEF BeginFocus, TreeInv, GoodTables, FocusOK
<1> QED
  BY <1>1, <1>2 DEF FocusOps

\* The tables of goals and tasks satisfy the inductive invariant in every state
\* (every operation of lifecycle.go, taskdependencies.go and of proposals).
THEOREM TreeIsSound == TreeSpec => []TreeInv
<1>1. TreeInv /\ [TreeNext]_treeVars => TreeInv'
  <2> SUFFICES ASSUME TreeInv, [TreeNext]_treeVars PROVE TreeInv'
    OBVIOUS
  <2>1. CASE UNCHANGED treeVars
    BY <2>1 DEF treeVars, TreeInv, GoodTables, FocusOK
  <2> QED
    BY <2>1, GoalOpsKeepTree, TaskOpsKeepTree, ProposalOpsKeepTree, FocusOpsKeepTree DEF TreeNext
<1> QED
  BY <1>1, TreeInvInitially, PTL DEF TreeSpec

\* Every row has its type.
THEOREM TreeTypes == TreeSpec => []TreeTypeOK
<1>1. TreeInv => TreeTypeOK
  BY DEF TreeInv, GoodTables, TreeOK, TablesOK, TreeTypeOK
<1> QED
  BY <1>1, TreeIsSound, PTL

\* No order of deletions, moves, restorations and proposals leaves a task that is
\* not deleted below a deleted one, in a deleted goal or in another goal.
THEOREM BranchesStayLive == TreeSpec => []LiveBranch
<1>1. TreeInv => LiveBranch
  BY KeptBranchIsLive DEF TreeInv, GoodTables, LiveBranch
<1> QED
  BY <1>1, TreeIsSound, PTL

\* Parents and prerequisites never form a circle, deleted rows included.
THEOREM WorkStaysOrdered == TreeSpec => []NoCircularWork
<1>1. TreeInv => NoCircularWork
  BY DEF TreeInv, GoodTables, Ordered, NoCircularWork
<1> QED
  BY <1>1, TreeIsSound, PTL

\* Nothing of a deletion's batch is left in the bin once its root is out of it.
THEOREM BatchesComeBackWhole == TreeSpec => []BatchesReturnWhole
<1>1. TreeInv => BatchesReturnWhole
  <2> SUFFICES ASSUME TreeInv, NEW t \in Tasks, tasks[t].batch # None
               PROVE  \/ tasks[t].batch \in Tasks /\ tasks[tasks[t].batch].batch = tasks[t].batch
                      \/ tasks[t].batch \in Goals /\ goals[tasks[t].batch].batch = tasks[t].batch
    BY DEF BatchesReturnWhole
  <2>1. TreeOK(goals, tasks)
    BY DEF TreeInv, GoodTables
  <2>2. tasks[t].batch \in Goals \cup Tasks
    BY <2>1 DEF TreeOK, TablesOK, TaskRow, Batches
  <2> QED
    BY <2>1, <2>2 DEF TreeOK, BinOK, WentWithGoal, WentWithTask
<1> QED
  BY <1>1, TreeIsSound, PTL

\* The task of a running or paused focus session is live: whatever is deleted
\* around it, the session never points into the bin (NoFocusOn).
THEOREM FocusIsOnLiveWork ==
    TreeSpec => [](focus # None => focus \in Tasks /\ TaskLive(goals, tasks, focus))
<1>1. TreeInv => (focus # None => focus \in Tasks /\ TaskLive(goals, tasks, focus))
  BY KeptBranchIsLive DEF TreeInv, GoodTables, FocusOK
<1> QED
  BY <1>1, TreeIsSound, PTL

=============================================================================
