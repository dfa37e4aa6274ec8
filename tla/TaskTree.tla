------------------------------ MODULE TaskTree ------------------------------
(***************************************************************************)
(* Goals, the tasks under them and the focus sessions on those tasks       *)
(* (application/lifecycle.go, taskdependencies.go, the task half of        *)
(* app.go).  A task hangs below a parent of the same goal and may name     *)
(* prerequisites; both kinds of edge decide whether it can be worked on.   *)
(*                                                                         *)
(* Every operation is one transaction that compares the revision its       *)
(* caller read with the row's: a stale caller is refused and changes       *)
(* nothing, so an operation is modelled as a step on the current rows and  *)
(* the revisions themselves are left out.  The same holds for proposals,   *)
(* whose base revision must be the tree's latest when they are applied.    *)
(***************************************************************************)
EXTENDS Naturals, FiniteSets, Sequences

CONSTANTS
    Goals,          \* goal ids, numbers in the order the goals are created
    Tasks,          \* task ids
    GoalOf,         \* the goal each task is created under, which no edit changes
    None,           \* no parent, no deletion batch
    GoalEdits,      \* the goal statuses an edit may ask for
    TaskEdits,      \* the task statuses an edit may ask for
    PatchOps,       \* the kinds of entries an approved patch may hold
    MaxNeeds        \* bound: the prerequisites an edit may list

ASSUME GoalsAssumption == Goals \subseteq Nat /\ GoalOf \in [Tasks -> Goals]
ASSUME TasksAssumption == IsFiniteSet(Tasks)
ASSUME NoneAssumption == None \notin Goals \cup Tasks /\ Goals \cap Tasks = {}

VARIABLES
    goals,          \* goals[g]: status and the deletion batch it is in
    tasks,          \* tasks[t]: status, parent, prerequisites, deletion batch
    focus           \* the task of the running or paused focus session

treeVars == <<goals, tasks, focus>>

GoalStatuses == {"absent", "draft", "active", "paused", "completed", "abandoned", "archived"}
TaskStatuses == {"absent", "ready", "in_progress", "blocked", "paused",
                 "cancelled", "superseded", "completed"}
ASSUME EditsAssumption == TaskEdits \subseteq TaskStatuses \ {"absent"}

(* A batch is named by the goal or the task whose deletion made it: that   *)
(* root cannot be deleted again before the batch is restored.              *)
Batches == Goals \cup Tasks \cup {None}
GoalRow == [status : GoalStatuses, batch : Batches]
TaskRow == [status : TaskStatuses, parent : Tasks \cup {None},
            dependsOn : SUBSET Tasks, batch : Batches]

NoTask == [status |-> "absent", parent |-> None, dependsOn |-> {}, batch |-> None]

-----------------------------------------------------------------------------
(* The graph a task's execution depends on.  ts is the table of tasks.     *)

Present(ts, t) == ts[t].status # "absent"
Kept(ts, t) == Present(ts, t) /\ ts[t].batch = None     \* deleted_at IS NULL
Above(ts, t) == {p \in Tasks : p = ts[t].parent}
Needs(ts, t) == ts[t].dependsOn \cup Above(ts, t)

(* What can be reached from t along the edges of next, t included.         *)
Reach(next, t) ==
    LET within[n \in Nat] ==
          IF n = 0 THEN {t} ELSE within[n - 1] \cup UNION {next[x] : x \in within[n - 1]}
    IN  within[Cardinality(Tasks)]
Acyclic(next, S) == \A x \in S : \A y \in next[x] : x \notin Reach(next, y)

Ancestors(ts, t) == Reach([x \in Tasks |-> Above(ts, x)], t)
Subtree(ts, t) == {x \in Tasks : Present(ts, x) /\ t \in Ancestors(ts, x)}
Behind(ts, t) == Reach([x \in Tasks |-> Needs(ts, x)], t)

GoalLive(gs, g) == gs[g].status # "absent" /\ gs[g].batch = None
TaskLive(gs, ts, t) ==
    /\ GoalLive(gs, GoalOf[t])
    /\ \A a \in Ancestors(ts, t) : Kept(ts, a) /\ GoalOf[a] = GoalOf[t]

GraphValid_Direct(ts, t) ==
    \A x \in ts[t].dependsOn : Kept(ts, x) /\ x \notin Ancestors(ts, t)

GraphValid(ts, t) ==
    LET behind == Behind(ts, t) IN
    /\ \A x \in behind : Kept(ts, x) /\ GoalOf[x] = GoalOf[t]
    /\ Acyclic([x \in Tasks |-> Needs(ts, x)], behind)
    /\ \A x \in behind : ts[x].dependsOn \cap Ancestors(ts, t) = {}

(* A changed task must be valid itself and leave every kept task that      *)
(* reaches it valid: a deleted one is not looked at.                       *)
DependenciesValid(ts, t) ==
    /\ GraphValid(ts, t)
    /\ \A x \in Tasks : (Kept(ts, x) /\ t \in Behind(ts, x)) => GraphValid(ts, x)

Open == {"ready", "in_progress"}
Finished == {"completed", "cancelled", "superseded"}

Executable(gs, ts, t) ==
    /\ TaskLive(gs, ts, t)
    /\ gs[GoalOf[t]].status = "active"
    /\ GraphValid(ts, t)
    /\ \A a \in Ancestors(ts, t) : ts[a].status \in Open
    /\ \A x \in Behind(ts, t) : \A d \in ts[x].dependsOn : ts[d].status = "completed"

-----------------------------------------------------------------------------
(* Goals.                                                                  *)

CreateGoal(g) ==
    /\ goals[g].status = "absent"
    /\ \A h \in Goals : h < g => goals[h].status # "absent"
    /\ goals' = [goals EXCEPT ![g] = [status |-> "active", batch |-> None]]
    /\ UNCHANGED <<tasks, focus>>

GoalMoves ==
    [draft |-> {"active", "abandoned", "archived"},
     active |-> {"paused", "completed", "abandoned", "archived"},
     paused |-> {"active", "abandoned", "archived"},
     completed |-> {"active", "archived"},
     abandoned |-> {"active", "archived"},
     archived |-> {"active"}]

UpdateGoal(g, status) ==
    /\ GoalLive(goals, g)
    /\ status \in GoalMoves[goals[g].status]
    /\ goals' = [goals EXCEPT ![g].status = status]
    /\ UNCHANGED <<tasks, focus>>

NoFocusOn(S) == focus \notin S

DeleteGoal(g) ==
    LET gone == {t \in Tasks : GoalOf[t] = g /\ Kept(tasks, t)} IN
    /\ GoalLive(goals, g)
    /\ NoFocusOn(gone)
    /\ goals' = [goals EXCEPT ![g].batch = g]
    /\ tasks' = [t \in Tasks |-> IF t \in gone THEN [tasks[t] EXCEPT !.batch = g] ELSE tasks[t]]
    /\ UNCHANGED focus

RestoreGoal(g) ==
    LET back == {t \in Tasks : GoalOf[t] = g /\ tasks[t].batch = goals[g].batch} IN
    /\ goals[g].batch # None
    /\ goals' = [goals EXCEPT ![g].batch = None]
    /\ tasks' = [t \in Tasks |-> IF t \in back THEN [tasks[t] EXCEPT !.batch = None] ELSE tasks[t]]
    /\ UNCHANGED focus

-----------------------------------------------------------------------------
(* Tasks.  Each operator says which tables the operation may leave behind; *)
(* the empty set is a refusal.  A proposal runs several of them in one     *)
(* transaction.                                                            *)

ParentAllowed(gs, ts, t, parent) ==
    parent # None =>
        /\ TaskLive(gs, ts, parent)
        /\ GoalOf[parent] = GoalOf[t]
        /\ ts[parent].status \notin Finished

Created(gs, ts, t, parent, deps) ==
    LET row == [status |-> "ready", parent |-> parent, dependsOn |-> deps, batch |-> None]
        new == [ts EXCEPT ![t] = row]
    IN  {r \in {new} :
            /\ ~ Present(ts, t)
            /\ GoalLive(gs, GoalOf[t])
            /\ gs[GoalOf[t]].status \in {"active", "paused"}
            /\ ParentAllowed(gs, ts, t, parent)
            /\ DependenciesValid(r, t)}

(* The graph is checked only when the parent or the prerequisites are      *)
(* named by the edit.                                                      *)
Movable(gs, ts, t, parent) ==
    /\ ParentAllowed(gs, ts, t, parent)
    /\ parent # None => t \notin Ancestors(ts, parent)

Restated(gs, ts, t, status) ==
    {[ts EXCEPT ![t].status = s] : s \in {x \in {status} :
        /\ TaskLive(gs, ts, t)
        /\ ts[t].status # "completed"
        /\ x # "completed"}}

Moved(gs, ts, t, parent) ==
    {r \in {[ts EXCEPT ![t].parent = parent]} :
        /\ TaskLive(gs, ts, t)
        /\ Movable(gs, ts, t, parent)
        /\ DependenciesValid(r, t)}

Rewired(gs, ts, t, deps) ==
    {r \in {[ts EXCEPT ![t].dependsOn = deps]} :
        /\ TaskLive(gs, ts, t)
        /\ DependenciesValid(r, t)}

Doomed(ts, t) == {x \in Subtree(ts, t) : Kept(ts, x)}
Deleted(gs, ts, t) ==
    {[x \in Tasks |-> IF x \in d THEN [ts[x] EXCEPT !.batch = t] ELSE ts[x]] :
        d \in {e \in {Doomed(ts, t)} : TaskLive(gs, ts, t) /\ NoFocusOn(e)}}

ReturnsWith_Alone(ts, t) == {t}

ReturnsWith(ts, t) == {x \in Subtree(ts, t) : ts[x].batch = ts[t].batch}
Restored_Anywhere(gs, ts, t) ==
    {[x \in Tasks |-> IF x \in b THEN [ts[x] EXCEPT !.batch = None] ELSE ts[x]] :
        b \in {c \in {ReturnsWith(ts, t)} : ts[t].batch # None /\ GoalLive(gs, GoalOf[t])}}

Restored(gs, ts, t) ==
    {[x \in Tasks |-> IF x \in b THEN [ts[x] EXCEPT !.batch = None] ELSE ts[x]] :
        b \in {c \in {ReturnsWith(ts, t)} :
            /\ ts[t].batch # None
            /\ GoalLive(gs, GoalOf[t])
            /\ ts[t].parent # None => TaskLive(gs, ts, ts[t].parent)}}

CreateTask(t, parent, deps) ==
    tasks' \in Created(goals, tasks, t, parent, deps) /\ UNCHANGED <<goals, focus>>
SetTaskStatus(t, status) ==
    tasks' \in Restated(goals, tasks, t, status) /\ UNCHANGED <<goals, focus>>
MoveTask(t, parent) ==
    tasks' \in Moved(goals, tasks, t, parent) /\ UNCHANGED <<goals, focus>>
SetDependencies(t, deps) ==
    tasks' \in Rewired(goals, tasks, t, deps) /\ UNCHANGED <<goals, focus>>
DeleteTask(t) ==
    tasks' \in Deleted(goals, tasks, t) /\ UNCHANGED <<goals, focus>>
RestoreTask(t) ==
    tasks' \in Restored(goals, tasks, t) /\ UNCHANGED <<goals, focus>>

CompleteTask(t) ==
    /\ tasks[t].status \notin Finished
    /\ Executable(goals, tasks, t)
    /\ tasks' = [tasks EXCEPT ![t].status = "completed"]
    /\ UNCHANGED <<goals, focus>>

ReopenTask(t) ==
    /\ TaskLive(goals, tasks, t)
    /\ tasks[t].status = "completed"
    /\ tasks' = [tasks EXCEPT ![t].status = "in_progress"]
    /\ UNCHANGED <<goals, focus>>

-----------------------------------------------------------------------------
(* An approved proposal: an ordered patch, all of it or none of it.        *)

Entries == [op : PatchOps \cap {"create", "move"}, task : Tasks, parent : Tasks \cup {None}]
           \cup [op : PatchOps \cap {"supersede", "delete", "restore"}, task : Tasks]

(* One entry of the patch.  A create here also rejects a finished parent,  *)
(* and a move adds the cycle check over the kept tasks to that of the edit. *)
Patched(gs, ts, entry) ==
    IF entry.op = "create" THEN Created(gs, ts, entry.task, entry.parent, {})
    ELSE IF entry.op = "move" THEN Moved(gs, ts, entry.task, entry.parent)
    ELSE IF entry.op = "supersede" THEN Restated(gs, ts, entry.task, "superseded")
    ELSE IF entry.op = "delete" THEN Deleted(gs, ts, entry.task)
    ELSE Restored(gs, ts, entry.task)

ApplyPatch(g, first, mid, second) ==
    /\ GoalLive(goals, g)
    /\ goals[g].status = "active"
    /\ GoalOf[first.task] = g /\ GoalOf[second.task] = g
    /\ tasks' \in Patched(goals, mid, second)
    /\ UNCHANGED <<goals, focus>>

ApplyProposal(g, first) ==
    \E mid \in Patched(goals, tasks, first) : \E second \in Entries : ApplyPatch(g, first, mid, second)

(* A goal approved together with its first tasks: both or neither.         *)
GoalWithTasks(g, t) ==
    LET born == [goals EXCEPT ![g] = [status |-> "active", batch |-> None]] IN
    /\ goals[g].status = "absent"
    /\ \A h \in Goals : h < g => goals[h].status # "absent"
    /\ GoalOf[t] = g
    /\ goals' = born
    /\ tasks' \in Created(born, tasks, t, None, {})
    /\ UNCHANGED focus

-----------------------------------------------------------------------------
(* Focus sessions: a user has at most one that is running or paused.  Its  *)
(* pauses and its past do not touch the tree.                              *)

BeginFocus(t) ==
    /\ Executable(goals, tasks, t)
    /\ focus = None
    /\ focus' = t
    /\ UNCHANGED <<goals, tasks>>

EndFocus ==
    /\ focus # None
    /\ focus' = None
    /\ UNCHANGED <<goals, tasks>>

-----------------------------------------------------------------------------
TreeInit ==
    /\ goals = [g \in Goals |-> [status |-> "absent", batch |-> None]]
    /\ tasks = [t \in Tasks |-> NoTask]
    /\ focus = None

GoalOps == \E g \in Goals :
    CreateGoal(g) \/ DeleteGoal(g) \/ RestoreGoal(g) \/ \E s \in GoalEdits : UpdateGoal(g, s)
Lists == {d \in SUBSET Tasks : Cardinality(d) <= MaxNeeds}
TaskOps == \E t \in Tasks :
    \/ \E p \in Tasks \cup {None} : MoveTask(t, p) \/ \E d \in Lists : CreateTask(t, p, d)
    \/ \E d \in Lists : SetDependencies(t, d)
    \/ \E s \in TaskEdits : SetTaskStatus(t, s)
    \/ DeleteTask(t) \/ RestoreTask(t) \/ CompleteTask(t) \/ ReopenTask(t)
ProposalOps == \E g \in Goals :
    (\E first \in Entries : ApplyProposal(g, first)) \/ (\E t \in Tasks : GoalWithTasks(g, t))
FocusOps == EndFocus \/ \E t \in Tasks : BeginFocus(t)

TreeNext == GoalOps \/ TaskOps \/ ProposalOps \/ FocusOps
TreeSpec == TreeInit /\ [][TreeNext]_treeVars

-----------------------------------------------------------------------------
TreeTypeOK ==
    /\ goals \in [Goals -> GoalRow]
    /\ tasks \in [Tasks -> TaskRow]
    /\ focus \in Tasks \cup {None}

(* A task that is not deleted hangs below live rows of its own goal, all   *)
(* the way up: no order of deletions, moves and restorations leaves a live *)
(* task under a deleted one, where every guard would call it missing.      *)
LiveBranch == \A t \in Tasks : Kept(tasks, t) => TaskLive(goals, tasks, t)

(* Parents and prerequisites together never form a circle, deleted rows    *)
(* included: a restoration re-checks nothing, so what was wired around a   *)
(* deleted task must not close a circle through it when it comes back.     *)
NoCircularWork == Acyclic([x \in Tasks |-> Needs(tasks, x)], Tasks)

(* A restoration brings back every task its deletion took: nothing of a    *)
(* batch is left behind once its root is out of the bin.                   *)
BatchesReturnWhole ==
    \A t \in Tasks : tasks[t].batch # None =>
        \/ tasks[t].batch \in Tasks /\ tasks[tasks[t].batch].batch = tasks[t].batch
        \/ tasks[t].batch \in Goals /\ goals[tasks[t].batch].batch = tasks[t].batch

=============================================================================
