------------------------------ MODULE DailyPlan ------------------------------
(***************************************************************************)
(* The plans of today and of the days after it (application/planning.go,   *)
(* planning_guard.go, planning_task_edits.go, plandelete.go,               *)
(* planprogress.go, agentdailyplan.go and the plan half of app.go and      *)
(* lifecycle.go).  A plan promises steps of tasks; the scheduler fills it, *)
(* the user edits it, focus sessions and completions leave evidence on it, *)
(* and every change of the task tree withdraws what can no longer be done  *)
(* today.                                                                  *)
(*                                                                         *)
(* Of the tree (module TaskTree) the plans see where a task hangs and how  *)
(* it stands by itself: open, shut (paused, blocked, waiting, completed),  *)
(* dropped (cancelled, superseded), gone (deleted) or not created yet.     *)
(* Its changes are modelled by what they do to these.  A line of a plan is *)
(* one promise about one task followed through the plan's revisions        *)
(* (logical_id); its row is in the plan's current revision or nowhere.     *)
(* Minutes of a promise, its wording and the choice of the primary goal    *)
(* are left out, and the queue is in the fixed order of the task numbers.  *)
(***************************************************************************)
EXTENDS Naturals, FiniteSets, FiniteSetsExt

CONSTANTS
    Tasks,          \* tasks, numbered in the order the queue takes them
    Sessions,       \* focus session ids
    None,
    LastDay,        \* bound: the days are 1 .. LastDay
    Horizon,        \* days the scheduler keeps planned, today included
    Slots,          \* core promises a day has room for
    MaxLines,       \* bound: lines of one task in one plan
    Target,         \* minutes of focus a promise asks for
    MaxEdits        \* bound: changes of the tree and of plans by the user

ASSUME TasksAssumption == Tasks \subseteq Nat /\ IsFiniteSet(Tasks) /\ None \notin Tasks
ASSUME BoundsAssumption ==
    /\ LastDay \in Nat \ {0} /\ MaxLines \in Nat \ {0}
    /\ Horizon \in Nat /\ Slots \in Nat /\ Target \in Nat /\ MaxEdits \in Nat

VARIABLES
    tree,           \* tree[t]: state and parent
    today,          \* the date in the user's zone
    plans,          \* plans[d]: status, frozen, its rows were removed by hand
    items,          \* items[d]: the rows of the plan's current revision
    events,         \* lines a completion was ever recorded on
    sessions,       \* sessions[s]: line it was started from, status, minutes
    edits           \* changes made so far

planVars == <<tree, today, plans, items, events, sessions, edits>>

Days == 1 .. LastDay
Lines == [day : Days, task : Tasks, line : 1 .. MaxLines]
ASSUME NoneAssumption == None \notin Lines
Row == [task : Tasks, line : 1 .. MaxLines,
        st : {"planned", "satisfied", "skipped", "not_completed"},
        how : {"none", "result", "time"}, cited : SUBSET Sessions, scope : SUBSET Tasks]
Plan == [status : {"none", "active", "closed", "cancelled"}, frozen : BOOLEAN, removed : BOOLEAN]
Session == [on : Lines \cup {None}, minutes : 0 .. Target,
            status : {"none", "running", "ended", "invalidated"}]
Here == {"open", "shut", "dropped"}
States == Here \cup {"gone", "absent"}
Node == [state : States, parent : Tasks \cup {None}]

NewRow(t, line, scope) ==
    [task |-> t, line |-> line, st |-> "planned", how |-> "none", cited |-> {}, scope |-> scope]
LineOf(d, r) == [day |-> d, task |-> r.task, line |-> r.line]
TasksOf(rows) == {r.task : r \in rows}

(* The tables a scheduling transaction rewrites.                           *)
Board == [plans |-> plans, items |-> items]
Posted(b) == plans' = b.plans /\ items' = b.items

-----------------------------------------------------------------------------
(* What the plans see of the tree.                                         *)

Above(tr, t) ==
    LET up[n \in Nat] ==
          IF n = 0 THEN {tr[t].parent} ELSE up[n - 1] \cup {tr[a].parent : a \in up[n - 1] \cap Tasks}
    IN  up[Cardinality(Tasks)] \cap Tasks
Executable(tr, t) == \A a \in Above(tr, t) \cup {t} : tr[a].state = "open"
IsParent(tr, t) == \E c \in Tasks : tr[c].parent = t /\ tr[c].state \in {"open", "shut"}
Eligible(tr) == {t \in Tasks : Executable(tr, t) /\ ~ IsParent(tr, t)}
DescendsFrom(tr, t, heads) == Above(tr, t) \cap heads # {}

-----------------------------------------------------------------------------
(* What protects a row.                                                    *)

Counted(rows) == {r \in rows : r.st # "skipped"}
Standing(rows) == {r \in rows : r.st \in {"planned", "satisfied"}}

Focused(d, r) == \E s \in Sessions : sessions[s].on = LineOf(d, r)
Protected(d, rows) == {r \in rows : r.st = "satisfied" \/ LineOf(d, r) \in events \/ Focused(d, r)}
Retained_Focused(d, rows) == {r \in Protected(d, rows) : Focused(d, r)}

(* A withdrawn promise that was worked on outlives a replan only if focus  *)
(* time was spent on it.                                                   *)
Retained(d, rows) == {r \in Protected(d, rows) : r.st = "skipped" => Focused(d, r)}

ProtectedParents(tr, d, rows) == {t \in TasksOf(Standing(Protected(d, rows))) : IsParent(tr, t)}

(* Today's promises that the tree's new shape takes the ground from: a     *)
(* task that was split, or one below a promise that is already under way,  *)
(* unless the user picked it there and it is still in the same place.      *)
Unfounded(tr, d, rows) ==
    {r \in Standing(rows) \ Protected(d, rows) :
        \/ IsParent(tr, r.task)
        \/ /\ DescendsFrom(tr, r.task, ProtectedParents(tr, d, rows))
           /\ ~ (r.scope = Above(tr, r.task) /\ Executable(tr, r.task))}

-----------------------------------------------------------------------------
(* The scheduler (refreshScheduleTx).                                      *)

Missed(rows) == {IF r.st = "planned" THEN [r EXCEPT !.st = "not_completed"] ELSE r : r \in rows}

(* A past day is closed: what was not done is recorded as missed.          *)
Expired(b) ==
    LET over == {d \in Days : d < today /\ b.plans[d].status = "active"} IN
    [plans |-> [d \in Days |-> IF d \in over THEN [b.plans[d] EXCEPT !.status = "closed"] ELSE b.plans[d]],
     items |-> [d \in Days |-> IF d \in over THEN Missed(b.items[d]) ELSE b.items[d]]]

InReach(b, d) == today <= d /\ d < today + Horizon /\ b.plans[d].status \in {"none", "active"}
(* Rows of a fixed day are only appended to.                               *)
Fixed(b, d) == (d = today /\ b.plans[d].frozen) \/ Protected(d, b.items[d]) # {}
Founded(tr, b, d) ==
    IF d = today /\ b.plans[d].status = "active"
    THEN b.items[d] \ Unfounded(tr, d, b.items[d]) ELSE b.items[d]
Held_Unfixed(b, d, rows) == IF Fixed(b, d) THEN {} ELSE TasksOf(rows)

Held(b, d, rows) == TasksOf(IF Fixed(b, d) THEN Counted(rows) ELSE rows)

Before(r, q) == r.task < q.task \/ (r.task = q.task /\ r.line < q.line)
FirstTasks(S, n) == {t \in S : Cardinality({u \in S : u < t}) < n}
FirstRows(rows, n) == {r \in rows : Cardinality({q \in rows : Before(q, r)}) < n}
Missing_Whole(n) == Slots

Missing(n) == IF n < Slots THEN Slots - n ELSE 0

(* Day by day, the rows that stay: an unfixed day keeps what can still be  *)
(* done and is not promised on an earlier day.                             *)
Stays(tr, b) ==
    LET ready == Eligible(tr)
        stay[d \in 0 .. LastDay] ==
            IF d = 0 \/ ~ InReach(b, d) THEN {}
            ELSE IF Fixed(b, d) THEN Founded(tr, b, d)
            ELSE LET taken == UNION {Held(b, e, stay[e]) : e \in today .. d - 1}
                 IN  FirstRows({r \in Founded(tr, b, d) : r.task \in ready \ taken}, Slots)
    IN  [d \in Days |-> stay[d]]

Withdrawn(b, d, rows) == Fixed(b, d) /\ rows # {} /\ Standing(rows) = {}

Room(b, d, rows) ==
    IF ~ InReach(b, d) \/ (d = today /\ b.plans[d].removed) \/ Withdrawn(b, d, rows) THEN 0
    ELSE Missing(Cardinality(rows))

(* An appended row starts a line of its own, one that has neither a row    *)
(* nor evidence; a task out of lines (bound) is not appended.              *)
FreshLines(b, d, t) ==
    {n \in 1 .. MaxLines :
        LET l == [day |-> d, task |-> t, line |-> n] IN
        /\ \A r \in b.items[d] : LineOf(d, r) # l
        /\ l \notin events
        /\ \A s \in Sessions : sessions[s].on # l}

LineFor(b, d, t) == IF Fixed(b, d) THEN Min(FreshLines(b, d, t)) ELSE 1

(* Vacancies are filled from the queue, today first; what today still      *)
(* lacks is taken from the reservations of later days.                     *)
Heads(tr, b) ==
    IF b.plans[today].status = "active" THEN ProtectedParents(tr, today, b.items[today]) ELSE {}
Queue(tr, b, stay) ==
    Eligible(tr) \ UNION {Held(b, d, stay[d]) : d \in {e \in Days : InReach(b, e)}}
Promotable(tr, b, t) ==
    ~ DescendsFrom(tr, t, Heads(tr, b)) /\ FreshLines(b, today, t) # {}

FromQueue(tr, b, stay) ==
    FirstTasks({t \in Queue(tr, b, stay) : Promotable(tr, b, t)}, Room(b, today, stay[today]))

Spare(tr, b, d, rows) ==
    IF d = today \/ ~ InReach(b, d) \/ Protected(d, b.items[d]) # {} THEN {}
    ELSE {r \in rows : r.st = "planned" /\ Promotable(tr, b, r.task)}

(* What the later days give up, the nearest first.                         *)
Pulled(tr, b, stay) ==
    LET short[d \in 0 .. LastDay] ==
            IF d <= today THEN Room(b, today, stay[today]) - Cardinality(FromQueue(tr, b, stay))
            ELSE short[d - 1] - Cardinality(FirstRows(Spare(tr, b, d, stay[d]), short[d - 1]))
    IN  [d \in Days |-> IF d <= today THEN {} ELSE FirstRows(Spare(tr, b, d, stay[d]), short[d - 1])]

Filling(tr, b, stay) ==
    LET pulled == Pulled(tr, b, stay)
        fill[d \in 0 .. LastDay] ==
            IF d < today THEN {}
            ELSE IF d = today THEN FromQueue(tr, b, stay) \cup UNION {TasksOf(pulled[e]) : e \in Days}
            ELSE FirstTasks(Queue(tr, b, stay) \ UNION {fill[e] : e \in today .. d - 1},
                            Room(b, d, stay[d] \ pulled[d]))
    IN  [d \in Days |-> [new |-> fill[d], rest |-> stay[d] \ pulled[d]]]

(* A day that is not fixed is rewritten when anything in it changes: its   *)
(* rows are copied, follow their task's first line and lose their scope.   *)
Copied(rows) == {[r EXCEPT !.line = 1, !.scope = {}] : r \in rows}
DayRows(b, d, f) ==
    LET added == {NewRow(t, LineFor(b, d, t), {}) : t \in f.new} IN
    added \cup IF Fixed(b, d) \/ (f.new = {} /\ f.rest = b.items[d]) THEN f.rest ELSE Copied(f.rest)

Scheduled(tr, b, fill) ==
    [plans |-> [d \in Days |->
        IF ~ InReach(b, d) THEN b.plans[d]
        ELSE [b.plans[d] EXCEPT !.status = "active",
                !.frozen = @ \/ /\ d = today /\ ~ b.plans[d].removed
                                /\ fill[d].new # {} \/ fill[d].rest # {}
                                /\ ~ Withdrawn(b, d, fill[d].rest)]],
     items |-> [d \in Days |-> IF InReach(b, d) THEN DayRows(b, d, fill[d]) ELSE b.items[d]]]

Rescheduled(tr, board) ==
    LET b == Expired(board) IN Scheduled(tr, b, Filling(tr, b, Stays(tr, b)))

-----------------------------------------------------------------------------
(* Changes of the tree: an edit, a completion, a deletion or an approved   *)
(* patch changes what can be worked on, or where a task hangs.  Today's    *)
(* promises that cannot be kept are withdrawn and the days rescheduled.  A *)
(* recovery from the recycle bin freezes today first, so that what comes   *)
(* back is planned for later.                                              *)

Released_Own(tr, b) ==
    LET skip(r) == IF r.st = "planned" /\ tr[r.task].state # "open" THEN [r EXCEPT !.st = "skipped"] ELSE r
    IN  IF b.plans[today].status # "active" THEN b
        ELSE [b EXCEPT !.items[today] = {skip(r) : r \in @}]

Released(tr, b) ==
    LET skip(r) == IF r.st = "planned" /\ ~ Executable(tr, r.task) THEN [r EXCEPT !.st = "skipped"] ELSE r
    IN  IF b.plans[today].status # "active" THEN b
        ELSE [b EXCEPT !.items[today] = {skip(r) : r \in @}]

Frozen(b) ==
    [b EXCEPT !.plans[today].frozen = TRUE,
              !.plans[today].status = IF @ = "none" THEN "active" ELSE @]

(* Deletions take whole subtrees and a restoration asks for a live parent. *)
Restated(next) ==
    /\ tree' = [t \in Tasks |-> [tree[t] EXCEPT !.state = next[t]]] /\ tree' # tree
    /\ \A t \in Tasks : next[t] \in Here => \A a \in Above(tree, t) : next[a] \in Here
(* A deleted task can only be restored, with the status it had.            *)
EditTree(next) ==
    /\ \A t \in Tasks : tree[t].state \in Here \/ next[t] = tree[t].state
    /\ Restated(next)
RestoreTasks(next) ==
    /\ \A t \in Tasks : next[t] = tree[t].state \/ (tree[t].state = "gone" /\ next[t] \in Here)
    /\ Restated(next)

MoveTask(t, p) ==
    /\ p # tree[t].parent /\ p # t /\ tree[t].state \in Here
    /\ p # None => t \notin Above(tree, p) /\ tree[p].state \in {"open", "shut"}
    /\ tree' = [tree EXCEPT ![t].parent = p]

TreeChange(recovering) ==
    \/ ~ recovering /\ \E next \in [Tasks -> States] : EditTree(next)
    \/ ~ recovering /\ \E t \in Tasks, p \in Tasks \cup {None} : MoveTask(t, p)
    \/ recovering /\ \E next \in [Tasks -> States] : RestoreTasks(next)

Reflected(recovering) ==
    LET b == Released(tree', Board) IN Posted(Rescheduled(tree', IF recovering THEN Frozen(b) ELSE b))

ChangeTree == \E recovering \in BOOLEAN :
    /\ TreeChange(recovering)
    /\ Reflected(recovering)
    /\ UNCHANGED <<today, events, sessions>>

(* A new task is not planned before the next refresh.                      *)
CreateTask(t, p) ==
    /\ tree[t].state = "absent"
    /\ p # None => tree[p].state \in {"open", "shut"}
    /\ tree' = [tree EXCEPT ![t] = [state |-> "open", parent |-> p]]
    /\ UNCHANGED <<today, plans, items, events, sessions>>

-----------------------------------------------------------------------------
(* Operations on plans.  Each is one transaction on the plan's revision.   *)

OnPlans == UNCHANGED <<tree, today, sessions>>

(* A read of the schedule, or the minute sweep.                            *)
RefreshSchedule == Posted(Rescheduled(tree, Board)) /\ UNCHANGED <<events, edits>> /\ OnPlans

Candidates(asked) == IF asked = {} THEN Eligible(tree) ELSE Eligible(tree) \cap asked

CreateDailyPlan(d, asked, scoped) ==
    LET chosen == FirstTasks(Candidates(asked), Slots) IN
    /\ plans[d].status = "none"
    /\ asked # {} => Candidates(asked) # {}
    /\ plans' = [plans EXCEPT ![d] = [status |-> "active", removed |-> FALSE,
                                      frozen |-> d <= today /\ chosen # {}]]
    /\ items' = [items EXCEPT ![d] = {NewRow(t, 1, IF scoped THEN Above(tree, t) ELSE {}) : t \in chosen}]
    /\ UNCHANGED events /\ OnPlans

(* The line a task continues when it is planned again: that of its last    *)
(* row in the revision being replaced, or else its first in this plan.     *)
Continued(d, t) ==
    LET lines == {r.line : r \in {q \in items[d] : q.task = t}} IN IF lines = {} THEN 1 ELSE Max(lines)

(* Tasks named by the user or by an approved proposal may lie below a      *)
(* promise under way; the scheduler's own choice stays clear of those.     *)
ReplanDailyPlan(d, asked) ==
    LET kept == Retained(d, items[d])
        heads == ProtectedParents(tree, d, items[d])
        from == {t \in Candidates(asked) \ TasksOf(kept) : asked = {} => ~ DescendsFrom(tree, t, heads)}
        chosen == FirstTasks(from, Missing(Cardinality(kept)))
        scope(t) == IF asked = {} THEN {} ELSE Above(tree, t)
    IN  /\ plans[d].status = "active"
        /\ asked # {} => Candidates(asked) # {}
        /\ items' = [items EXCEPT ![d] = {[r EXCEPT !.scope = {}] : r \in kept}
                                         \cup {NewRow(t, Continued(d, t), scope(t)) : t \in chosen}]
        /\ plans' = [plans EXCEPT ![d].removed = FALSE,
                                  ![d].frozen = @ \/ (d <= today /\ (kept # {} \/ chosen # {}))]
        /\ UNCHANGED events /\ OnPlans

(* An approved plan proposal names its tasks, and one without a task that  *)
(* can still be done changes nothing.                                      *)
ApplyDailyPlanProposal(d, asked) ==
    /\ asked # {}
    /\ CreateDailyPlan(d, asked, TRUE) \/ ReplanDailyPlan(d, asked)

CloseDailyPlan(d, status) ==
    /\ plans[d].status # "none"
    /\ plans' = [plans EXCEPT ![d].status = status]
    /\ items' = [items EXCEPT ![d] = IF status = "closed" THEN Missed(@) ELSE @]
    /\ UNCHANGED events /\ OnPlans

AddPlanItem(d, t) ==
    /\ plans[d].status = "active"
    /\ t \in Eligible(tree)
    /\ t \notin TasksOf(items[d])
    /\ Cardinality(Counted(items[d])) < Slots
    /\ items' = [items EXCEPT ![d] = @ \cup {NewRow(t, 1, {})}]
    /\ plans' = [plans EXCEPT ![d].frozen = @ \/ d <= today]
    /\ UNCHANGED events /\ OnPlans

Replaced(d, r, q) == [items EXCEPT ![d] = (@ \ {r}) \cup {q}]
Actionable(d, r) == tree[r.task].state \in Here /\ plans[d].status = "active" /\ d <= today

SkipPlanItem(d, r) ==
    /\ Actionable(d, r)
    /\ r.st # "satisfied"
    /\ items' = Replaced(d, r, [r EXCEPT !.st = "skipped"])
    /\ UNCHANGED <<plans, events>> /\ OnPlans

DeletePlanItems(chosen) ==
    /\ chosen # {} /\ Cardinality(chosen) <= 3
    /\ plans[today].status = "active"
    /\ items' = [items EXCEPT ![today] = @ \ chosen]
    /\ plans' = [plans EXCEPT ![today].removed = TRUE]
    /\ UNCHANGED events /\ OnPlans

-----------------------------------------------------------------------------
(* Evidence: completions of promises and focus sessions.                   *)

Counting(l) == {s \in Sessions : sessions[s].on = l /\ sessions[s].status = "ended"}
MinutesOf(S) == SumFunction([s \in S |-> sessions[s].minutes])
Reached(S) == MinutesOf(S) >= Target

CompletePlanItem(d, r, how, cited) ==
    /\ Actionable(d, r)
    /\ r.st = "planned"
    /\ Executable(tree, r.task)
    /\ IF how = "time" THEN cited # {} /\ cited \subseteq Counting(LineOf(d, r)) /\ Reached(cited)
       ELSE cited = {}
    /\ items' = Replaced(d, r, [r EXCEPT !.st = "satisfied", !.how = how, !.cited = cited])
    /\ events' = events \cup {LineOf(d, r)}
    /\ UNCHANGED plans /\ OnPlans

(* The promise and its whole task in one transaction: a leaf only.         *)
CompletePlanItemWithTask(d, r) ==
    LET done == Replaced(d, r, [r EXCEPT !.st = "satisfied", !.how = "result"])
        b == [plans |-> plans, items |-> done]
    IN  /\ Actionable(d, r)
        /\ r.st = "planned"
        /\ Executable(tree, r.task) /\ ~ IsParent(tree, r.task)
        /\ tree' = [tree EXCEPT ![r.task].state = "shut"]
        /\ events' = events \cup {LineOf(d, r)}
        /\ Posted(Rescheduled(tree', Released(tree', b)))
        /\ UNCHANGED <<today, sessions>>

(* What a promise becomes when its completion is taken back.               *)
Reopened(d, r) ==
    [r EXCEPT !.st = IF plans[d].status # "active" THEN "not_completed"
                     ELSE IF Executable(tree, r.task) THEN "planned" ELSE "skipped",
              !.how = "none", !.cited = {}]

ReopenPlanItem(d, r) ==
    /\ Actionable(d, r)
    /\ r.st = "satisfied"
    /\ items' = Replaced(d, r, Reopened(d, r))
    /\ UNCHANGED <<plans, events>> /\ OnPlans

(* A user has one running or paused session at most.                       *)
StartSession(s, d, r) ==
    /\ sessions[s].status = "none"
    /\ \A q \in Sessions : sessions[q].status # "running"
    /\ Actionable(d, r)
    /\ Executable(tree, r.task)
    /\ r.st = "planned"
    /\ sessions' = [sessions EXCEPT ![s] = [on |-> LineOf(d, r), status |-> "running", minutes |-> 0]]
    /\ UNCHANGED <<tree, today, plans, items, events, edits>>

(* Completed or stopped: both count.                                       *)
EndSession(s, minutes) ==
    /\ sessions[s].status = "running"
    /\ sessions' = [sessions EXCEPT ![s].status = "ended", ![s].minutes = minutes]
    /\ UNCHANGED <<tree, today, plans, items, events, edits>>

Undone_AnyOther(s, d, r) ==
    /\ sessions[s].on = LineOf(d, r)
    /\ r.st = "satisfied" /\ r.how = "time"
    /\ ~ Reached(Counting(LineOf(d, r)) \cap r.cited)

(* Taking back a session takes back the completion by time that cited it,  *)
(* if what is left of the cited time no longer reaches the target.         *)
Undone(s, d, r) ==
    /\ sessions[s].on = LineOf(d, r)
    /\ r.st = "satisfied" /\ r.how = "time"
    /\ ~ Reached((Counting(LineOf(d, r)) \cap r.cited) \ {s})

InvalidateSession(s) ==
    /\ sessions[s].status = "ended"
    /\ sessions' = [sessions EXCEPT ![s].status = "invalidated"]
    /\ items' = [d \in Days |-> {IF Undone(s, d, r) THEN Reopened(d, r) ELSE r : r \in items[d]}]
    /\ UNCHANGED <<tree, today, plans, events, edits>>

NextDay ==
    /\ today < LastDay
    /\ today' = today + 1
    /\ UNCHANGED <<tree, plans, items, events, sessions, edits>>

-----------------------------------------------------------------------------
(* The tasks the user starts with: a forest of open tasks, created in the  *)
(* order of their numbers.                                                 *)
PlanInit ==
    /\ tree \in [Tasks -> [state : {"open", "absent"}, parent : Tasks \cup {None}]]
    /\ \A t \in Tasks :
         /\ tree[t].parent # None => tree[t].parent < t /\ tree[tree[t].parent].state = "open"
         /\ tree[t].state = "absent" => tree[t].parent = None
         /\ \A u \in Tasks : (tree[u].state = "absent" /\ u < t) => tree[t].state = "absent"
    /\ today = 1 /\ events = {} /\ edits = 0
    /\ plans = [d \in Days |-> [status |-> "none", frozen |-> FALSE, removed |-> FALSE]]
    /\ items = [d \in Days |-> {}]
    /\ sessions = [s \in Sessions |-> [on |-> None, status |-> "none", minutes |-> 0]]

EditPlan ==
    \/ \E d \in Days :
         \/ \E asked \in SUBSET Tasks :
              \/ CreateDailyPlan(d, asked, FALSE) \/ ReplanDailyPlan(d, asked)
              \/ ApplyDailyPlanProposal(d, asked)
         \/ \E status \in {"active", "closed", "cancelled"} : CloseDailyPlan(d, status)
         \/ \E t \in Tasks : AddPlanItem(d, t)
         \/ \E r \in items[d] :
              \/ SkipPlanItem(d, r) \/ ReopenPlanItem(d, r) \/ CompletePlanItemWithTask(d, r)
              \/ CompletePlanItem(d, r, "result", {})
              \/ \E cited \in SUBSET Sessions : CompletePlanItem(d, r, "time", cited)
    \/ \E chosen \in SUBSET items[today] : DeletePlanItems(chosen)

Focus == \E s \in Sessions :
    \/ \E d \in Days : \E r \in items[d] : StartSession(s, d, r)
    \/ \E n \in 1 .. Target : EndSession(s, n)
    \/ InvalidateSession(s)

ByUser ==
    /\ edits < MaxEdits /\ edits' = edits + 1
    /\ ChangeTree \/ (\E t \in Tasks, p \in Tasks \cup {None} : CreateTask(t, p)) \/ EditPlan

PlanNext == ByUser \/ Focus \/ RefreshSchedule \/ NextDay
PlanSpec == PlanInit /\ [][PlanNext]_planVars

-----------------------------------------------------------------------------
PlanTypeOK ==
    /\ tree \in [Tasks -> Node] /\ today \in Days
    /\ plans \in [Days -> Plan]
    /\ items \in [Days -> SUBSET Row]
    /\ events \subseteq Lines
    /\ sessions \in [Sessions -> Session]
    /\ edits \in 0 .. MaxEdits

(* No revision of a plan promises more core steps than the day has room    *)
(* for, whatever mix of scheduling, replans, proposals, additions, skips   *)
(* and corrections produced it.                                            *)
RoomIsKept == \A d \in Days : Cardinality(Counted(items[d])) <= Slots

(* A promise completed by focus time is backed by that much time that      *)
(* still counts: in every later revision, and after any session is taken   *)
(* back.                                                                   *)
TimeIsBacked ==
    \A d \in Days : \A r \in items[d] : r.how = "time" => Reached(Counting(LineOf(d, r)) \cap r.cited)

(* No change of the tree leaves today with an open promise that it made    *)
(* impossible: deleted, moved below a task that waits, or waiting itself.  *)
ChangesReachToday ==
    [][\A r \in items'[today] :
          (plans'[today].status = "active" /\ r.st = "planned" /\ ~ Executable(tree', r.task))
              => \E q \in items[today] : /\ LineOf(today, q) = LineOf(today, r) /\ q.st = "planned"
                                         /\ ~ Executable(tree, q.task)]_planVars

(* A completed promise leaves its plan only when the user deletes it       *)
(* there: scheduling, replanning and the end of the day carry it along.    *)
EvidenceIsKept ==
    [][\A d \in Days : \A r \in items[d] :
          (r.st = "satisfied" /\ ~ \E q \in items'[d] : LineOf(d, q) = LineOf(d, r))
              => d = today /\ plans'[d].removed]_planVars

(* A refresh leaves no task promised in two places from today on.          *)
OnePlaceAtATime ==
    [][(edits' = edits /\ sessions' = sessions /\ today' = today) =>
        \A d, e \in {x \in Days : InReach(Board, x)} : \A r \in items'[d], q \in items'[e] :
            (r.task = q.task /\ r.st = "planned" /\ q.st = "planned") => d = e /\ r = q]_planVars

=============================================================================
