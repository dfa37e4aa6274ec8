------------------------------ MODULE JobQueue ------------------------------
(***************************************************************************)
(* The agent-job queue of FastTask: the agent_jobs table and everything    *)
(* that writes it.  API handlers submit, retry and cancel jobs             *)
(* (application/jobservice.go); workers claim a job under a lease, renew   *)
(* the lease while the handler runs and finish the row                     *)
(* (application/worker.go); an out-of-process runner may report a result   *)
(* through AgentCallback; and the scheduler's maintain pass recovers the   *)
(* rows whose lease lapsed (scheduler/scheduler.go).                       *)
(*                                                                         *)
(* Every Store.Transaction and every single UPDATE is one atomic step      *)
(* (SQLite, _txlock=immediate).  What the code does in two statements is   *)
(* two steps here: CancelJob's read and its conditional write, maintain's  *)
(* two updates, and a worker's claim, handler and finish.                  *)
(*                                                                         *)
(* Times are kept only as what the queries compare: due is                 *)
(* "run_after <= now"; lock classifies locked_until as "none" (NULL),      *)
(* "held", "lapsed" (past) or "expired" (before the `now` the running      *)
(* maintain pass read).                                                    *)
(***************************************************************************)
EXTENDS Integers, FiniteSets

CONSTANTS
    MaxJobs,          \* bound: job ids are 1..MaxJobs, in created_at order
    Users,            \* accounts
    Workers,          \* worker processes of the deployment
    Kinds,            \* the job types of this instance, a subset of AllKinds
    MaxAttempts,      \* max_attempts of a job made by CreateJob (3 in the code)
    MaxPending,       \* MaxPendingJobsPerUser (10 in the code)
    MaxRevision,      \* bound on the repeated cancellations of a running job
    MaxPlanRevision,  \* bound on the edits of the daily plan
    MaxClaims,        \* bound on the claims of a behaviour
    StatementErrors   \* whether maintain's first UPDATE may fail

AllKinds == {"task_tree", "support", "daily_plan", "agent_run"}

ASSUME ConstantsAssumption ==
    /\ MaxJobs \in Nat
    /\ Kinds \subseteq AllKinds
    /\ MaxAttempts \in Nat \ {0}
    /\ MaxPending \in Nat
    /\ MaxRevision \in Nat
    /\ MaxPlanRevision \in Nat
    /\ MaxClaims \in Nat
    /\ StatementErrors \in BOOLEAN

Jobs == 1..MaxJobs
Terminal == {"succeeded", "failed", "cancelled"}
Pending == {"queued", "running"}
Statuses == {"absent"} \cup Pending \cup Terminal
Outcomes == {"ok", "invalid", "error", "fatal"}

(***************************************************************************)
(* A row of agent_jobs; token 0 is the empty run_token_hash.               *)
(***************************************************************************)
Row == [status: Statuses, kind: AllKinds \cup {"none"}, user: Users \cup {"none"},
        attempt: Nat, max: Nat, lease: Nat, token: Nat, revision: Nat, base: Nat,
        cancel: BOOLEAN, due: BOOLEAN, lock: {"none", "held", "lapsed", "expired"}]

NoRow == [status |-> "absent", kind |-> "none", user |-> "none",
          attempt |-> 0, max |-> 0, lease |-> 0, token |-> 0, revision |-> 0, base |-> 0,
          cancel |-> FALSE, due |-> FALSE, lock |-> "none"]

\* The credentials one claim hands out; job 0 stands for "none".
Claims == [job: 0..MaxJobs, attempt: Nat, lease: Nat, token: Nat]
NoClaim == [job |-> 0, attempt |-> 0, lease |-> 0, token |-> 0]

Idle == [phase |-> "idle", claim |-> NoClaim, outcome |-> "none"]

VARIABLES
    job,        \* agent_jobs
    delivered,  \* how many business rows MaterializeJobResult has written per job
    plan,       \* the daily plan support jobs extend: its revision, and whether
                \* it is active and not in the future
    worker,     \* what RunOnce of each worker is doing
    remote,     \* the credentials an out-of-process runner holds
    canceller,  \* a CancelJob call between its read and its conditional write
    sched,      \* where the maintain pass stands
    claims      \* number of claims so far: every claim draws a fresh run token

vars == <<job, delivered, plan, worker, remote, canceller, sched, claims>>

NoRead == [job |-> 0, status |-> "none", revision |-> 0]

TypeOK ==
    /\ job \in [Jobs -> Row]
    /\ delivered \in [Jobs -> Nat]
    /\ plan \in [revision: Nat, ready: BOOLEAN]
    /\ worker \in [Workers -> [phase: {"idle", "executing", "returned"},
                               claim: Claims, outcome: Outcomes \cup {"none"}]]
    /\ remote \in Claims
    /\ canceller \in [job: 0..MaxJobs, status: Pending \cup {"none"}, revision: Nat]
    /\ sched \in {"idle", "fail", "requeue"}
    /\ claims \in Nat

Init ==
    /\ job = [j \in Jobs |-> NoRow]
    /\ delivered = [j \in Jobs |-> 0]
    /\ plan = [revision |-> 1, ready |-> TRUE]
    /\ worker = [w \in Workers |-> Idle]
    /\ remote = NoClaim
    /\ canceller = NoRead
    /\ sched = "idle"
    /\ claims = 0

-----------------------------------------------------------------------------
(* Submitting: CreateJob, RetryJob and the agent_run jobs.                  *)

PendingOf(u) == {j \in Jobs : job[j].user = u /\ job[j].status \in Pending}

NewRow(k, u, max, base, cancelled) ==
    [NoRow EXCEPT !.status = "queued", !.kind = k, !.user = u, !.max = max,
                  !.revision = 1, !.base = base, !.cancel = cancelled, !.due = TRUE]

\* A new row is younger than every other one.
Insert(j, row) ==
    /\ job[j].status = "absent"
    /\ \A k \in Jobs : k < j => job[k].status # "absent"
    /\ job' = [job EXCEPT ![j] = row]
    /\ UNCHANGED <<delivered, plan, worker, remote, canceller, sched, claims>>

\* enqueue's check: a support job is refused unless its plan is actionable and
\* at the revision it names, and nobody has more than MaxPending open jobs.
MayEnqueue(k, u, base) ==
    /\ k = "support" => plan.ready /\ base \in {0, plan.revision}
    /\ Cardinality(PendingOf(u)) < MaxPending

CreateJob(j, k, u) ==
    /\ k # "agent_run"
    /\ MayEnqueue(k, u, 0)
    /\ Insert(j, NewRow(k, u, MaxAttempts, IF k = "support" THEN plan.revision ELSE 0, FALSE))

\* A failed row never changes again, so reading it before the transaction is
\* the same as reading it inside.  The clone keeps cancel_requested.
RetryJob(old, j) ==
    LET r == job[old] IN
    /\ old < j
    /\ r.status = "failed"
    /\ r.kind = "support" => r.base > 0
    /\ MayEnqueue(r.kind, r.user, r.base)
    /\ Insert(j, NewRow(r.kind, r.user, r.max, r.base, r.cancel))

\* SubmitCommands and requeueRun insert the row themselves, past enqueue's bound.
SubmitAgentRun(j, u) ==
    /\ "agent_run" \in Kinds
    /\ Insert(j, NewRow("agent_run", u, 1, 0, FALSE))

-----------------------------------------------------------------------------
(* Cancelling.                                                              *)

CancelRead(j) ==
    /\ canceller = NoRead
    /\ job[j].status \in Pending
    /\ job[j].revision < MaxRevision
    /\ canceller' = [job |-> j, status |-> job[j].status, revision |-> job[j].revision]
    /\ UNCHANGED <<job, delivered, plan, worker, remote, sched, claims>>

\* The WHERE clause of CancelJob's UPDATE.
StillAsRead(r, read) == r.status = read.status /\ r.revision = read.revision

CancelWrite ==
    LET j == canceller.job IN
    /\ canceller # NoRead
    /\ canceller' = NoRead
    /\ IF StillAsRead(job[j], canceller)
       THEN job' = [job EXCEPT ![j].cancel = TRUE,
                               ![j].revision = canceller.revision + 1,
                               ![j].status = IF canceller.status = "queued"
                                             THEN "cancelled" ELSE @]
       ELSE UNCHANGED job
    /\ UNCHANGED <<delivered, plan, worker, remote, sched, claims>>

\* CancelRunJob flags the job of an agent run whatever its status, and leaves
\* the revision alone.
CancelRunJob(j) ==
    /\ job[j].kind = "agent_run"
    /\ ~job[j].cancel
    /\ job' = [job EXCEPT ![j].cancel = TRUE]
    /\ UNCHANGED <<delivered, plan, worker, remote, canceller, sched, claims>>

-----------------------------------------------------------------------------
(* A worker's RunOnce: claim, holdLease around execute, finish.             *)

Claimable(j) == job[j].status = "queued" /\ job[j].due

\* The credentials the next claim of row j draws.
NextClaim(j) == [job |-> j, attempt |-> job[j].attempt + 1, lease |-> job[j].lease + 1,
                 token |-> claims + 1]

Claimed(r, c) == [r EXCEPT !.status = "running", !.lock = "held", !.lease = c.lease,
                           !.token = c.token, !.attempt = c.attempt, !.revision = @ + 1]

\* execute returns at once with an error when the claimed row is cancelled.
Claim(w, j) ==
    LET c == NextClaim(j) IN
    /\ worker[w] = Idle
    /\ claims < MaxClaims
    /\ Claimable(j)
    /\ \A k \in Jobs : Claimable(k) => j <= k
    /\ job' = [job EXCEPT ![j] = Claimed(@, c)]
    /\ worker' = [worker EXCEPT ![w] =
               IF job[j].cancel THEN [phase |-> "returned", claim |-> c, outcome |-> "error"]
                                ELSE [phase |-> "executing", claim |-> c, outcome |-> "none"]]
    /\ claims' = claims + 1
    /\ UNCHANGED <<delivered, plan, remote, canceller, sched>>

\* What the handler of each kind may return: a task-tree output may lack the
\* proposal its materializer wants; "fatal" is ErrRevision or "unknown job".
OutcomesOf(k) ==
    CASE k = "task_tree" -> Outcomes
      [] k = "support"   -> {"ok", "error"}
      [] OTHER           -> {"ok", "error", "fatal"}

HandlerReturns(w, o) ==
    /\ worker[w].phase = "executing"
    /\ o \in OutcomesOf(job[worker[w].claim.job].kind)
    /\ worker' = [worker EXCEPT ![w].phase = "returned", ![w].outcome = o]
    /\ UNCHANGED <<job, delivered, plan, remote, canceller, sched, claims>>

\* The WHERE clause of a renewal.
LeaseHeld(r, c) == r.status = "running" /\ r.lease = c.lease /\ r.token = c.token

\* holdLease's ticker found the row still its own.
RenewLease(w) ==
    LET c == worker[w].claim IN
    /\ worker[w].phase = "executing"
    /\ LeaseHeld(job[c.job], c)
    /\ job' = [job EXCEPT ![c.job].lock = "held"]
    /\ UNCHANGED <<delivered, plan, worker, remote, canceller, sched, claims>>

\* holdLease's ticker matched no row: the attempt's context is cancelled.
LeaseLost(w) ==
    /\ worker[w].phase = "executing"
    /\ ~LeaseHeld(job[worker[w].claim.job], worker[w].claim)
    /\ worker' = [worker EXCEPT ![w].phase = "returned", ![w].outcome = "error"]
    /\ UNCHANGED <<job, delivered, plan, remote, canceller, sched, claims>>

Fenced_StatusOnly(r, c) == r.status = "running"
Fenced_AnyStatus(r, c) == r.attempt = c.attempt /\ r.lease = c.lease

\* Whether claim c still owns row r: finish and AgentCallback test this first.
Fenced(r, c) ==
    /\ r.status = "running"
    /\ r.lease = c.lease
    /\ r.attempt = c.attempt
    /\ r.token = c.token

SupportValid_AnyRevision(r) == r.base > 0 /\ plan.ready

\* validateSupportJobTx
SupportValid(r) == r.base > 0 /\ r.base = plan.revision /\ plan.ready

Close(r, s) == [r EXCEPT !.status = s, !.lock = "none", !.token = 0, !.revision = @ + 1]

\* Where a run error leads: another attempt while one is left, and never for
\* ErrRevision or an unknown job type.
AfterError(r, o) == IF o = "error" /\ r.attempt < r.max THEN "queued" ELSE "failed"

FinishStatus_IgnoreCancel(r, o) ==
    IF r.kind = "support" /\ ~SupportValid(r) THEN "failed"
    ELSE IF o = "ok" THEN "succeeded"
    ELSE IF o = "invalid" THEN "running"
    ELSE AfterError(r, o)

\* The status finish gives a row that is still fenced; "running" stands for
\* the transaction that a refusing materializer rolls back.
FinishStatus(r, o) ==
    IF r.cancel THEN "cancelled"
    ELSE IF r.kind = "support" /\ ~SupportValid(r) THEN "failed"
    ELSE IF o = "ok" THEN "succeeded"
    ELSE IF o = "invalid" THEN "running"
    ELSE AfterError(r, o)

Materializes(k) == k \in {"task_tree", "support"}

\* MaterializeJobResult when job j goes to status s, in the same transaction.
Materialize(j, s) ==
    /\ delivered' = IF s = "succeeded" /\ Materializes(job[j].kind)
                    THEN [delivered EXCEPT ![j] = @ + 1] ELSE delivered
    /\ plan' = IF s = "succeeded" /\ job[j].kind = "support"
               THEN [plan EXCEPT !.revision = @ + 1] ELSE plan

\* A result whose claim no longer owns the row is discarded.
Finish(w) ==
    LET c == worker[w].claim
        j == c.job
        s == FinishStatus(job[j], worker[w].outcome)
    IN
    /\ worker[w].phase = "returned"
    /\ worker' = [worker EXCEPT ![w] = Idle]
    /\ IF Fenced(job[j], c) /\ s # "running"
       THEN /\ job' = [job EXCEPT ![j] = [Close(@, s) EXCEPT !.due = s # "queued"]]
            /\ Materialize(j, s)
       ELSE UNCHANGED <<job, delivered, plan>>
    /\ UNCHANGED <<remote, canceller, sched, claims>>

\* The process dies, is stopped, or its finishing transaction fails: the row
\* keeps its lease and nobody renews it any more.
Crash(w) ==
    /\ worker[w] # Idle
    /\ worker' = [worker EXCEPT ![w] = Idle]
    /\ UNCHANGED <<job, delivered, plan, remote, canceller, sched, claims>>

-----------------------------------------------------------------------------
(* An out-of-process runner that was given a claim's credentials.           *)

HandOff(w) ==
    /\ worker[w].phase = "executing"
    /\ remote # worker[w].claim
    /\ remote' = worker[w].claim
    /\ UNCHANGED <<job, delivered, plan, worker, canceller, sched, claims>>

\* The status AgentCallback records when the runner reported s.
CallbackStatus(r, s) ==
    IF r.cancel THEN "cancelled"
    ELSE IF s = "succeeded" /\ r.kind = "support" /\ ~SupportValid(r) THEN "failed"
    ELSE s

\* The runner may report late and more than once: remote is not consumed.
AgentCallback(s) ==
    LET j == remote.job
        t == CallbackStatus(job[j], s)
    IN
    /\ remote # NoClaim
    /\ Fenced(job[j], remote)
    /\ job' = [job EXCEPT ![j] = Close(@, t)]
    /\ Materialize(j, t)
    /\ UNCHANGED <<worker, remote, canceller, sched, claims>>

-----------------------------------------------------------------------------
(* Time, the daily plan, and the scheduler's maintain pass.                 *)

LeaseLapses(j) ==
    /\ job[j].lock = "held"
    /\ job' = [job EXCEPT ![j].lock = "lapsed"]
    /\ UNCHANGED <<delivered, plan, worker, remote, canceller, sched, claims>>

BackoffElapses(j) ==
    /\ job[j].status = "queued" /\ ~job[j].due
    /\ job' = [job EXCEPT ![j].due = TRUE]
    /\ UNCHANGED <<delivered, plan, worker, remote, canceller, sched, claims>>

\* Whatever edits, closes or reopens the plan bumps its revision.
PlanEdited ==
    /\ plan.revision < MaxPlanRevision
    /\ \E ready \in BOOLEAN : plan' = [revision |-> plan.revision + 1, ready |-> ready]
    /\ UNCHANGED <<job, delivered, worker, remote, canceller, sched, claims>>

\* maintain reads `now` once for both of its updates.
MaintainBegin ==
    /\ sched = "idle"
    /\ sched' = "fail"
    /\ job' = [j \in Jobs |-> IF job[j].lock = "lapsed"
                              THEN [job[j] EXCEPT !.lock = "expired"] ELSE job[j]]
    /\ UNCHANGED <<delivered, plan, worker, remote, canceller, claims>>

Expired_Never(r) == FALSE

Expired(r) == r.status = "running" /\ r.lock = "expired"

Exhausted(r) == r.attempt >= r.max

MaintainFail ==
    /\ sched = "fail"
    /\ sched' = "requeue"
    /\ job' = [j \in Jobs |-> IF Expired(job[j]) /\ Exhausted(job[j])
                              THEN Close(job[j], "failed") ELSE job[j]]
    /\ UNCHANGED <<delivered, plan, worker, remote, canceller, claims>>

\* The first update failed (busy database, pass timeout); maintain goes on.
MaintainFailErrs ==
    /\ StatementErrors
    /\ sched = "fail"
    /\ sched' = "requeue"
    /\ UNCHANGED <<job, delivered, plan, worker, remote, canceller, claims>>

MaintainRequeue ==
    /\ sched = "requeue"
    /\ sched' = "idle"
    /\ job' = [j \in Jobs |-> IF Expired(job[j])
                              THEN [Close(job[j], "queued") EXCEPT !.due = TRUE] ELSE job[j]]
    /\ UNCHANGED <<delivered, plan, worker, remote, canceller, claims>>

\* The scheduler dies between the updates, or the second one fails.
MaintainCut ==
    /\ sched = "requeue"
    /\ sched' = "idle"
    /\ UNCHANGED <<job, delivered, plan, worker, remote, canceller, claims>>

-----------------------------------------------------------------------------

Submit ==
    \/ \E j \in Jobs, k \in Kinds, u \in Users : CreateJob(j, k, u)
    \/ \E old \in Jobs, j \in Jobs : RetryJob(old, j)
    \/ \E j \in Jobs, u \in Users : SubmitAgentRun(j, u)

Cancel ==
    \/ \E j \in Jobs : CancelRead(j)
    \/ CancelWrite
    \/ \E j \in Jobs : CancelRunJob(j)

RunOnce(w) ==
    \/ \E j \in Jobs : Claim(w, j)
    \/ \E o \in Outcomes : HandlerReturns(w, o)
    \/ LeaseLost(w)
    \/ Finish(w)

Maintain == MaintainBegin \/ MaintainFail \/ MaintainFailErrs \/ MaintainRequeue

Next ==
    \/ Submit
    \/ Cancel
    \/ \E w \in Workers : RunOnce(w)
    \/ \E w \in Workers : RenewLease(w)
    \/ \E w \in Workers : HandOff(w)
    \/ \E w \in Workers : Crash(w)
    \/ \E s \in Terminal : AgentCallback(s)
    \/ \E j \in Jobs : LeaseLapses(j)
    \/ \E j \in Jobs : BackoffElapses(j)
    \/ PlanEdited
    \/ Maintain
    \/ MaintainCut

Spec == Init /\ [][Next]_vars

(***************************************************************************)
(* Fairness.  A worker's loop ticks every 300 ms and every handler is      *)
(* bounded by a timeout, so RunOnce goes on unless the process dies; a     *)
(* backoff ends; a lease nobody renews lapses; the scheduler runs maintain *)
(* every minute, and not every single pass is cut short (SF).  Nothing is  *)
(* assumed of users, of the plan, of callbacks or of crashes.              *)
(***************************************************************************)
Holds(w, j) ==
    worker[w].phase # "idle" /\ worker[w].claim.job = j /\ Fenced(job[j], worker[w].claim)

Orphaned(j) == \A w \in Workers : ~Holds(w, j)

Fairness ==
    /\ \A w \in Workers : WF_vars(RunOnce(w))
    /\ \A j \in Jobs : WF_vars(BackoffElapses(j))
    /\ \A j \in Jobs : WF_vars(Orphaned(j) /\ LeaseLapses(j))
    /\ WF_vars(Maintain)
    /\ SF_vars(MaintainRequeue)

FairSpec == Spec /\ Fairness

-----------------------------------------------------------------------------
(* Safety.                                                                  *)

\* A result is folded into the business tables exactly once, and exactly for
\* the jobs that end "succeeded": not by a worker whose lease was taken over,
\* and not twice when a worker and a callback report the same attempt
\* (finish and AgentCallback write the result and close the row together).
DeliveredExactlyOnce ==
    \A j \in Jobs :
        delivered[j] = IF job[j].status = "succeeded" /\ Materializes(job[j].kind) THEN 1 ELSE 0

\* However many workers still believe they run a job, at most one of them owns
\* its row: the lease version, the attempt and the run token a claim draws are
\* never those of an older claim (worker.go claim).
OneHolder ==
    \A w1, w2 \in Workers, j \in Jobs : Holds(w1, j) /\ Holds(w2, j) => w1 = w2

\* A row carries a run token exactly while it is running under a lease, so
\* neither a cancellation nor maintain leaves a closed row that an old attempt
\* could still finish, or a running row that no sweep would ever find.
LeaseMatchesStatus ==
    \A j \in Jobs : /\ job[j].status = "running" <=> job[j].token # 0
                    /\ job[j].status = "running" <=> job[j].lock # "none"

\* A job is never started more often than max_attempts, however its workers die
\* (the bound maintain's comment promises against crash loops).
AttemptsWithinMax ==
    \A j \in Jobs : job[j].attempt <= job[j].max

\* Of the support suggestions requested against one revision of the daily plan,
\* at most one is added to it: the first one moves the plan on, and finish and
\* AgentCallback refuse the others (validateSupportJobTx).
OneSupportPerPlanRevision ==
    \A j1, j2 \in Jobs :
        /\ job[j1].kind = "support" /\ job[j2].kind = "support"
        /\ job[j1].status = "succeeded" /\ job[j2].status = "succeeded"
        /\ job[j1].base = job[j2].base
        => j1 = j2

\* A job that has ended stays ended: no claim, retry, late result, callback,
\* cancellation or maintain pass moves a terminal row or delivers for it again.
TerminalIsFinal ==
    [][\A j \in Jobs : job[j].status \in Terminal =>
          /\ job'[j].status = job[j].status
          /\ job'[j].attempt = job[j].attempt
          /\ delivered'[j] = delivered[j]]_vars

\* Once a cancellation is recorded on an unfinished job, that job is never
\* reported as succeeded, whichever attempt or callback ends it and however
\* often it is requeued in between.
CancelIsHonoured ==
    [][\A j \in Jobs : job[j].cancel /\ job[j].status # "succeeded"
          => job'[j].status # "succeeded"]_vars

\* When a worker comes back after its claim was taken over (its lease lapsed
\* and maintain requeued the job, or a callback closed it), ending RunOnce
\* changes no row and delivers nothing: ErrStaleAgentAttempt.
LateResultIsDiscarded ==
    [][\A w \in Workers :
          LET r == job[worker[w].claim.job] IN
          worker[w].phase = "returned" /\ worker'[w].phase = "idle"
          /\ (r.status # "running" \/ r.lease # worker[w].claim.lease)
          => UNCHANGED <<job, delivered, plan>>]_vars

(* The inductive strengthening of the invariants above: what makes the      *)
(* fence of a claim unique, and why maintain's second update never requeues *)
(* a job that has used up its attempts.                                     *)

\* Run tokens are drawn from the claim counter, workers that run something
\* run it under credentials of an existing row, and no two of them share a
\* run token.
ClaimsAreUnique ==
    /\ \A j \in Jobs : job[j].token <= claims
    /\ \A w \in Workers :
          IF worker[w].phase = "idle" THEN worker[w] = Idle
          ELSE worker[w].claim.job \in Jobs /\ worker[w].claim.token \in 1..claims
    /\ remote = NoClaim \/ remote.job \in Jobs
    /\ \A w1, w2 \in Workers :
          worker[w1].phase # "idle" /\ worker[w2].phase # "idle"
          /\ worker[w1].claim.token = worker[w2].claim.token => w1 = w2

\* Support jobs that succeeded were requested against an older plan revision.
SupportMovedOn ==
    \A j \in Jobs : job[j].kind = "support" /\ job[j].status = "succeeded"
                     => job[j].base < plan.revision

\* Rows have attempts left while queued; between maintain's two updates no
\* expired row is exhausted.
AttemptsLeft ==
    /\ \A j \in Jobs : job[j].status # "absent" => job[j].max > 0
    /\ \A j \in Jobs : job[j].status = "queued" => job[j].attempt < job[j].max
    /\ sched = "requeue" => \A j \in Jobs : ~(Expired(job[j]) /\ Exhausted(job[j]))

(* Refinement.                                                              *)

\* A row is open while an attempt at it may still be made.
LedgerOutcome(r) == IF r.status = "absent" THEN "none"
                    ELSE IF r.status \in Pending THEN "open" ELSE r.status

Ledger == INSTANCE JobLedger WITH
    outcome   <- [j \in Jobs |-> LedgerOutcome(job[j])],
    withdrawn <- {j \in Jobs : job[j].cancel},
    bearing   <- {j \in Jobs : Materializes(job[j].kind)},
    results   <- {j \in Jobs : delivered[j] > 0}

\* The queue, with its leases, requeues, crashes and racing finishers, behaves
\* as the ledger of JobLedger does: it opens, withdraws and resolves each job
\* at most once and delivers a result in the very step that resolves its job.
ImplementsLedger == Ledger!LedgerSpec

(* Liveness.                                                                *)

\* Every job that was accepted ends, although workers may die at any moment,
\* leases may lapse under a live worker, and maintain passes may be cut short.
EveryJobEnds ==
    \A j \in Jobs : job[j].status \in Pending ~> job[j].status \in Terminal

=============================================================================
