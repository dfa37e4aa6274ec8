--------------------------- MODULE JobQueueProofs ---------------------------
(***************************************************************************)
(* Theorems about JobQueue, for every number of jobs, users and workers    *)
(* and every value of the bounds.                                          *)
(***************************************************************************)
EXTENDS JobQueue, TLAPS

\* Closing a row of agent_jobs yields a row.
LEMMA CloseType ==
    ASSUME NEW r \in Row, NEW s \in Statuses
    PROVE  Close(r, s) \in Row
<1>1. r.revision + 1 \in Nat
  BY DEF Row
<1> QED
  BY <1>1 DEF Close, Row

\* The columns that several statements set on their own keep a row a row.
LEMMA ColumnType ==
    ASSUME NEW r \in Row
    PROVE  /\ [r EXCEPT !.cancel = TRUE] \in Row
           /\ [r EXCEPT !.due = TRUE] \in Row
           /\ \A l \in {"none", "held", "lapsed", "expired"} : [r EXCEPT !.lock = l] \in Row
BY DEF Row

\* A new row is a row.
LEMMA NewRowType ==
    ASSUME NEW k \in AllKinds \cup {"none"}, NEW u \in Users \cup {"none"}, NEW m \in Nat,
           NEW b \in Nat, NEW c \in BOOLEAN
    PROVE  NewRow(k, u, m, b, c) \in Row
BY DEF NewRow, NoRow, Row, Statuses, Pending

\* A claimed row is a row, and the credentials of a claim are credentials.
LEMMA ClaimedType ==
    ASSUME NEW r \in Row, NEW c \in Claims
    PROVE  Claimed(r, c) \in Row
<1>1. r.revision + 1 \in Nat
  BY DEF Row
<1> QED
  BY <1>1 DEF Claimed, Row, Claims, Statuses, Pending

\* The credentials of the next claim are credentials.
LEMMA NextClaimType ==
    ASSUME TypeOK, NEW j \in Jobs
    PROVE  NextClaim(j) \in Claims
<1>1. job[j].attempt \in Nat /\ job[j].lease \in Nat /\ claims \in Nat
  BY DEF TypeOK, Row
<1>2. j \in 0..MaxJobs
  BY ConstantsAssumption DEF Jobs
<1> QED
  BY <1>1, <1>2 DEF NextClaim, Claims

\* finish gives a row one of the five statuses.
LEMMA FinishStatusType ==
    ASSUME NEW r, NEW o
    PROVE  FinishStatus(r, o) \in {"cancelled", "failed", "succeeded", "running", "queued"}
BY DEF FinishStatus, AfterError

\* AgentCallback records a terminal status.
LEMMA CallbackStatusType ==
    ASSUME NEW r, NEW s \in Terminal
    PROVE  CallbackStatus(r, s) \in Terminal
BY DEF CallbackStatus, Terminal

\* Materialising a result keeps the counters and the plan well typed.
LEMMA MaterializeType ==
    ASSUME TypeOK, NEW j, NEW s, Materialize(j, s)
    PROVE  delivered' \in [Jobs -> Nat] /\ plan' \in [revision: Nat, ready: BOOLEAN]
<1>1. delivered' \in [Jobs -> Nat]
  <2>1. CASE j \in Jobs
    <3>1. delivered[j] + 1 \in Nat
      BY <2>1 DEF TypeOK
    <3> QED
      BY <2>1, <3>1 DEF Materialize, TypeOK
  <2>2. CASE j \notin Jobs
    BY <2>2 DEF Materialize, TypeOK
  <2> QED
    BY <2>1, <2>2
<1>2. plan.revision + 1 \in Nat
  BY DEF TypeOK
<1>3. plan' \in [revision: Nat, ready: BOOLEAN]
  BY <1>2 DEF Materialize, TypeOK
<1> QED
  BY <1>1, <1>3

\* The type invariant is inductive.
LEMMA TypeStep == TypeOK /\ [Next]_vars => TypeOK'
<1> SUFFICES ASSUME TypeOK, [Next]_vars
             PROVE  TypeOK'
  OBVIOUS
<1> USE ConstantsAssumption
<1>1. ASSUME NEW j \in Jobs, NEW k \in Kinds, NEW u \in Users, CreateJob(j, k, u)
      PROVE  TypeOK'
  <2>1. NewRow(k, u, MaxAttempts, IF k = "support" THEN plan.revision ELSE 0, FALSE) \in Row
    BY NewRowType DEF TypeOK
  <2> QED
    BY <1>1, <2>1 DEF CreateJob, Insert, TypeOK
<1>2. ASSUME NEW old \in Jobs, NEW j \in Jobs, RetryJob(old, j)
      PROVE  TypeOK'
  <2>1. job[old] \in Row
    BY DEF TypeOK
  <2>2. NewRow(job[old].kind, job[old].user, job[old].max, job[old].base, job[old].cancel) \in Row
    BY <2>1 DEF NewRow, NoRow, Row, Statuses, Pending
  <2> QED
    BY <1>2, <2>2 DEF RetryJob, Insert, TypeOK
<1>3. ASSUME NEW j \in Jobs, NEW u \in Users, SubmitAgentRun(j, u)
      PROVE  TypeOK'
  <2>1. NewRow("agent_run", u, 1, 0, FALSE) \in Row
    BY NewRowType DEF AllKinds
  <2> QED
    BY <1>3, <2>1 DEF SubmitAgentRun, Insert, TypeOK
<1>4. ASSUME NEW j \in Jobs, CancelRead(j)
      PROVE  TypeOK'
  <2>1. job[j] \in Row /\ j \in 0..MaxJobs
    BY DEF TypeOK, Jobs
  <2>2. job[j].revision \in Nat /\ job[j].status \in Pending
    BY <1>4, <2>1 DEF CancelRead, Row
  <2> QED
    BY <1>4, <2>1, <2>2 DEF CancelRead, TypeOK
<1>5. CASE CancelWrite
  <2> DEFINE j == canceller.job
             st == IF canceller.status = "queued" THEN "cancelled" ELSE job[j].status
  <2>1. canceller' \in [job: 0..MaxJobs, status: Pending \cup {"none"}, revision: Nat]
    BY <1>5 DEF CancelWrite, NoRead
  <2>2. CASE StillAsRead(job[j], canceller)
    <3>1. job' = [job EXCEPT ![j] = [@ EXCEPT !.cancel = TRUE,
                                              !.revision = canceller.revision + 1,
                                              !.status = st]]
      BY <1>5, <2>2 DEF CancelWrite
    <3>2. canceller.revision + 1 \in Nat
      BY DEF TypeOK
    <3>3. CASE j \in Jobs
      <4>1. job[j] \in Row /\ job[j].status \in Statuses
        BY <3>3 DEF TypeOK, Row
      <4>2. st \in Statuses
        BY <4>1 DEF Statuses, Terminal
      <4>3. [job[j] EXCEPT !.cancel = TRUE, !.revision = canceller.revision + 1,
                           !.status = st] \in Row
        BY <3>2, <4>1, <4>2 DEF Row
      <4> QED
        BY <1>5, <2>1, <3>1, <3>3, <4>3 DEF CancelWrite, TypeOK
    <3>4. CASE j \notin Jobs
      BY <1>5, <2>1, <3>1, <3>4 DEF CancelWrite, TypeOK
    <3> QED
      BY <3>3, <3>4
  <2>3. CASE ~StillAsRead(job[j], canceller)
    BY <1>5, <2>1, <2>3 DEF CancelWrite, TypeOK
  <2> QED
    BY <2>2, <2>3
<1>6. ASSUME NEW j \in Jobs, CancelRunJob(j)
      PROVE  TypeOK'
  <2>1. [job[j] EXCEPT !.cancel = TRUE] \in Row
    BY ColumnType DEF TypeOK
  <2> QED
    BY <1>6, <2>1 DEF CancelRunJob, TypeOK
<1>7. ASSUME NEW w \in Workers, NEW j \in Jobs, Claim(w, j)
      PROVE  TypeOK'
  <2>1. NextClaim(j) \in Claims
    BY NextClaimType
  <2>2. Claimed(job[j], NextClaim(j)) \in Row
    BY <2>1, ClaimedType DEF TypeOK
  <2>3. job' \in [Jobs -> Row]
    BY <1>7, <2>2 DEF Claim, TypeOK
  <2>4. worker' \in [Workers -> [phase: {"idle", "executing", "returned"},
                                 claim: Claims, outcome: Outcomes \cup {"none"}]]
    BY <1>7, <2>1 DEF Claim, TypeOK, Outcomes
  <2> QED
    BY <1>7, <2>3, <2>4 DEF Claim, TypeOK
<1>8. ASSUME NEW w \in Workers, NEW o \in Outcomes, HandlerReturns(w, o)
      PROVE  TypeOK'
  BY <1>8 DEF HandlerReturns, TypeOK
<1>9. ASSUME NEW w \in Workers, RenewLease(w)
      PROVE  TypeOK'
  <2> DEFINE j == worker[w].claim.job
  <2>1. CASE j \in Jobs
    <3>1. [job[j] EXCEPT !.lock = "held"] \in Row
      BY <2>1, ColumnType DEF TypeOK
    <3> QED
      BY <1>9, <2>1, <3>1 DEF RenewLease, TypeOK
  <2>2. CASE j \notin Jobs
    BY <1>9, <2>2 DEF RenewLease, TypeOK
  <2> QED
    BY <2>1, <2>2
<1>10. ASSUME NEW w \in Workers, LeaseLost(w)
       PROVE  TypeOK'
  BY <1>10 DEF LeaseLost, TypeOK, Outcomes
<1>11. ASSUME NEW w \in Workers, Finish(w)
       PROVE  TypeOK'
  <2> DEFINE c == worker[w].claim
             j == c.job
             s == FinishStatus(job[j], worker[w].outcome)
  <2>1. worker' \in [Workers -> [phase: {"idle", "executing", "returned"},
                                 claim: Claims, outcome: Outcomes \cup {"none"}]]
    BY <1>11 DEF Finish, TypeOK, Idle, NoClaim, Claims
  <2>2. CASE Fenced(job[j], c) /\ s # "running"
    <3>1. job' \in [Jobs -> Row]
      <4>1. job' = [job EXCEPT ![j] = [Close(@, s) EXCEPT !.due = s # "queued"]]
        BY <1>11, <2>2 DEF Finish
      <4>2. CASE j \in Jobs
        <5>1. job[j] \in Row
          BY <4>2 DEF TypeOK
        <5>2. s \in Statuses
          BY <5>1, FinishStatusType DEF Statuses, Pending, Terminal
        <5>3. Close(job[j], s) \in Row
          BY <5>1, <5>2, CloseType
        <5>4. [Close(job[j], s) EXCEPT !.due = s # "queued"] \in Row
          BY <5>3 DEF Row
        <5> QED
          BY <4>1, <4>2, <5>4 DEF TypeOK
      <4>3. CASE j \notin Jobs
        BY <4>1, <4>3 DEF TypeOK
      <4> QED
        BY <4>2, <4>3
    <3>2. delivered' \in [Jobs -> Nat] /\ plan' \in [revision: Nat, ready: BOOLEAN]
      BY <1>11, <2>2, MaterializeType DEF Finish
    <3> QED
      BY <1>11, <2>1, <3>1, <3>2 DEF Finish, TypeOK
  <2>3. CASE ~(Fenced(job[j], c) /\ s # "running")
    BY <1>11, <2>1, <2>3 DEF Finish, TypeOK
  <2> QED
    BY <2>2, <2>3
<1>12. ASSUME NEW w \in Workers, Crash(w)
       PROVE  TypeOK'
  BY <1>12 DEF Crash, TypeOK, Idle, NoClaim, Claims
<1>13. ASSUME NEW w \in Workers, HandOff(w)
       PROVE  TypeOK'
  BY <1>13 DEF HandOff, TypeOK
<1>14. ASSUME NEW s \in Terminal, AgentCallback(s)
       PROVE  TypeOK'
  <2> DEFINE j == remote.job
             t == CallbackStatus(job[j], s)
  <2>1. job' \in [Jobs -> Row]
    <3>1. CASE j \in Jobs
      <4>1. job[j] \in Row /\ t \in Statuses
        BY <3>1, CallbackStatusType DEF TypeOK, Statuses
      <4>2. Close(job[j], t) \in Row
        BY <4>1, CloseType
      <4> QED
        BY <1>14, <3>1, <4>2 DEF AgentCallback, TypeOK
    <3>2. CASE j \notin Jobs
      BY <1>14, <3>2 DEF AgentCallback, TypeOK
    <3> QED
      BY <3>1, <3>2
  <2>2. delivered' \in [Jobs -> Nat] /\ plan' \in [revision: Nat, ready: BOOLEAN]
    BY <1>14, MaterializeType DEF AgentCallback
  <2> QED
    BY <1>14, <2>1, <2>2 DEF AgentCallback, TypeOK
<1>15. ASSUME NEW j \in Jobs, LeaseLapses(j)
       PROVE  TypeOK'
  <2>1. [job[j] EXCEPT !.lock = "lapsed"] \in Row
    BY ColumnType DEF TypeOK
  <2> QED
    BY <1>15, <2>1 DEF LeaseLapses, TypeOK
<1>23. ASSUME NEW j \in Jobs, BackoffElapses(j)
       PROVE  TypeOK'
  <2>1. [job[j] EXCEPT !.due = TRUE] \in Row
    BY ColumnType DEF TypeOK
  <2> QED
    BY <1>23, <2>1 DEF BackoffElapses, TypeOK
<1>16. CASE PlanEdited
  BY <1>16 DEF PlanEdited, TypeOK
<1>17. CASE MaintainBegin
  <2>1. \A j \in Jobs : [job[j] EXCEPT !.lock = "expired"] \in Row
    BY ColumnType DEF TypeOK
  <2> QED
    BY <1>17, <2>1 DEF MaintainBegin, TypeOK
<1>18. CASE MaintainFail
  <2>1. \A j \in Jobs : Close(job[j], "failed") \in Row
    BY CloseType DEF TypeOK, Statuses, Terminal
  <2> QED
    BY <1>18, <2>1 DEF MaintainFail, TypeOK
<1>19. CASE MaintainFailErrs
  BY <1>19 DEF MaintainFailErrs, TypeOK
<1>20. CASE MaintainRequeue
  <2>1. \A j \in Jobs : Close(job[j], "queued") \in Row
    BY CloseType DEF TypeOK, Statuses, Pending
  <2>2. \A j \in Jobs : [Close(job[j], "queued") EXCEPT !.due = TRUE] \in Row
    BY <2>1 DEF Row
  <2> QED
    BY <1>20, <2>2 DEF MaintainRequeue, TypeOK
<1>21. CASE MaintainCut
  BY <1>21 DEF MaintainCut, TypeOK
<1>22. CASE UNCHANGED vars
  BY <1>22 DEF vars, TypeOK
<1> QED
  BY <1>1, <1>2, <1>3, <1>4, <1>5, <1>6, <1>7, <1>8, <1>9, <1>10, <1>11, <1>12, <1>13,
     <1>14, <1>15, <1>16, <1>17, <1>18, <1>19, <1>20, <1>21, <1>22, <1>23
     DEF Next, Submit, Cancel, RunOnce, Maintain

\* Every reachable state of the queue is well typed.
THEOREM TypeCorrect == Spec => []TypeOK
<1>1. Init => TypeOK
  BY ConstantsAssumption
  DEF Init, TypeOK, NoRow, Row, Idle, NoClaim, Claims, NoRead, Statuses, Pending, Jobs, Outcomes
<1> QED
  BY <1>1, TypeStep, PTL DEF Spec

-----------------------------------------------------------------------------
(***************************************************************************)
(* What one step may do to one row.  The safety theorems all rest on this  *)
(* classification of the steps of the specification.                       *)
(***************************************************************************)

SameJob(j) == /\ job'[j].kind = job[j].kind
              /\ job'[j].max = job[j].max
              /\ job'[j].base = job[j].base
              /\ job'[j].user = job[j].user

Untouched(j) ==
    /\ SameJob(j)
    /\ job'[j].status = job[j].status
    /\ job'[j].token = job[j].token
    /\ job'[j].attempt = job[j].attempt
    /\ job[j].cancel => job'[j].cancel
    /\ job'[j].lock = "none" <=> job[j].lock = "none"
    /\ delivered'[j] = delivered[j]

Born(j) ==
    /\ job[j].status = "absent"
    /\ job'[j].status = "queued"
    /\ job'[j].token = 0
    /\ job'[j].lock = "none"
    /\ job'[j].attempt = 0
    /\ job'[j].max = MaxAttempts \/ job'[j].max = 1
       \/ \E old \in Jobs : job[old].status = "failed" /\ job'[j].max = job[old].max
    /\ delivered'[j] = delivered[j]

CancelledInQueue(j) ==
    /\ SameJob(j)
    /\ job[j].status = "queued"
    /\ job'[j].status = "cancelled"
    /\ job'[j].token = job[j].token
    /\ job'[j].lock = job[j].lock
    /\ job'[j].attempt = job[j].attempt
    /\ job'[j].cancel
    /\ delivered'[j] = delivered[j]

Started(j) ==
    /\ SameJob(j)
    /\ job[j].status = "queued"
    /\ job'[j].status = "running"
    /\ job'[j].token = claims + 1
    /\ claims' = claims + 1
    /\ job'[j].lock = "held"
    /\ job'[j].attempt = job[j].attempt + 1
    /\ job'[j].cancel = job[j].cancel
    /\ delivered'[j] = delivered[j]

Stopped(j) ==
    /\ SameJob(j)
    /\ job[j].status = "running"
    /\ job'[j].status \in {"queued", "succeeded", "failed", "cancelled"}
    /\ job'[j].token = 0
    /\ job'[j].lock = "none"
    /\ job'[j].attempt = job[j].attempt
    /\ job'[j].cancel = job[j].cancel
    /\ job'[j].status = "succeeded" => ~job[j].cancel /\ \A k \in Jobs \ {j} : job'[k] = job[k]
    /\ job'[j].status = "queued" =>
          job[j].attempt < job[j].max \/ (sched = "requeue" /\ Expired(job[j]))
    /\ delivered'[j] = IF job'[j].status = "succeeded" /\ Materializes(job[j].kind)
                       THEN delivered[j] + 1 ELSE delivered[j]
    /\ job'[j].status = "succeeded" /\ job[j].kind = "support" =>
          /\ job[j].base = plan.revision
          /\ plan'.revision = plan.revision + 1

RowStep(j) == Untouched(j) \/ Born(j) \/ CancelledInQueue(j) \/ Started(j) \/ Stopped(j)

\* Closing a row sets its status and clears the lease, and nothing else.
LEMMA CloseFields ==
    ASSUME NEW r \in Row, NEW s \in Statuses, NEW d \in BOOLEAN,
           NEW c \in {Close(r, s), [Close(r, s) EXCEPT !.due = d]}
    PROVE  /\ c.status = s /\ c.token = 0 /\ c.lock = "none"
           /\ c.kind = r.kind /\ c.max = r.max /\ c.base = r.base /\ c.user = r.user
           /\ c.attempt = r.attempt /\ c.cancel = r.cancel
<1>1. r.revision + 1 \in Nat
  BY DEF Row
<1> QED
  BY <1>1 DEF Close, Row

\* A closed row has no lock.
LEMMA CloseUnlocks ==
    ASSUME NEW r \in Row, NEW s, NEW d
    PROVE  /\ Close(r, s).status = s
           /\ Close(r, s).lock = "none"
           /\ [Close(r, s) EXCEPT !.due = d].lock = "none"
BY DEF Close, Row

\* Every step does to every row one of the five things above.
LEMMA RowSteps ==
    ASSUME TypeOK, LeaseMatchesStatus, [Next]_vars, NEW i \in Jobs
    PROVE  RowStep(i)
<1> USE ConstantsAssumption
<1>0. job \in [Jobs -> Row] /\ job[i] \in Row /\ delivered \in [Jobs -> Nat]
  BY DEF TypeOK
<1>1. ASSUME NEW j \in Jobs, NEW k \in Kinds, NEW u \in Users, CreateJob(j, k, u)
      PROVE  RowStep(i)
  BY <1>0, <1>1 DEF CreateJob, Insert, NewRow, NoRow, RowStep, Untouched, SameJob, Born
<1>2. ASSUME NEW old \in Jobs, NEW j \in Jobs, RetryJob(old, j)
      PROVE  RowStep(i)
  BY <1>0, <1>2 DEF RetryJob, Insert, NewRow, NoRow, RowStep, Untouched, SameJob, Born
<1>3. ASSUME NEW j \in Jobs, NEW u \in Users, SubmitAgentRun(j, u)
      PROVE  RowStep(i)
  BY <1>0, <1>3 DEF SubmitAgentRun, Insert, NewRow, NoRow, RowStep, Untouched, SameJob, Born
<1>4. ASSUME NEW j \in Jobs, CancelRead(j)
      PROVE  RowStep(i)
  BY <1>4 DEF CancelRead, RowStep, Untouched, SameJob
<1>5. CASE CancelWrite
  <2>1. CASE StillAsRead(job[i], canceller) /\ canceller.job = i
    <3>1. /\ job'[i].cancel = TRUE
          /\ job'[i].status = IF canceller.status = "queued" THEN "cancelled" ELSE job[i].status
          /\ job'[i].token = job[i].token /\ job'[i].lock = job[i].lock
          /\ job'[i].attempt = job[i].attempt
          /\ SameJob(i)
      BY <1>0, <1>5, <2>1 DEF CancelWrite, SameJob, Row
    <3>2. job[i].status = canceller.status /\ delivered' = delivered
      BY <1>5, <2>1 DEF CancelWrite, StillAsRead
    <3> QED
      BY <3>1, <3>2 DEF RowStep, Untouched, CancelledInQueue
  <2>2. CASE ~(StillAsRead(job[i], canceller) /\ canceller.job = i)
    <3>1. job'[i] = job[i] /\ delivered' = delivered
      BY <1>0, <1>5, <2>2 DEF CancelWrite
    <3> QED
      BY <3>1 DEF RowStep, Untouched, SameJob
  <2> QED
    BY <2>1, <2>2
<1>6. ASSUME NEW j \in Jobs, CancelRunJob(j)
      PROVE  RowStep(i)
  <2>1. /\ job'[i].status = job[i].status /\ job'[i].token = job[i].token
        /\ job'[i].attempt = job[i].attempt /\ job'[i].lock = job[i].lock
        /\ SameJob(i) /\ delivered' = delivered
    BY <1>0, <1>6 DEF CancelRunJob, SameJob, Row
  <2>2. job[i].cancel => job'[i].cancel
    BY <1>0, <1>6 DEF CancelRunJob, Row
  <2> QED
    BY <2>1, <2>2 DEF RowStep, Untouched
<1>7. ASSUME NEW w \in Workers, NEW j \in Jobs, Claim(w, j)
      PROVE  RowStep(i)
  BY <1>0, <1>7 DEF Claim, Claimable, Claimed, NextClaim, RowStep, Untouched, SameJob, Started
<1>8. ASSUME NEW w \in Workers, NEW o \in Outcomes, HandlerReturns(w, o)
      PROVE  RowStep(i)
  BY <1>8 DEF HandlerReturns, RowStep, Untouched, SameJob
<1>9. ASSUME NEW w \in Workers, RenewLease(w)
      PROVE  RowStep(i)
  <2>1. /\ job'[i].status = job[i].status /\ job'[i].token = job[i].token
        /\ job'[i].attempt = job[i].attempt /\ job'[i].cancel = job[i].cancel
        /\ SameJob(i) /\ delivered' = delivered
    BY <1>0, <1>9 DEF RenewLease, SameJob, Row
  <2>2. job'[i].lock = "none" <=> job[i].lock = "none"
    BY <1>0, <1>9 DEF RenewLease, LeaseHeld, LeaseMatchesStatus, Row
  <2> QED
    BY <2>1, <2>2 DEF RowStep, Untouched
<1>10. ASSUME NEW w \in Workers, LeaseLost(w)
       PROVE  RowStep(i)
  BY <1>10 DEF LeaseLost, RowStep, Untouched, SameJob
<1>11. ASSUME NEW w \in Workers, Finish(w)
       PROVE  RowStep(i)
  <2> DEFINE c == worker[w].claim
             s == FinishStatus(job[c.job], worker[w].outcome)
  <2>1. CASE Fenced(job[i], c) /\ s # "running" /\ c.job = i
    <3>1. job'[i] = [Close(job[i], s) EXCEPT !.due = s # "queued"]
      BY <1>0, <1>11, <2>1 DEF Finish
    <3>2. s \in {"cancelled", "failed", "succeeded", "queued"}
      BY <1>0, <2>1, FinishStatusType
    <3>3. s = "succeeded" => ~job[i].cancel /\ (job[i].kind = "support" => SupportValid(job[i]))
      BY <2>1 DEF FinishStatus, AfterError
    <3>4. s = "queued" => job[i].attempt < job[i].max
      BY <2>1 DEF FinishStatus, AfterError
    <3>5. s \in Statuses
      BY <3>2 DEF Statuses, Pending, Terminal
    <3>6. /\ delivered'[i] = IF s = "succeeded" /\ Materializes(job[i].kind)
                             THEN delivered[i] + 1 ELSE delivered[i]
          /\ s = "succeeded" /\ job[i].kind = "support" => plan'.revision = plan.revision + 1
      <4>1. Materialize(i, s)
        BY <1>11, <2>1 DEF Finish
      <4> QED
        BY <1>0, <4>1 DEF Materialize, TypeOK
    <3>7. job[i].status = "running" /\ \A k \in Jobs \ {i} : job'[k] = job[k]
      BY <1>0, <1>11, <2>1 DEF Fenced, Finish
    <3>8. /\ job'[i].status = s /\ job'[i].token = 0 /\ job'[i].lock = "none"
          /\ job'[i].attempt = job[i].attempt /\ job'[i].cancel = job[i].cancel /\ SameJob(i)
      BY <1>0, <3>1, <3>5, CloseFields DEF SameJob
    <3> QED
      BY <3>2, <3>3, <3>4, <3>6, <3>7, <3>8 DEF RowStep, Stopped, SupportValid
  <2>2. CASE ~(Fenced(job[i], c) /\ s # "running" /\ c.job = i)
    <3>1. job'[i] = job[i] /\ delivered'[i] = delivered[i]
      BY <1>0, <1>11, <2>2 DEF Finish, Materialize
    <3> QED
      BY <3>1 DEF RowStep, Untouched, SameJob
  <2> QED
    BY <2>1, <2>2
<1>12. ASSUME NEW w \in Workers, Crash(w)
       PROVE  RowStep(i)
  BY <1>12 DEF Crash, RowStep, Untouched, SameJob
<1>13. ASSUME NEW w \in Workers, HandOff(w)
       PROVE  RowStep(i)
  BY <1>13 DEF HandOff, RowStep, Untouched, SameJob
<1>14. ASSUME NEW s \in Terminal, AgentCallback(s)
       PROVE  RowStep(i)
  <2> DEFINE t == CallbackStatus(job[remote.job], s)
  <2>1. CASE remote.job = i
    <3>1. /\ job'[i] = Close(job[i], t) /\ job[i].status = "running"
          /\ \A k \in Jobs \ {i} : job'[k] = job[k]
      BY <1>0, <1>14, <2>1 DEF AgentCallback, Fenced
    <3>2. t \in Terminal
      BY <1>0, <2>1, CallbackStatusType
    <3>3. t = "succeeded" => ~job[i].cancel /\ (job[i].kind = "support" => SupportValid(job[i]))
      BY <2>1 DEF CallbackStatus
    <3>4. /\ delivered'[i] = IF t = "succeeded" /\ Materializes(job[i].kind)
                             THEN delivered[i] + 1 ELSE delivered[i]
          /\ t = "succeeded" /\ job[i].kind = "support" => plan'.revision = plan.revision + 1
      BY <1>0, <1>14, <2>1 DEF AgentCallback, Materialize, TypeOK
    <3>5. t \in Statuses
      BY <3>2 DEF Statuses
    <3>6. /\ job'[i].status = t /\ job'[i].token = 0 /\ job'[i].lock = "none"
          /\ job'[i].attempt = job[i].attempt /\ job'[i].cancel = job[i].cancel /\ SameJob(i)
      BY <1>0, <3>1, <3>5, CloseFields DEF SameJob
    <3> QED
      BY <3>1, <3>2, <3>3, <3>4, <3>6 DEF RowStep, Stopped, SupportValid, Terminal
  <2>2. CASE remote.job # i
    <3>1. job'[i] = job[i] /\ delivered'[i] = delivered[i]
      BY <1>0, <1>14, <2>2 DEF AgentCallback, Materialize
    <3> QED
      BY <3>1 DEF RowStep, Untouched, SameJob
  <2> QED
    BY <2>1, <2>2
<1>15. ASSUME NEW j \in Jobs, LeaseLapses(j) \/ BackoffElapses(j)
       PROVE  RowStep(i)
  <2>1. /\ job'[i].status = job[i].status /\ job'[i].token = job[i].token
        /\ job'[i].attempt = job[i].attempt /\ job'[i].cancel = job[i].cancel
        /\ SameJob(i) /\ delivered' = delivered
    BY <1>0, <1>15 DEF LeaseLapses, BackoffElapses, SameJob, Row
  <2>2. job'[i].lock = "none" <=> job[i].lock = "none"
    BY <1>0, <1>15 DEF LeaseLapses, BackoffElapses, Row
  <2> QED
    BY <2>1, <2>2 DEF RowStep, Untouched
<1>16. CASE PlanEdited
  BY <1>16 DEF PlanEdited, RowStep, Untouched, SameJob
<1>17. CASE MaintainBegin
  BY <1>0, <1>17 DEF MaintainBegin, RowStep, Untouched, SameJob
<1>18. CASE MaintainFail
  <2>1. CASE Expired(job[i]) /\ Exhausted(job[i])
    <3>1. job'[i] = Close(job[i], "failed") /\ delivered' = delivered
      BY <1>0, <1>18, <2>1 DEF MaintainFail
    <3>2. "failed" \in Statuses
      BY DEF Statuses, Terminal
    <3> QED
      BY <1>0, <2>1, <3>1, <3>2, CloseFields DEF Expired, RowStep, SameJob, Stopped
  <2>2. CASE ~(Expired(job[i]) /\ Exhausted(job[i]))
    BY <1>0, <1>18, <2>2 DEF MaintainFail, RowStep, Untouched, SameJob
  <2> QED
    BY <2>1, <2>2
<1>19. CASE MaintainFailErrs
  BY <1>19 DEF MaintainFailErrs, RowStep, Untouched, SameJob
<1>20. CASE MaintainRequeue
  <2>1. CASE Expired(job[i])
    <3>1. job'[i] = [Close(job[i], "queued") EXCEPT !.due = TRUE] /\ delivered' = delivered
      BY <1>0, <1>20, <2>1 DEF MaintainRequeue
    <3>2. "queued" \in Statuses
      BY DEF Statuses, Pending
    <3> QED
      BY <1>0, <1>20, <2>1, <3>1, <3>2, CloseFields
      DEF MaintainRequeue, Expired, RowStep, SameJob, Stopped
  <2>2. CASE ~Expired(job[i])
    BY <1>0, <1>20, <2>2 DEF MaintainRequeue, RowStep, Untouched, SameJob
  <2> QED
    BY <2>1, <2>2
<1>21. CASE MaintainCut
  BY <1>21 DEF MaintainCut, RowStep, Untouched, SameJob
<1>22. CASE UNCHANGED vars
  BY <1>22 DEF vars, RowStep, Untouched, SameJob
<1> QED
  BY <1>1, <1>2, <1>3, <1>4, <1>5, <1>6, <1>7, <1>8, <1>9, <1>10, <1>11, <1>12, <1>13,
     <1>14, <1>15, <1>16, <1>17, <1>18, <1>19, <1>20, <1>21, <1>22
     DEF Next, Submit, Cancel, RunOnce, Maintain

-----------------------------------------------------------------------------
(***************************************************************************)
(* Safety.                                                                 *)
(***************************************************************************)

\* The plan's revision never goes back.
LEMMA PlanGrows ==
    ASSUME TypeOK, [Next]_vars
    PROVE  plan.revision \in Nat /\ plan'.revision \in Nat /\ plan.revision <= plan'.revision
<1> DEFINE Grows == plan' = plan \/ plan'.revision = plan.revision + 1
<1>1. plan.revision \in Nat
  BY DEF TypeOK
<1> SUFFICES Grows
  BY <1>1
<1>2. ASSUME NEW j, NEW s, Materialize(j, s)
      PROVE  Grows
  <2>1. plan' = plan \/ plan' = [plan EXCEPT !.revision = @ + 1]
    BY <1>2 DEF Materialize
  <2> QED
    BY <2>1 DEF TypeOK
<1>3. ASSUME NEW w \in Workers, Finish(w)
      PROVE  Grows
  BY <1>2, <1>3 DEF Finish
<1>4. ASSUME NEW s \in Terminal, AgentCallback(s)
      PROVE  Grows
  BY <1>2, <1>4 DEF AgentCallback
<1>5. CASE PlanEdited
  BY <1>5 DEF PlanEdited
<1>6. CASE Submit
  <2>1. ASSUME NEW j, NEW row, Insert(j, row)
        PROVE  Grows
    BY <2>1 DEF Insert
  <2> QED
    BY <1>6, <2>1 DEF Submit, CreateJob, RetryJob, SubmitAgentRun
<1>7. CASE Cancel
  <2>1. CASE CancelWrite
    BY <2>1 DEF CancelWrite
  <2>2. ASSUME NEW j, CancelRead(j) \/ CancelRunJob(j)
        PROVE  Grows
    BY <2>2 DEF CancelRead, CancelRunJob
  <2> QED
    BY <1>7, <2>1, <2>2 DEF Cancel
<1>11. CASE Maintain
  <2>1. CASE MaintainBegin
    BY <2>1 DEF MaintainBegin
  <2>2. CASE MaintainFail
    BY <2>2 DEF MaintainFail
  <2>3. CASE MaintainFailErrs
    BY <2>3 DEF MaintainFailErrs
  <2>4. CASE MaintainRequeue
    BY <2>4 DEF MaintainRequeue
  <2> QED
    BY <1>11, <2>1, <2>2, <2>3, <2>4 DEF Maintain
<1>12. CASE MaintainCut
  BY <1>12 DEF MaintainCut
<1>13. CASE UNCHANGED vars
  BY <1>13 DEF vars
<1>8. ASSUME NEW w \in Workers, RunOnce(w)
      PROVE  Grows
  <2>1. ASSUME NEW j \in Jobs, Claim(w, j)
        PROVE  Grows
    BY <2>1 DEF Claim
  <2>2. ASSUME NEW o \in Outcomes, HandlerReturns(w, o)
        PROVE  Grows
    BY <2>2 DEF HandlerReturns
  <2>3. CASE LeaseLost(w)
    BY <2>3 DEF LeaseLost
  <2> QED
    BY <1>3, <1>8, <2>1, <2>2, <2>3 DEF RunOnce
<1>9. ASSUME NEW w \in Workers, RenewLease(w) \/ HandOff(w) \/ Crash(w)
      PROVE  Grows
  BY <1>9 DEF RenewLease, HandOff, Crash
<1>14. ASSUME NEW j \in Jobs, LeaseLapses(j) \/ BackoffElapses(j)
       PROVE  Grows
  BY <1>14 DEF LeaseLapses, BackoffElapses
<1> HIDE DEF Grows
<1> QED
  BY <1>4, <1>5, <1>6, <1>7, <1>8, <1>9, <1>11, <1>12, <1>13, <1>14 DEF Next

\* The part of the invariant that speaks of rows, deliveries and the plan.
RowInv ==
    /\ TypeOK
    /\ LeaseMatchesStatus
    /\ DeliveredExactlyOnce
    /\ SupportMovedOn
    /\ OneSupportPerPlanRevision

\* RowInv is inductive: each conjunct follows from what a step may do to a row.
LEMMA RowInvStep == RowInv /\ [Next]_vars => RowInv'
<1> SUFFICES ASSUME RowInv, [Next]_vars
             PROVE  RowInv'
  OBVIOUS
<1>1. TypeOK /\ TypeOK'
  BY TypeStep DEF RowInv
<1>2. \A j \in Jobs : RowStep(j)
  BY RowSteps DEF RowInv
<1>3. \A j \in Jobs : job[j] \in Row /\ job'[j] \in Row
  BY <1>1 DEF TypeOK
<1>4. claims \in Nat
  BY <1>1 DEF TypeOK
<1>5. LeaseMatchesStatus'
  <2> SUFFICES ASSUME NEW j \in Jobs
               PROVE  /\ job'[j].status = "running" <=> job'[j].token # 0
                      /\ job'[j].status = "running" <=> job'[j].lock # "none"
    BY DEF LeaseMatchesStatus
  <2>1. /\ job[j].status = "running" <=> job[j].token # 0
        /\ job[j].status = "running" <=> job[j].lock # "none"
    BY DEF RowInv, LeaseMatchesStatus
  <2> QED
    BY <1>2, <1>4, <2>1 DEF RowStep, Untouched, Born, CancelledInQueue, Started, Stopped
<1>6. DeliveredExactlyOnce'
  <2> SUFFICES ASSUME NEW j \in Jobs
               PROVE  delivered'[j] = IF job'[j].status = "succeeded" /\ Materializes(job'[j].kind)
                                      THEN 1 ELSE 0
    BY DEF DeliveredExactlyOnce
  <2>1. delivered[j] = IF job[j].status = "succeeded" /\ Materializes(job[j].kind) THEN 1 ELSE 0
    BY DEF RowInv, DeliveredExactlyOnce
  <2> QED
    BY <1>2, <2>1 DEF RowStep, Untouched, SameJob, Born, CancelledInQueue, Started, Stopped
<1>7. SupportMovedOn'
  <2> SUFFICES ASSUME NEW j \in Jobs, job'[j].kind = "support", job'[j].status = "succeeded"
               PROVE  job'[j].base < plan'.revision
    BY DEF SupportMovedOn
  <2>1. job[j].base \in Nat /\ job'[j].base \in Nat
    BY <1>3 DEF Row
  <2>2. job[j].kind = "support" /\ job[j].status = "succeeded" => job[j].base < plan.revision
    BY DEF RowInv, SupportMovedOn
  <2> QED
    BY <1>1, <1>2, <2>1, <2>2, PlanGrows
    DEF RowStep, Untouched, SameJob, Born, CancelledInQueue, Started, Stopped
<1>8. OneSupportPerPlanRevision'
  <2> SUFFICES ASSUME NEW j1 \in Jobs, NEW j2 \in Jobs,
                      job'[j1].kind = "support", job'[j2].kind = "support",
                      job'[j1].status = "succeeded", job'[j2].status = "succeeded",
                      job'[j1].base = job'[j2].base, j1 # j2
               PROVE  FALSE
    BY DEF OneSupportPerPlanRevision
  <2>1. \A j \in {j1, j2} :
           /\ SameJob(j)
           /\ job[j].kind = "support"
           /\ job[j].status = "succeeded" \/ (Stopped(j) /\ job[j].base = plan.revision)
    BY <1>2 DEF RowStep, Untouched, SameJob, Born, CancelledInQueue, Started, Stopped
  <2>2. \A j \in {j1, j2} : job[j].status = "succeeded" => job[j].base < plan.revision
    BY <2>1 DEF RowInv, SupportMovedOn
  <2>3. ~(job[j1].status = "succeeded" /\ job[j2].status = "succeeded")
    BY <2>1 DEF RowInv, OneSupportPerPlanRevision, SameJob
  <2>4. job[j1].base = job[j2].base /\ job[j1].base \in Nat /\ plan.revision \in Nat
    BY <1>1, <1>3, <2>1 DEF SameJob, Row, TypeOK
  <2>5. ~(job[j1].status # "succeeded" /\ job[j2].status # "succeeded"
          /\ Stopped(j1) /\ Stopped(j2))
    BY DEF Stopped
  <2> QED
    BY <2>1, <2>2, <2>3, <2>4, <2>5
<1> QED
  BY <1>1, <1>5, <1>6, <1>7, <1>8 DEF RowInv

\* RowInv holds initially.
LEMMA RowInvInit == Init => RowInv
<1>1. Init => TypeOK
  BY ConstantsAssumption
  DEF Init, TypeOK, NoRow, Row, Idle, NoClaim, Claims, NoRead, Statuses, Pending, Jobs, Outcomes
<1> QED
  BY <1>1 DEF Init, RowInv, LeaseMatchesStatus, DeliveredExactlyOnce, SupportMovedOn,
     OneSupportPerPlanRevision, NoRow

\* RowInv is an invariant of the queue.
LEMMA RowInvariant == Spec => []RowInv
  BY RowInvInit, RowInvStep, PTL DEF Spec

\* Results are delivered exactly once, and only by jobs that end succeeded.
THEOREM Delivery == Spec => []DeliveredExactlyOnce
<1>1. RowInv => DeliveredExactlyOnce
  BY DEF RowInv
<1> QED
  BY <1>1, RowInvariant, PTL

\* A row holds a lease and a run token exactly while it is running.
THEOREM LeaseSafety == Spec => []LeaseMatchesStatus
<1>1. RowInv => LeaseMatchesStatus
  BY DEF RowInv
<1> QED
  BY <1>1, RowInvariant, PTL

\* At most one support suggestion is added per revision of the daily plan.
THEOREM SupportSafety == Spec => []OneSupportPerPlanRevision
<1>1. RowInv => OneSupportPerPlanRevision
  BY DEF RowInv
<1> QED
  BY <1>1, RowInvariant, PTL

\* No step moves a job that has ended or delivers for it again.
THEOREM Finality == Spec => TerminalIsFinal
<1>1. ASSUME RowInv, [Next]_vars
      PROVE  [\A j \in Jobs : job[j].status \in Terminal =>
                 /\ job'[j].status = job[j].status
                 /\ job'[j].attempt = job[j].attempt
                 /\ delivered'[j] = delivered[j]]_vars
  <2>1. \A j \in Jobs : RowStep(j)
    BY <1>1, RowSteps DEF RowInv
  <2> QED
    BY <2>1 DEF RowStep, Untouched, Born, CancelledInQueue, Started, Stopped, Terminal
<1> QED
  BY <1>1, RowInvariant, PTL DEF Spec, TerminalIsFinal

\* No step reports a job as succeeded once its cancellation is recorded.
THEOREM Cancellation == Spec => CancelIsHonoured
<1>1. ASSUME RowInv, [Next]_vars
      PROVE  [\A j \in Jobs : job[j].cancel /\ job[j].status # "succeeded"
                => job'[j].status # "succeeded"]_vars
  <2>1. \A j \in Jobs : RowStep(j)
    BY <1>1, RowSteps DEF RowInv
  <2> QED
    BY <2>1 DEF RowStep, Untouched, Born, CancelledInQueue, Started, Stopped
<1> QED
  BY <1>1, RowInvariant, PTL DEF Spec, CancelIsHonoured

-----------------------------------------------------------------------------
(***************************************************************************)
(* Who owns a row.                                                         *)
(***************************************************************************)

\* A step either leaves what a worker runs alone, ends it, moves it from
\* executing to returned, or is that worker's claim of a row.
WorkerStep(w) ==
    \/ worker'[w].phase = worker[w].phase /\ worker'[w] = worker[w]
    \/ worker'[w] = Idle
    \/ /\ worker[w].phase = "executing" /\ worker'[w].phase = "returned"
       /\ worker'[w].claim = worker[w].claim
    \/ /\ claims' = claims + 1
       /\ worker'[w].phase # "idle"
       /\ worker'[w].claim.job \in Jobs
       /\ worker'[w].claim.token = claims + 1
       /\ \A v \in Workers \ {w} : worker'[v] = worker[v]

\* Every step is such a step for every worker, and claims are only counted up.
LEMMA WorkerSteps ==
    ASSUME TypeOK, [Next]_vars, NEW v \in Workers
    PROVE  WorkerStep(v) /\ (claims' = claims \/ claims' = claims + 1)
<1> DEFINE Claiming == claims' = claims \/ claims' = claims + 1
<1> SUFFICES WorkerStep(v) /\ Claiming
  OBVIOUS
<1>0. worker \in [Workers -> [phase: {"idle", "executing", "returned"},
                              claim: Claims, outcome: Outcomes \cup {"none"}]]
  BY DEF TypeOK
<1>1. CASE UNCHANGED <<worker, claims>>
  BY <1>1 DEF WorkerStep
<1>2. ASSUME NEW w \in Workers, NEW j \in Jobs, Claim(w, j)
      PROVE  WorkerStep(v) /\ Claiming
  <2>1. claims' = claims + 1
    BY <1>2 DEF Claim
  <2>2. CASE w = v
    <3>1. worker'[v].phase # "idle" /\ worker'[v].claim = NextClaim(j)
      BY <1>0, <1>2, <2>2 DEF Claim
    <3>2. NextClaim(j).job = j /\ NextClaim(j).token = claims + 1
      BY DEF NextClaim
    <3>3. \A u \in Workers \ {v} : worker'[u] = worker[u]
      BY <1>0, <1>2, <2>2 DEF Claim
    <3> QED
      BY <2>1, <3>1, <3>2, <3>3 DEF WorkerStep
  <2>3. CASE w # v
    BY <1>0, <1>2, <2>1, <2>3 DEF Claim, WorkerStep
  <2> QED
    BY <2>2, <2>3
<1>3. ASSUME NEW w \in Workers, NEW o \in Outcomes, HandlerReturns(w, o)
      PROVE  WorkerStep(v) /\ Claiming
  BY <1>0, <1>3 DEF HandlerReturns, WorkerStep
<1>4. ASSUME NEW w \in Workers, LeaseLost(w)
      PROVE  WorkerStep(v) /\ Claiming
  BY <1>0, <1>4 DEF LeaseLost, WorkerStep
<1>5. ASSUME NEW w \in Workers, Finish(w) \/ Crash(w)
      PROVE  WorkerStep(v) /\ Claiming
  BY <1>0, <1>5 DEF Finish, Crash, WorkerStep
<1>6. CASE Submit
  <2>1. ASSUME NEW j, NEW row, Insert(j, row)
        PROVE  UNCHANGED <<worker, claims>>
    BY <2>1 DEF Insert
  <2> QED
    BY <1>1, <1>6, <2>1 DEF Submit, CreateJob, RetryJob, SubmitAgentRun
<1>7. CASE Cancel
  BY <1>1, <1>7 DEF Cancel, CancelWrite, CancelRead, CancelRunJob
<1>8. CASE Maintain \/ MaintainCut \/ PlanEdited
  BY <1>1, <1>8 DEF Maintain, MaintainBegin, MaintainFail, MaintainFailErrs, MaintainRequeue,
     MaintainCut, PlanEdited
<1>9. ASSUME NEW w \in Workers, RenewLease(w) \/ HandOff(w)
      PROVE  UNCHANGED <<worker, claims>>
  BY <1>9 DEF RenewLease, HandOff
<1>10. ASSUME NEW s \in Terminal, AgentCallback(s)
       PROVE  UNCHANGED <<worker, claims>>
  BY <1>10 DEF AgentCallback
<1>11. ASSUME NEW j \in Jobs, LeaseLapses(j) \/ BackoffElapses(j)
       PROVE  UNCHANGED <<worker, claims>>
  BY <1>11 DEF LeaseLapses, BackoffElapses
<1>12. CASE UNCHANGED vars
  BY <1>1, <1>12 DEF vars
<1> HIDE DEF Claiming
<1> QED
  BY <1>1, <1>2, <1>3, <1>4, <1>5, <1>6, <1>7, <1>8, <1>9, <1>10, <1>11, <1>12
  DEF Next, RunOnce

\* Claims are only ever counted up, one at a time.
LEMMA ClaimsGrow ==
    ASSUME TypeOK, [Next]_vars
    PROVE  claims' = claims \/ claims' = claims + 1
<1>1. ASSUME NEW w \in Workers
      PROVE  claims' = claims \/ claims' = claims + 1
  BY <1>1, WorkerSteps
<1>2. CASE Workers = {}
  <2>1. ASSUME NEW j, NEW row, Insert(j, row)
        PROVE  claims' = claims
    BY <2>1 DEF Insert
  <2>2. Submit => claims' = claims
    BY <2>1 DEF Submit, CreateJob, RetryJob, SubmitAgentRun
  <2>3. Cancel => claims' = claims
    BY DEF Cancel, CancelWrite, CancelRead, CancelRunJob
  <2>4. Maintain \/ MaintainCut \/ PlanEdited => claims' = claims
    BY DEF Maintain, MaintainBegin, MaintainFail, MaintainFailErrs, MaintainRequeue,
       MaintainCut, PlanEdited
  <2>5. \A j \in Jobs : LeaseLapses(j) \/ BackoffElapses(j) => claims' = claims
    BY DEF LeaseLapses, BackoffElapses
  <2>6. \A s \in Terminal : AgentCallback(s) => claims' = claims
    BY DEF AgentCallback
  <2>7. UNCHANGED vars => claims' = claims
    BY DEF vars
  <2> QED
    BY <1>2, <2>2, <2>3, <2>4, <2>5, <2>6, <2>7 DEF Next
<1> QED
  BY <1>1, <1>2

\* The credentials an out-of-process runner holds always name an existing row.
LEMMA RemoteStep ==
    ASSUME TypeOK, ClaimsAreUnique, [Next]_vars
    PROVE  remote' = NoClaim \/ remote'.job \in Jobs
<1>1. CASE remote' = remote
  BY <1>1 DEF ClaimsAreUnique
<1>2. ASSUME NEW w \in Workers, HandOff(w)
      PROVE  remote'.job \in Jobs
  BY <1>2 DEF HandOff, ClaimsAreUnique
<1>3. (\A w \in Workers : ~HandOff(w)) => remote' = remote
  <2>1. ASSUME NEW j, NEW row, Insert(j, row)
        PROVE  remote' = remote
    BY <2>1 DEF Insert
  <2>2. Submit => remote' = remote
    BY <2>1 DEF Submit, CreateJob, RetryJob, SubmitAgentRun
  <2>3. Cancel => remote' = remote
    BY DEF Cancel, CancelWrite, CancelRead, CancelRunJob
  <2>4. Maintain \/ MaintainCut \/ PlanEdited => remote' = remote
    BY DEF Maintain, MaintainBegin, MaintainFail, MaintainFailErrs, MaintainRequeue,
       MaintainCut, PlanEdited
  <2>5. \A w \in Workers : RunOnce(w) => remote' = remote
    BY DEF RunOnce, Claim, HandlerReturns, LeaseLost, Finish
  <2>6. \A w \in Workers : RenewLease(w) \/ Crash(w) => remote' = remote
    BY DEF RenewLease, Crash
  <2>7. \A j \in Jobs : LeaseLapses(j) \/ BackoffElapses(j) => remote' = remote
    BY DEF LeaseLapses, BackoffElapses
  <2>8. \A s \in Terminal : AgentCallback(s) => remote' = remote
    BY DEF AgentCallback
  <2>9. UNCHANGED vars => remote' = remote
    BY DEF vars
  <2> QED
    BY <2>2, <2>3, <2>4, <2>5, <2>6, <2>7, <2>8, <2>9 DEF Next
<1> QED
  BY <1>1, <1>2, <1>3

\* The uniqueness of claims is inductive, relative to RowInv.
LEMMA ClaimsStep == RowInv /\ ClaimsAreUnique /\ [Next]_vars => ClaimsAreUnique'
<1> SUFFICES ASSUME RowInv, ClaimsAreUnique, [Next]_vars
             PROVE  ClaimsAreUnique'
  OBVIOUS
<1>1. TypeOK /\ TypeOK' /\ claims \in Nat
  BY TypeStep DEF RowInv, TypeOK
<1>2. \A j \in Jobs : RowStep(j)
  BY RowSteps DEF RowInv
<1>3. \A w \in Workers : WorkerStep(w)
  BY <1>1, WorkerSteps
<1>5. \A j \in Jobs : job'[j].token <= claims'
  <2> SUFFICES ASSUME NEW j \in Jobs
               PROVE  job'[j].token <= claims'
    OBVIOUS
  <2>1. job[j].token \in Nat /\ job[j].token <= claims
    BY <1>1 DEF ClaimsAreUnique, TypeOK, Row
  <2>2. claims' = claims \/ claims' = claims + 1
    BY <1>1, ClaimsGrow
  <2> QED
    BY <1>1, <1>2, <2>1, <2>2 DEF RowStep, Untouched, Born, CancelledInQueue, Started, Stopped
<1>6. ASSUME NEW w \in Workers
      PROVE  IF worker'[w].phase = "idle" THEN worker'[w] = Idle
             ELSE worker'[w].claim.job \in Jobs /\ worker'[w].claim.token \in 1..claims'
  <2>1. WorkerStep(w) /\ (claims' = claims \/ claims' = claims + 1)
    BY <1>1, WorkerSteps
  <2>2. IF worker[w].phase = "idle" THEN worker[w] = Idle
        ELSE worker[w].claim.job \in Jobs /\ worker[w].claim.token \in 1..claims
    BY DEF ClaimsAreUnique
  <2>3. Idle.phase = "idle"
    BY DEF Idle
  <2> QED
    BY <1>1, <2>1, <2>2, <2>3 DEF WorkerStep
<1>7. ASSUME NEW w1 \in Workers, NEW w2 \in Workers,
             worker'[w1].phase # "idle", worker'[w2].phase # "idle",
             worker'[w1].claim.token = worker'[w2].claim.token, w1 # w2
      PROVE  FALSE
  <2>1. WorkerStep(w1) /\ WorkerStep(w2)
    BY <1>3
  <2>2. \A w \in {w1, w2} : worker[w].phase # "idle" => worker[w].claim.token <= claims
    BY <1>1 DEF ClaimsAreUnique
  <2>3. ~(worker[w1].phase # "idle" /\ worker[w2].phase # "idle"
          /\ worker[w1].claim.token = worker[w2].claim.token)
    BY <1>7 DEF ClaimsAreUnique
  <2>4. Idle.phase = "idle"
    BY DEF Idle
  <2>5. \A w \in {w1, w2} : worker[w].claim.token \in Nat
    BY <1>1 DEF TypeOK, Claims
  <2> QED
    BY <1>1, <1>7, <2>1, <2>2, <2>3, <2>4, <2>5 DEF WorkerStep
<1> QED
  BY <1>1, <1>5, <1>6, <1>7, RemoteStep DEF ClaimsAreUnique

\* However many workers still run an attempt of a job, at most one of them can
\* still finish it.
THEOREM Fencing == Spec => []OneHolder
<1>1. Init => ClaimsAreUnique
  BY DEF Init, ClaimsAreUnique, Idle, NoRow
<1>2. ClaimsAreUnique => OneHolder
  BY DEF ClaimsAreUnique, OneHolder, Holds, Fenced
<1> QED
  BY <1>1, <1>2, ClaimsStep, RowInvariant, PTL DEF Spec

\* A worker that ends RunOnce after its claim was taken over changes nothing
\* (finish, ErrStaleAgentAttempt).
THEOREM LateResults == Spec => LateResultIsDiscarded
<1> DEFINE Late(w) == /\ worker[w].phase = "returned" /\ worker'[w].phase = "idle"
                      /\ \/ job[worker[w].claim.job].status # "running"
                         \/ job[worker[w].claim.job].lease # worker[w].claim.lease
<1>1. ASSUME TypeOK, [Next]_vars, NEW w \in Workers, Late(w)
      PROVE  UNCHANGED <<job, delivered, plan>>
  <2>0. worker \in [Workers -> [phase: {"idle", "executing", "returned"},
                                claim: Claims, outcome: Outcomes \cup {"none"}]]
    BY <1>1 DEF TypeOK
  <2>1. worker' # worker
    BY <1>1
  <2>2. ASSUME NEW v \in Workers, NEW j \in Jobs, Claim(v, j)
        PROVE  worker'[w].phase # "idle"
    BY <1>1, <2>0, <2>2 DEF Claim
  <2>3. ASSUME NEW v \in Workers, NEW o \in Outcomes, HandlerReturns(v, o)
        PROVE  worker'[w].phase # "idle"
    BY <1>1, <2>0, <2>3 DEF HandlerReturns
  <2>4. ASSUME NEW v \in Workers, LeaseLost(v)
        PROVE  worker'[w].phase # "idle"
    BY <1>1, <2>0, <2>4 DEF LeaseLost
  <2>5. ASSUME NEW v \in Workers, Finish(v)
        PROVE  UNCHANGED <<job, delivered, plan>>
    <3>1. v = w
      BY <1>1, <2>0, <2>5 DEF Finish
    <3>2. ~Fenced(job[worker[w].claim.job], worker[w].claim)
      BY <1>1 DEF Fenced
    <3> QED
      BY <2>5, <3>1, <3>2 DEF Finish
  <2>6. ASSUME NEW v \in Workers, Crash(v)
        PROVE  UNCHANGED <<job, delivered, plan>>
    BY <2>6 DEF Crash
  <2>7. Submit => worker' = worker
    <3>1. ASSUME NEW j, NEW row, Insert(j, row)
          PROVE  worker' = worker
      BY <3>1 DEF Insert
    <3> QED
      BY <3>1 DEF Submit, CreateJob, RetryJob, SubmitAgentRun
  <2>8. Cancel => worker' = worker
    BY DEF Cancel, CancelRead, CancelWrite, CancelRunJob
  <2>9. Maintain \/ MaintainCut \/ PlanEdited => worker' = worker
    BY DEF Maintain, MaintainBegin, MaintainFail, MaintainFailErrs, MaintainRequeue,
       MaintainCut, PlanEdited
  <2>10. ASSUME NEW v \in Workers, RenewLease(v) \/ HandOff(v)
         PROVE  worker' = worker
    BY <2>10 DEF RenewLease, HandOff
  <2>11. ASSUME NEW s \in Terminal, AgentCallback(s)
         PROVE  worker' = worker
    BY <2>11 DEF AgentCallback
  <2>12. ASSUME NEW j \in Jobs, LeaseLapses(j) \/ BackoffElapses(j)
         PROVE  worker' = worker
    BY <2>12 DEF LeaseLapses, BackoffElapses
  <2>13. CASE UNCHANGED vars
    BY <2>13 DEF vars
  <2>14. worker'[w].phase = "idle"
    BY <1>1
  <2> HIDE DEF Late
  <2> QED
    BY <1>1, <2>1, <2>2, <2>3, <2>4, <2>5, <2>6, <2>7, <2>8, <2>9, <2>10, <2>11, <2>12, <2>13,
       <2>14 DEF Next, RunOnce
<1>2. TypeOK /\ [Next]_vars =>
        [\A w \in Workers :
            LET r == job[worker[w].claim.job] IN
            worker[w].phase = "returned" /\ worker'[w].phase = "idle"
            /\ (r.status # "running" \/ r.lease # worker[w].claim.lease)
            => UNCHANGED <<job, delivered, plan>>]_vars
  BY <1>1
<1> QED
  BY <1>2, TypeCorrect, PTL DEF Spec, LateResultIsDiscarded

-----------------------------------------------------------------------------
(***************************************************************************)
(* How often a job is started.                                             *)
(***************************************************************************)

\* Outside a MaintainBegin step no lock becomes "expired".
LEMMA ExpiresAtBegin ==
    ASSUME TypeOK, [Next]_vars, ~MaintainBegin, NEW i \in Jobs, job'[i].lock = "expired"
    PROVE  job[i].lock = "expired"
<1> DEFINE Old == job[i].lock = "expired"
<1> SUFFICES Old
  OBVIOUS
<1>0. job \in [Jobs -> Row] /\ job[i] \in Row
  BY DEF TypeOK
<1>1. CASE job' = job
  BY <1>1
<1>2. ASSUME NEW j \in Jobs, NEW k, NEW u, NEW m, NEW b, NEW c, Insert(j, NewRow(k, u, m, b, c))
      PROVE  Old
  BY <1>0, <1>2 DEF Insert, NewRow, NoRow
<1>4. CASE Submit
  BY <1>2, <1>4 DEF Submit, CreateJob, RetryJob, SubmitAgentRun
<1>5. CASE Cancel
  BY <1>0, <1>5 DEF Cancel, CancelRead, CancelWrite, CancelRunJob, Row
<1>6. ASSUME NEW w \in Workers, NEW j \in Jobs, Claim(w, j)
      PROVE  Old
  BY <1>0, <1>6 DEF Claim, Claimed
<1>7. ASSUME NEW s \in Statuses, NEW d \in BOOLEAN, NEW j,
             job' = [job EXCEPT ![j] = Close(@, s)]
             \/ job' = [job EXCEPT ![j] = [Close(@, s) EXCEPT !.due = d]]
      PROVE  Old
  <2>1. CASE i = j
    <3>1. job'[i] \in {Close(job[i], s), [Close(job[i], s) EXCEPT !.due = d]}
      BY <1>0, <1>7, <2>1
    <3> QED
      BY <1>0, <3>1 DEF Close, Row
  <2>2. CASE i # j
    BY <1>0, <1>7, <2>2
  <2> QED
    BY <2>1, <2>2
<1>8. ASSUME NEW w \in Workers, Finish(w)
      PROVE  Old
  <2> DEFINE c == worker[w].claim
             s == FinishStatus(job[c.job], worker[w].outcome)
  <2>1. CASE job' = job
    BY <1>1, <2>1
  <2>2. CASE job' # job
    <3>1. s # "running" /\ job' = [job EXCEPT ![c.job] = [Close(@, s) EXCEPT !.due = s # "queued"]]
      BY <1>8, <2>2 DEF Finish
    <3>2. s \in Statuses
      BY FinishStatusType DEF Statuses, Pending, Terminal
    <3>3. (s # "queued") \in BOOLEAN
      OBVIOUS
    <3> QED
      BY <1>7, <3>1, <3>2, <3>3
  <2> QED
    BY <2>1, <2>2
<1>9. ASSUME NEW s \in Terminal, AgentCallback(s)
      PROVE  Old
  <2>1. CallbackStatus(job[remote.job], s) \in Statuses
    BY CallbackStatusType DEF Statuses, Terminal
  <2>2. job' = [job EXCEPT ![remote.job] = Close(@, CallbackStatus(job[remote.job], s))]
    BY <1>9 DEF AgentCallback
  <2> QED
    BY <1>7, <2>1, <2>2
<1>10. ASSUME NEW w \in Workers, RenewLease(w)
       PROVE  Old
  BY <1>0, <1>10 DEF RenewLease
<1>11. ASSUME NEW j \in Jobs, LeaseLapses(j) \/ BackoffElapses(j)
       PROVE  Old
  BY <1>0, <1>11 DEF LeaseLapses, BackoffElapses, Row
<1>12. CASE MaintainFail
  <2>1. job'[i] = job[i] \/ job'[i] = Close(job[i], "failed")
    BY <1>12 DEF MaintainFail
  <2> QED
    BY <1>0, <2>1, CloseUnlocks
<1>13. CASE MaintainRequeue
  <2>1. job'[i] = job[i] \/ job'[i] = [Close(job[i], "queued") EXCEPT !.due = TRUE]
    BY <1>13 DEF MaintainRequeue
  <2> QED
    BY <1>0, <2>1 DEF Close, Row
<1>14. CASE MaintainFailErrs \/ MaintainCut \/ PlanEdited \/ UNCHANGED vars
  BY <1>1, <1>14 DEF MaintainFailErrs, MaintainCut, PlanEdited, vars
<1>15. ASSUME NEW w \in Workers, NEW o \in Outcomes,
              HandlerReturns(w, o) \/ LeaseLost(w) \/ HandOff(w) \/ Crash(w)
       PROVE  Old
  BY <1>1, <1>15 DEF HandlerReturns, LeaseLost, HandOff, Crash
<1>16. \E o \in Outcomes : TRUE
  BY DEF Outcomes
<1> HIDE DEF Old
<1> QED
  BY <1>4, <1>5, <1>6, <1>8, <1>9, <1>10, <1>11, <1>12, <1>13, <1>14, <1>15, <1>16
  DEF Next, RunOnce, Maintain

\* maintain reaches its second update only through its first.
LEMMA RequeueFollowsFail ==
    ASSUME TypeOK, [Next]_vars, ~StatementErrors, sched' = "requeue", ~MaintainFail
    PROVE  sched = "requeue" /\ ~MaintainBegin
<1>1. ASSUME NEW j, NEW row, Insert(j, row)
      PROVE  sched' = sched
  BY <1>1 DEF Insert
<1>2. Submit => sched' = sched
  BY <1>1 DEF Submit, CreateJob, RetryJob, SubmitAgentRun
<1>3. Cancel => sched' = sched
  BY DEF Cancel, CancelWrite, CancelRead, CancelRunJob
<1>4. \A w \in Workers : RunOnce(w) => sched' = sched
  BY DEF RunOnce, Claim, HandlerReturns, LeaseLost, Finish
<1>5. \A w \in Workers : RenewLease(w) \/ Crash(w) \/ HandOff(w) => sched' = sched
  BY DEF RenewLease, Crash, HandOff
<1>6. \A j \in Jobs : LeaseLapses(j) \/ BackoffElapses(j) => sched' = sched
  BY DEF LeaseLapses, BackoffElapses
<1>7. \A s \in Terminal : AgentCallback(s) => sched' = sched
  BY DEF AgentCallback
<1>8. PlanEdited \/ UNCHANGED vars => sched' = sched
  BY DEF PlanEdited, vars
<1>9. ~MaintainBegin /\ ~MaintainFailErrs /\ ~MaintainRequeue /\ ~MaintainCut
  BY DEF MaintainBegin, MaintainFailErrs, MaintainRequeue, MaintainCut
<1> QED
  BY <1>2, <1>3, <1>4, <1>5, <1>6, <1>7, <1>8, <1>9 DEF Next, Maintain

\* The bound on attempts is inductive, relative to RowInv, while maintain's
\* first update does not fail.
LEMMA AttemptsStep ==
    ASSUME ~StatementErrors, RowInv, AttemptsLeft, AttemptsWithinMax, [Next]_vars
    PROVE  AttemptsLeft' /\ AttemptsWithinMax'
<1> USE ConstantsAssumption
<1>1. TypeOK /\ TypeOK' /\ LeaseMatchesStatus
  BY TypeStep DEF RowInv
<1>2. \A j \in Jobs : RowStep(j)
  BY RowSteps DEF RowInv
<1>3. \A j \in Jobs : job[j].attempt \in Nat /\ job[j].max \in Nat
  BY <1>1 DEF TypeOK, Row
<1>4. ASSUME NEW j \in Jobs, job'[j].status # "absent"
      PROVE  job'[j].max > 0
  <2>1. \A k \in Jobs : job[k].status = "failed" => job[k].max > 0
    BY DEF AttemptsLeft
  <2> QED
    BY <1>2, <1>4, <2>1 DEF AttemptsLeft, RowStep, Untouched, SameJob, Born, CancelledInQueue,
       Started, Stopped
<1>5. ASSUME NEW j \in Jobs, job'[j].status = "queued"
      PROVE  job'[j].attempt < job'[j].max
  <2>1. sched = "requeue" /\ Expired(job[j]) => job[j].attempt < job[j].max
    BY <1>3 DEF AttemptsLeft, Exhausted
  <2>2. job[j].status = "queued" => job[j].attempt < job[j].max
    BY DEF AttemptsLeft
  <2>3. job'[j].max > 0
    BY <1>4, <1>5
  <2> QED
    BY <1>2, <1>5, <2>1, <2>2, <2>3 DEF RowStep, Untouched, SameJob, Born, CancelledInQueue,
       Started, Stopped
<1>6. ASSUME NEW j \in Jobs
      PROVE  job'[j].attempt <= job'[j].max
  <2>1. job[j].attempt <= job[j].max
    BY DEF AttemptsWithinMax
  <2>2. job[j].status = "queued" => job[j].attempt < job[j].max
    BY DEF AttemptsLeft
  <2>3. job'[j].status = "queued" => job'[j].attempt < job'[j].max
    BY <1>5
  <2>4. job'[j].attempt \in Nat /\ job'[j].max \in Nat
    BY <1>1 DEF TypeOK, Row
  <2> QED
    BY <1>2, <1>3, <2>1, <2>2, <2>3, <2>4 DEF RowStep, Untouched, SameJob, Born,
       CancelledInQueue, Started, Stopped
<1>7. ASSUME sched' = "requeue", NEW j \in Jobs, Expired(job'[j])
      PROVE  ~Exhausted(job'[j])
  <2>1. CASE MaintainFail
    <3>1. job'[j] = IF Expired(job[j]) /\ Exhausted(job[j])
                    THEN Close(job[j], "failed") ELSE job[j]
      BY <2>1 DEF MaintainFail
    <3>2. Close(job[j], "failed").status = "failed"
      BY <1>1, CloseUnlocks DEF TypeOK
    <3> QED
      BY <1>7, <3>1, <3>2 DEF Expired
  <2>2. CASE ~MaintainFail
    <3>1. sched = "requeue" /\ ~MaintainBegin
      BY <1>1, <1>7, <2>2, RequeueFollowsFail
    <3>2. job[j].lock = "expired"
      BY <1>1, <1>7, <3>1, ExpiresAtBegin DEF Expired
    <3>3. job[j].status = "running"
      BY <1>1, <3>2 DEF LeaseMatchesStatus
    <3>4. job'[j].attempt = job[j].attempt /\ job'[j].max = job[j].max
      BY <1>2, <1>7, <3>3 DEF Expired, RowStep, Untouched, SameJob, Born, CancelledInQueue,
         Started, Stopped
    <3>5. ~Exhausted(job[j])
      BY <3>1, <3>2, <3>3 DEF AttemptsLeft, Expired
    <3> QED
      BY <3>4, <3>5 DEF Exhausted
  <2> QED
    BY <2>1, <2>2
<1> QED
  BY <1>4, <1>5, <1>6, <1>7 DEF AttemptsLeft, AttemptsWithinMax

\* As long as maintain's first update does not fail, no job is started more
\* often than its max_attempts, however many workers die running it.
THEOREM CrashLoopBound ==
    ASSUME ~StatementErrors
    PROVE  Spec => []AttemptsWithinMax
<1>1. Init => AttemptsLeft /\ AttemptsWithinMax
  BY DEF Init, AttemptsLeft, AttemptsWithinMax, NoRow
<1>2. RowInv /\ AttemptsLeft /\ AttemptsWithinMax /\ [Next]_vars
      => AttemptsLeft' /\ AttemptsWithinMax'
  BY AttemptsStep
<1> QED
  BY <1>1, <1>2, RowInvariant, PTL DEF Spec

-----------------------------------------------------------------------------
(***************************************************************************)
(* The queue implements the ledger: every step of JobQueue is a step of    *)
(* JobLedger on the four ledger columns of the rows, or leaves them alone. *)
(***************************************************************************)

-----------------------------------------------------------------------------
(* The ledger's view of one row, and what a step may do to it.             *)

\* The row keeps its kind, its cancellation and its delivery.
SameEntry(j) ==
    /\ job'[j].cancel = job[j].cancel
    /\ Materializes(job'[j].kind) = Materializes(job[j].kind)
    /\ delivered'[j] = delivered[j]

Quiet(j) == SameEntry(j) /\ LedgerOutcome(job'[j]) = LedgerOutcome(job[j])

OthersQuiet(j) == \A k \in Jobs \ {j} : Quiet(k)

\* A row is not cancelled and bears no result before it exists.
AbsentRows == \A j \in Jobs : job[j].status = "absent" => ~job[j].cancel /\ job[j].kind = "none"

\* A step that leaves every row as the ledger sees it is a stutter of the ledger.
LEMMA QuietStep ==
    ASSUME \A j \in Jobs : Quiet(j)
    PROVE  UNCHANGED Ledger!ledger
BY DEF Quiet, SameEntry, Ledger!ledger

\* A row that comes to exist is a submission.
LEMMA SubmittedStep ==
    ASSUME NEW j \in Jobs, OthersQuiet(j), AbsentRows,
           job[j].status = "absent", LedgerOutcome(job'[j]) = "open",
           delivered'[j] = delivered[j]
    PROVE  Ledger!LedgerNext
<1>1. LedgerOutcome(job[j]) = "none" /\ ~job[j].cancel /\ ~Materializes(job[j].kind)
  BY DEF AbsentRows, LedgerOutcome, Materializes
<1>2. Ledger!Submitted(j)
  BY <1>1 DEF Ledger!Submitted, OthersQuiet, Quiet, SameEntry
<1> QED
  BY <1>2 DEF Ledger!LedgerNext

\* A flag set on an existing row, or a queued row cancelled, is a withdrawal.
LEMMA WithdrawnStep ==
    ASSUME NEW j \in Jobs, OthersQuiet(j), LedgerOutcome(job[j]) # "none", job'[j].cancel,
           Materializes(job'[j].kind) = Materializes(job[j].kind), delivered'[j] = delivered[j],
           \/ LedgerOutcome(job'[j]) = LedgerOutcome(job[j])
           \/ LedgerOutcome(job[j]) = "open" /\ LedgerOutcome(job'[j]) = "cancelled"
    PROVE  Ledger!LedgerNext
<1>1. Ledger!Withdrawn(j)
  BY DEF Ledger!Withdrawn, OthersQuiet, Quiet, SameEntry
<1> QED
  BY <1>1 DEF Ledger!LedgerNext

\* An open row that fails or is cancelled is an end.
LEMMA EndedStep ==
    ASSUME NEW j \in Jobs, OthersQuiet(j), SameEntry(j), LedgerOutcome(job[j]) = "open",
           LedgerOutcome(job'[j]) \in {"failed", "cancelled"}
    PROVE  Ledger!LedgerNext
<1>1. Ledger!Ends(j)
  BY DEF Ledger!Ends, OthersQuiet, Quiet, SameEntry
<1> QED
  BY <1>1 DEF Ledger!LedgerNext

\* Open rows that fail together are given up.
LEMMA GivenUpStep ==
    ASSUME \A j \in Jobs : Quiet(j) \/ (/\ SameEntry(j)
                                        /\ LedgerOutcome(job[j]) = "open"
                                        /\ LedgerOutcome(job'[j]) = "failed")
    PROVE  Ledger!LedgerNext
<1> DEFINE S == {j \in Jobs : ~Quiet(j)}
<1>1. Ledger!GivenUp(S)
  BY DEF Ledger!GivenUp, Quiet, SameEntry
<1>2. S \in SUBSET Jobs
  OBVIOUS
<1> HIDE DEF S
<1> QED
  BY <1>1, <1>2 DEF Ledger!LedgerNext

\* An open row that succeeds with its delivery is a success.
LEMMA SucceededStep ==
    ASSUME NEW j \in Jobs, OthersQuiet(j), LedgerOutcome(job[j]) = "open", ~job[j].cancel,
           job'[j].cancel = job[j].cancel, job'[j].kind = job[j].kind,
           LedgerOutcome(job'[j]) = "succeeded",
           delivered \in [Jobs -> Nat],
           delivered'[j] = IF Materializes(job[j].kind) THEN delivered[j] + 1 ELSE delivered[j]
    PROVE  Ledger!LedgerNext
<1>1. delivered'[j] > 0 <=> delivered[j] > 0 \/ Materializes(job[j].kind)
  OBVIOUS
<1>2. Ledger!Succeeds(j)
  BY <1>1 DEF Ledger!Succeeds, OthersQuiet, Quiet, SameEntry
<1> QED
  BY <1>2 DEF Ledger!LedgerNext

-----------------------------------------------------------------------------
(* The steps of the queue.                                                 *)

Step == Ledger!LedgerNext \/ UNCHANGED Ledger!ledger

\* Every way to insert a row is a submission.
LEMMA SubmitSteps ==
    ASSUME TypeOK, AbsentRows, Submit
    PROVE  Step
<1>1. ASSUME NEW j \in Jobs, NEW k, NEW u, NEW max, NEW base, NEW c,
             Insert(j, NewRow(k, u, max, base, c))
      PROVE  Step
  <2>1. /\ job \in [Jobs -> Row]
        /\ job[j].status = "absent"
        /\ job' = [job EXCEPT ![j] = NewRow(k, u, max, base, c)]
        /\ delivered' = delivered
    BY <1>1 DEF Insert, TypeOK
  <2>2. OthersQuiet(j)
    BY <2>1 DEF OthersQuiet, Quiet, SameEntry
  <2>3. job'[j].status = "queued"
    BY <2>1 DEF NewRow, NoRow
  <2>4. LedgerOutcome(job'[j]) = "open"
    BY <2>3 DEF LedgerOutcome, Pending
  <2> QED
    BY <2>1, <2>2, <2>4, SubmittedStep DEF Step
<1> QED
  BY <1>1 DEF Submit, CreateJob, RetryJob, SubmitAgentRun

\* Cancellations are withdrawals, or come too late and change nothing.
LEMMA CancelSteps ==
    ASSUME TypeOK, AbsentRows, Cancel
    PROVE  Step
<1>0. job \in [Jobs -> Row]
  BY DEF TypeOK
<1>1. ASSUME NEW j \in Jobs, CancelRead(j)
      PROVE  Step
  <2>1. \A k \in Jobs : Quiet(k)
    BY <1>1 DEF CancelRead, Quiet, SameEntry
  <2> QED
    BY <2>1, QuietStep DEF Step
<1>2. CASE CancelWrite
  <2> DEFINE j == canceller.job
             s == IF canceller.status = "queued" THEN "cancelled" ELSE job[j].status
  <2>1. CASE ~StillAsRead(job[j], canceller) \/ j \notin Jobs
    <3>1. \A k \in Jobs : Quiet(k)
      BY <1>0, <1>2, <2>1 DEF CancelWrite, Quiet, SameEntry
    <3> QED
      BY <3>1, QuietStep DEF Step
  <2>2. CASE StillAsRead(job[j], canceller) /\ j \in Jobs
    <3>1. job[j].status = canceller.status /\ job[j].status \in Pending
      BY <1>0, <2>2 DEF StillAsRead, TypeOK, Row, Statuses, Pending, Terminal
    <3>2. job' = [job EXCEPT ![j].cancel = TRUE, ![j].revision = canceller.revision + 1,
                             ![j].status = s]
      BY <1>2, <2>2 DEF CancelWrite
    <3>3. OthersQuiet(j)
      BY <1>0, <1>2, <3>2 DEF CancelWrite, OthersQuiet, Quiet, SameEntry
    <3>4. /\ job'[j].cancel
          /\ job'[j].kind = job[j].kind
          /\ job'[j].status = s
      BY <1>0, <2>2, <3>2 DEF Row
    <3>5. LedgerOutcome(job[j]) = "open"
      BY <3>1 DEF LedgerOutcome, Pending
    <3>6. LedgerOutcome(job'[j]) \in {"open", "cancelled"}
      BY <3>1, <3>4 DEF LedgerOutcome, Pending
    <3>7. delivered' = delivered
      BY <1>2 DEF CancelWrite
    <3> QED
      BY <2>2, <3>3, <3>4, <3>5, <3>6, <3>7, WithdrawnStep DEF Step
  <2> QED
    BY <2>1, <2>2
<1>3. ASSUME NEW j \in Jobs, CancelRunJob(j)
      PROVE  Step
  <2>1. job' = [job EXCEPT ![j].cancel = TRUE] /\ delivered' = delivered
    BY <1>3 DEF CancelRunJob
  <2>2. OthersQuiet(j)
    BY <1>0, <2>1 DEF OthersQuiet, Quiet, SameEntry
  <2>3. job[j].status # "absent" /\ job[j].status # "none"
    BY <1>0, <1>3 DEF CancelRunJob, AbsentRows, Row, Statuses, Pending, Terminal
  <2>4. LedgerOutcome(job[j]) # "none"
    BY <2>3 DEF LedgerOutcome
  <2>5. /\ job'[j].cancel
        /\ job'[j].kind = job[j].kind
        /\ job'[j].status = job[j].status
    BY <1>0, <2>1 DEF Row
  <2> QED
    BY <2>1, <2>2, <2>4, <2>5, WithdrawnStep DEF Step, LedgerOutcome
<1> QED
  BY <1>1, <1>2, <1>3 DEF Cancel

\* A closed row keeps its kind and its cancellation.
LEMMA CloseKeeps ==
    ASSUME NEW r \in Row, NEW s, NEW d
    PROVE  /\ Close(r, s).status = s
           /\ Close(r, s).kind = r.kind
           /\ Close(r, s).cancel = r.cancel
           /\ [Close(r, s) EXCEPT !.due = d].status = s
           /\ [Close(r, s) EXCEPT !.due = d].kind = r.kind
           /\ [Close(r, s) EXCEPT !.due = d].cancel = r.cancel
BY DEF Close, Row

\* Closing row j as s, with the result that goes with it.
LEMMA CloseStep ==
    ASSUME RowInv, NEW j \in Jobs, NEW s \in Statuses \ {"absent", "running"},
           NEW d \in BOOLEAN, NEW r \in {Close(job[j], s), [Close(job[j], s) EXCEPT !.due = d]},
           job' = [job EXCEPT ![j] = r],
           job[j].status = "running", s = "succeeded" => ~job[j].cancel,
           Materialize(j, s)
    PROVE  Step
<1>1. job \in [Jobs -> Row] /\ delivered \in [Jobs -> Nat]
  BY DEF RowInv, TypeOK
<1>2. /\ job'[j].status = s
      /\ job'[j].kind = job[j].kind
      /\ job'[j].cancel = job[j].cancel
  <2>1. job[j] \in Row /\ s \in Statuses /\ job'[j] = r
    BY <1>1
  <2> DEFINE closed == Close(job[j], s)
             due == [closed EXCEPT !.due = d]
  <2>2. /\ closed.status = s /\ closed.kind = job[j].kind /\ closed.cancel = job[j].cancel
        /\ due.status = s /\ due.kind = job[j].kind /\ due.cancel = job[j].cancel
    BY <2>1, CloseKeeps
  <2>3. r = closed \/ r = due
    OBVIOUS
  <2> HIDE DEF closed, due
  <2> QED
    BY <2>1, <2>2, <2>3
<1>3. delivered' = IF s = "succeeded" /\ Materializes(job[j].kind)
                   THEN [delivered EXCEPT ![j] = @ + 1] ELSE delivered
  BY DEF Materialize
<1>4. OthersQuiet(j)
  BY <1>1, <1>3 DEF OthersQuiet, Quiet, SameEntry
<1>5. LedgerOutcome(job[j]) = "open"
  BY DEF LedgerOutcome, Pending
<1>6. CASE s = "queued"
  <2>1. \A k \in Jobs : Quiet(k)
    BY <1>2, <1>3, <1>4, <1>5, <1>6 DEF OthersQuiet, Quiet, SameEntry, LedgerOutcome, Pending
  <2> QED
    BY <2>1, QuietStep DEF Step
<1>7. CASE s = "succeeded"
  <2>1. LedgerOutcome(job'[j]) = "succeeded"
    BY <1>2, <1>7 DEF LedgerOutcome, Pending
  <2>2. delivered'[j] = IF Materializes(job[j].kind) THEN delivered[j] + 1 ELSE delivered[j]
    BY <1>1, <1>3, <1>7
  <2> QED
    BY <1>1, <1>2, <1>4, <1>5, <1>7, <2>1, <2>2, SucceededStep DEF Step
<1>8. CASE s \in {"failed", "cancelled"}
  <2>1. LedgerOutcome(job'[j]) \in {"failed", "cancelled"}
    BY <1>2, <1>8 DEF LedgerOutcome, Pending
  <2>2. SameEntry(j)
    BY <1>2, <1>3, <1>8 DEF SameEntry
  <2> QED
    BY <1>4, <1>5, <2>1, <2>2, EndedStep DEF Step
<1> QED
  BY <1>6, <1>7, <1>8 DEF Statuses, Pending, Terminal

\* A worker that finishes closes its row, or changes nothing.
LEMMA FinishSteps ==
    ASSUME RowInv, ClaimsAreUnique, NEW w \in Workers, Finish(w)
    PROVE  Step
<1> DEFINE c == worker[w].claim
           j == c.job
           s == FinishStatus(job[j], worker[w].outcome)
<1>0. TypeOK /\ worker[w].phase = "returned"
  BY DEF RowInv, Finish
<1>1. CASE Fenced(job[j], c) /\ s # "running"
  <2>1. j \in Jobs
    BY <1>0 DEF ClaimsAreUnique
  <2>2. job[j].status = "running"
    BY <1>1 DEF Fenced
  <2>3. /\ job' = [job EXCEPT ![j] = [Close(@, s) EXCEPT !.due = s # "queued"]]
        /\ Materialize(j, s)
    BY <1>1 DEF Finish
  <2>4. s \in Statuses \ {"absent", "running"} /\ (s = "succeeded" => ~job[j].cancel)
    BY <1>1 DEF FinishStatus, AfterError, Statuses, Pending, Terminal
  <2>5. job \in [Jobs -> Row]
    BY <1>0 DEF TypeOK
  <2>6. PICK d \in BOOLEAN : d = (s # "queued")
    OBVIOUS
  <2>7. job' = [job EXCEPT ![j] = [Close(job[j], s) EXCEPT !.due = d]]
    BY <2>1, <2>3, <2>5, <2>6
  <2> HIDE DEF s, j, c
  <2> QED
    BY <2>1, <2>2, <2>3, <2>4, <2>7, CloseStep
<1>2. CASE ~(Fenced(job[j], c) /\ s # "running")
  <2>1. UNCHANGED <<job, delivered>>
    BY <1>2 DEF Finish
  <2>2. \A k \in Jobs : Quiet(k)
    BY <2>1 DEF Quiet, SameEntry
  <2> QED
    BY <2>2, QuietStep DEF Step
<1> QED
  BY <1>1, <1>2

\* A callback that is accepted closes its row.
LEMMA CallbackSteps ==
    ASSUME RowInv, ClaimsAreUnique, NEW s \in Terminal, AgentCallback(s)
    PROVE  Step
<1> DEFINE j == remote.job
           t == CallbackStatus(job[j], s)
<1>0. TypeOK
  BY DEF RowInv
<1>1. j \in Jobs /\ job[j].status = "running"
  BY DEF AgentCallback, ClaimsAreUnique, Fenced
<1>2. job' = [job EXCEPT ![j] = Close(@, t)] /\ Materialize(j, t)
  BY DEF AgentCallback
<1>3. t \in Statuses \ {"absent", "running"} /\ (t = "succeeded" => ~job[j].cancel)
  BY DEF CallbackStatus, Statuses, Pending, Terminal
<1>4. job' = [job EXCEPT ![j] = Close(job[j], t)]
  BY <1>0, <1>1, <1>2 DEF TypeOK
<1> HIDE DEF t, j
<1> QED
  BY <1>1, <1>2, <1>3, <1>4, CloseStep

\* A maintain pass gives rows up, or puts them back, which the ledger does not see.
LEMMA MaintainSteps ==
    ASSUME RowInv, Maintain
    PROVE  Step
<1>0. job \in [Jobs -> Row]
  BY DEF RowInv, TypeOK
<1>1. CASE MaintainBegin
  <2>1. \A k \in Jobs : Quiet(k)
    BY <1>0, <1>1 DEF MaintainBegin, Quiet, SameEntry, LedgerOutcome, Row
  <2> QED
    BY <2>1, QuietStep DEF Step
<1>2. CASE MaintainFail
  <2>1. ASSUME NEW k \in Jobs, Expired(job[k]), Exhausted(job[k])
        PROVE  /\ SameEntry(k)
               /\ LedgerOutcome(job[k]) = "open"
               /\ LedgerOutcome(job'[k]) = "failed"
    <3>1. job'[k] = Close(job[k], "failed") /\ delivered' = delivered
      BY <1>2, <2>1 DEF MaintainFail
    <3>2. job[k] \in Row /\ "failed" \in Statuses
      BY <1>0 DEF Statuses, Terminal
    <3>3. /\ job'[k].status = "failed"
          /\ job'[k].kind = job[k].kind
          /\ job'[k].cancel = job[k].cancel
      BY <3>1, <3>2, CloseKeeps
    <3> QED
      BY <2>1, <3>1, <3>3 DEF SameEntry, Expired, LedgerOutcome, Pending
  <2>2. ASSUME NEW k \in Jobs, ~(Expired(job[k]) /\ Exhausted(job[k]))
        PROVE  Quiet(k)
    BY <1>2, <2>2 DEF MaintainFail, Quiet, SameEntry
  <2> QED
    BY <2>1, <2>2, GivenUpStep DEF Step
<1>3. CASE MaintainFailErrs
  <2>1. \A k \in Jobs : Quiet(k)
    BY <1>3 DEF MaintainFailErrs, Quiet, SameEntry
  <2> QED
    BY <2>1, QuietStep DEF Step
<1>4. CASE MaintainRequeue
  <2>1. ASSUME NEW k \in Jobs
        PROVE  Quiet(k)
    <3>1. CASE Expired(job[k])
      <4>1. job'[k] = [Close(job[k], "queued") EXCEPT !.due = TRUE] /\ delivered' = delivered
        BY <1>4, <3>1 DEF MaintainRequeue
      <4>2. job[k] \in Row /\ "queued" \in Statuses
        BY <1>0 DEF Statuses, Pending
      <4>3. /\ job'[k].status = "queued"
            /\ job'[k].kind = job[k].kind
            /\ job'[k].cancel = job[k].cancel
        BY <4>1, <4>2, CloseKeeps
      <4> QED
        BY <3>1, <4>1, <4>3 DEF Quiet, SameEntry, Expired, LedgerOutcome, Pending
    <3>2. CASE ~Expired(job[k])
      BY <1>4, <3>2 DEF MaintainRequeue, Quiet, SameEntry
    <3> QED
      BY <3>1, <3>2
  <2> QED
    BY <2>1, QuietStep DEF Step
<1> QED
  BY <1>1, <1>2, <1>3, <1>4 DEF Maintain

\* Every step of the queue is a step of the ledger or a stutter.
LEMMA LedgerStep ==
    ASSUME RowInv, ClaimsAreUnique, AbsentRows, [Next]_vars
    PROVE  Step
<1>0. TypeOK /\ job \in [Jobs -> Row]
  BY DEF RowInv, TypeOK
<1>1. CASE UNCHANGED <<job, delivered>>
  <2>1. \A k \in Jobs : Quiet(k)
    BY <1>1 DEF Quiet, SameEntry
  <2> QED
    BY <2>1, QuietStep DEF Step
<1>2. CASE Submit
  BY <1>0, <1>2, SubmitSteps
<1>3. CASE Cancel
  BY <1>0, <1>3, CancelSteps
<1>4. ASSUME NEW w \in Workers, RunOnce(w)
      PROVE  Step
  <2>1. ASSUME NEW j \in Jobs, Claim(w, j)
        PROVE  Step
    <3>1. job' = [job EXCEPT ![j] = Claimed(@, NextClaim(j))] /\ delivered' = delivered
      BY <2>1 DEF Claim
    <3>2. job[j].status = "queued"
      BY <2>1 DEF Claim, Claimable
    <3>3. /\ job'[j].status = "running"
          /\ job'[j].kind = job[j].kind
          /\ job'[j].cancel = job[j].cancel
      BY <1>0, <3>1 DEF Claimed, Row
    <3>4. \A k \in Jobs : Quiet(k)
      BY <1>0, <3>1, <3>2, <3>3 DEF Quiet, SameEntry, LedgerOutcome, Pending
    <3> QED
      BY <3>4, QuietStep DEF Step
  <2>2. ASSUME NEW o \in Outcomes, HandlerReturns(w, o)
        PROVE  Step
    BY <1>1, <2>2 DEF HandlerReturns
  <2>3. CASE LeaseLost(w)
    BY <1>1, <2>3 DEF LeaseLost
  <2>4. CASE Finish(w)
    BY <2>4, FinishSteps
  <2> QED
    BY <1>4, <2>1, <2>2, <2>3, <2>4 DEF RunOnce
<1>5. ASSUME NEW w \in Workers, RenewLease(w)
      PROVE  Step
  <2>1. \A k \in Jobs : Quiet(k)
    BY <1>0, <1>5 DEF RenewLease, Quiet, SameEntry, LedgerOutcome, Row
  <2> QED
    BY <2>1, QuietStep DEF Step
<1>6. ASSUME NEW w \in Workers, HandOff(w) \/ Crash(w)
      PROVE  Step
  BY <1>1, <1>6 DEF HandOff, Crash
<1>7. ASSUME NEW s \in Terminal, AgentCallback(s)
      PROVE  Step
  BY <1>7, CallbackSteps
<1>8. ASSUME NEW j \in Jobs, LeaseLapses(j) \/ BackoffElapses(j)
      PROVE  Step
  <2>1. \A k \in Jobs : Quiet(k)
    BY <1>0, <1>8 DEF LeaseLapses, BackoffElapses, Quiet, SameEntry, LedgerOutcome, Row
  <2> QED
    BY <2>1, QuietStep DEF Step
<1>9. CASE PlanEdited \/ MaintainCut
  BY <1>1, <1>9 DEF PlanEdited, MaintainCut
<1>10. CASE Maintain
  BY <1>10, MaintainSteps
<1>11. CASE UNCHANGED vars
  BY <1>1, <1>11 DEF vars
<1> QED
  BY <1>2, <1>3, <1>4, <1>5, <1>6, <1>7, <1>8, <1>9, <1>10, <1>11 DEF Next

-----------------------------------------------------------------------------
(* Rows that do not exist yet.                                             *)

\* No step touches the flags of a row that does not exist.
LEMMA AbsentStep ==
    ASSUME RowInv, AbsentRows, [Next]_vars
    PROVE  AbsentRows'
<1> SUFFICES ASSUME NEW i \in Jobs, job'[i].status = "absent"
             PROVE  ~job'[i].cancel /\ job'[i].kind = "none"
  BY DEF AbsentRows
<1>0. TypeOK /\ job \in [Jobs -> Row]
  BY DEF RowInv, TypeOK
<1>1. job[i].status = "absent" /\ job'[i].kind = job[i].kind
  <2>1. RowStep(i)
    BY RowSteps DEF RowInv
  <2> QED
    BY <2>1 DEF RowStep, Untouched, SameJob, Born, CancelledInQueue, Started, Stopped
<1>2. ~job[i].cancel /\ job[i].kind = "none"
  BY <1>1 DEF AbsentRows
<1> DEFINE Kept == job'[i].cancel = job[i].cancel
<1> SUFFICES Kept
  BY <1>1, <1>2
<1>3. CASE UNCHANGED job
  BY <1>3
<1>4. ASSUME NEW j \in Jobs, NEW row, Insert(j, row)
      PROVE  Kept \/ job'[i] = row
  BY <1>0, <1>4 DEF Insert
<1>5. CASE Submit
  <2>1. ASSUME NEW j \in Jobs, NEW k, NEW u, NEW max, NEW base, NEW c,
               Insert(j, NewRow(k, u, max, base, c))
        PROVE  Kept
    <3>1. NewRow(k, u, max, base, c).status = "queued"
      BY DEF NewRow, NoRow
    <3> QED
      BY <1>1, <1>4, <2>1, <3>1
  <2> QED
    BY <1>5, <2>1 DEF Submit, CreateJob, RetryJob, SubmitAgentRun
<1>6. CASE Cancel
  <2>1. CASE CancelWrite
    <3>1. CASE i = canceller.job /\ StillAsRead(job[i], canceller)
      <4>1. canceller.status = "absent"
        BY <1>1, <3>1 DEF StillAsRead
      <4> QED
        BY <1>0, <4>1 DEF TypeOK, Pending
    <3>2. CASE ~(i = canceller.job /\ StillAsRead(job[i], canceller))
      BY <1>0, <2>1, <3>2 DEF CancelWrite
    <3> QED
      BY <3>1, <3>2
  <2>2. ASSUME NEW j \in Jobs, CancelRead(j) \/ CancelRunJob(j)
        PROVE  Kept
    BY <1>0, <1>2, <2>2 DEF CancelRead, CancelRunJob
  <2> QED
    BY <1>6, <2>1, <2>2 DEF Cancel
<1>7. ASSUME NEW w \in Workers, RunOnce(w)
      PROVE  Kept
  <2>1. ASSUME NEW j \in Jobs, Claim(w, j)
        PROVE  Kept
    BY <1>0, <1>1, <2>1 DEF Claim, Claimable
  <2>2. ASSUME Finish(w)
        PROVE  Kept
    BY <1>0, <1>1, <2>2 DEF Finish, Fenced
  <2> QED
    BY <1>3, <1>7, <2>1, <2>2 DEF RunOnce, HandlerReturns, LeaseLost
<1>8. ASSUME NEW w \in Workers, RenewLease(w) \/ HandOff(w) \/ Crash(w)
      PROVE  Kept
  BY <1>0, <1>8 DEF RenewLease, HandOff, Crash, Row
<1>9. ASSUME NEW s \in Terminal, AgentCallback(s)
      PROVE  Kept
  BY <1>0, <1>1, <1>9 DEF AgentCallback, Fenced
<1>10. ASSUME NEW j \in Jobs, LeaseLapses(j) \/ BackoffElapses(j)
       PROVE  Kept
  BY <1>0, <1>10 DEF LeaseLapses, BackoffElapses, Row
<1>11. CASE Maintain
  <2>1. ~Expired(job[i])
    BY <1>1 DEF Expired
  <2> QED
    BY <1>0, <1>11, <2>1 DEF Maintain, MaintainBegin, MaintainFail, MaintainFailErrs,
       MaintainRequeue, Row
<1>12. CASE PlanEdited \/ MaintainCut \/ UNCHANGED vars
  BY <1>3, <1>12 DEF PlanEdited, MaintainCut, vars
<1> QED
  BY <1>5, <1>6, <1>7, <1>8, <1>9, <1>10, <1>11, <1>12 DEF Next

\* The queue starts as the ledger does.
LEMMA LedgerStart == Init => Ledger!LedgerInit /\ AbsentRows /\ ClaimsAreUnique
<1> SUFFICES ASSUME Init
             PROVE  Ledger!LedgerInit /\ AbsentRows /\ ClaimsAreUnique
  OBVIOUS
<1>1. \A j \in Jobs : job[j] = NoRow /\ delivered[j] = 0
  BY DEF Init
<1>2. \A j \in Jobs : /\ job[j].status = "absent" /\ ~job[j].cancel /\ job[j].kind = "none"
                      /\ ~(delivered[j] > 0)
  BY <1>1 DEF NoRow
<1>3. \A j \in Jobs : LedgerOutcome(job[j]) = "none" /\ ~Materializes(job[j].kind)
  BY <1>2 DEF LedgerOutcome, Pending, Materializes
<1>4. ClaimsAreUnique
  BY DEF Init, ClaimsAreUnique, Idle, NoRow
<1> QED
  BY <1>2, <1>3, <1>4 DEF Ledger!LedgerInit, AbsentRows

\* The queue implements the ledger (worker.go, jobservice.go, scheduler.go:
\* whatever leases, requeues and racing finishers do, each job is resolved once
\* and delivers in that step).
THEOREM Refinement == Spec => ImplementsLedger
<1>1. RowInv /\ ClaimsAreUnique /\ AbsentRows /\ [Next]_vars => [Ledger!LedgerNext]_(Ledger!ledger)
  BY LedgerStep DEF Step
<1> QED
  BY <1>1, LedgerStart, RowInvariant, ClaimsStep, AbsentStep, PTL
  DEF Spec, ImplementsLedger, Ledger!LedgerSpec

=============================================================================
