------------------------------ MODULE JobLedger ------------------------------
(***************************************************************************)
(* What the job queue promises its users, without leases, attempts,        *)
(* workers or a scheduler: a job is submitted once, may be withdrawn, and  *)
(* is resolved once; its result is delivered in the step that resolves it  *)
(* as succeeded, and a withdrawn job is never resolved as succeeded.       *)
(***************************************************************************)
CONSTANT Jobs

VARIABLES
    outcome,    \* "none" before the job exists, then "open", then its outcome
    withdrawn,  \* the jobs whose cancellation has been recorded
    bearing,    \* the jobs whose success delivers a result
    results     \* the jobs whose result has been delivered

ledger == <<outcome, withdrawn, bearing, results>>

LedgerInit ==
    /\ outcome = [j \in Jobs |-> "none"]
    /\ withdrawn = {}
    /\ bearing = {}
    /\ results = {}

\* Only some jobs bear a result, and a resubmission of a withdrawn job may be
\* born withdrawn.
Submitted(j) ==
    /\ outcome[j] = "none"
    /\ outcome' = [outcome EXCEPT ![j] = "open"]
    /\ withdrawn' \in {withdrawn, withdrawn \cup {j}}
    /\ bearing' \in {bearing, bearing \cup {j}}
    /\ UNCHANGED results

\* A job nobody works on is cancelled at once.
Withdrawn(j) ==
    /\ outcome[j] # "none"
    /\ \/ UNCHANGED outcome
       \/ outcome[j] = "open" /\ outcome' = [outcome EXCEPT ![j] = "cancelled"]
    /\ withdrawn' = withdrawn \cup {j}
    /\ UNCHANGED <<bearing, results>>

Succeeds(j) ==
    /\ outcome[j] = "open"
    /\ j \notin withdrawn
    /\ outcome' = [outcome EXCEPT ![j] = "succeeded"]
    /\ results' = IF j \in bearing THEN results \cup {j} ELSE results
    /\ UNCHANGED <<withdrawn, bearing>>

Ends(j) ==
    /\ outcome[j] = "open"
    /\ outcome' \in {[outcome EXCEPT ![j] = o] : o \in {"failed", "cancelled"}}
    /\ UNCHANGED <<withdrawn, bearing, results>>

\* One maintenance pass may give up on several jobs at once.
GivenUp(S) ==
    /\ \A j \in S : outcome[j] = "open"
    /\ outcome' = [j \in Jobs |-> IF j \in S THEN "failed" ELSE outcome[j]]
    /\ UNCHANGED <<withdrawn, bearing, results>>

LedgerNext ==
    \/ \E j \in Jobs : Submitted(j) \/ Withdrawn(j) \/ Succeeds(j) \/ Ends(j)
    \/ \E S \in SUBSET Jobs : GivenUp(S)

LedgerSpec == LedgerInit /\ [][LedgerNext]_ledger

=============================================================================
