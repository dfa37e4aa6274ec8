------------------------------ MODULE Approval ------------------------------
(***************************************************************************)
(* The approval of proposals: a tool call of a harness run stages a        *)
(* proposal and parks the run; the user's receipts apply or reject it,     *)
(* possibly from several windows and server processes; the host waits on a *)
(* long poll that may time out; and the goal's own pages decide the same   *)
(* proposals without knowing of the run (application/agentapproval.go,     *)
(* approval_guard.go, approval_recovery.go, harnesstools.go).              *)
(*                                                                         *)
(* The row of the run is module HarnessRun's; here any of its steps that   *)
(* may end the run is RunEnds.  Time is left out: a deadline may have      *)
(* passed whenever it is tested.                                           *)
(***************************************************************************)
EXTENDS Integers, FiniteSets

CONSTANTS
    Calls,    \* the proposal tool calls of the run
    Windows,  \* receipts in flight: windows, retries
    Service   \* the server process that handles each window's receipts

ASSUME ApprovalAssumption == DOMAIN Service = Windows

Terminal == {"succeeded", "failed", "cancelled", "interrupted"}

Run == [status: {"running", "awaiting_approval", "cancelling"} \cup Terminal, cancel: BOOLEAN]

\* A tool-call part: "staging" and "lost" stand for a claimed call that has no
\* approval_status yet, or never will.
Part == [approval: {"none", "staging", "lost", "pending", "approved", "rejected", "conflict",
                    "timeout"},
         result: {"none", "proposed", "applied", "rejected", "conflict", "timeout"}]

\* A receipt: where ResolveApproval stands.
NoReceipt == [at |-> "idle"]

Receipt == {NoReceipt} \cup
    [at: {"received", "checked", "failed", "applied", "release"}, call: Calls, approve: BOOLEAN]

Answers == {"none", "approved", "rejected", "conflict", "timeout", "cancelled", "ended"}

VARIABLES
    run,       \* the row of agent_runs
    part,      \* the tool-call part of each call
    proposal,  \* the status of the proposal each call staged
    moved,     \* the calls whose proposal is based on an old revision
    changes,   \* history: how often each proposal changed the business tables
    receipt,   \* the ResolveApproval of each window
    waiter,    \* the WaitForApproval of each call
    told,      \* history: what the host was last told about each call
    lost       \* history: whether a request that was to move the run was cut off

vars == <<run, part, proposal, moved, changes, receipt, waiter, told, lost>>

TypeOK ==
    /\ run \in Run
    /\ part \in [Calls -> Part]
    /\ proposal \in [Calls -> {"none", "pending", "applied", "rejected", "conflict"}]
    /\ moved \in SUBSET Calls
    /\ changes \in [Calls -> Nat]
    /\ receipt \in [Windows -> Receipt]
    /\ waiter \in [Calls -> {"idle", "polling", "undecided", "expired", "resulted", "marked"}]
    /\ told \in [Calls -> Answers]
    /\ lost \in BOOLEAN

Init ==
    /\ run = [status |-> "running", cancel |-> FALSE]
    /\ part = [c \in Calls |-> [approval |-> "none", result |-> "none"]]
    /\ proposal = [c \in Calls |-> "none"]
    /\ moved = {}
    /\ changes = [c \in Calls |-> 0]
    /\ receipt = [w \in Windows |-> NoReceipt]
    /\ waiter = [c \in Calls |-> "idle"]
    /\ told = [c \in Calls |-> "none"]
    /\ lost = FALSE

Pending(c) == part[c].approval = "pending"

-----------------------------------------------------------------------------
(* The tool call.                                                           *)

MayPark == ~run.cancel /\ run.status \in {"running", "awaiting_approval"}

\* ExecuteHarnessTool of a proposal tool: the call is claimed and the proposal
\* is written in a statement of its own, based on what the model has read.
StageProposal(c) ==
    /\ part[c].approval = "none"
    /\ MayPark
    /\ part' = [part EXCEPT ![c].approval = "staging"]
    /\ proposal' = [proposal EXCEPT ![c] = "pending"]
    /\ moved' \in {moved, moved \cup {c}}
    /\ UNCHANGED <<run, changes, receipt, waiter, told, lost>>

\* commitPendingApproval: run and part in one transaction.
CommitPendingApproval(c) ==
    /\ part[c].approval = "staging"
    /\ MayPark
    /\ run' = [run EXCEPT !.status = "awaiting_approval"]
    /\ part' = [part EXCEPT ![c] = [approval |-> "pending", result |-> "proposed"]]
    /\ UNCHANGED <<proposal, moved, changes, receipt, waiter, told, lost>>

\* The run may not be parked any more, or the host hung up in between: the
\* proposal stays behind without a part.
ParkRefused(c) ==
    /\ part[c].approval = "staging"
    /\ part' = [part EXCEPT ![c].approval = "lost"]
    /\ UNCHANGED <<run, proposal, moved, changes, receipt, waiter, told, lost>>

-----------------------------------------------------------------------------
(* ResolveApproval.                                                         *)

\* The mutex of a server process.
MutexFree(w) == \A v \in Windows : Service[v] = Service[w] => receipt[v].at = "idle"

Moves(w, at) == receipt' = [receipt EXCEPT ![w].at = at]

Leaves(w) == receipt' = [receipt EXCEPT ![w] = NoReceipt]

\* The part and the run are read; a browser that was restored asks first to
\* take the run away from its lost host.
ReceiveReceipt(w, c, approve, detach) ==
    /\ MutexFree(w)
    /\ Pending(c)
    /\ ~run.cancel
    /\ run.status \in {"awaiting_approval", "interrupted"}
    /\ receipt' = [receipt EXCEPT ![w] =
          [at |-> IF detach /\ run.status = "awaiting_approval" THEN "received" ELSE "checked",
           call |-> c, approve |-> approve]]
    /\ UNCHANGED <<run, part, proposal, moved, changes, waiter, told, lost>>

MayDetach(c) ==
    /\ ~run.cancel
    /\ run.status = "awaiting_approval"
    /\ Pending(c)
    /\ proposal[c] = "pending"

\* detachPendingBrowserApproval
Detach(w) ==
    /\ receipt[w].at = "received"
    /\ IF MayDetach(receipt[w].call)
       THEN /\ run' = [run EXCEPT !.status = "interrupted"]
            /\ Moves(w, "checked")
       ELSE /\ Leaves(w)
            /\ UNCHANGED run
    /\ UNCHANGED <<part, proposal, moved, changes, waiter, told, lost>>

GuardApprovalTx_NoCancel(c) ==
    /\ run.status \in {"awaiting_approval", "interrupted", "cancelling"}
    /\ Pending(c)

\* Re-read under the write lock, whatever the preflight checks saw.
GuardApprovalTx(c) ==
    /\ ~run.cancel
    /\ run.status \in {"awaiting_approval", "interrupted"}
    /\ Pending(c)

\* The proposal row as the applying transaction reads it.
Undecided(c) == proposal[c] = "pending"

\* An applied proposal moves the revision every other one is based on.
ApplyChanges(c) ==
    /\ proposal' = [proposal EXCEPT ![c] = "applied"]
    /\ changes' = [changes EXCEPT ![c] = @ + 1]
    /\ moved' = {d \in Calls : d \in moved \/ (d # c /\ proposal[d] # "none")}

\* The transaction that applies the proposal and records the bare receipt.
ApplyProposal(w) ==
    LET c == receipt[w].call IN
    /\ receipt[w].at = "checked" /\ receipt[w].approve
    /\ GuardApprovalTx(c)
    /\ Undecided(c)
    /\ c \notin moved
    /\ ApplyChanges(c)
    /\ part' = [part EXCEPT ![c] = [approval |-> "approved", result |-> "applied"]]
    /\ Moves(w, "applied")
    /\ UNCHANGED <<run, waiter, told, lost>>

\* A receipt that came too late is turned away; one whose proposal was not
\* found pending before the transaction too.
ReceiptRefused(w) ==
    LET c == receipt[w].call IN
    /\ receipt[w].at = "checked"
    /\ ~GuardApprovalTx(c) \/ proposal[c] # "pending"
    /\ Leaves(w)
    /\ UNCHANGED <<run, part, proposal, moved, changes, waiter, told, lost>>

\* Anything else that stops the application is a conflict: a basis that moved,
\* or a proposal that was decided after it was read.
ApplyFails(w) ==
    LET c == receipt[w].call IN
    /\ receipt[w].at = "checked" /\ receipt[w].approve
    /\ GuardApprovalTx(c)
    /\ proposal[c] # "pending" \/ c \in moved
    /\ Moves(w, "failed")
    /\ UNCHANGED <<run, part, proposal, moved, changes, waiter, told, lost>>

RecordConflict(w) ==
    LET c == receipt[w].call IN
    /\ receipt[w].at = "failed"
    /\ IF Pending(c)
       THEN /\ part' = [part EXCEPT ![c] = [approval |-> "conflict", result |-> "conflict"]]
            /\ proposal' = [proposal EXCEPT ![c] = IF @ = "pending" THEN "conflict" ELSE @]
       ELSE UNCHANGED <<part, proposal>>
    /\ Moves(w, "release")
    /\ UNCHANGED <<run, moved, changes, waiter, told, lost>>

RejectionHolds_PartOnly(c) == GuardApprovalTx(c)

\* The rejection must find the proposal itself pending.
RejectionHolds(c) == GuardApprovalTx(c) /\ proposal[c] = "pending"

RejectProposal(w) ==
    LET c == receipt[w].call IN
    /\ receipt[w].at = "checked" /\ ~receipt[w].approve
    /\ RejectionHolds(c)
    /\ proposal' = [proposal EXCEPT ![c] = IF @ = "pending" THEN "rejected" ELSE @]
    /\ part' = [part EXCEPT ![c] = [approval |-> "rejected", result |-> "rejected"]]
    /\ Moves(w, "release")
    /\ UNCHANGED <<run, moved, changes, waiter, told, lost>>

\* recordApproval: the detailed receipt, unless the part has moved on.
RecordApproval(w) ==
    LET c == receipt[w].call IN
    /\ receipt[w].at = "applied"
    /\ IF part[c].approval \in {"pending", "approved"}
       THEN /\ part' = [part EXCEPT ![c] = [approval |-> "approved", result |-> "applied"]]
            /\ Moves(w, "release")
       ELSE /\ Leaves(w)
            /\ UNCHANGED part
    /\ UNCHANGED <<run, proposal, moved, changes, waiter, told, lost>>

MayContinue == run.status \notin Terminal /\ ~run.cancel

StatusAfter_Running == "running"
StatusAfter_CountsConflicts ==
    IF \E c \in Calls : part[c].approval \in {"pending", "conflict"}
    THEN "awaiting_approval" ELSE "running"

\* setApprovalRunStatus counts what is still pending in its transaction.
StatusAfter == IF \E c \in Calls : Pending(c) THEN "awaiting_approval" ELSE "running"

ReleaseRun(w) ==
    /\ receipt[w].at = "release"
    /\ run' = [run EXCEPT !.status = IF MayContinue THEN StatusAfter ELSE @]
    /\ Leaves(w)
    /\ UNCHANGED <<part, proposal, moved, changes, waiter, told, lost>>

-----------------------------------------------------------------------------
(* WaitForApproval, the host's long poll.                                   *)

StartWait(c) ==
    /\ waiter[c] = "idle"
    /\ run.status \notin Terminal
    /\ part[c].approval \notin {"none", "staging", "lost"}
    /\ waiter' = [waiter EXCEPT ![c] = "polling"]
    /\ UNCHANGED <<run, part, proposal, moved, changes, receipt, told, lost>>

Tell(c, answer) ==
    /\ waiter' = [waiter EXCEPT ![c] = "idle"]
    /\ told' = [told EXCEPT ![c] = answer]

\* readApprovalDecision; a conflict of the proposal counts as a decision.
ReadApprovalDecision(c) ==
    /\ waiter[c] = "polling"
    /\ IF Pending(c) /\ proposal[c] # "conflict"
       THEN /\ waiter' = [waiter EXCEPT ![c] = "undecided"]
            /\ UNCHANGED told
       ELSE Tell(c, IF Pending(c) THEN "conflict" ELSE part[c].approval)
    /\ UNCHANGED <<run, part, proposal, moved, changes, receipt, lost>>

\* The run is read after the decision; approval_started_at is set while the
\* run is parked.  Otherwise another round, or the next segment.
ReadRun(c, late) ==
    /\ waiter[c] = "undecided"
    /\ \/ run.status = "cancelling" /\ Tell(c, "cancelled")
       \/ run.status \in Terminal /\ Tell(c, "ended")
       \/ /\ run.status \in {"running", "awaiting_approval"}
          /\ waiter' = [waiter EXCEPT ![c] =
                IF late /\ run.status = "awaiting_approval" THEN "expired" ELSE "polling"]
          /\ UNCHANGED told
    /\ UNCHANGED <<run, part, proposal, moved, changes, receipt, lost>>

\* timeoutApproval: three statements, none of which looks at the part again.
TimeoutResult(c) ==
    /\ waiter[c] = "expired"
    /\ part' = [part EXCEPT ![c].result = "timeout"]
    /\ waiter' = [waiter EXCEPT ![c] = "resulted"]
    /\ UNCHANGED <<run, proposal, moved, changes, receipt, told, lost>>

TimeoutApproval(c) ==
    /\ waiter[c] = "resulted"
    /\ part' = [part EXCEPT ![c].approval = "timeout"]
    /\ waiter' = [waiter EXCEPT ![c] = "marked"]
    /\ UNCHANGED <<run, proposal, moved, changes, receipt, told, lost>>

FinishRun(s) ==
    run' = [run EXCEPT !.status = IF @ \in Terminal THEN @
                                  ELSE IF run.cancel THEN "cancelled" ELSE s]

TimeoutFinishesRun(c) ==
    /\ waiter[c] = "marked"
    /\ FinishRun("failed")
    /\ Tell(c, "timeout")
    /\ UNCHANGED <<part, proposal, moved, changes, receipt, lost>>

-----------------------------------------------------------------------------
(* The goal's pages, and everyone else.                                     *)

\* POST .../task-tree/proposals/{id}/application: no run, no part.
PageApplies(c) ==
    /\ proposal[c] = "pending"
    /\ c \notin moved
    /\ ApplyChanges(c)
    /\ UNCHANGED <<run, part, receipt, waiter, told, lost>>

\* PUT .../task-tree/proposals/{id}/rejection
PageRejects(c) ==
    /\ proposal[c] = "pending"
    /\ proposal' = [proposal EXCEPT ![c] = "rejected"]
    /\ UNCHANGED <<run, part, moved, changes, receipt, waiter, told, lost>>

\* Any edit of the goal's tree.
TreeEdited ==
    /\ moved' = {c \in Calls : proposal[c] # "none"}
    /\ UNCHANGED <<run, part, proposal, changes, receipt, waiter, told, lost>>

RequestCancellation ==
    /\ run.status \in {"running", "awaiting_approval"}
    /\ run' = [status |-> "cancelling", cancel |-> TRUE]
    /\ UNCHANGED <<part, proposal, moved, changes, receipt, waiter, told, lost>>

\* The callers of finishRun outside this module, and a worker's restart.
RunEnds(s) ==
    /\ run.status \notin Terminal
    /\ FinishRun(s)
    /\ UNCHANGED <<part, proposal, moved, changes, receipt, waiter, told, lost>>

\* A receipt that will release the run; a timeout that will end it.
Releasing(w) ==
    \/ receipt[w].at \in {"failed", "release"}
    \/ receipt[w].at = "applied" /\ part[receipt[w].call].approval \in {"pending", "approved"}

TimingOut(c) == waiter[c] \in {"expired", "resulted", "marked"}

\* The server process dies between any two of its transactions.
APICrash ==
    /\ receipt' = [w \in Windows |-> NoReceipt]
    /\ waiter' = [c \in Calls |-> "idle"]
    /\ part' = [c \in Calls |-> IF part[c].approval = "staging"
                                THEN [part[c] EXCEPT !.approval = "lost"] ELSE part[c]]
    /\ lost' = (lost \/ (\E w \in Windows : Releasing(w)) \/ \E c \in Calls : TimingOut(c))
    /\ UNCHANGED <<run, proposal, moved, changes, told>>
    /\ vars' # vars

\* A receipt and a long poll live no longer than their HTTP request, whose context
\* every statement runs under: a browser or a host that hangs up stops them
\* between any two of their transactions.
RequestCut(w) ==
    /\ receipt[w].at # "idle"
    /\ Leaves(w)
    /\ lost' = (lost \/ Releasing(w))
    /\ UNCHANGED <<run, part, proposal, moved, changes, waiter, told>>

WaitCut(c) ==
    /\ waiter[c] # "idle"
    /\ waiter' = [waiter EXCEPT ![c] = "idle"]
    /\ lost' = (lost \/ TimingOut(c))
    /\ UNCHANGED <<run, part, proposal, moved, changes, receipt, told>>

-----------------------------------------------------------------------------

Cut == (\E w \in Windows : RequestCut(w)) \/ \E c \in Calls : WaitCut(c)

ToolStep(c) == StageProposal(c) \/ CommitPendingApproval(c) \/ ParkRefused(c)

\* What a handler that has begun does next.
ResolveStep(w) ==
    \/ Detach(w) \/ ApplyProposal(w) \/ ReceiptRefused(w) \/ ApplyFails(w)
    \/ RecordConflict(w) \/ RejectProposal(w) \/ RecordApproval(w) \/ ReleaseRun(w)

TimeoutStep(c) == TimeoutResult(c) \/ TimeoutApproval(c) \/ TimeoutFinishesRun(c)

WaitStep(c) ==
    \/ StartWait(c) \/ ReadApprovalDecision(c)
    \/ \E late \in BOOLEAN : ReadRun(c, late)
    \/ TimeoutStep(c)

PageStep(c) == PageApplies(c) \/ PageRejects(c)

Core ==
    \/ \E c \in Calls : ToolStep(c) \/ WaitStep(c)
    \/ \E w \in Windows, c \in Calls, approve, detach \in BOOLEAN :
          ReceiveReceipt(w, c, approve, detach)
    \/ \E w \in Windows : ResolveStep(w)
    \/ Cut
    \/ TreeEdited
    \/ RequestCancellation

\* A server that does not die, a run nothing else ends.
NextUp == Core \/ \E c \in Calls : PageStep(c)

Next ==
    \/ NextUp
    \/ \E s \in Terminal \ {"cancelled"} : RunEnds(s)
    \/ APICrash

Spec == Init /\ [][Next]_vars

UpSpec == Init /\ [][NextUp]_vars

-----------------------------------------------------------------------------
(* Safety.                                                                  *)

\* Whoever decides - two windows, two server processes, a page of the goal, a
\* receipt repeated after a crash - a proposal changes the business tables at
\* most once, and never once it was rejected (applyProposalTx, RejectProposal).
DecidedOnce ==
    \A c \in Calls : changes[c] = IF proposal[c] = "applied" THEN 1 ELSE 0

\* The transcript and the host never report a decision that did not happen: an
\* approval stands for a change that was made, a rejection for one that was
\* not and will not be (recordAppliedApprovalTx, ResolveApproval's rejection).
ReceiptTellsTruth ==
    \A c \in Calls :
        /\ "approved" \in {part[c].approval, told[c]} => changes[c] = 1
        /\ "rejected" \in {part[c].approval, told[c]} => proposal[c] = "rejected"

\* Resolving one call never releases a run whose other proposals wait for the
\* user: no model turn starts while a decision is open (setApprovalRunStatus).
RunningMeansDecided ==
    run.status = "running" => \A c \in Calls : ~Pending(c)

\* A cancelled run's receipt is never applied, however the cancellation falls
\* between the checks of ResolveApproval and its transaction (guardApprovalTx).
CancelBlocksReceipt ==
    [][\A w \in Windows :
          receipt'[w].at # receipt[w].at /\ changes' # changes => ~run.cancel]_vars

\* A run that is parked although no call waits for the user, and that no request
\* is about to move.
Stranded ==
    /\ run.status = "awaiting_approval"
    /\ \A c \in Calls : ~Pending(c) /\ ~TimingOut(c)
    /\ \A w \in Windows : ~Releasing(w)

\* The decisions of several windows and servers, conflicts and timeouts hand the
\* run on to one another: whatever decides its last call, a request is left that
\* releases or ends the run.  It stays parked with nothing to wait for - until the
\* approval deadline - only when that request was cut off or its server died
\* (releaseHarnessRun, continueHarnessRun, timeoutApproval).
OnlyALossStrands == Stranded => lost

\* Refinement.
Ledger == INSTANCE RunLedger WITH
    Proposals <- Calls,
    status    <- run.status,
    cancelled <- run.cancel,
    open      <- {c \in Calls : Pending(c)}

\* Receipts of several windows and servers, timeouts, conflicts and pages leave
\* the run on the same course as the hosts do: released by the last decision, and
\* never once it is cancelled or has ended (releaseHarnessRun, timeoutApproval).
ImplementsRunLedger == Ledger!LedgerSpec

\* What approval_guard.go says of a receipt recorded with the changes: it is
\* not lost afterwards.
AppliedReceiptIsKept ==
    [][\A c \in Calls : part[c].result = "applied" => part'[c].result = "applied"]_vars

=============================================================================
