----------------------------- MODULE HarnessRun -----------------------------
(***************************************************************************)
(* One agent run driven by a harness host: the agent_runs row, the         *)
(* capability tokens that say which host may drive it, the model streams   *)
(* the server proxies for the host, the tool calls it executes, and        *)
(* everything that may end the run: the host's completion, the user's      *)
(* cancellation, a failing stream, the reaper and a worker restart         *)
(* (application/harness*.go, persistence/harness*.go).                     *)
(*                                                                         *)
(* A transaction or a single UPDATE is one step; a decision taken on a     *)
(* row read before the finishing transaction is a step of its own, so a    *)
(* pending finishRun is part of its caller's state.  Approvals appear as   *)
(* their effect on the run; module Approval has them in detail.            *)
(***************************************************************************)
EXTENDS Integers, FiniteSets

CONSTANTS
    Hosts,        \* browser tabs, or the worker that drives the sidecar
    Modes,        \* the harness modes of this instance, a subset of AllModes
    MaxTokens,    \* bound on the tokens of a behaviour
    MaxAttempts,  \* limits.MaxAttempts: model attempts of a run
    MaxTurns      \* limits.MaxTurns: model responses of a run

AllModes == {"wasm", "sidecar"}

ASSUME HarnessAssumption ==
    /\ Modes \subseteq AllModes
    /\ MaxTokens \in Nat
    /\ MaxAttempts \in Nat \ {0}
    /\ MaxTurns \in Nat \ {0}

Tokens == 1..MaxTokens
Turns == 1..MaxTurns

Active == {"queued", "running", "awaiting_approval", "cancelling"}
Terminal == {"succeeded", "failed", "cancelled", "interrupted"}

\* A status some caller is about to hand to finishRun.
Ending == Terminal \cup {"none"}

Run == [mode: AllModes, status: Active \cup Terminal, cancel: BOOLEAN, detached: BOOLEAN,
        inflight: Nat, attempts: Nat, calls: Nat, verified: BOOLEAN]

\* A row of agent_harness_tokens: "live" and "expired" are not revoked,
\* "rotating" is revoked but inside rotation_until.  silent says that the last
\* beat of a token that is not revoked is older than the heartbeat timeout.
Token == [state: {"none", "live", "expired", "rotating", "revoked", "deleted"},
          generation: 0..MaxTokens, next: 0..MaxTokens, silent: BOOLEAN]

NoToken == [state |-> "none", generation |-> 0, next |-> 0, silent |-> FALSE]

Stream == [phase: {"none", "opening", "streaming", "failing", "done", "closing"},
           attempt: Nat, ending: Ending]

NoStream == [phase |-> "none", attempt |-> 0, ending |-> "none"]

VARIABLES
    run,         \* the row of agent_runs
    token,       \* agent_harness_tokens of the run
    held,        \* the token each host presents, 0 for none
    stream,      \* the model stream the server proxies for each host
    tool,        \* the tool call of each model response
    executing,   \* the tool calls a handler is executing
    ran,         \* history: how often each tool call was executed
    answered,    \* history: whether a model stream ended with a verified stop
    completing,  \* what the CompleteRun (or worker) of each host is about to write
    user,        \* where RequestCancellation stands
    approver,    \* whether a decided approval has still to release the run
    reaper       \* where ReapHarnessRuns stands

vars == <<run, token, held, stream, tool, executing, ran, answered, completing, user,
          approver, reaper>>

Idle == [at |-> "idle", stale |-> FALSE, ending |-> "none"]

TypeOK ==
    /\ run \in Run
    /\ token \in [Tokens -> Token]
    /\ held \in [Hosts -> 0..MaxTokens]
    /\ stream \in [Hosts -> Stream]
    /\ tool \in [Turns -> {"none", "ready", "claimed", "done", "pending", "decided"}]
    /\ executing \in SUBSET Turns
    /\ ran \in [Turns -> Nat]
    /\ answered \in BOOLEAN
    /\ completing \in [Hosts -> Ending]
    /\ user \in {"idle", "flagged", "closing"}
    /\ approver \in {"idle", "decided"}
    /\ reaper \in [at: {"idle", "cut", "approvals", "stale", "cancelling"},
                   stale: BOOLEAN, ending: Ending]

Init ==
    /\ run \in [mode: Modes, status: {"queued"}, cancel: {FALSE}, detached: {FALSE},
                inflight: {0}, attempts: {0}, calls: {0}, verified: {FALSE}]
    /\ token = [t \in Tokens |-> NoToken]
    /\ held = [h \in Hosts |-> 0]
    /\ stream = [h \in Hosts |-> NoStream]
    /\ tool = [c \in Turns |-> "none"]
    /\ executing = {}
    /\ ran = [c \in Turns |-> 0]
    /\ answered = FALSE
    /\ completing = [h \in Hosts |-> "none"]
    /\ user = "idle"
    /\ approver = "idle"
    /\ reaper = Idle

-----------------------------------------------------------------------------
(* Tokens.                                                                  *)

Valid(t) == t \in Tokens /\ token[t].state \in {"live", "rotating"}
Unrevoked(t) == token[t].state \in {"live", "expired"}
HasRow(t) == token[t].state \notin {"none", "deleted"}
Live == {t \in Tokens : token[t].state = "live"}

\* The id the next token gets.
Fresh(t) == token[t].state = "none" /\ \A u \in Tokens : u < t => token[u].state # "none"

\* The row of a token that cannot be used or renewed any more.
Void(r, s) == [state |-> s, generation |-> r.generation, next |-> 0, silent |-> FALSE]

RevokeAll_KeepRotation ==
    [t \in Tokens |-> IF Unrevoked(t) THEN Void(token[t], "revoked") ELSE token[t]]

\* RevokeHarnessTokensForRun: every row, those in rotation included.
RevokeAll ==
    [t \in Tokens |-> IF HasRow(t) THEN Void(token[t], "revoked") ELSE token[t]]

\* issueRunGrant.  A browser tab may ask again at any time; the job of a
\* sidecar run has a single attempt.  The host may miss the answer.
IssueRunGrant(h, t) ==
    /\ run.status \in Active
    /\ ~run.cancel
    /\ run.mode = "sidecar" => \A u \in Tokens : token[u].state = "none"
    /\ Fresh(t)
    /\ token' = [RevokeAll EXCEPT ![t] = [state |-> "live", generation |-> t,
                                          next |-> 0, silent |-> FALSE]]
    /\ held' \in {held, [held EXCEPT ![h] = t]}
    /\ run' = [run EXCEPT !.status = IF @ = "queued" THEN "running" ELSE @]
    /\ UNCHANGED <<stream, tool, executing, ran, answered, completing, user, approver, reaper>>

\* HarnessHeartbeat of a token that is not revoked.
BeatHarnessToken(h) ==
    /\ held[h] \in Live
    /\ token' = [token EXCEPT ![held[h]].silent = FALSE]
    /\ UNCHANGED <<run, held, stream, tool, executing, ran, answered, completing, user,
                   approver, reaper>>

\* The token an earlier rotation of t has stored in next_token_cipher.
Successor(t) == token[t].next

\* renewToken: a heartbeat in the last ten minutes of a token, or in its
\* rotation window; a second one gets the successor the first one made.
RenewToken(h, n) ==
    LET t == held[h] IN
    /\ Valid(t)
    /\ IF Successor(t) # 0
       THEN /\ n = Successor(t)
            /\ token' = [token EXCEPT ![n].silent = IF n \in Live THEN FALSE ELSE @]
       ELSE /\ Fresh(n)
            /\ token' = [token EXCEPT
                  ![n] = [state |-> "live", generation |-> token[t].generation,
                          next |-> 0, silent |-> FALSE],
                  ![t] = [Void(@, "rotating") EXCEPT !.next = n]]
    /\ held' \in {held, [held EXCEPT ![h] = n]}
    /\ UNCHANGED <<run, stream, tool, executing, ran, answered, completing, user, approver,
                   reaper>>

Silence(t) ==
    /\ Unrevoked(t) /\ ~token[t].silent
    /\ token' = [token EXCEPT ![t].silent = TRUE]
    /\ UNCHANGED <<run, held, stream, tool, executing, ran, answered, completing, user,
                   approver, reaper>>

\* The end of a token's life, or of its rotation window.
Expire(t) ==
    /\ Valid(t)
    /\ token' = [token EXCEPT ![t] = IF t \in Live THEN [@ EXCEPT !.state = "expired"]
                                     ELSE Void(@, "revoked")]
    /\ UNCHANGED <<run, held, stream, tool, executing, ran, answered, completing, user,
                   approver, reaper>>

\* DeleteExpiredHarnessTokens is one statement for all rows: an older token
\* expires, and was revoked, before a newer one.
PruneHarnessToken(t) ==
    /\ token[t].state \in {"expired", "revoked"}
    /\ \A u \in Tokens : u < t => ~Valid(u)
    /\ token' = [u \in Tokens |-> IF u <= t /\ HasRow(u) THEN Void(token[u], "deleted")
                                 ELSE token[u]]
    /\ UNCHANGED <<run, held, stream, tool, executing, ran, answered, completing, user,
                   approver, reaper>>

HostDies(h) ==
    /\ held[h] # 0
    /\ held' = [held EXCEPT ![h] = 0]
    /\ UNCHANGED <<run, token, stream, tool, executing, ran, answered, completing, user,
                   approver, reaper>>

-----------------------------------------------------------------------------
(* finishRun: the first caller ends the run; a recorded cancellation        *)
(* decides the status whatever the caller wanted.                           *)

EndStatus_AsAsked(s) == s

EndStatus(s) == IF run.cancel THEN "cancelled" ELSE s

FinishRun(s) ==
    IF run.status \in Terminal THEN UNCHANGED <<run, token>>
    ELSE /\ run' = [run EXCEPT !.status = EndStatus(s)]
         /\ token' = RevokeAll

-----------------------------------------------------------------------------
(* The model proxy.                                                         *)

\* OpenModelProxy refuses a run that has used up a budget, and ends it.
OpenRefused(h) ==
    /\ stream[h].phase = "none"
    /\ Valid(held[h])
    /\ run.status \in Active
    /\ ~run.cancel
    /\ run.calls >= MaxTurns \/ run.attempts >= MaxAttempts
    /\ stream' = [stream EXCEPT ![h] = [phase |-> "closing", attempt |-> 0, ending |-> "failed"]]
    /\ UNCHANGED <<run, token, held, tool, executing, ran, answered, completing, user,
                   approver, reaper>>

AttemptFree_Ignored == TRUE

AttemptFree == run.inflight = 0

\* The compare-and-set that reserves the run's one model attempt.
AcquireModelAttempt(h) ==
    /\ stream[h].phase = "none"
    /\ Valid(held[h])
    /\ run.status = "running"
    /\ ~run.cancel
    /\ AttemptFree
    /\ run.attempts < MaxAttempts
    /\ run.calls < MaxTurns
    /\ run' = [run EXCEPT !.verified = FALSE, !.inflight = run.attempts + 1, !.attempts = @ + 1]
    /\ stream' = [stream EXCEPT ![h] = [phase |-> "opening", attempt |-> run.attempts + 1,
                                        ending |-> "none"]]
    /\ UNCHANGED <<token, held, tool, executing, ran, answered, completing, user, approver,
                   reaper>>

\* openModelProxy: the provider answers; or it refuses; or the run cannot go
\* on (wall clock, a model without tools) and is ended before the release.
ProviderAnswers(h) ==
    /\ stream[h].phase = "opening"
    /\ \E p \in {"streaming", "done", "failing"} :
          stream' = [stream EXCEPT ![h].phase = p,
                                   ![h].ending = IF p = "failing" THEN "failed" ELSE "none"]
    /\ UNCHANGED <<run, token, held, tool, executing, ran, answered, completing, user,
                   approver, reaper>>

\* harnessTranscript.finish: one transaction that counts the call, records a
\* verified stop and finalises the tool call.  A broken stream counts too; a
\* detached run refuses the update and rolls everything back.
TranscriptEnds(h, outcome) ==
    LET turn == run.calls + 1 IN
    /\ stream[h].phase = "streaming"
    /\ run.detached => outcome = "unsaved"
    /\ stream' = [stream EXCEPT ![h].phase = "done"]
    /\ IF outcome = "unsaved" THEN UNCHANGED <<run, tool, answered>>
       ELSE /\ run' = [run EXCEPT !.calls = turn, !.verified = outcome = "stop"]
            /\ tool' = [c \in Turns |-> IF c = turn /\ outcome = "tool_calls" THEN "ready"
                                        ELSE tool[c]]
            /\ answered' = (answered \/ outcome = "stop")
    /\ UNCHANGED <<token, held, executing, ran, completing, user, approver, reaper>>

\* The finish closure: the attempt is released, then a deadline fails the run
\* (even when it struck after the last byte) and a cancellation ends it.
ReleaseModelAttempt(h, cause) ==
    /\ stream[h].phase = "done"
    /\ cause = "cancelled" => run.cancel
    /\ run' = [run EXCEPT !.inflight = IF @ = stream[h].attempt THEN 0 ELSE @]
    /\ stream' = [stream EXCEPT ![h] =
          IF cause = "none" THEN NoStream
          ELSE [phase |-> "closing", attempt |-> 0,
                ending |-> IF cause = "timeout" THEN "failed" ELSE "cancelled"]]
    /\ UNCHANGED <<token, held, tool, executing, ran, answered, completing, user, approver,
                   reaper>>

StreamFinishesRun(h) ==
    /\ stream[h].phase \in {"failing", "closing"}
    /\ FinishRun(stream[h].ending)
    /\ stream' = [stream EXCEPT ![h] = IF @.phase = "failing"
                                       THEN [@ EXCEPT !.phase = "done", !.ending = "none"]
                                       ELSE NoStream]
    /\ UNCHANGED <<held, tool, executing, ran, answered, completing, user, approver, reaper>>

-----------------------------------------------------------------------------
(* Tools and approvals.                                                     *)

Claimable_UntilResult(c) == tool[c] \in {"ready", "claimed"}

Claimable(c) == tool[c] = "ready"

\* ExecuteHarnessTool: the claim is a compare-and-set on the call of the
\* current model response; the tool then runs outside any transaction.
ClaimToolCall(h, c) ==
    /\ Valid(held[h])
    /\ Claimable(c)
    /\ c = run.calls
    /\ ~run.cancel
    /\ run.status \in {"running", "awaiting_approval"}
    /\ tool' = [tool EXCEPT ![c] = "claimed"]
    /\ executing' = executing \cup {c}
    /\ ran' = [ran EXCEPT ![c] = @ + 1]
    /\ UNCHANGED <<run, token, held, stream, answered, completing, user, approver, reaper>>

RecordToolResult(c) ==
    /\ c \in executing
    /\ executing' = executing \ {c}
    /\ tool' = [tool EXCEPT ![c] = "done"]
    /\ UNCHANGED <<run, token, held, stream, ran, answered, completing, user, approver, reaper>>

MayPark == ~run.cancel /\ run.status \in {"running", "awaiting_approval"}

\* commitPendingApproval: a proposal tool parks the run.
CommitPendingApproval(c) ==
    /\ c \in executing
    /\ MayPark
    /\ executing' = executing \ {c}
    /\ tool' = [tool EXCEPT ![c] = "pending"]
    /\ run' = [run EXCEPT !.status = "awaiting_approval"]
    /\ UNCHANGED <<token, held, stream, ran, answered, completing, user, approver, reaper>>

\* A proposal of a run that may not be parked any more, a result that could
\* not be stored: the call stays claimed.
ToolResultLost(c) ==
    /\ c \in executing
    /\ executing' = executing \ {c}
    /\ UNCHANGED <<run, token, held, stream, tool, ran, answered, completing, user, approver,
                   reaper>>

\* detachPendingBrowserApproval
DetachBrowser ==
    /\ run.mode = "wasm"
    /\ ~run.cancel
    /\ run.status = "awaiting_approval"
    /\ \E c \in Turns : tool[c] = "pending"
    /\ run' = [run EXCEPT !.status = "interrupted", !.detached = TRUE]
    /\ token' = RevokeAll
    /\ UNCHANGED <<held, stream, tool, executing, ran, answered, completing, user, approver,
                   reaper>>

\* The transaction of ResolveApproval that applies or rejects a proposal.
DecideApproval(c) ==
    /\ approver = "idle"
    /\ tool[c] = "pending"
    /\ ~run.cancel
    /\ run.status \in {"awaiting_approval", "interrupted"}
    /\ tool' = [tool EXCEPT ![c] = "decided"]
    /\ approver' = "decided"
    /\ UNCHANGED <<run, token, held, stream, executing, ran, answered, completing, user, reaper>>

MayContinue == run.status \in Active /\ ~run.cancel

\* continueHarnessRun, through setApprovalRunStatus.
ContinueHarnessRun ==
    /\ approver = "decided"
    /\ approver' = "idle"
    /\ run' = [run EXCEPT !.status =
          IF ~MayContinue THEN @
          ELSE IF \E c \in Turns : tool[c] = "pending" THEN "awaiting_approval" ELSE "running"]
    /\ UNCHANGED <<token, held, stream, tool, executing, ran, answered, completing, user, reaper>>

\* The browser hangs up, and with its request ends the context the release runs
\* under: the run stays parked.
ReceiptCut ==
    /\ approver = "decided"
    /\ approver' = "idle"
    /\ UNCHANGED <<run, token, held, stream, tool, executing, ran, answered, completing, user,
                   reaper>>

-----------------------------------------------------------------------------
(* What ends a run.                                                         *)

\* The token a host completes with.  The worker that drove a sidecar was given
\* the first token of its generation; it completes with the run's live token if
\* that is of the same generation, and with its own one if none is live.
MayComplete(h) ==
    IF run.mode = "wasm" THEN Valid(held[h])
    ELSE /\ held[h] # 0
         /\ LET g == token[held[h]].generation IN
            IF Live = {} THEN Valid(g)
            ELSE HasRow(g) /\ \A t \in Live : token[t].generation = g

Verdict_TrustHost(reason) ==
    IF run.cancel \/ reason = "cancelled" THEN "cancelled"
    ELSE IF reason = "stop" THEN "succeeded" ELSE "failed"

\* CompleteRun's switch over the run row it has read.
Verdict(reason) ==
    IF run.cancel \/ reason = "cancelled" THEN "cancelled"
    ELSE IF reason = "stop" /\ run.calls > 0 /\ run.verified /\ run.inflight = 0
    THEN "succeeded" ELSE "failed"

CompleteRun(h, reason) ==
    /\ completing[h] = "none"
    /\ run.status \in Active
    /\ MayComplete(h)
    /\ completing' = [completing EXCEPT ![h] = Verdict(reason)]
    /\ UNCHANGED <<run, token, held, stream, tool, executing, ran, answered, user, approver,
                   reaper>>

\* driveViaSidecar could not start or reach its host: failHarnessRun.
DriveFails(h) ==
    /\ run.mode = "sidecar"
    /\ completing[h] = "none"
    /\ run.status \in Active
    /\ completing' = [completing EXCEPT ![h] = "failed"]
    /\ UNCHANGED <<run, token, held, stream, tool, executing, ran, answered, user, approver,
                   reaper>>

CompletionFinishesRun(h) ==
    /\ completing[h] # "none"
    /\ FinishRun(completing[h])
    /\ completing' = [completing EXCEPT ![h] = "none"]
    /\ UNCHANGED <<held, stream, tool, executing, ran, answered, user, approver, reaper>>

\* RequestCancellation: flag the run, look for a host to tell, and end the
\* run at once when there is none.
RequestRunCancellation ==
    /\ user = "idle"
    /\ run.status \in Active \ {"cancelling"}
    /\ run' = [run EXCEPT !.cancel = TRUE, !.status = "cancelling"]
    /\ user' = "flagged"
    /\ UNCHANGED <<token, held, stream, tool, executing, ran, answered, completing, approver,
                   reaper>>

LookForHost ==
    /\ user = "flagged"
    /\ user' = IF Live = {} THEN "closing" ELSE "idle"
    /\ UNCHANGED <<run, token, held, stream, tool, executing, ran, answered, completing,
                   approver, reaper>>

UserFinishesRun ==
    /\ user = "closing"
    /\ FinishRun("cancelled")
    /\ user' = "idle"
    /\ UNCHANGED <<held, stream, tool, executing, ran, answered, completing, approver, reaper>>

\* MarkInterruptedRuns at the start of a worker; it leaves the tokens alone.
WorkerStarts ==
    /\ run.status \in {"queued", "running"}
    /\ run' = [run EXCEPT !.status = "interrupted"]
    /\ UNCHANGED <<token, held, stream, tool, executing, ran, answered, completing, user,
                   approver, reaper>>

\* The API process dies: its handlers are gone, model_inflight and the claims
\* of tool calls stay.
APICrash ==
    /\ stream' = [h \in Hosts |-> NoStream]
    /\ executing' = {}
    /\ completing' = [h \in Hosts |-> "none"]
    /\ user' = "idle"
    /\ approver' = "idle"
    /\ UNCHANGED <<run, token, held, tool, ran, answered, reaper>>
    /\ vars' # vars

-----------------------------------------------------------------------------
(* ReapHarnessRuns, every five seconds.                                     *)

HostSilent_Unexpired == run.status \in Active /\ \E t \in Live : token[t].silent

HostSilent == run.status \in Active /\ \E t \in Tokens : Unrevoked(t) /\ token[t].silent
NeverStarted == run.status \in {"queued", "running"} /\ \A t \in Tokens : ~HasRow(t)

\* ListStaleHarnessRuns; late says that the pickup grace is over.
ReapBegin(late) ==
    /\ reaper.at \in {"idle", "cut"} /\ reaper.ending = "none"
    /\ reaper' = [reaper EXCEPT !.at = "approvals",
                                !.stale = HostSilent \/ (late /\ NeverStarted)]
    /\ UNCHANGED <<run, token, held, stream, tool, executing, ran, answered, completing, user,
                   approver>>

Parked_Undecided == run.status = "awaiting_approval" /\ \E c \in Turns : tool[c] = "pending"

Parked == run.status = "awaiting_approval"

\* late says that the approval deadline has passed.
ReapApprovals(late) ==
    /\ reaper.at = "approvals"
    /\ reaper' = [reaper EXCEPT !.at = "stale",
          !.ending = IF late /\ Parked THEN "failed" ELSE "none"]
    /\ UNCHANGED <<run, token, held, stream, tool, executing, ran, answered, completing, user,
                   approver>>

ReapStale ==
    /\ reaper.at = "stale" /\ reaper.ending = "none"
    /\ reaper' = [at |-> "cancelling", stale |-> FALSE,
                  ending |-> IF reaper.stale /\ run.status \in Active THEN "interrupted" ELSE "none"]
    /\ UNCHANGED <<run, token, held, stream, tool, executing, ran, answered, completing, user,
                   approver>>

Overdue_Never == FALSE

Overdue == run.status = "cancelling"

\* late says that the cancellation is older than its grace.
ReapCancelling(late) ==
    /\ reaper.at = "cancelling" /\ reaper.ending = "none"
    /\ reaper' = [reaper EXCEPT !.at = "idle",
          !.ending = IF late /\ Overdue THEN "cancelled" ELSE "none"]
    /\ UNCHANGED <<run, token, held, stream, tool, executing, ran, answered, completing, user,
                   approver>>

ReaperFinishesRun ==
    /\ reaper.ending # "none"
    /\ FinishRun(reaper.ending)
    /\ reaper' = [reaper EXCEPT !.ending = "none"]
    /\ UNCHANGED <<held, stream, tool, executing, ran, answered, completing, user, approver>>

\* A finishRun failed, or the scheduler died: the rest of the pass is skipped.
ReaperCut ==
    /\ reaper.at # "cut" /\ reaper # Idle
    /\ reaper' = [Idle EXCEPT !.at = "cut"]
    /\ UNCHANGED <<run, token, held, stream, tool, executing, ran, answered, completing, user,
                   approver>>

-----------------------------------------------------------------------------

TokenStep ==
    \/ \E h \in Hosts, t \in Tokens : IssueRunGrant(h, t) \/ RenewToken(h, t)
    \/ \E h \in Hosts : BeatHarnessToken(h) \/ HostDies(h)
    \/ \E t \in Tokens : Silence(t) \/ Expire(t) \/ PruneHarnessToken(t)

Proxy(h) ==
    \/ ProviderAnswers(h)
    \/ \E o \in {"stop", "tool_calls", "broken", "unsaved"} : TranscriptEnds(h, o)
    \/ \E c \in {"none", "timeout", "cancelled"} : ReleaseModelAttempt(h, c)
    \/ StreamFinishesRun(h)

ToolStep ==
    \/ \E h \in Hosts, c \in Turns : ClaimToolCall(h, c)
    \/ \E c \in Turns : \/ RecordToolResult(c) \/ CommitPendingApproval(c)
                        \/ ToolResultLost(c) \/ DecideApproval(c)
    \/ DetachBrowser
    \/ ContinueHarnessRun
    \/ ReceiptCut

EndStep ==
    \/ \E h \in Hosts, r \in {"stop", "error", "cancelled"} : CompleteRun(h, r)
    \/ \E h \in Hosts : DriveFails(h) \/ CompletionFinishesRun(h)
    \/ RequestRunCancellation \/ LookForHost \/ UserFinishesRun
    \/ WorkerStarts

Reap ==
    \/ \E late \in BOOLEAN : ReapBegin(late) \/ ReapApprovals(late) \/ ReapCancelling(late)
    \/ ReapStale
    \/ ReaperFinishesRun

Next ==
    \/ TokenStep
    \/ \E h \in Hosts : OpenRefused(h) \/ AcquireModelAttempt(h) \/ Proxy(h)
    \/ ToolStep
    \/ EndStep
    \/ APICrash
    \/ Reap
    \/ ReaperCut

Spec == Init /\ [][Next]_vars

(***************************************************************************)
(* Fairness.  The reaper runs every five seconds and is not cut short for  *)
(* ever; its deadlines pass; a token nobody presents falls silent.         *)
(* Nothing is assumed of hosts, users, providers or the API process.       *)
(***************************************************************************)
Fairness ==
    /\ WF_vars(Reap)
    /\ SF_vars(ReapBegin(TRUE))
    /\ SF_vars(ReapApprovals(TRUE))
    /\ SF_vars(ReapStale)
    /\ SF_vars(ReapCancelling(TRUE))
    /\ SF_vars(ReaperFinishesRun)
    /\ <>[][~ReaperCut]_vars
    /\ \A t \in Tokens : WF_vars((\A h \in Hosts : held[h] # t) /\ Silence(t))

FairSpec == Spec /\ Fairness

-----------------------------------------------------------------------------
(* Safety.                                                                  *)

\* Once a cancellation is recorded the run can only end "cancelled", whoever
\* ends it: a completion or a deadline decided before the cancellation, the
\* reaper, an approval that continues the run (finishRun, SetApprovalStatus).
CancelWins ==
    /\ run.cancel => run.status \in {"cancelling", "cancelled"}
    /\ run.status = "cancelling" => run.cancel

\* All tokens a host endpoint would accept belong to one generation, that is
\* to one host: a new grant fences the old host's token, its successor and the
\* rotation window of both (persistence/harness.go, RevokeHarnessTokensForRun).
OneAuthorizedHost ==
    \A t, u \in Tokens : Valid(t) /\ Valid(u) => token[t].generation = token[u].generation

\* Concurrent and repeated heartbeats never fork the chain of successors: at
\* most one token of the run is not revoked (renewToken).
RotationDoesNotFork ==
    \A t, u \in Tokens : Unrevoked(t) /\ Unrevoked(u) => t = u

\* At most one model stream of the run is open, also while a new host takes
\* over from one whose stream has not been cut yet, and that stream owns
\* model_inflight (AcquireModelAttempt, ReleaseModelAttempt).
SingleFlight ==
    \A h \in Hosts : stream[h].phase \in {"opening", "streaming", "failing", "done"}
        => /\ run.inflight = stream[h].attempt
           /\ \A g \in Hosts : stream[g].attempt = stream[h].attempt => g = h

\* The run never gets more model responses than its turn budget, although the
\* budget is tested before the stream and counted at its end, broken streams
\* included (CountModelCall).
TurnsWithinBudget == run.calls <= MaxTurns

\* A tool call is executed at most once, over retries, a change of host and
\* restarts (ClaimToolCall).
ToolRunsOnce == \A c \in Turns : ran[c] <= 1

\* A run is not reported as succeeded unless the model itself ended a response
\* with a stop that asks for no tool, whatever its hosts claim (CompleteRun).
SuccessNeedsModelStop == run.status = "succeeded" => answered

\* A run that has ended stays as it is, although decisions taken before may
\* still be written (finishRun, setApprovalRunStatus, issueRunGrant).
TerminalIsFinal ==
    [][run.status \in Terminal => run'.status = run.status /\ run'.detached = run.detached]_vars

\* Refinement.
Ledger == INSTANCE RunLedger WITH
    Proposals <- Turns,
    status    <- run.status,
    cancelled <- run.cancel,
    open      <- {c \in Turns : tool[c] = "pending"}

\* Whatever hosts, streams, deadlines, windows, the reaper and restarts write, and
\* however old the read they decided on, the run works, waits and ends as the
\* ledger says: it waits until the last proposal is decided, a recorded
\* cancellation wins, and nothing moves it once it has ended (finishRun,
\* setApprovalRunStatus, issueRunGrant).
ImplementsRunLedger == Ledger!LedgerSpec

(* Liveness.                                                                *)

\* A cancelled run ends, with or without its host's help.
CancelEnds == run.cancel ~> run.status \in Terminal

\* A run that all its hosts have abandoned for good ends.
AbandonedRunEnds == <>[](\A h \in Hosts : held[h] = 0) => <>(run.status \in Terminal)

\* No run stays parked: either it is decided or the approval deadline ends it,
\* also when the API died between applying a decision and releasing the run.
ParkedRunMovesOn == run.status = "awaiting_approval" ~> run.status # "awaiting_approval"

=============================================================================
