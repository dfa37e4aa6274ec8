# FastTask in TLA+

FastTask is a task and daily-planning server (Go, SQLite) with a web client, an
agent that proposes changes for the user's approval, background workers and a
scheduler. This directory holds TLA+ models of the parts whose correctness
depends on the order in which several processes touch shared rows, or on long
sequences of operations on one table; TLC configurations that check them on
small instances; and TLAPS proofs for every value of the constants.

Atomicity is that of the code. The store opens SQLite with `_txlock=immediate`
and foreign keys on, so a `Store.Transaction` and a single statement are one
step; two statements outside a transaction are two steps, and anything may
happen between them. The in-process state of a handler between two of its
statements is a variable of the model, and is lost when the process dies.

To check everything: `tlc -config X.cfg M` for each run of `PROJECT.json`,
`tlapm M.tla` for `Recursion` and each module whose name ends in `Proofs`.

## Inventory

| Component | State it keeps | Operations | What is hard |
|---|---|---|---|
| Agent job queue (`jobservice.go`, `worker.go`, `scheduler.go`) | `agent_jobs`: status, attempt, lease version, run token, revision, cancel flag | create, retry, cancel, claim, renew, finish, callback, maintain | late workers, callbacks racing workers, crash loops, stale support requests |
| Harness runs (`harness*.go`, `persistence/harness*.go`) | run status, tokens and generations, model attempt in flight, counters | grant, authenticate, heartbeat/rotate, model attempt, tool claim, complete, cancel, reap | a host replaced while it works, completion on a stale read, token rotation, timeouts racing answers |
| Approvals (`agentapproval.go`, `approval_*.go`, `harnesstools.go`) | proposal status, approval of a message part, run status | propose, wait, approve, reject, apply, time out, recover | a decision racing the timeout, the applying transaction and its receipt, duplicates |
| Transcript (`persistence/agent.go`, `harnessproxy.go`, `agentloop.go`, `httpapi/agent.go`, `protocol/`) | chunk log, retained snapshot, rows of the parts | append, fold, flush, finish, save, stream, resume | stale sessions saved late, streams that outlive their run, a viewer that decides from a status |
| Attachments and voice audio (`attachments.go`, `agentthreads.go`, `audioreaper.go`) | rows and files | upload, bind, delete, reap, record, transcribe | row and file written in different steps, reapers with stale lists |
| Notification queue and adapters (`notification*.go`, `internal/notify`) | channels, targets, messages, leases, an adapter cache per process | publish, broadcast, claim, load, send, record, retry, test, prune | two dispatchers, a send that outlives its lease, credentials cached elsewhere, references deleted meanwhile |
| Task tree (`lifecycle.go`, `taskdependenc*.go`, `app.go`, `agentgoal.go`) | goals, tasks, parents, prerequisites, deletion batches, focus | create, patch, move, rewire, delete, restore, apply a proposal | circles through deleted rows, subtrees that come back incomplete |
| Daily planning (`planning*.go`, `plan*.go`, `agentdailyplan.go`, `app.go`, `lifecycle.go`) | plans, items per revision, sessions, completions | schedule, replan, propose, add, skip, complete, reopen, delete, focus, the change of the day | budget, evidence and promises over many revisions |
| Sessions and users (`platform/auth`, `admin.go`, `fastcas.go`, `fastresearch.go`, `web/src/api.ts`) | users, session rows, links | sign in, refresh, sign out, link, issuer's events, administration | rotation with lost answers, events out of order, administrators against each other |
| Idempotency (`httpapi/server.go`) | records per user and key | look, reserve, handle, store the receipt, sweep | a crash between the handler and its receipt |
| Model providers (`admin.go`) | provider rows, the default | create, edit, activate, delete | two defaults, a disabled default |
| Sidecar supervisor (`bootstrap/sidecar.go`) | process, failure counter, availability | start, restart, probe, stop | Stop in the middle of a restart |
| Scheduler and worker loops (`bootstrap/`) | tickers | sweeps | the fairness of everything above |
| Rate limiter, lens, clients, adapters' I/O, views | - | - | not modelled, see the end |

The components meet in the database. The API inserts `agent_jobs` and
`agent_runs` rows; a worker claims the job and, for a run, hands it to a harness
host (a browser tab or the sidecar process), which calls the API back with a
capability token; a tool call of that host stages a proposal and parks the run;
the user's receipt applies the proposal, to the tree or to a plan, and releases
the run; a change of the tree withdraws promises of today's plan in the same
transaction; the scheduler sweeps what anyone left behind (expired leases, silent
hosts, overdue approvals and cancellations, due notifications, old records,
orphaned files) and keeps the plans filled. No component calls another one back
in memory except for the approval poll, which reads rows.

What makes each component correct:

- **Jobs**: each accepted job ends, exactly one attempt's result is delivered,
  late attempts change nothing, a cancellation is honoured.
- **Harness runs**: one host is authorised at a time, one model stream is open,
  a tool call runs at most once, cancellation wins over every other end, success
  needs a verified stop of the model, an abandoned or parked run ends.
- **Approvals**: a proposal is decided once whoever decides it, the transcript
  tells what happened, a run does not work while a decision is open, and one that
  has nothing left to decide is moved on by the request that decided.
- **Transcript**: the snapshot is the log replayed; what was streamed is what a
  reload shows; a viewer told "done" has seen the end, where the log has one.
- **Files**: a row keeps its bytes, up to one exception, and a waiting
  transcription its recording.
- **Notifications**: every message ends, a late verdict changes nothing, an
  address is retired for a cause of its own, no replaced credential is used.
- **Tree**: live tasks hang below live rows, no circle, deletions come back whole.
- **Plans**: the budget of a day, the evidence of what was done, one promise per
  task, and no promise the tree has made impossible.
- **Sessions**: one live token per family whoever presents which; a revoked link
  has no sessions; an administrator remains.
- **Idempotency**: a command commits once per key. **Providers**: at most one
  default, and it is usable. **Sidecar**: after Stop nothing lives.

`PROJECT.json` lists every component with its status, and every hazard at the
line where it bites with the properties that would catch it.

## Modules

    JobQueue  --refines-->  JobLedger         MCJobQueue
    HarnessRun --refines-->  RunLedger        MCHarnessRun, MCHarnessRunSafety,
                                              MCHarnessRunLive
    Approval  --refines-->  RunLedger         MCApproval, MCApprovals
    Notifications                             MCNotifications
    TaskTree                                  MCTaskTree
    DailyPlan                                 MCDailyPlan
    Sessions, Idempotency, ModelProviders,
      StoredFiles, Transcript                 MCServices
    Sidecar                                   (its own constants are numbers)

    JobQueueProofs, HarnessRunProofs, ApprovalProofs, NotificationsProofs,
    ServicesProofs (Sessions, Idempotency, ModelProviders, StoredFiles,
      Transcript, Sidecar), TaskTreeProofs, DailyPlanProofs
    Recursion (induction and recursive definitions, for the last three)

How they are composed. Modules that describe the same rows at different depth
name each other's part by an action: HarnessRun keeps of Approval its effect on
the run (`DecideApproval`, `ContinueHarnessRun`, `DetachBrowser`), and Approval
keeps of HarnessRun that anything may end the run (`RunEnds`); both implement the
same abstract run, `RunLedger`; Transcript keeps
of both which process writes the log; DailyPlan keeps of TaskTree what a change
does to an item's task (`TreeChange`), and calls it in the transaction the code
calls it in (`ChangeTree`). `MCServices` puts five services that share no row in
one run, one of them per behaviour, and `MCHarnessRunSafety`, `MCHarnessRunLive`
and `MCApprovals` put two instances of one component in one run, as scenes chosen
in the initial state. Nothing is lost by that: the variables of one service are not read by
another, and a scene only restricts the actions named in it.

The rest of this part says per module how its state and actions correspond to
the code. The lines of every definition are in `PROJECT.json`, under `map`.

### JobQueue, JobLedger

`JobQueue` models the table `agent_jobs` and everything that writes it. A row
keeps status, kind, attempt, max_attempts, lease_version, revision,
run_token_hash (as the number of the claim that drew it, 0 for empty),
cancel_requested and the plan revision a support job was requested against.
Times are kept as what the queries compare: `due` for `run_after <= now`, and
`lock` for `locked_until` ("none", "held", "lapsed", and "expired" for before
the `now` the running maintain pass read).

| Actions | Code |
|---|---|
| `CreateJob`, `RetryJob`, `SubmitAgentRun` | `enqueue` with its checks; `RetryJob` of a failed row; `SubmitCommands`, which inserts past `enqueue` |
| `CancelRead`, `CancelWrite`, `CancelRunJob` | `CancelJob`'s read outside the transaction and its conditional UPDATE; the flag `RequestCancellation` sets on a run's job |
| `Claim`, `HandlerReturns`, `RenewLease`, `LeaseLost`, `Finish`, `Crash` | `RunOnce`: `claim`, `execute` under `holdLease`, `finish` |
| `HandOff`, `AgentCallback` | a runner outside the process with the credentials of a claim, reporting late or repeatedly |
| `LeaseLapses`, `BackoffElapses`, `PlanEdited` | time, and edits of the daily plan by the rest of the program |
| `MaintainBegin`, `MaintainFail`, `MaintainFailErrs`, `MaintainRequeue`, `MaintainCut` | `maintain`: two UPDATEs under one `now`, the first of which may fail |

The content of a result is abstracted to a counter of deliveries per job
(`delivered`), written by `Materialize` in the transaction that closes the row.

`JobLedger` is what the queue promises without leases, attempts, workers or a
scheduler: a job opens once, may be withdrawn, is resolved once, and delivers in
the step that resolves it as succeeded. `ImplementsLedger` is the refinement: a
row is "open" while queued or running, so claims, requeues, renewals and crashes
are stutters.

### HarnessRun

One row of `agent_runs` with its capability tokens, the model streams the API
proxies for its hosts, its tool calls and everything that may end it. Several
calls of the code read the run, decide, and call `finishRun` later in a
transaction that reads it again; the decision is a step of its own, kept in
`completing`, `stream[h].ending`, `user` or `reaper.ending`.

| Actions | Code |
|---|---|
| `IssueRunGrant`, `BeatHarnessToken`, `RenewToken`, `Expire`, `Silence`, `PruneHarnessToken`, `HostDies` | `issueRunGrant`, `HarnessHeartbeat`, `renewToken`; the TTL, the rotation window and the heartbeat timeout; pruning |
| `OpenRefused`, `AcquireModelAttempt`, `ProviderAnswers`, `TranscriptEnds`, `ReleaseModelAttempt`, `StreamFinishesRun` | `OpenModelProxy` and its finish closure, the transcript's last transaction, the deadline |
| `ClaimToolCall`, `RecordToolResult`, `CommitPendingApproval`, `ToolResultLost` | `ExecuteHarnessTool` |
| `DetachBrowser`, `DecideApproval`, `ContinueHarnessRun`, `ReceiptCut` | what approvals do to the run, and the request that ends in between; module Approval has them in detail |
| `CompleteRun`, `DriveFails`, `CompletionFinishesRun` | the host's completion, and the worker's for a sidecar |
| `RequestRunCancellation`, `LookForHost`, `UserFinishesRun` | `RequestCancellation` |
| `WorkerStarts`, `APICrash` | `MarkInterruptedRuns`; the death of the API process between any two of its statements |
| `ReapBegin`, `ReapApprovals`, `ReapStale`, `ReapCancelling`, `ReaperFinishesRun`, `ReaperCut` | `ReapHarnessRuns`: one list read at the start, three passes, each ending the run in its own transaction |

A token is "live" or "expired" while it is not revoked, "rotating" while it is
revoked and inside `rotation_until`. `held` is the token a host presents; an
answer may be lost, so a grant or a rotation may leave it as it was. `ran` and
`answered` are history.

### Approval

The proposals of one run from the tool call that stages one to the release of
the run.

| Actions | Code |
|---|---|
| `StageProposal`, `CommitPendingApproval`, `ParkRefused` | a proposal tool in `ExecuteHarnessTool`: the proposal is one statement, parking the run another transaction |
| `ReceiveReceipt`, `Detach`, `ApplyProposal`, `ApplyFails`, `RecordConflict`, `RejectProposal`, `RecordApproval`, `ReceiptRefused`, `ReleaseRun` | `ResolveApproval`, one action per transaction; `MutexFree` is the mutex of a server process, so two processes (`Service`) do not exclude each other |
| `StartWait`, `ReadApprovalDecision`, `ReadRun`, `TimeoutResult`, `TimeoutApproval`, `TimeoutFinishesRun` | `WaitForApproval` and the three statements of its timeout |
| `PageApplies`, `PageRejects`, `TreeEdited` | the goal's pages, which decide the same proposals without the run |
| `RequestCut`, `WaitCut` | a browser or a host that hangs up: every statement of a receipt or a long poll runs under its request's context (`httpapi/agent.go:127`, `httpapi/agent_harness.go:154`), so it may stop between any two transactions |
| `RequestCancellation`, `RunEnds`, `APICrash` | everybody else: any other end of the run is `RunEnds` |

`lost` is history: a request that was about to move the run (`Releasing`,
`TimingOut`) was cut off, or died with its server.
An application is one counted step (`changes`), and it moves the revision every
other proposal is based on (`moved`). Time is left out: a deadline may have
passed whenever it is tested.

### RunLedger

What a run promises the user without hosts, tokens, streams, receipts or a
reaper: it works, waits exactly while proposals of it are open, resumes after the
last decision, and ends once; a recorded cancellation decides the end whoever
brings it about, and a decision about an ended run does not wake it.
`ImplementsRunLedger` of HarnessRun and of Approval maps the row's status and
cancel flag, and as open the tool calls that are "pending". Everything a host,
the reaper or a window does between two such steps is a stutter, and so is a
`finishRun` that finds the run ended. The two modules look at the same row from
two sides; that each implements the one ledger is what says they agree on it.

### Transcript

The chunk log of one run, the snapshot it is folded into, the rows of the
assistant message's parts, everybody who writes them, and a browser that
follows. A part holds a number (of deltas; of a tool call 0, 1 with arguments, 2
with a result), so that losing, repeating or reordering a piece shows.

| Actions | Code |
|---|---|
| `BeginRun`, `FinishRun` | the run's preamble; `finishRun`, with the events of the end and the status in one transaction |
| `LoadNoSession`, `FinishStatusOnly`, `BeginFails`, `WorkerStarts`, `Detach` | the ends by status alone (`EndSilently`): a `finishRun` whose session was loaded before there was a message, a preamble that failed, `MarkInterruptedRuns`, `detachPendingBrowserApproval` |
| `RefreshDetachedApproval` | the event of the end that comes after the status, when a decision is taken on a run that is over |
| `OpenStream`, `CreatePart`, `MirrorPart`, `Delta`, `ToolCallDelta`, `Flush`, `HangUp`, `FinishFlush`, `FinishRows` | `harnessTranscript` and the proxy's reader: parts as rows and as events, buffered deltas, the closure that ends a stream |
| `BeginReply`, `AddTextPart`, `AppendReply`, `PersistReply`, `ReplyCut` | what the server says by itself: the deterministic reply of `agentloop.go`, and the notice of a spent turn budget, which each request writes that finds the budget spent (`Writers`); load, set, append and insert are four commits, and other requests fall between them |
| `CloseReply`, `FailRun`, `SetRunStatus` | `succeed` and `failRun` of the worker's reply: the event of the end, whose error is ignored, and then the status |
| `RecordToolResult`, `RecordConflict` | the results a host's tool calls leave in the message, and the note under a proposal that could not be applied |
| `LoadSession`, `SaveSession` | handlers that load the retained session and save it later (`SaveRunState`) |
| `DrainChunks`, `DrainFails`, `EndOrPoll`, `StreamExpires`, `Leave`, `ResumeState`, `Resume` | the viewer: `streamRun` with its two ways to say [DONE] (a status that was terminal; the greatest age of a stream, or a status that cannot be read), and coming back |
| `ServerDies` | the API process, with its streams, sessions and notices |

History says what the properties except: `turn.silent`, that the run was ended by
its status alone, or that the event of its end was not written; `viewer.missed`,
that the last read of the log failed (which `streamRun` takes for no news); `torn`,
the parts that a writer left shown otherwise than stored. Two requests that write
the notice at one index insert two rows there (`twice`), and a reload then shows
every part from there on at another place (`Shifted`).

`Applied` and `FoldsInto` are the folding of one operation (`protocol/replay.go`),
`Replayed` the reference: the whole log applied to a blank state.

### StoredFiles

| Actions | Code |
|---|---|
| `UploadChecks`, `UploadWrites`, `UploadRecords` | `Upload`: the quota, the file, the row |
| `SubmitCommands` | the binding of images to the thread whose message sends them: any image of the user that still has a row, loose or bound elsewhere; missing ones are passed over |
| `DeleteImage`, `DeleteAgentThread`, `ReapOrphans`, then `DeleteRows`, `DeleteFiles` | the three ways to remove images; each lists them, deletes rows, deletes files |
| `RecordVoice`, `EnqueueVoice`, `VoiceJobEnds`, `RetryVoice` | a recording and its transcription job |
| `ReapStaleAudio`, `RemoveAudio` | the audio reaper: what is in use is read once, files go one by one |
| `ImageAges`, `RecordingAges`, `FilesStop` | the times to live; a stop of the server between any two steps |

`carried` is history: the images that were sent in one conversation after the
deletion of another had listed them.

### Sessions

Session rows of all users with the family they rotate in, users, and links to a
FastCAS identity whose issuer is a second party: what it says is a snapshot
(state and version) that may be applied late, twice or never.

| Actions | Code |
|---|---|
| `LoginVerifies`, `LoginInserts`, `LoginFastResearch`, `LoginFastCAS` | sign-in by password (verified outside, inserted in another statement), by FastResearch, by FastCAS |
| `BrowserRefreshes`, `OtherRefreshes`, `GraceEnds`, `SessionExpires` | `Refresh` by the browser that stored the token, whose answer may be lost and which holds a Web Lock, or by anybody with an old one; rotation, grace and reuse in one transaction |
| `LogoutAuthenticates`, `LogoutRevokes` | `Logout` behind `Authenticate` |
| `CreateUser`, `UpdateUser`, `RevokeUserSessions` | administration |
| `PrepareLink`, `AskIssuer`, `RevokeLink`, `applyFastCASLink`, `CasLogout` | `CompleteFastCAS`, the user's revocation, and the issuer's notices |

### Idempotency, ModelProviders

`Idempotency`: `Look`, `Reserve`, `Handle`, `SaveReceipt` are the four steps of
the middleware around a handler, `ReceiptExpires`, `SweepOld` and
`SweepCredentials` time and the scheduler, `Dies` the process. `effects` counts
the handler's commits per key.

`ModelProviders`: `CreateModelProvider`, `UpdateModelProvider`,
`ActivateModelProvider`, `DeleteModelProvider`, each one transaction that goes
through `clearDefaultProvider`; `ActiveProvider` is what the runtime would take.

### Notifications

| Actions | Code |
|---|---|
| `CreateChannel`, `UpdateChannel`, `DeleteChannel`, `CheckChannel` | `notification.go`; a delete cascades to targets and messages, as the schema says |
| `CreateTarget`, `UpdateTarget`, `DeleteTarget`, `TestTarget` | `notificationtarget.go` |
| `ReadTargets`, `Publish`, `PublishLost`, `Broadcast` | publication: the targets are read outside the transaction that inserts |
| `ClaimNext`, `LoadClaimed`, `ProviderReplies`, `finishDelivery` | one message in a dispatcher: claim by conditional UPDATE, load of its rows and adapter, the provider's answer, the record under the claim |
| `LoadFails`, `AddressUnreadable` | the other ways out of `sendClaimed`: rows that cannot be read or a credential no adapter can be built from (the message fails, its target is left alone); an address that cannot be decrypted (the target is retired unsent) |
| `RunAfterPasses`, `DispatcherDies`, `Prune` | backoff and lapsed leases; a process; the retention |

`NewSender` is what each adapter makes of the answers of its provider
(`internal/notify`: Telegram, Bark, FCM, APNs): sent, retry, dead address or
fault of the channel. The answer "wrong_channel" is that of a server, project or
topic the address does not belong to: Bark's 404, FCM's NOT_FOUND and APNs'
DeviceTokenNotForTopic are read as a dead address, Telegram's is tried again.
`misread` and `unreadable` record the targets retired for that, or for an address
that could not be decrypted. `sender[d]` is the adapter cache of a process.

### TaskTree

Goals, tasks of each goal with parent, prerequisites, status and deletion batch,
and the one focus session of the user. Every operation is one transaction that
compares revisions: a stale caller is refused, so revisions are left out. What
an edit does to the rows is a function from rows to the possible rows (`Created`,
`Moved`, `Rewired`, `Restated`, `Deleted`, `Restored`), which the edits of the
pages and the entries of an approved proposal share (`Patched`, `ApplyPatch`,
`GoalWithTasks`), as the code shares the `*Tx` functions.

### DailyPlan

Plans per day with the rows of their current revision; a `line` is one promise
followed through revisions (`logical_id`). A row is planned, satisfied, skipped
or not completed, and a completion by time names the sessions it counted.

| Actions | Code |
|---|---|
| `RefreshSchedule` | `refreshScheduleTx`, the heart of planning; also what `MaintainSchedules` runs. Its parts in their order: `Expired` closes past days, `Stays` keeps rows day by day, `Queue` is what no day holds, `FromQueue` and `Pulled` fill today from the queue and from later days (`Spare`, `Promotable`, `Heads`), `Filling` fills the days after, `Copied` rewrites a day |
| `CreateDailyPlan`, `ReplanDailyPlan`, `ApplyDailyPlanProposal`, `CloseDailyPlan`, `AddPlanItem`, `SkipPlanItem`, `DeletePlanItems` | the plan's pages and the agent's proposals |
| `CompletePlanItem`, `CompletePlanItemWithTask`, `ReopenPlanItem` | completions by result or by time, with or without the task |
| `StartSession`, `EndSession`, `InvalidateSession` | focus, and a session taken back with what it completed |
| `ChangeTree`, `CreateTask` | what changes of the tree do to today (`Released`, `Frozen`, `Reflected`) |
| `NextDay` | midnight in the user's zone |

### Sidecar

`sup` holds the fields of the supervisor, `loop`, `starter` and `stopper` where
its goroutine, Start and Stop stand, `child` the process of each command.

| Actions | Code |
|---|---|
| `StartBegins`, `StartSpawned`, `StartReady`, `StartTimesOut` | `Start` |
| `SuperviseReads`, `ChildExited`, `BackoffCancelled`, `Respawn`, `Launch`, `Fork`, `Respawned`, `AskChild`, `ChildAnswered` | `supervise` and `spawn`; storing the command and giving it a process are two steps |
| `Probe`, `ProbeRecords`, `ProbeEnds` | `probe`, for a host that an external unit runs |
| `StopReads`, `StopFindsNone`, `StopTerminates`, `StopCancels`, `StopSeesDone`, `StopKills`, `StopReturns` | `Stop` |
| `ContextKills`, `ChildBoots`, `ChildDies`, `HostReturns` | the operating system, the node process, the unit |

## The runs

| Run | Instance | Shows |
|---|---|---|
| `job_fence` | one job, two workers, 3 attempts, 6 claims, `FairSpec` | late workers, callbacks, cancellations and maintain compete for one row: one holder, a recorded cancellation is honoured, the job ends |
| `job_ledger` | two jobs of every kind, one worker, two plan revisions, failing maintain statements | the refinement of `JobLedger`; one support suggestion per plan revision |
| `run_safety` | two browser tabs, three tokens, two attempts; or one host, browser or sidecar, two tokens, one attempt | one authorised host, one stream, no tool call twice, success is earned; the refinement of `RunLedger` (it waits for the last decision, a cancellation wins, an ended run stays ended) |
| `run_live` | one host of the browser with one token, or of either kind with two tokens and no stream; `SceneFairSpec` | cancelled, abandoned and parked runs end |
| `approvals` | one call, two windows on two servers that crash; or two calls, two windows on one server that lives; any request may be cut off | true receipts, no receipt applied after a cancellation, the run is parked until the last decision; a run with nothing left to decide is about to be released or ended, unless the request that was to do it was cut off |
| `notifications` | one channel of any of four providers, one target, one message, two dispatchers, two attempts, one edit, one mishap (a death, a stall, a load that fails, an unreadable address), `NotifyFairSpec` | addresses retired for cause, credentials current, late records dropped, every message ends |
| `services` | 2 users, 1 link, 3 sessions, 3 upsets; 4 requests of 2 keys and 2 bodies, 1 fault; 3 providers; 2 images, 2 threads, 2 recordings, 2 removals, 1 stop; 2 parts, 2 streams, 2 counted calls, 2 notices, 1 return, 1 death | the ten properties of the five services |
| `task_tree` | three tasks of one goal, one prerequisite each | live branches, no circle, deletions that come back whole |
| `daily_plan` | two tasks, one session, two days, one slot per day, two lines, three edits | budget, evidence, one promise per task, no impossible promise today |
| `sidecar` | threshold 3, four children, `SidecarFairSpec` | Stop returns, and nothing lives or is spawned after it |
| `approval_timeout`, `sidecar_row` | the smallest instance that shows it | the disagreements below |

Deadlock is checked in the two job runs. It is off in the others: a system in
which all runs, messages or bounded edits have ended, or whose supervisor has
stopped, stops.

### Bounds, and why they are enough

`job_fence` needs two workers for a takeover and a third attempt for a lease that
is lost twice; six claims are more than the three attempts of one job can use, so
the bound blocks no claim that fairness relies on. Two jobs
are the smallest number in which one retry, or two support jobs of one plan
revision, exist; `job_ledger` has one attempt per job so that maintain's failing
first statement meets exhausted rows. `MaxRevision` caps a counter that nothing
compares with a constant.

`run_safety` has three tokens for a handover: a grant, its rotation, and the
grant or second rotation that must not leave the first two usable. Two model
attempts and one turn make a broken stream, a second one, and a turn counted
late. That scene leaves out the reaper and completions decided on an earlier
read, which the other scene has in full with one host and a second token, so
that the first is replaced under a host that still works. `run_live` has a scene
with one token in which the host streams, runs tools and parks, and one with two
tokens in which hosts take, rotate and lose them and nothing is streamed. What it
leaves out is a second token under an open stream, which `run_safety` has; neither
scene restricts a step of the reaper or the passing of a deadline.

`approvals`: two windows and two calls are the smallest numbers in which
receipts race and a second proposal keeps a run parked. Crashes and the second
server process are in the scene with one call, where every end of the run
competes as well. Requests are cut off in both scenes, as often as they are made.

`notifications`: a second dispatcher makes the takeover of a lapsed lease, the
second attempt a retry, the edit a credential replaced or a target deleted under
a send, and the mishap is a death, a stall, a load that fails or an address that
cannot be decrypted. `Prune` and cascades act on it too.

`services`: three session rows are two rotations of a family or a family and a
successor of a lost answer; three upsets are, for example, a theft, a notice of
the issuer and a logout. Three requests of one key, one of them with another
body, race with a fourth that makes a credential. Three providers let the default
move while a third takes it. Two removals are a thread's deletion beside the
reaper. One delta per stream, two streams and two parts make a broken stream and
its retry; after two counted calls the budget is spent, and two requests that
find it so write their notice at the same index. A death and a return to the page
are one each. The log beside late sessions has two streams; the browser follows a
run of one, with one place of the message left free, to keep the run within
minutes.

`task_tree`: three tasks make every circle of two edges and one through a deleted
row, nested deletions, and a parent with a prerequisite; the goal's own deletion
and restoration are included. A second goal adds nothing to these properties but
rows that every check refuses. `daily_plan`: with one slot a second task always
competes for the room, two days make a promise move, and three edits between the
refreshes, sessions and midnights a session taken back after a replan.

`sidecar`: four children are one more than the threshold of failures needs.

The theorems hold without these bounds, except the numbers a model declares as a
constant of the code (`MaxAttempts`, `MaxTurns`, `Threshold`), for which they hold
at every value, and the caps on rows and counters, which are constants too.

Symmetry (hosts, tasks) is used in safety runs only.

### Fairness, and why the code justifies it

- `JobQueue!FairSpec`: the worker's loop ticks every 300 ms and each handler has
  a timeout, so `RunOnce` is weakly fair unless the worker dies; a backoff ends
  and a lease nobody renews lapses (time); the scheduler's loop runs maintain
  every minute, and `SF` of its second statement says that not every pass is cut
  short. Nothing is assumed of users, plans, callbacks or crashes.
- `HarnessRun!Fairness`, of `MCHarnessRunLive!SceneFairSpec`: the scheduler runs
  `ReapHarnessRuns` every five seconds (`WF` of `Reap`), deadlines pass (`SF` of its late passes), passes are not cut
  for ever (`<>[][~ReaperCut]`), and a token no host presents falls silent.
  Nothing is assumed of hosts, users, the provider or the API process.
- Nothing is assumed of approvals: a receipt runs under the context of its HTTP
  request, so even on a server that lives a browser that hangs up stops it between
  two transactions. What holds of it is an invariant, `OnlyALossStrands`; a run that
  was left parked is the reaper's (`ParkedRunMovesOn` of HarnessRun).
- `Notifications!NotifyFairSpec`: the sweeps of scheduler and worker are tickers,
  so each dispatcher that lives claims again (`WF` of `ClaimNext`); a load, a send
  and a record have timeouts, and each ends in one of its ways out (`WF` of
  `sendClaimed`); `run_after` passes. Nothing is
  assumed of administrators, users, the provider's verdicts or the processes.
- `Sidecar!SidecarFairSpec`: a goroutine that can run does (the supervisor's, the
  one in `Stop`, the one in `os/exec` that kills the child of a cancelled
  context). Nothing is assumed of children: one that ignores its signal has to be
  killed. The backoff's timer needs no assumption, the context ends the wait.

## Where code and documentation disagree

Each of these is a run whose property states what the repository says and which
TLC refutes; `PROJECT.json` quotes the lines.

- `approval_timeout`: `timeoutApproval` writes "timeout" over the receipt of a
  proposal that was applied after its last read. The change is made, the
  transcript says it timed out, and the run fails.
- `sidecar_row`: the counter of failures is cleared only by one health check made
  right after a respawn, when the child has not bound its socket yet. Five
  crashes any time apart make the sidecar unavailable, where the comment says
  consecutive failures, and the log five in a row.

Met while modelling, without a run of their own:

- Harness: after a rotation the old token is accepted for 30 seconds next to its
  successor (`harness.go:602`), and `harness.go:556` says one is usable at any
  instant; what holds is `OneAuthorizedHost`. The reaper interrupts a run whose
  host arrived after its list was read (`harnesslifecycle.go:204` and `:229`).
  `CompleteRun` returns for an ended run without the checkpoint its comment
  keeps. After the API dies in a stream `model_inflight` stays set
  (`harnessexecution.go:34`): no host opens another stream of that run, and it
  can only be cancelled, fail or fall silent.
- Approvals: deciding a proposal on the goal's page leaves the run parked until
  the approval deadline fails it (`server.go:803`, `harnesstools.go:373`). A
  proposal is written before the run is parked (`agenttools_proposal.go:61`), so
  a cancellation in between leaves it pending. `recordConflict` may report "not
  applied" for a proposal that a page applied in between. A receipt whose browser
  hangs up after the applying transaction (before `agentapproval.go:264`, `:291` or
  `:331`) leaves the run parked until the approval deadline fails it, where the
  comment at `agentapproval.go:317` says that the run must not stay parked.
- Jobs: when the first UPDATE of `maintain` fails, the second requeues jobs that
  have no attempt left. `SubmitCommands` inserts the job of an agent run past
  `MaxPendingJobsPerUser` (`agent.go:511`, `jobservice.go:47`).
- Transcript: `httpapi/agent.go:264` says that chunks are committed before the
  status flips, so that a terminal status means a complete log. `MarkInterruptedRuns`,
  a `finishRun` whose session was loaded during the preamble and a preamble that
  fails end a run without an event; `detachPendingBrowserApproval` writes it after
  the status; results of tools and the rest of a stream may follow the end. So the
  log of an ended run may say "running", and a viewer is told [DONE] before the
  end, as it also is when its stream reaches its greatest age. Two requests at the
  turn limit may both write the notice, at one index: nothing forbids a second row
  there (`000005_agent_runtime.up.sql:78`), and a reload shows the later parts one
  place further. The comment at `harnessproxy.go:533` is not true when a
  cancellation falls between a part's row and its event. The cursor of a resumed
  stream is read later than its snapshot.
- Notifications: deaths of dispatchers let attempts pass the maximum, as a claim
  counts before it sends; the branch of `finishDelivery` that revives an invalid
  target is never reached; `UpdateTarget` does not revive one either; a late
  verdict can retire an address registered again meanwhile. An address that cannot
  be decrypted (`notification.go:951`) and a 404 of a Bark server, which a wrong
  server URL gives too (`bark.go:166`), retire the target, where
  `notification.go:920` and `notify.go:47` keep that for addresses that a provider
  declared dead.
- Tree: a restoration re-checks no dependencies, so a live task may come back
  waiting, through another, for one of its own ancestors, which an edit refuses.
  `NoCircularWork` holds all the same.
- Plans: `in_progress` is never written to an item; a cancelled plan keeps its
  planned rows and "active" brings them back; plans of a former time zone are not
  closed; one user's error ends `MaintainSchedules` for those after; the comment
  at `lifecycle.go:407` leaves a refresh free to freeze today.
- Sessions: a refresh between `Authenticate` and `Logout` leaves the successor
  active; a logout notice of the issuer that comes before the sign-in's
  transaction does not end that session; a revocation for a link that does not
  exist yet is consumed.
- Idempotency: a reservation is given up an hour after a crash, and a retry then
  runs the handler again. `scheduler.go:121` deletes reservations that are in
  flight too, where `server.go` says that creations stay exactly-once; the model
  excepts those keys (`CredentialKeys`).
- Files: a stop between the file and the row of an upload leaves a file nothing
  removes; an image that is sent in one conversation while the deletion of another
  has listed it - it was uploaded for that one, or sent there before - keeps its row
  and loses its file (`agent.go:542`), against `agentthreads.go:247`; a retry of a
  transcription more than a day later finds no recording.
- Sidecar: `Stop` cancels the context right after SIGTERM, so `os/exec` kills the
  child at once and the grace of five seconds does not exist; a respawn that
  fails ends the goroutine without marking the sidecar unavailable; a `Start` that
  times out leaves its child running; a child of an API process that dies without
  `Stop` stays.

## The proofs

Each proof module extends the component's module and TLAPS. A safety theorem is
`Spec => []Inv` by an invariant that is inductive, proved action by action; the
actions that cannot disturb a conjunct are grouped. Every invariant and every
action property that a run checks is stated by a theorem, and so are the
refinements; of the properties of the runs only liveness is not.

The assumptions are the named `ASSUME`s of the modules: constants that bound a
model or are a number of the code are natural numbers (`MaxAttempts`,
`MaxParts`, `Threshold` and the like at least 1), `None` is not one of the ids,
ids that the code orders are numbers, the tasks are finitely many, and the bounds
may have any value.

`JobQueueProofs` assumes `ConstantsAssumption` alone.
- `RowInv` (`TypeOK`, `LeaseMatchesStatus`, `DeliveredExactlyOnce`,
  `SupportMovedOn`, `OneSupportPerPlanRevision`) gives `TypeCorrect`, `Delivery`,
  `LeaseSafety`, `SupportSafety`. The lease invariant is what makes delivery
  inductive: a result is written only to a row that is running, so a row whose
  result was written is never running again. `SupportMovedOn` (what was
  delivered was based on an older plan) is what makes the support property so.
- `Finality` and `Cancellation` are action properties under `RowInv`.
- `ClaimsAreUnique` says that no two busy workers share a run token and that
  every token was drawn from the claim counter; with `RowInv` it gives `Fencing`:
  at most one worker can still finish a job.
- `CrashLoopBound` needs `AttemptsLeft`: queued rows have an attempt left, and
  between maintain's two statements no expired row is exhausted. It assumes
  `~StatementErrors`: with a failing first statement the bound is false.
- `LateResults` is an action property: a worker that ends `RunOnce` without the
  fence changes nothing.
- `Refinement` is `Spec => ImplementsLedger`. It classifies what a step may do to
  the ledger's view of a row (nothing, a submission, a withdrawal, an end, a
  success) and shows for each action of the queue which of these it is. It needs
  `RowInv`, `ClaimsAreUnique` (a worker's claim names an existing row) and
  `AbsentRows`: a row that does not exist is not cancelled and bears no result,
  so that its insertion is the step that submits it.

`HarnessRunProofs` assumes `HarnessAssumption`.
- `EndingsAreTerminal` (a pending `finishRun` carries a terminal status) with
  `TypeOK` and `CancelWins` gives `TypeCorrect`, `Cancellation`, `Finality`.
- `TokenInv` adds `RotatingHasSuccessor` to `OneAuthorizedHost` and
  `RotationDoesNotFork` (`OneHost`): without it a second heartbeat in the rotation
  window could make another successor.
- `StreamInv` (an open stream owns `model_inflight`; while its response is not
  counted its turn is free) gives `OneModelStream`, with the turn budget.
- `ToolInv` (responses not yet counted have no tool call; a call that was not
  claimed has not run) gives `ToolsRunOnce`; `SuccessInv` (whoever reports
  success has seen a verified stop) gives `HonestSuccess`.
- `RunRefinement` is `Spec => ImplementsRunLedger`. Every action is a step of the
  ledger or none of it; for that it needs `CancelWins` (a run that winds down is
  never resumed), `ToolInv` (a response that is being counted, or a result that is
  being stored, is of a call that does not wait) and `WorkingMeansDecided` (a run
  that works or is queued has no open proposal), which the ledger's own steps keep.

`ApprovalProofs` needs no assumption on the constants.
- `DecisionInv` (`TypeOK`, `Waited`, `Unstaged`, `DecidedOnce`, `Faithful`) gives
  `TypeCorrect`, `Decisions`, `Truth`. `Waited` and `Unstaged` say that only a
  call with an approval status is waited for and that an unclaimed call has no
  proposal; `Faithful` carries the truth of a receipt over the steps between the
  transaction that decides and the ones that report it.
- `ParkedUntilDecided`: `RunningMeansDecided` is inductive with `TypeOK`.
  `CancelledReceipts` is an action property of the guard inside the transaction.
- `RunRefinement` is `Spec => ImplementsRunLedger`, from `RunningMeansDecided` and
  `CancellingIsRecorded`: a receipt that releases the run finds it parked or
  already released, never winding down.
- `NoRunIsForgotten`: of a parked run either a call waits, or a timeout or a receipt
  is about to move it (`Moved`), or such a request was lost. It needs that a parked
  run is not cancelled (`ParkedUncancelled`), which the ledger's steps keep, so that
  the receipt which finds the last call decided does release it.

`NotificationsProofs` assumes `NotifyAssumption`; everything rests on `NotifyTypes`.
- `CacheInv`: an adapter is never newer than its channel, and one of the channel's
  revision has its credential. That makes `CredentialStaysCurrent` inductive,
  because a credential changes only with the revision the cache is compared by.
- `DeliveryInv`: a dispatcher works on a message that was queued, with its row's
  budget, and its verdict is one that a provider gave or that `misread` and
  `unreadable` account for. It gives `RecordsAreTrue` and `BudgetIsKept`.
- `ReferenceInv`: an existing target has its channel, a queued message its target,
  and a dispatcher knows the target of its message (`MessagesKeepTargets`).
- `OvertakenRecordIsDropped` and `OverIsOver` are action properties: the claim's
  attempt number is the fence.

`ServicesProofs` has a section for each of the services, which share no row.
- Model providers: `OneDefault` (at most one default, and it is active) gives
  `DefaultIsUsable`.
- Idempotency (`IdempotencyAssumption`): `RecordsInv` says that a record is a
  request's of its key, that while a request works its reservation stands, and
  that an effect has a record that remembers it. It gives `CommandsRunOnce` and
  `ReplaysAnswerTheRequest`.
- Files (`FilesAssumption`): `AudioInv`, what a sweep will remove is old, and no
  job waits for it but one retried since (`QueuedVoiceKeepsAudio`). `ImagesInv`,
  a removal lists images that were uploaded, a thread's removal only those bound
  to it, and files are removed after the rows; an image bound elsewhere since is
  `carried`. It gives `RowsKeepTheirBytes`, for every order of sends.
- Sessions (`SessionsAssumption`): `RowsInv` says that a row belongs to the
  family of an earlier row and carries its link, and that a rotated row was
  replaced. The lemma of a rotation shows that the row presented, or its unseen
  successor, is spent in the step that makes the new one; with it
  `FamilyHasOneToken` is inductive. `RevokedLinkSignsOut` needs that a whole
  family carries one link; `AdminRemains` needs only that the check and the write
  of `UpdateUser` are one transaction.
- Transcript (`TranscriptAssumption`): `TranscriptInv` is inductive, and its
  parts give the three properties. `LogIsKept` rests on the lemmas about
  `Replayed`, which is recursive over the log: a log with one more chunk replays
  to the old view with that chunk applied (`ReplayedNext`), and a replay may be
  resumed at any place (`ReplayedFurther`). `EndIsLogged` says that a run is over,
  or a reply of the worker closed, with its end in the log or by a silent end, and
  `ViewerFollows` that a browser which never left holds the log replayed to its
  cursor; the two give `TheEndIsShown`. `RowsAreRight` says what viewers should see
  of a part while its row is behind it. Streams run only while the budget lasts and
  notices are written only when it is spent (`StreamApart`, `RepliesApart`), so the
  two never meet. An open stream owns the rows of its model call, and
  `total - pending` of its deltas were logged (`Due`, `PartsAreDue`); a notice that
  is `Alone` at its index has shown what it will store (`RepliesAreDue`). When the
  writer ends, the row holds just that (`RowsHoldWhatWasStreamed`); a part whose
  writer is lost is torn in the same step, and one with two rows is `Shifted`.
- Sidecar (`SidecarAssumption`): `Located` says where a command that may still
  have a process is known: it is the one the supervisor stores or the one its
  goroutine waits for, and there is none while it backs off. It gives
  `OneChildAtATime`; Stop, which forgets the command, is why the stored one may
  be missing.

`Recursion` holds what the proofs about recursive definitions rest on. The
library's induction theorems take a predicate as a parameter, which the
installed provers cannot instantiate; here the predicate is a subset of `Nat`
(`Induction`, from the well-foundedness of finite sets) and the recursion is a
function (`RecursionExists`: if every stage is in its range whenever the earlier
ones are, the equation has a solution; `SolutionsAgree`: it has one only;
`IterationExists`). So a fact by induction over the length of a path, of a log or
over the days is an ordinary lemma. What stays out of reach is a `RECURSIVE`
operator, which the models do not use.

`TaskTreeProofs` assumes the four assumptions of `TaskTree`.
- `ReachIsLeast`: what `Reach` finds in as many rounds as there are tasks is the
  least set closed under the edges, since a round that adds nothing ends the
  growth and one that adds something uses up a task. From it come transitivity
  and the lemmas about ancestors, without a path ever being written down.
- `TreeInv` is inductive: `HangsWell` (a parent is of the task's goal, in the bin
  too), `KeptUp` (a kept task has a live goal and a kept parent), `BinOK` (who
  went into the bin with a goal or a task took everything below along: a member
  of a batch has its parent in the same batch, but for the root), `Ordered` (no
  circle) and `FocusOK`. `KeptUp` is one step of `LiveBranch`, the closure makes
  it the whole branch (`BranchesStayLive`). `BinOK` is why a restoration, which
  takes a batch, leaves nothing kept below what stays deleted, and why
  `BatchesComeBackWhole`.
- `ValidRowKeepsOrder`: an edit adds edges from one task only, and was checked to
  have no way back to it; a deletion or a restoration adds no edge, as `Needs`
  counts the rows in the bin. With it `Ordered` is inductive (`WorkStaysOrdered`)
  although a restoration re-checks nothing. A proposal's entries are edits one
  after the other (`TablesAfterEntry`).
- `FocusIsOnLiveWork`: every deletion looks at the focus in its transaction.

`DailyPlanProofs` assumes `TasksAssumption`, `BoundsAssumption`, `NoneAssumption`.
- The scheduler is three recursions over the days. `StaysAreKept`,
  `PulledIsCounted` and `FillingIsSolved` give each its equation, and `FillIsGood`
  sums up what it does to a day: what stays was there, what is new is executable,
  held nowhere else and no more than there is room for, and today has a fresh
  line for each. `PulledFits` counts what later days give up against what today
  lacks, and `FirstTasksAreFew`, `FirstRowsAreFew` what the two selections take.
- `PlanInv` is inductive. A day is sound (`DayInv`) when it is within its room, no
  task has two rows that count (`Once`), a completion by time is backed
  (`Backed`), and a later day has nothing done on it (`Ahead`). `Ahead` with
  `PastOnly` (completions and sessions are of today or before) is what lets the
  scheduler rewrite a later day: nothing is protected there
  (`LaterDayIsFree`), so no evidence is copied to another line. `MappedDay`,
  `SmallerDay` and `GrownDay` say that a day stays sound when rows become others
  (`Succeeds`), go, or come (`Promises`), and each operation is one of these. It
  gives `PlanTypes`, `DaysAreNotOverfilled` and `TimeStaysBacked`; the last needs
  that `InvalidateSession` counts what is left without the session it takes back.
- `CompletedPromisesStay`, `TreeChangesReachToday` and `RefreshGivesOnePlace` are
  action properties under `PlanInv`. The first holds because a satisfied row is
  protected, so its day is only appended to, or kept by a replan. For the second,
  what a change makes impossible is skipped before the days are filled, and what
  they are filled with is executable; a row that was impossible before an edit
  that does not reschedule may stay, which the property excepts
  (`AboveIsClimbed`: a new task is above nobody). For the third, what a day holds
  when it is filled is disjoint from what the earlier days hold and from what the
  queue gives (`PlacesAreApart`).

### What TLC alone checks

Liveness: `EveryJobEnds`, `CancelEnds`, `AbandonedRunEnds`, `ParkedRunMovesOn`,
`EveryMessageEnds`, `StopEndsChild`. It needs `ENABLED`,
which the prover does not handle. The two disagreements are counterexamples, and
theirs alone.

## Simplifications

- A model response of HarnessRun has one tool call; Approval has several.
- A single handler whose last statement fails while its process lives on is the
  same as one that dies there (`APICrash`, `Crash`, `ServerDies`, `Dies`).
- `silent` and `next` of a token that cannot be used any more are normalised.
- Two reads in a row are one step where the code re-checks the first one later,
  or where what it reads can only move one way (a failed job, an ended run).
- The changes of an applied proposal are a counter in Approval, and what they are
  is in TaskTree and DailyPlan; a basis has moved or not.
- Optimistic revisions are left out where every write checks them inside its
  transaction (tree, users): a stale caller is refused and changes nothing.
- The order of `run_after`, the address a target has and the revision of targets
  are left out of Notifications; `TestTarget`'s read and insert are one step.
- Minutes of a promise are one slot, wording, milestones, support and input items
  and the choice of the primary goal are left out of DailyPlan. The order in which
  open tasks are chosen (last attempt, priority, position) is one fixed order; no
  property is about it.
- One login and one logout per user are under way at a time in Sessions.
- What became of a proposal is not part of the amount that Transcript counts of its
  tool call; module Approval is about that. A worker's run is executed once
  (`agent.go:514` sets one attempt), so its reply is not written again.
- `requeueRun` (only in a process without a harness), thread
  checkpoints and instructions of a run are left out, and so are `interruptRun`,
  `cancelRun` and `InterruptRuns`, which nothing calls.

## Not modelled

- Read-only, workspace, research and remote tools, lens and panel, the web
  interface: queries and rendering without state of their own.
- The model context, the provider and integration clients and the adapters' HTTP:
  prompts and I/O; what their answers do is `ProviderAnswers`, `TranscriptEnds`,
  `AskIssuer` and `ProviderReplies`.
- The rate limiter and the login throttle: a token bucket of floating-point tokens
  over real time, and a window of failures, each in the memory of one process
  under one mutex. No interleaving of theirs is observable.
- Titles, listing and branching of threads, and the wording and validation of
  forms, settings and tool arguments.
- One-time FastCAS transactions and service tokens, the doctor command, secret
  sealing, environment parsing, migrations and the Windows panel helper.
- The API's death is modelled where it interrupts a sequence of writes; the
  orphaned child of a supervisor that died without Stop is not.

Left for the future: revisions of targets with the address they carry.
