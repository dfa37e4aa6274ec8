--------------------------- MODULE Notifications ---------------------------
(***************************************************************************)
(* Outbound notifications: the channels an administrator configures, the   *)
(* targets users register on them, the queue of messages and the           *)
(* dispatchers that deliver it (application/notification.go,               *)
(* notificationtarget.go, notificationhooks.go and the adapters of         *)
(* internal/notify).                                                       *)
(*                                                                         *)
(* Each dispatcher is a process with an adapter cache of its own: the      *)
(* scheduler's sweep, the worker's fallback and the test send of an API    *)
(* handler.  A claim, the load of its rows, the provider's answer and the  *)
(* record of it are four steps.  Time is left out but for "due", which is  *)
(* run_after <= now.                                                       *)
(***************************************************************************)
EXTENDS Integers, FiniteSets

CONSTANTS
    Channels, Targets, Messages, Dispatchers,
    Providers,       \* the providers administrators configure
    ChannelOf,       \* the channel each target is registered on
    MaxAttempts,     \* defaultMaxAttempts
    MaxEdits,        \* bound: edits and deletions of channels and targets
    MaxMishaps       \* bound: deaths of dispatchers, stalls past the lease, failed loads

ASSUME NotifyAssumption ==
    /\ Providers \subseteq {"telegram", "bark", "fcm", "apns"}
    /\ Targets # {} /\ ChannelOf \in [Targets -> Channels]
    /\ MaxAttempts \in Nat \ {0}

\* What a provider may answer, by what is the case: the message is accepted; the
\* address is dead; the channel's server, project or topic is not the one the
\* address belongs to; the channel's credential is refused; the payload is
\* refused; anything else (a transport error, a rate limit, a server error).
Replies == {"accepted", "dead_address", "wrong_channel", "bad_credential", "bad_payload", "other"}

Verdicts == {"sent", "invalid", "undeliverable", "retryable"}

classifyTelegram_Blames == [r \in Replies |->
    IF r = "accepted" THEN "sent"
    ELSE IF r \in {"dead_address", "bad_credential"} THEN "invalid" ELSE "retryable"]

classifyTelegram == [r \in Replies |->
    IF r = "accepted" THEN "sent"
    ELSE IF r = "dead_address" THEN "invalid"
    ELSE IF r = "bad_credential" THEN "undeliverable" ELSE "retryable"]

\* Bark has no credential of the channel's, and any 404 is a dead address: that
\* of a server without this path, too.
barkSend == [r \in Replies |->
    IF r = "accepted" THEN "sent"
    ELSE IF r \in {"dead_address", "wrong_channel"} THEN "invalid" ELSE "retryable"]

\* NOT_FOUND is a dead address, whichever entity was not found.
classifyFCM == [r \in Replies |->
    IF r = "accepted" THEN "sent"
    ELSE IF r \in {"dead_address", "wrong_channel"} THEN "invalid"
    ELSE IF r = "bad_credential" THEN "undeliverable" ELSE "retryable"]

\* So is DeviceTokenNotForTopic, also when the topic is the channel's mistake.
classifyAPNS == [r \in Replies |->
    IF r = "accepted" THEN "sent"
    ELSE IF r \in {"dead_address", "wrong_channel"} THEN "invalid"
    ELSE IF r \in {"bad_credential", "bad_payload"} THEN "undeliverable" ELSE "retryable"]

NewSender(kind) == IF kind = "telegram" THEN classifyTelegram
                   ELSE IF kind = "bark" THEN barkSend
                   ELSE IF kind = "fcm" THEN classifyFCM ELSE classifyAPNS

Channel == [status: {"none", "active", "disabled", "gone"}, provider: Providers \cup {"none"},
            revision: Nat, secret: Nat]

\* Ids are never used again: a deleted row is "gone".
Target == [status: {"none", "active", "disabled", "invalid", "gone"}, failures: Nat]

NotificationMessage ==
    [status: {"none", "queued", "sending", "sent", "failed", "gone"}, attempts: Nat, max: Nat,
     target: Targets, due: BOOLEAN]

\* The adapter a process built last for a channel, keyed by its revision.
Sender == [revision: Nat, secret: Nat]

\* A dispatcher: the message it claimed with the attempt of the claim, the
\* failure count and credential it loaded, and the verdict it is about to record.
IdleDispatcher == [at |-> "idle"]

Delivery ==
    [at: {"claimed", "loaded", "answered"}, message: Messages, attempt: Nat, max: Nat,
     target: Targets, failures: Nat, secret: Nat,
     provider: Providers \cup {"none"}, verdict: Verdicts \cup {"none", "void"}]

Dispatcher == {IdleDispatcher} \cup Delivery

VARIABLES
    channel, target, message,
    dispatcher,
    sender,     \* the adapter cache of each dispatcher's process
    publishing, \* the targets a Publish has read and not yet queued messages for
    edits, mishaps,
    accepted,   \* history: the messages a provider accepted
    rejected,   \* history: the targets a provider declared dead
    misread,    \* history: those a provider other than Telegram answered "wrong_channel" for
    unreadable  \* history: those whose stored address could not be decrypted

notifyVars == <<channel, target, message, dispatcher, sender, publishing, edits, mishaps,
                accepted, rejected, misread, unreadable>>

\* The rows are edited once more; the bound is on all edits together.
Edited == edits < MaxEdits /\ edits' = edits + 1

rows == <<channel, target, message>>
history == <<accepted, rejected, misread, unreadable>>

NotifyTypeOK ==
    /\ channel \in [Channels -> Channel]
    /\ target \in [Targets -> Target]
    /\ message \in [Messages -> NotificationMessage]
    /\ dispatcher \in [Dispatchers -> Dispatcher]
    /\ sender \in [Dispatchers -> [Channels -> Sender]]
    /\ publishing \in SUBSET Targets
    /\ edits \in Nat /\ mishaps \in Nat
    /\ accepted \in SUBSET Messages
    /\ rejected \in SUBSET Targets /\ misread \in SUBSET Targets /\ unreadable \in SUBSET Targets

NoChannel == [status |-> "none", provider |-> "none", revision |-> 0, secret |-> 0]
NoTarget == [status |-> "none", failures |-> 0]
NoNotification(t) ==
    [status |-> "none", attempts |-> 0, max |-> MaxAttempts, target |-> t, due |-> FALSE]
NoSenders == [c \in Channels |-> [revision |-> 0, secret |-> 0]]

NotifyInit ==
    /\ channel = [c \in Channels |-> NoChannel]
    /\ target = [t \in Targets |-> NoTarget]
    /\ message = [m \in Messages |-> NoNotification(CHOOSE t \in Targets : TRUE)]
    /\ dispatcher = [d \in Dispatchers |-> IdleDispatcher]
    /\ sender = [d \in Dispatchers |-> NoSenders]
    /\ publishing = {}
    /\ edits = 0 /\ mishaps = 0
    /\ accepted = {} /\ rejected = {} /\ misread = {} /\ unreadable = {}

-----------------------------------------------------------------------------
(* The administrator's channels.                                            *)

CreateChannel(c) ==
    /\ channel[c].status = "none"
    /\ \E s \in {"active", "disabled"}, p \in Providers :
          channel' = [channel EXCEPT ![c] = [status |-> s, provider |-> p, revision |-> 1,
                                             secret |-> 1]]
    /\ UNCHANGED <<target, message, dispatcher, sender, publishing, edits, mishaps, history>>

\* A patch of the status, the credential or anything else.
UpdateChannel(c) ==
    /\ Edited
    /\ channel[c].status \in {"active", "disabled"}
    /\ \E s \in {"active", "disabled"}, replaced \in {0, 1} :
          channel' = [channel EXCEPT ![c].status = s, ![c].revision = @ + 1,
                                     ![c].secret = @ + replaced]
    /\ UNCHANGED <<target, message, dispatcher, sender, publishing, mishaps, history>>

Existing(t) == target[t].status \notin {"none", "gone"}
Queued(m) == message[m].status \notin {"none", "gone"}

\* Deleted rows, with their payload.
GoneTarget == [status |-> "gone", failures |-> 0]
GoneMessage(m) == [NoNotification(message[m].target) EXCEPT !.status = "gone"]

\* ON DELETE CASCADE of the rows that reference a target.
WithoutTargets(dropped) ==
    /\ target' = [t \in Targets |->
                     IF t \in dropped /\ Existing(t) THEN GoneTarget ELSE target[t]]
    /\ message' = [m \in Messages |->
                     IF Queued(m) /\ message[m].target \in dropped
                     THEN GoneMessage(m) ELSE message[m]]

DeleteChannel(c) ==
    /\ Edited
    /\ channel[c].status \in {"active", "disabled"}
    /\ channel' = [channel EXCEPT ![c].status = "gone"]
    /\ WithoutTargets({t \in Targets : ChannelOf[t] = c})
    /\ UNCHANGED <<dispatcher, sender, publishing, mishaps, history>>

-----------------------------------------------------------------------------
(* Registration of targets.                                                 *)

\* A first registration, or the revival of a target by the same address.
CreateTarget(t) ==
    /\ channel[ChannelOf[t]].status = "active" /\ target[t].status # "gone"
    /\ \E s \in {"active", "disabled"} :
          target' = [target EXCEPT ![t] = [status |-> s, failures |-> 0]]
    /\ IF target[t].status = "none" THEN UNCHANGED edits ELSE Edited
    /\ UNCHANGED <<channel, message, dispatcher, sender, publishing, mishaps, history>>

SetTargetStatus(t, s) ==
    /\ Existing(t)
    /\ target' = [target EXCEPT ![t].status = s,
                                ![t].failures = IF s = "active" THEN 0 ELSE @]

\* A new address keeps the status, "invalid" included; which address it is, is
\* left out.
SetTargetAddress(t) ==
    /\ Existing(t)
    /\ target' = [target EXCEPT ![t].failures = 0]

UpdateTarget(t) ==
    /\ Edited
    /\ SetTargetAddress(t) \/ \E s \in {"active", "disabled"} : SetTargetStatus(t, s)
    /\ UNCHANGED <<channel, message, dispatcher, sender, publishing, mishaps, history>>

DeleteTarget(t) ==
    /\ Edited
    /\ Existing(t)
    /\ WithoutTargets({t})
    /\ UNCHANGED <<channel, dispatcher, sender, publishing, mishaps, history>>

-----------------------------------------------------------------------------
(* Publication.                                                             *)

newMessage(t) == [status |-> "queued", attempts |-> 0, max |-> MaxAttempts,
                  target |-> t, due |-> TRUE]

activeTargets == {t \in Targets : target[t].status = "active"
                                  /\ channel[ChannelOf[t]].status = "active"}

\* Publish and Broadcast read the targets first ...
ReadTargets ==
    /\ publishing = {} /\ activeTargets # {}
    /\ publishing' = activeTargets
    /\ UNCHANGED <<rows, dispatcher, sender, edits, mishaps, history>>

\* Foreign keys refuse the whole batch when one of its targets is gone.
TargetsExist(batch) == \A t \in batch : Existing(t)

\* ... and insert one message for each of them, a batch per transaction.
QueueBatch(batch) ==
    \E at \in [batch -> Messages] :
       /\ \A t, u \in batch : at[t] = at[u] => t = u
       /\ \A t \in batch : message[at[t]].status = "none"
       /\ message' = [m \in Messages |->
             IF \E t \in batch : at[t] = m
             THEN newMessage(CHOOSE t \in batch : at[t] = m) ELSE message[m]]

\* Publish inserts all in one transaction, Broadcast at most fifty at a time;
\* a batch that fails ends it.
Broadcast ==
    /\ \E batch \in SUBSET publishing \ {{}} :
          IF TargetsExist(batch)
          THEN QueueBatch(batch) /\ publishing' = publishing \ batch
          ELSE UNCHANGED message /\ publishing' = {}
    /\ UNCHANGED <<channel, target, dispatcher, sender, edits, mishaps, history>>

Publish ==
    /\ publishing # {} /\ publishing' = {}
    /\ IF TargetsExist(publishing) THEN QueueBatch(publishing) ELSE UNCHANGED message
    /\ UNCHANGED <<channel, target, dispatcher, sender, edits, mishaps, history>>

\* The process dies between the read and the insert: the event is lost.
PublishLost ==
    /\ publishing # {}
    /\ publishing' = {}
    /\ UNCHANGED <<rows, dispatcher, sender, edits, mishaps, history>>

-----------------------------------------------------------------------------
(* Delivery.                                                                *)

Hold(d, m, attempt, max) ==
    dispatcher' = [dispatcher EXCEPT ![d] =
        [at |-> "claimed", message |-> m, attempt |-> attempt, max |-> max,
         target |-> message'[m].target, failures |-> 0, secret |-> 0,
         provider |-> "none", verdict |-> "none"]]

Claimable_Queued(m) == message[m].status = "queued" /\ message[m].due

\* A lapsed claim of another dispatcher is due like a queued message, whatever
\* its attempts.
Claimable(m) == message[m].status \in {"queued", "sending"} /\ message[m].due

ClaimNext(d, m) ==
    /\ dispatcher[d] = IdleDispatcher
    /\ Claimable(m)
    /\ message' = [message EXCEPT ![m].status = "sending", ![m].attempts = @ + 1,
                                  ![m].due = FALSE]
    /\ Hold(d, m, message[m].attempts + 1, message[m].max)
    /\ UNCHANGED <<channel, target, sender, publishing, edits, mishaps, history>>

\* The test of a target is claimed up front and gets one attempt.
TestTarget(d, m, t) ==
    /\ dispatcher[d] = IdleDispatcher
    /\ target[t].status = "active" /\ message[m].status = "none"
    /\ message' = [message EXCEPT ![m] = [newMessage(t) EXCEPT
                      !.status = "sending", !.attempts = 1, !.max = 1, !.due = FALSE]]
    /\ Hold(d, m, 1, 1)
    /\ UNCHANGED <<channel, target, sender, publishing, edits, mishaps, history>>

Cached_AnyRevision(d, c) == sender[d][c].revision # 0

\* senderFor: the cached adapter is used only for the revision it was built for.
Cached(d, c) == sender[d][c].revision = channel[c].revision

senderFor(d, c) ==
    sender' = [sender EXCEPT ![d][c] =
        IF Cached(d, c) THEN @
        ELSE [revision |-> channel[c].revision, secret |-> channel[c].secret]]

\* VerifyChannel and SendTest: the channel's row is read and its adapter built
\* or reused, and no row of the queue changes whatever the provider says.
CheckChannel(d, c) ==
    /\ dispatcher[d] = IdleDispatcher
    /\ channel[c].status \in {"active", "disabled"}
    /\ senderFor(d, c)
    /\ UNCHANGED <<rows, dispatcher, publishing, edits, mishaps, history>>

Deliverable(w) ==
    target[w.target].status = "active" /\ channel[ChannelOf[w.target]].status = "active"

\* A claim that ends without a send.
Answer(d, verdict, failures) ==
    dispatcher' = [dispatcher EXCEPT ![d] =
        [dispatcher[d] EXCEPT !.at = "answered", !.verdict = verdict, !.failures = failures]]

\* Rows read in one transaction; a void claim is recorded without a send.
LoadClaimed(d) ==
    LET w == dispatcher[d]
        c == ChannelOf[w.target]
    IN  /\ w.at = "claimed"
        /\ IF Deliverable(w)
           THEN /\ senderFor(d, c)
                /\ dispatcher' = [dispatcher EXCEPT ![d] =
                      [w EXCEPT !.at = "loaded", !.failures = target[w.target].failures,
                                !.secret = channel[c].secret, !.provider = channel[c].provider]]
           ELSE Answer(d, "void", 0) /\ UNCHANGED sender
        /\ UNCHANGED <<rows, publishing, edits, mishaps, history>>

\* The rows are there and could not be read, or no adapter could be built from
\* the channel's credential: the message fails, its target is left alone.
LoadFails(d) ==
    /\ dispatcher[d].at = "claimed" /\ mishaps < MaxMishaps
    /\ mishaps' = mishaps + 1
    /\ Answer(d, "void", 0)
    /\ UNCHANGED <<rows, sender, publishing, edits, history>>

\* An address stored under another key: the target is retired unsent.
AddressUnreadable(d) ==
    LET w == dispatcher[d] IN
    /\ w.at = "claimed" /\ Deliverable(w) /\ mishaps < MaxMishaps
    /\ mishaps' = mishaps + 1
    /\ Answer(d, "invalid", target[w.target].failures)
    /\ unreadable' = unreadable \cup {w.target}
    /\ UNCHANGED <<rows, sender, publishing, edits, accepted, rejected, misread>>

\* The call to the provider, outside any transaction.
ProviderReplies(d) ==
    LET w == dispatcher[d] IN
    /\ w.at = "loaded"
    /\ \E r \in Replies :
          LET verdict == NewSender(w.provider)[r] IN
          /\ dispatcher' = [dispatcher EXCEPT ![d] =
                [w EXCEPT !.at = "answered", !.verdict = verdict]]
          /\ accepted' = IF r = "accepted" THEN accepted \cup {w.message} ELSE accepted
          /\ rejected' = IF r = "dead_address" THEN rejected \cup {w.target} ELSE rejected
          /\ misread' = IF r = "wrong_channel" /\ w.provider # "telegram"
                        THEN misread \cup {w.target} ELSE misread
    /\ UNCHANGED <<rows, sender, publishing, edits, mishaps, unreadable>>

HoldsClaim_AnyAttempt(d) == message[dispatcher[d].message].status = "sending"

\* The record is conditional on the claim this dispatcher made.
HoldsClaim(d) ==
    LET w == dispatcher[d] IN
    /\ message[w.message].status = "sending"
    /\ message[w.message].attempts = w.attempt

Retried(w) == w.verdict = "retryable" /\ w.attempt < w.max

RecordedStatus(w) ==
    IF w.verdict = "sent" THEN "sent" ELSE IF Retried(w) THEN "queued" ELSE "failed"

\* Counters are written from the copy the dispatcher loaded.
RecordOnTarget(w) ==
    target' =
        IF w.verdict = "sent" THEN [target EXCEPT ![w.target].failures = 0]
        ELSE IF w.verdict = "invalid"
        THEN [target EXCEPT ![w.target].status = "invalid",
                            ![w.target].failures = w.failures + 1]
        ELSE IF Retried(w) THEN [target EXCEPT ![w.target].failures = w.failures + 1]
        ELSE target

finishDelivery(d) ==
    LET w == dispatcher[d] IN
    /\ w.at = "answered"
    /\ IF HoldsClaim(d)
       THEN /\ message' = [message EXCEPT ![w.message].status = RecordedStatus(w)]
            /\ RecordOnTarget(w)
       ELSE UNCHANGED <<message, target>>
    /\ dispatcher' = [dispatcher EXCEPT ![d] = IdleDispatcher]
    /\ UNCHANGED <<channel, sender, publishing, edits, mishaps, history>>

Claimant(m) == {d \in Dispatchers : dispatcher[d].at # "idle"
                   /\ dispatcher[d].message = m /\ dispatcher[d].attempt = message[m].attempts}

\* The backoff of a queued message, or the lease of a claimed one, passes: a
\* dispatcher that still works on the message has stalled.
RunAfterPasses(m) ==
    /\ message[m].status \in {"queued", "sending"} /\ ~message[m].due
    /\ IF message[m].status = "sending" /\ Claimant(m) # {}
       THEN mishaps < MaxMishaps /\ mishaps' = mishaps + 1 ELSE UNCHANGED mishaps
    /\ message' = [message EXCEPT ![m].due = TRUE]
    /\ UNCHANGED <<channel, target, dispatcher, sender, publishing, edits, history>>

\* A dispatcher's process dies between two of its steps, with its cache.
DispatcherDies(d) ==
    /\ dispatcher[d] # IdleDispatcher /\ mishaps < MaxMishaps
    /\ mishaps' = mishaps + 1
    /\ dispatcher' = [dispatcher EXCEPT ![d] = IdleDispatcher]
    /\ sender' = [sender EXCEPT ![d] = NoSenders]
    /\ UNCHANGED <<rows, publishing, edits, history>>

\* Prune deletes finished rows past the retention.
Prunable == {m \in Messages : message[m].status \in {"sent", "failed"}}

Prune ==
    \E old \in SUBSET Prunable \ {{}} :
        /\ message' = [m \in Messages |-> IF m \in old THEN GoneMessage(m) ELSE message[m]]
        /\ UNCHANGED <<channel, target, dispatcher, sender, publishing, edits, mishaps, history>>

\* What a dispatcher does with the message it claimed.
sendClaimed(d) ==
    \/ LoadClaimed(d) \/ LoadFails(d) \/ AddressUnreadable(d)
    \/ ProviderReplies(d) \/ finishDelivery(d)

\* One pass of a dispatcher takes one message after another.
DispatchDue(d) == (\E m \in Messages : ClaimNext(d, m)) \/ sendClaimed(d)

\* What a user may do with the targets, ...
UserNotifications ==
    \E t \in Targets :
       \/ CreateTarget(t) \/ UpdateTarget(t) \/ DeleteTarget(t)
       \/ \E d \in Dispatchers, m \in Messages : TestTarget(d, m, t)

\* ... and what only the administrator does.
AdminNotifications ==
    \E c \in Channels : CreateChannel(c) \/ UpdateChannel(c) \/ DeleteChannel(c)
                       \/ \E d \in Dispatchers : CheckChannel(d, c)

NotifyNext ==
    \/ UserNotifications \/ AdminNotifications
    \/ ReadTargets \/ Publish \/ Broadcast \/ PublishLost
    \/ \E d \in Dispatchers : DispatchDue(d) \/ DispatcherDies(d)
    \/ \E m \in Messages : RunAfterPasses(m)
    \/ Prune

NotifySpec == NotifyInit /\ [][NotifyNext]_notifyVars

\* The scheduler's sweep runs again and again, time passes, and a dispatcher
\* that is alive finishes what it started; a Publish is a single handler.
NotifyFairness ==
    /\ \A d \in Dispatchers :
          /\ WF_notifyVars(\E m \in Messages : ClaimNext(d, m))
          /\ WF_notifyVars(sendClaimed(d))
    /\ \A m \in Messages : WF_notifyVars(RunAfterPasses(m))

NotifyFairSpec == NotifySpec /\ NotifyFairness

-----------------------------------------------------------------------------
(* Properties.                                                              *)

\* A message is requeued only while it has attempts left: whichever dispatcher
\* recorded the last attempt, no queued row is past its budget (sendClaimed,
\* finishDelivery).
QueuedHasBudget ==
    \A m \in Messages : message[m].status = "queued" => message[m].attempts < message[m].max

\* The log says "sent" only for a message some attempt got accepted, also when
\* two dispatchers worked on it because a lease lapsed.
SentWasAccepted == \A m \in Messages : message[m].status = "sent" => m \in accepted

\* A target is retired only for a cause of its own: a provider declared its
\* address dead, or the address could not be decrypted; never for the channel's
\* credential or a payload (ErrUndeliverable, notify.go).  The one fault of the
\* channel that retires targets is what Bark, FCM and APNs cannot tell from a
\* dead address: a server, project or topic the address does not belong to.
RetiredForCause ==
    \A t \in Targets : target[t].status = "invalid" => t \in rejected \cup misread \cup unreadable

\* A message that is still in the queue has its target and its channel, also
\* when they are deleted between the reads and the insert of a Publish.
NoOrphanMessages ==
    \A m \in Messages : Queued(m) =>
        /\ Existing(message[m].target)
        /\ channel[ChannelOf[message[m].target]].status \in {"active", "disabled"}

\* A provider is called with the credential the channel had when the message's
\* rows were loaded: an adapter cached before an edit is never used after it.
CredentialIsCurrent ==
    \A d \in Dispatchers : dispatcher[d].at = "loaded" =>
        sender[d][ChannelOf[dispatcher[d].target]].secret = dispatcher[d].secret

\* A dispatcher whose lease lapsed and whose message was claimed again changes
\* neither the message nor the counters of its target.
LateRecordIsDropped ==
    [][\A d \in Dispatchers :
          (/\ dispatcher[d].at = "answered" /\ dispatcher'[d] = IdleDispatcher
           /\ message[dispatcher[d].message].attempts # dispatcher[d].attempt)
          => UNCHANGED <<message, target>>]_notifyVars

\* A delivery that is over is never claimed or sent again.
FinishedIsFinal ==
    [][\A m \in Messages : message[m].status \in {"sent", "failed"} =>
          message'[m] = message[m] \/ message'[m].status = "gone"]_notifyVars

\* Every queued message is delivered or given up, although dispatchers die.
EveryMessageEnds ==
    \A m \in Messages : message[m].status \in {"queued", "sending"}
                        ~> message[m].status \in {"sent", "failed", "gone"}

=============================================================================
