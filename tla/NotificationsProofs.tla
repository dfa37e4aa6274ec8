------------------------ MODULE NotificationsProofs -------------------------
(***************************************************************************)
(* What holds of the notification queue for every number of channels,      *)
(* targets, messages and dispatchers, of deaths and of lapsed leases.      *)
(***************************************************************************)
EXTENDS Notifications, TLAPS

-----------------------------------------------------------------------------
(* Types.                                                                   *)

LEMMA RowTypes ==
    ASSUME NotifyTypeOK
    PROVE  /\ \A c \in Channels : channel[c] \in Channel
           /\ \A t \in Targets : target[t] \in Target /\ ChannelOf[t] \in Channels
           /\ \A m \in Messages : message[m] \in NotificationMessage
           /\ \A d \in Dispatchers : dispatcher[d] # IdleDispatcher => dispatcher[d] \in Delivery
           /\ \A d \in Dispatchers, c \in Channels : sender[d][c] \in Sender
BY NotifyAssumption DEF NotifyTypeOK, Dispatcher

LEMMA BusyTyped ==
    ASSUME NotifyTypeOK, NEW d \in Dispatchers, dispatcher[d].at # "idle"
    PROVE  /\ dispatcher[d] \in Delivery /\ dispatcher[d].target \in Targets
           /\ dispatcher[d].message \in Messages
           /\ ChannelOf[dispatcher[d].target] \in Channels
<1>1. dispatcher[d] # IdleDispatcher
    BY DEF IdleDispatcher
<1> QED
    BY <1>1, RowTypes DEF Delivery

LEMMA ChannelRows ==
    ASSUME NEW row \in Channel, NEW s \in {"active", "disabled", "gone"}, NEW n \in Nat, NEW k \in Nat
    PROVE  /\ [row EXCEPT !.status = s, !.revision = n, !.secret = k] \in Channel
           /\ [row EXCEPT !.status = s] \in Channel
BY DEF Channel

LEMMA TargetRows ==
    ASSUME NEW row \in Target, NEW s \in {"active", "disabled", "invalid"}, NEW n \in Nat
    PROVE  /\ [row EXCEPT !.status = s, !.failures = n] \in Target
           /\ [row EXCEPT !.failures = n] \in Target
           /\ [status |-> s, failures |-> n] \in Target
BY DEF Target

LEMMA GoneRows ==
    /\ GoneTarget \in Target
    /\ \A m \in Messages : message[m] \in NotificationMessage =>
          GoneMessage(m) \in NotificationMessage
BY NotifyAssumption DEF GoneTarget, Target, GoneMessage, NoNotification, NotificationMessage

LEMMA WithoutTargetsTyped ==
    ASSUME NotifyTypeOK, NEW dropped, WithoutTargets(dropped)
    PROVE  target' \in [Targets -> Target] /\ message' \in [Messages -> NotificationMessage]
BY RowTypes, GoneRows DEF WithoutTargets

LEMMA ChannelTypes ==
    ASSUME NotifyTypeOK, NEW c \in Channels, CreateChannel(c) \/ UpdateChannel(c) \/ DeleteChannel(c)
    PROVE  NotifyTypeOK'
<1>0. channel[c] \in Channel
    BY RowTypes
<1>1. CASE CreateChannel(c)
  <2>1. \A s \in {"active", "disabled"}, p \in Providers :
           [status |-> s, provider |-> p, revision |-> 1, secret |-> 1] \in Channel
      BY DEF Channel
  <2> QED
      BY <1>1, <2>1 DEF CreateChannel, NotifyTypeOK, history
<1>2. CASE UpdateChannel(c)
  <2>1. PICK s \in {"active", "disabled"}, n \in {0, 1} :
           channel' = [channel EXCEPT ![c].status = s, ![c].revision = @ + 1, ![c].secret = @ + n]
      BY <1>2 DEF UpdateChannel
  <2> DEFINE row == [channel[c] EXCEPT !.status = s, !.revision = channel[c].revision + 1,
                                       !.secret = channel[c].secret + n]
  <2>2. channel[c].revision + 1 \in Nat /\ channel[c].secret + n \in Nat
      BY <1>0 DEF Channel
  <2>3. row \in Channel
      BY <1>0, <2>2, ChannelRows
  <2>4. channel' = [channel EXCEPT ![c] = row]
      BY <1>0, <2>1 DEF NotifyTypeOK
  <2> HIDE DEF row
  <2> QED
      BY <1>2, <2>3, <2>4 DEF UpdateChannel, Edited, NotifyTypeOK, history
<1>3. CASE DeleteChannel(c)
  <2>1. [channel[c] EXCEPT !.status = "gone"] \in Channel
      BY <1>0, ChannelRows
  <2>2. target' \in [Targets -> Target] /\ message' \in [Messages -> NotificationMessage]
      BY <1>3, WithoutTargetsTyped DEF DeleteChannel
  <2> QED
      BY <1>3, <2>1, <2>2 DEF DeleteChannel, Edited, NotifyTypeOK, history
<1> QED
    BY <1>1, <1>2, <1>3

LEMMA TargetTypes ==
    ASSUME NotifyTypeOK, NEW t \in Targets, CreateTarget(t) \/ UpdateTarget(t) \/ DeleteTarget(t)
    PROVE  NotifyTypeOK'
<1>0. target[t] \in Target /\ edits' \in Nat
    BY RowTypes DEF CreateTarget, UpdateTarget, DeleteTarget, Edited, NotifyTypeOK
<1>1. CASE CreateTarget(t)
  <2>1. \A s \in {"active", "disabled"} : [status |-> s, failures |-> 0] \in Target
      BY DEF Target
  <2> QED
      BY <1>0, <1>1, <2>1 DEF CreateTarget, NotifyTypeOK, history
<1>2. CASE UpdateTarget(t)
  <2>1. target' \in [Targets -> Target]
    <3>1. CASE SetTargetAddress(t)
      <4>1. [target[t] EXCEPT !.failures = 0] \in Target
          BY <1>0, TargetRows
      <4> QED
          BY <3>1, <4>1 DEF SetTargetAddress, NotifyTypeOK
    <3>2. ASSUME NEW s \in {"active", "disabled"}, SetTargetStatus(t, s)
          PROVE  target' \in [Targets -> Target]
      <4> DEFINE n == IF s = "active" THEN 0 ELSE target[t].failures
                 row == [target[t] EXCEPT !.status = s, !.failures = n]
      <4>1. n \in Nat
          BY <1>0 DEF Target
      <4>2. target' = [target EXCEPT ![t] = row]
          BY <1>0, <3>2 DEF SetTargetStatus, NotifyTypeOK
      <4>3. row \in Target
        <5> HIDE DEF n
        <5> QED
          BY <1>0, <4>1, TargetRows
      <4> HIDE DEF row
      <4> QED
          BY <4>2, <4>3 DEF NotifyTypeOK
    <3> QED
        BY <1>2, <3>1, <3>2 DEF UpdateTarget
  <2> QED
      BY <1>0, <1>2, <2>1 DEF UpdateTarget, NotifyTypeOK, history
<1>3. CASE DeleteTarget(t)
  <2>1. target' \in [Targets -> Target] /\ message' \in [Messages -> NotificationMessage]
      BY <1>3, WithoutTargetsTyped DEF DeleteTarget
  <2> QED
      BY <1>0, <1>3, <2>1 DEF DeleteTarget, NotifyTypeOK, history
<1> QED
    BY <1>1, <1>2, <1>3

LEMMA NewMessages ==
    ASSUME NEW t \in Targets
    PROVE  newMessage(t) \in NotificationMessage
BY NotifyAssumption DEF newMessage, NotificationMessage

LEMMA PublicationTypes ==
    ASSUME NotifyTypeOK, ReadTargets \/ Publish \/ Broadcast \/ PublishLost
    PROVE  NotifyTypeOK'
<1>1. ASSUME NEW batch \in SUBSET Targets, QueueBatch(batch)
      PROVE  message' \in [Messages -> NotificationMessage]
  <2>1. PICK at \in [batch -> Messages] :
           message' = [m \in Messages |->
               IF \E t \in batch : at[t] = m
               THEN newMessage(CHOOSE t \in batch : at[t] = m) ELSE message[m]]
      BY <1>1 DEF QueueBatch
  <2>2. \A m \in Messages : (\E t \in batch : at[t] = m) =>
            (CHOOSE t \in batch : at[t] = m) \in Targets
      OBVIOUS
  <2> QED
      BY <2>1, <2>2, NewMessages, RowTypes
<1>2. CASE ReadTargets
    BY <1>2 DEF ReadTargets, activeTargets, NotifyTypeOK, history, rows
<1>3. CASE Publish
    BY <1>1, <1>3 DEF Publish, NotifyTypeOK, history
<1>4. CASE Broadcast
    BY <1>1, <1>4 DEF Broadcast, NotifyTypeOK, history
<1>5. CASE PublishLost
    BY <1>5 DEF PublishLost, NotifyTypeOK, history, rows
<1> QED
    BY <1>2, <1>3, <1>4, <1>5

LEMMA MessageRows ==
    ASSUME NEW row \in NotificationMessage, NEW b \in BOOLEAN,
           NEW s \in {"sending", "queued", "sent", "failed"}, NEW n \in Nat
    PROVE  /\ [row EXCEPT !.status = s, !.attempts = n, !.due = b] \in NotificationMessage
           /\ [row EXCEPT !.status = s] \in NotificationMessage
           /\ [row EXCEPT !.due = b] \in NotificationMessage
           /\ [row EXCEPT !.status = s, !.attempts = n, !.max = n, !.due = b] \in NotificationMessage
BY DEF NotificationMessage

LEMMA DeliveryRows ==
    ASSUME NEW w \in Delivery, NEW f \in Nat, NEW k \in Nat, NEW p \in Providers \cup {"none"},
           NEW v \in Verdicts \cup {"none", "void"}
    PROVE  /\ [w EXCEPT !.at = "loaded", !.failures = f, !.secret = k, !.provider = p] \in Delivery
           /\ [w EXCEPT !.at = "answered", !.verdict = v] \in Delivery
           /\ [w EXCEPT !.at = "answered", !.verdict = v, !.failures = f] \in Delivery
BY DEF Delivery

\* A claim that ends without a send keeps what it is about.
LEMMA AnswersTyped ==
    ASSUME NotifyTypeOK, NEW d \in Dispatchers, dispatcher[d] \in Delivery,
           NEW verdict \in {"void", "invalid"}, NEW failures \in Nat, Answer(d, verdict, failures)
    PROVE  /\ dispatcher' \in [Dispatchers -> Dispatcher]
           /\ \A e \in Dispatchers \ {d} : dispatcher'[e] = dispatcher[e]
           /\ dispatcher'[d].at = "answered" /\ dispatcher'[d].verdict = verdict
           /\ dispatcher'[d].message = dispatcher[d].message
           /\ dispatcher'[d].target = dispatcher[d].target
           /\ dispatcher'[d].max = dispatcher[d].max
<1> DEFINE new == [dispatcher[d] EXCEPT !.at = "answered", !.verdict = verdict,
                                        !.failures = failures]
<1>1. /\ new \in Delivery
      /\ new.at = "answered" /\ new.verdict = verdict /\ new.message = dispatcher[d].message
      /\ new.target = dispatcher[d].target /\ new.max = dispatcher[d].max
  <2>1. verdict \in Verdicts \cup {"none", "void"}
      BY DEF Verdicts
  <2> QED
      BY <2>1, DeliveryRows DEF Delivery
<1>2. dispatcher' = [dispatcher EXCEPT ![d] = new]
    BY DEF Answer
<1> HIDE DEF new
<1> QED
    BY <1>1, <1>2 DEF NotifyTypeOK, Dispatcher

LEMMA HoldTyped ==
    ASSUME NotifyTypeOK, NEW d \in Dispatchers, NEW m \in Messages, NEW attempt \in Nat,
           NEW max \in Nat, message' \in [Messages -> NotificationMessage],
           Hold(d, m, attempt, max)
    PROVE  dispatcher' \in [Dispatchers -> Dispatcher]
<1>1. message'[m].target \in Targets
    BY DEF NotificationMessage
<1>2. [at |-> "claimed", message |-> m, attempt |-> attempt, max |-> max,
       target |-> message'[m].target, failures |-> 0, secret |-> 0,
       provider |-> "none", verdict |-> "none"] \in Delivery
    BY <1>1 DEF Delivery
<1> QED
    BY <1>2 DEF Hold, NotifyTypeOK, Dispatcher

LEMMA ClaimTypes ==
    ASSUME NotifyTypeOK, NEW d \in Dispatchers, NEW m \in Messages,
           ClaimNext(d, m) \/ \E t \in Targets : TestTarget(d, m, t)
    PROVE  NotifyTypeOK'
<1>1. message[m] \in NotificationMessage /\ message[m].attempts + 1 \in Nat /\ message[m].max \in Nat
    BY RowTypes DEF NotificationMessage
<1>2. CASE ClaimNext(d, m)
  <2> DEFINE row == [message[m] EXCEPT !.status = "sending", !.attempts = message[m].attempts + 1,
                                       !.due = FALSE]
  <2>1. row \in NotificationMessage
      BY <1>1, MessageRows
  <2>2. message' = [message EXCEPT ![m] = row]
      BY <1>1, <1>2 DEF ClaimNext, NotifyTypeOK
  <2>3. message' \in [Messages -> NotificationMessage]
    <3> HIDE DEF row
    <3> QED
      BY <2>1, <2>2 DEF NotifyTypeOK
  <2>4. dispatcher' \in [Dispatchers -> Dispatcher]
      BY <1>1, <1>2, <2>3, HoldTyped DEF ClaimNext
  <2> QED
      BY <1>2, <2>3, <2>4 DEF ClaimNext, NotifyTypeOK, history
<1>3. ASSUME NEW t \in Targets, TestTarget(d, m, t)
      PROVE  NotifyTypeOK'
  <2>1. [newMessage(t) EXCEPT !.status = "sending", !.attempts = 1, !.max = 1, !.due = FALSE]
            \in NotificationMessage
      BY NewMessages, MessageRows
  <2>2. message' \in [Messages -> NotificationMessage]
      BY <1>3, <2>1 DEF TestTarget, NotifyTypeOK
  <2>3. dispatcher' \in [Dispatchers -> Dispatcher]
      BY <1>3, <2>2, HoldTyped DEF TestTarget
  <2> QED
      BY <1>3, <2>2, <2>3 DEF TestTarget, NotifyTypeOK, history
<1> QED
    BY <1>2, <1>3

LEMMA SenderTypes ==
    ASSUME NotifyTypeOK, NEW d \in Dispatchers, NEW c \in Channels, senderFor(d, c)
    PROVE  sender' \in [Dispatchers -> [Channels -> Sender]]
<1>1. [revision |-> channel[c].revision, secret |-> channel[c].secret] \in Sender
    BY RowTypes DEF Sender, Channel
<1>2. sender[d][c] \in Sender /\ sender[d] \in [Channels -> Sender]
    BY RowTypes DEF NotifyTypeOK
<1> QED
    BY <1>1, <1>2 DEF senderFor, NotifyTypeOK

\* What the adapters make of an answer, and the two that retire a target.
LEMMA VerdictsOfReplies ==
    ASSUME NEW kind, NEW r \in Replies
    PROVE  /\ NewSender(kind)[r] \in Verdicts
           /\ NewSender(kind)[r] = "invalid" =>
                 r = "dead_address" \/ (r = "wrong_channel" /\ kind # "telegram")
           /\ NewSender(kind)[r] = "sent" => r = "accepted"
<1>1. classifyTelegram[r] \in Verdicts
      /\ (classifyTelegram[r] = "invalid" => r = "dead_address")
      /\ (classifyTelegram[r] = "sent" => r = "accepted")
    BY DEF classifyTelegram, Verdicts
<1>2. barkSend[r] \in Verdicts
      /\ (barkSend[r] = "invalid" => r \in {"dead_address", "wrong_channel"})
      /\ (barkSend[r] = "sent" => r = "accepted")
    BY DEF barkSend, Verdicts
<1>3. classifyFCM[r] \in Verdicts
      /\ (classifyFCM[r] = "invalid" => r \in {"dead_address", "wrong_channel"})
      /\ (classifyFCM[r] = "sent" => r = "accepted")
    BY DEF classifyFCM, Verdicts
<1>4. classifyAPNS[r] \in Verdicts
      /\ (classifyAPNS[r] = "invalid" => r \in {"dead_address", "wrong_channel"})
      /\ (classifyAPNS[r] = "sent" => r = "accepted")
    BY DEF classifyAPNS, Verdicts
<1> QED
    BY <1>1, <1>2, <1>3, <1>4 DEF NewSender

LEMMA DeliveryTypes ==
    ASSUME NotifyTypeOK, NEW d \in Dispatchers,
           sendClaimed(d) \/ DispatcherDies(d)
    PROVE  NotifyTypeOK'
<1> DEFINE w == dispatcher[d]
<1>1. w.at # "idle" => /\ w \in Delivery /\ w.target \in Targets /\ w.message \in Messages
                       /\ ChannelOf[w.target] \in Channels
    BY BusyTyped
<1>2. CASE LoadClaimed(d)
  <2>1. w \in Delivery /\ w.target \in Targets /\ ChannelOf[w.target] \in Channels
      BY <1>1, <1>2 DEF LoadClaimed
  <2>2. target[w.target].failures \in Nat /\ channel[ChannelOf[w.target]].secret \in Nat
        /\ channel[ChannelOf[w.target]].provider \in Providers \cup {"none"}
      BY <2>1, RowTypes DEF Target, Channel
  <2>3. dispatcher' \in [Dispatchers -> Dispatcher]
    <3>1. CASE Deliverable(w)
      <4>1. \E new \in Delivery : dispatcher' = [dispatcher EXCEPT ![d] = new]
          BY <1>2, <2>1, <2>2, <3>1, DeliveryRows DEF LoadClaimed
      <4> QED
          BY <4>1 DEF NotifyTypeOK, Dispatcher
    <3>2. CASE ~Deliverable(w)
        BY <1>2, <2>1, <3>2, AnswersTyped DEF LoadClaimed
    <3> QED
        BY <3>1, <3>2
  <2>4. sender' \in [Dispatchers -> [Channels -> Sender]]
      BY <1>2, <2>1, SenderTypes DEF LoadClaimed, NotifyTypeOK
  <2> QED
      BY <1>2, <2>3, <2>4 DEF LoadClaimed, NotifyTypeOK, rows, history
<1>6. CASE LoadFails(d) \/ AddressUnreadable(d)
  <2>1. w \in Delivery /\ w.target \in Targets
      BY <1>1, <1>6 DEF LoadFails, AddressUnreadable
  <2>2. target[w.target].failures \in Nat
      BY <2>1, RowTypes DEF Target
  <2>3. dispatcher' \in [Dispatchers -> Dispatcher]
      BY <1>6, <2>1, <2>2, AnswersTyped DEF LoadFails, AddressUnreadable
  <2> QED
      BY <1>6, <2>1, <2>3 DEF LoadFails, AddressUnreadable, NotifyTypeOK, rows, history
<1>3. CASE ProviderReplies(d)
  <2>1. w \in Delivery /\ w.target \in Targets /\ w.message \in Messages
      BY <1>1, <1>3 DEF ProviderReplies
  <2>2. \E new \in Delivery : dispatcher' = [dispatcher EXCEPT ![d] = new]
      BY <1>3, <2>1, VerdictsOfReplies, DeliveryRows DEF ProviderReplies
  <2> QED
      BY <1>3, <2>1, <2>2 DEF ProviderReplies, NotifyTypeOK, Dispatcher, rows
<1>4. CASE finishDelivery(d)
  <2>1. w \in Delivery /\ w.target \in Targets /\ w.message \in Messages
      BY <1>1, <1>4 DEF finishDelivery
  <2>2. RecordedStatus(w) \in {"sending", "queued", "sent", "failed"}
      BY DEF RecordedStatus
  <2>3. message' \in [Messages -> NotificationMessage]
    <3>1. [message[w.message] EXCEPT !.status = RecordedStatus(w)] \in NotificationMessage
        BY <2>1, <2>2, RowTypes, MessageRows
    <3> QED
        BY <1>4, <2>1, <3>1 DEF finishDelivery, NotifyTypeOK
  <2>4. target' \in [Targets -> Target]
    <3> DEFINE row == target[w.target]
    <3>1. w.failures + 1 \in Nat /\ row \in Target
        BY <2>1, RowTypes DEF Delivery
    <3>2. /\ [row EXCEPT !.failures = 0] \in Target
          /\ [row EXCEPT !.failures = w.failures + 1] \in Target
          /\ [row EXCEPT !.status = "invalid", !.failures = w.failures + 1] \in Target
        BY <3>1, TargetRows
    <3>3. target' = target \/ \E new \in Target : target' = [target EXCEPT ![w.target] = new]
        BY <1>4, <2>1, <3>2 DEF finishDelivery, RecordOnTarget, NotifyTypeOK
    <3> QED
        BY <3>3 DEF NotifyTypeOK
  <2> QED
      BY <1>4, <2>3, <2>4 DEF finishDelivery, NotifyTypeOK, Dispatcher, history
<1>5. CASE DispatcherDies(d)
  <2>1. NoSenders \in [Channels -> Sender]
      BY DEF NoSenders, Sender
  <2> QED
      BY <1>5, <2>1 DEF DispatcherDies, NotifyTypeOK, Dispatcher, rows, history
<1> QED
    BY <1>2, <1>3, <1>4, <1>5, <1>6 DEF sendClaimed

LEMMA QueueTypes ==
    ASSUME NotifyTypeOK,
           \/ \E m \in Messages : RunAfterPasses(m)
           \/ Prune
           \/ \E d \in Dispatchers, c \in Channels : CheckChannel(d, c)
    PROVE  NotifyTypeOK'
<1>1. CASE \E m \in Messages : RunAfterPasses(m)
  <2>1. PICK m \in Messages : RunAfterPasses(m)
      BY <1>1
  <2>2. [message[m] EXCEPT !.due = TRUE] \in NotificationMessage
      BY RowTypes, MessageRows
  <2> QED
      BY <2>1, <2>2 DEF RunAfterPasses, NotifyTypeOK, history
<1>2. CASE Prune
    BY <1>2, RowTypes, GoneRows DEF Prune, NotifyTypeOK, history
<1>3. CASE \E d \in Dispatchers, c \in Channels : CheckChannel(d, c)
    BY <1>3, SenderTypes DEF CheckChannel, NotifyTypeOK, rows, history
<1> QED
    BY <1>1, <1>2, <1>3

THEOREM NotifyTypes == NotifySpec => []NotifyTypeOK
<1>1. NotifyInit => NotifyTypeOK
  <2> SUFFICES ASSUME NotifyInit
               PROVE  NotifyTypeOK
      OBVIOUS
  <2>1. (CHOOSE t \in Targets : TRUE) \in Targets
      BY NotifyAssumption
  <2>2. \A t \in Targets : NoNotification(t) \in NotificationMessage
      BY NotifyAssumption DEF NoNotification, NotificationMessage
  <2>3. NoChannel \in Channel /\ NoTarget \in Target /\ NoSenders \in [Channels -> Sender]
      BY DEF NoChannel, Channel, NoTarget, Target, NoSenders, Sender
  <2> QED
      BY <2>1, <2>2, <2>3 DEF NotifyInit, NotifyTypeOK, Dispatcher
<1>2. NotifyTypeOK /\ [NotifyNext]_notifyVars => NotifyTypeOK'
  <2> SUFFICES ASSUME NotifyTypeOK, [NotifyNext]_notifyVars
               PROVE  NotifyTypeOK'
    OBVIOUS
  <2>1. CASE UNCHANGED notifyVars
    BY <2>1 DEF notifyVars, NotifyTypeOK
  <2>2. CASE UserNotifications
    BY <2>2, TargetTypes, ClaimTypes DEF UserNotifications
  <2>3. CASE AdminNotifications
    BY <2>3, ChannelTypes, QueueTypes DEF AdminNotifications
  <2>4. CASE \E d \in Dispatchers : DispatchDue(d) \/ DispatcherDies(d)
    BY <2>4, ClaimTypes, DeliveryTypes DEF DispatchDue
  <2> QED
    BY <2>1, <2>2, <2>3, <2>4, PublicationTypes, QueueTypes DEF NotifyNext
<1> QED
    BY <1>1, <1>2, PTL DEF NotifySpec

-----------------------------------------------------------------------------
(* The adapter caches.                                                      *)

\* An adapter is never newer than its channel, and one of the channel's revision
\* has the channel's credential: the credential changes only with the revision.
CacheInv ==
    /\ \A c \in Channels :
          /\ channel[c].status = "none" => channel[c].revision = 0
          /\ channel[c].revision = 0 => channel[c].secret = 0
    /\ \A d \in Dispatchers, c \in Channels :
          /\ sender[d][c].revision <= channel[c].revision
          /\ sender[d][c].revision = channel[c].revision => sender[d][c].secret = channel[c].secret
    /\ CredentialIsCurrent

LEMMA CachesUntouched ==
    ASSUME CacheInv, UNCHANGED <<channel, sender>>,
           \A d \in Dispatchers : dispatcher'[d].at = "loaded" => dispatcher'[d] = dispatcher[d]
    PROVE  CacheInv'
BY DEF CacheInv, CredentialIsCurrent

LEMMA EditsKeepCaches ==
    ASSUME NotifyTypeOK, CacheInv, NEW c \in Channels,
           CreateChannel(c) \/ UpdateChannel(c) \/ DeleteChannel(c)
    PROVE  CacheInv'
<1>1. UNCHANGED <<sender, dispatcher>>
    BY DEF CreateChannel, UpdateChannel, DeleteChannel
<1>2. CredentialIsCurrent'
    BY <1>1 DEF CacheInv, CredentialIsCurrent
<1>3. \A k \in Channels \ {c} : channel'[k] = channel[k]
    BY DEF CreateChannel, UpdateChannel, DeleteChannel, NotifyTypeOK
<1>4. channel[c] \in Channel /\ \A d \in Dispatchers : sender[d][c] \in Sender
    BY RowTypes
<1>5. /\ channel'[c].status # "none"
      /\ channel'[c].revision = 0 => channel'[c].secret = 0
      /\ channel'[c].revision = channel[c].revision => channel'[c].secret = channel[c].secret
      /\ channel[c].revision <= channel'[c].revision
  <2>1. CASE CreateChannel(c)
    <3>1. channel[c].revision = 0
        BY <2>1 DEF CreateChannel, CacheInv
    <3> QED
        BY <2>1, <3>1 DEF CreateChannel, NotifyTypeOK
  <2>2. CASE UpdateChannel(c)
    <3>1. PICK st \in {"active", "disabled"}, n \in {0, 1} :
             channel' = [channel EXCEPT ![c].status = st, ![c].revision = @ + 1, ![c].secret = @ + n]
        BY <2>2 DEF UpdateChannel
    <3>2. channel'[c].status = st /\ channel'[c].revision = channel[c].revision + 1
        BY <1>4, <3>1 DEF NotifyTypeOK, Channel
    <3>3. channel[c].revision \in Nat
        BY <1>4 DEF Channel
    <3> QED
        BY <3>2, <3>3
  <2>3. CASE DeleteChannel(c)
    <3>1. channel' = [channel EXCEPT ![c].status = "gone"]
        BY <2>3 DEF DeleteChannel
    <3>2. /\ channel'[c].status = "gone" /\ channel'[c].revision = channel[c].revision
          /\ channel'[c].secret = channel[c].secret
        BY <1>4, <3>1 DEF NotifyTypeOK, Channel
    <3>3. channel[c].revision \in Nat
        BY <1>4 DEF Channel
    <3> QED
        BY <3>2, <3>3 DEF CacheInv
  <2> QED
      BY <2>1, <2>2, <2>3
<1>6. channel'[c].revision \in Nat /\ channel[c].revision \in Nat
      /\ \A d \in Dispatchers : sender[d][c].revision \in Nat
  <2>1. channel'[c] \in Channel
      BY ChannelTypes DEF NotifyTypeOK
  <2> QED
      BY <1>4, <2>1 DEF Channel, Sender
<1>7. ASSUME NEW d \in Dispatchers
      PROVE  /\ sender'[d][c].revision <= channel'[c].revision
             /\ sender'[d][c].revision = channel'[c].revision => sender'[d][c].secret = channel'[c].secret
  <2>1. /\ sender[d][c].revision <= channel[c].revision
        /\ sender[d][c].revision = channel[c].revision => sender[d][c].secret = channel[c].secret
      BY DEF CacheInv
  <2> QED
      BY <1>1, <1>5, <1>6, <2>1
<1> QED
    BY <1>1, <1>2, <1>3, <1>5, <1>7 DEF CacheInv

LEMMA SendersKeepCaches ==
    ASSUME NotifyTypeOK, CacheInv, NEW d \in Dispatchers, NEW c \in Channels, senderFor(d, c),
           UNCHANGED channel
    PROVE  /\ sender'[d][c].secret = channel[c].secret
           /\ \A e \in Dispatchers \ {d} : sender'[e] = sender[e]
           /\ \A e \in Dispatchers, k \in Channels :
                 /\ sender'[e][k].revision <= channel'[k].revision
                 /\ sender'[e][k].revision = channel'[k].revision => sender'[e][k].secret = channel'[k].secret
<1> DEFINE fresh == [revision |-> channel[c].revision, secret |-> channel[c].secret]
<1>1. /\ sender \in [Dispatchers -> [Channels -> Sender]]
      /\ channel[c].revision \in Nat
    BY RowTypes DEF NotifyTypeOK, Channel
<1>2. CASE Cached(d, c)
  <2>1. sender' = sender
      BY <1>1, <1>2 DEF senderFor
  <2> QED
      BY <1>2, <2>1 DEF Cached, CacheInv
<1>3. CASE ~Cached(d, c)
  <2>1. sender' = [sender EXCEPT ![d][c] = fresh]
      BY <1>3 DEF senderFor
  <2>2. \A e \in Dispatchers, k \in Channels :
            sender'[e][k] = IF e = d /\ k = c THEN fresh ELSE sender[e][k]
      BY <1>1, <2>1
  <2>3. \A e \in Dispatchers \ {d} : sender'[e] = sender[e]
      BY <1>1, <2>1
  <2> QED
      BY <1>1, <2>2, <2>3 DEF CacheInv
<1> QED
    BY <1>2, <1>3

LEMMA DeliveryKeepsCaches ==
    ASSUME NotifyTypeOK, CacheInv, NEW d \in Dispatchers,
           \/ sendClaimed(d) \/ DispatcherDies(d)
           \/ \E c \in Channels : CheckChannel(d, c)
    PROVE  CacheInv'
<1> DEFINE w == dispatcher[d]
<1>1. dispatcher \in [Dispatchers -> Dispatcher] /\ sender \in [Dispatchers -> [Channels -> Sender]]
    BY DEF NotifyTypeOK
<1>2. CASE ProviderReplies(d) \/ finishDelivery(d)
  <2>1. \A e \in Dispatchers \ {d} : dispatcher'[e] = dispatcher[e]
      BY <1>1, <1>2 DEF ProviderReplies, finishDelivery
  <2>2. dispatcher'[d].at # "loaded"
    <3>1. CASE finishDelivery(d)
        BY <1>1, <3>1 DEF finishDelivery, IdleDispatcher
    <3>2. CASE ProviderReplies(d)
      <4>1. w \in Delivery
          BY <3>2, BusyTyped DEF ProviderReplies
      <4>2. PICK v : dispatcher' = [dispatcher EXCEPT ![d] = [w EXCEPT !.at = "answered", !.verdict = v]]
          BY <3>2 DEF ProviderReplies
      <4>3. [w EXCEPT !.at = "answered", !.verdict = v].at = "answered"
          BY <4>1 DEF Delivery
      <4> QED
          BY <1>1, <4>2, <4>3
    <3> QED
        BY <1>2, <3>1, <3>2
  <2>3. UNCHANGED <<channel, sender>>
      BY <1>2 DEF ProviderReplies, finishDelivery, rows
  <2> QED
      BY <2>1, <2>2, <2>3, CachesUntouched
<1>3. CASE DispatcherDies(d)
  <2>1. /\ UNCHANGED channel
        /\ dispatcher' = [dispatcher EXCEPT ![d] = IdleDispatcher]
        /\ sender' = [sender EXCEPT ![d] = NoSenders]
      BY <1>3 DEF DispatcherDies, rows
  <2>2. \A c \in Channels : channel[c].revision \in Nat /\ channel[c].secret \in Nat
      BY RowTypes DEF Channel
  <2>3. CredentialIsCurrent'
    <3>1. dispatcher'[d].at # "loaded"
        BY <1>1, <2>1 DEF IdleDispatcher
    <3>2. \A e \in Dispatchers \ {d} : dispatcher'[e] = dispatcher[e] /\ sender'[e] = sender[e]
        BY <1>1, <2>1
    <3> QED
        BY <3>1, <3>2 DEF CacheInv, CredentialIsCurrent
  <2>4. \A c \in Channels : sender'[d][c].revision = 0 /\ sender'[d][c].secret = 0
      BY <1>1, <2>1 DEF NoSenders
  <2>5. \A e \in Dispatchers \ {d} : sender'[e] = sender[e]
      BY <1>1, <2>1
  <2>6. \A e \in Dispatchers, c \in Channels :
            /\ sender'[e][c].revision <= channel[c].revision
            /\ sender'[e][c].revision = channel[c].revision => sender'[e][c].secret = channel[c].secret
      BY <2>2, <2>4, <2>5 DEF CacheInv
  <2> QED
      BY <2>1, <2>3, <2>6 DEF CacheInv
<1>4. CASE \E c \in Channels : CheckChannel(d, c)
  <2>1. PICK c \in Channels : CheckChannel(d, c)
      BY <1>4
  <2>2. UNCHANGED <<channel, dispatcher>> /\ senderFor(d, c) /\ dispatcher[d].at # "loaded"
      BY <2>1 DEF CheckChannel, rows, IdleDispatcher
  <2>3. CredentialIsCurrent'
      BY <2>2, SendersKeepCaches DEF CacheInv, CredentialIsCurrent
  <2> QED
      BY <2>2, <2>3, SendersKeepCaches DEF CacheInv
<1>5. CASE LoadClaimed(d)
  <2> DEFINE c == ChannelOf[w.target]
  <2>1. w \in Delivery /\ c \in Channels
      BY <1>5, BusyTyped DEF LoadClaimed
  <2>2. UNCHANGED channel
      BY <1>5 DEF LoadClaimed, rows
  <2>3. CASE /\ senderFor(d, c)
             /\ dispatcher' = [dispatcher EXCEPT ![d] =
                   [w EXCEPT !.at = "loaded", !.failures = target[w.target].failures,
                             !.secret = channel[c].secret, !.provider = channel[c].provider]]
    <3>1. /\ \A e \in Dispatchers \ {d} : dispatcher'[e] = dispatcher[e] /\ sender'[e] = sender[e]
          /\ sender'[d][c].secret = channel[c].secret
        BY <1>1, <2>1, <2>2, <2>3, SendersKeepCaches
    <3>2. dispatcher'[d].target = w.target /\ dispatcher'[d].secret = channel[c].secret
        BY <1>1, <2>1, <2>3 DEF Delivery
    <3>3. CredentialIsCurrent'
        BY <3>1, <3>2 DEF CacheInv, CredentialIsCurrent
    <3> QED
        BY <2>1, <2>2, <2>3, <3>3, SendersKeepCaches DEF CacheInv
  <2>4. CASE UNCHANGED sender /\ Answer(d, "void", 0)
    <3>1. \A e \in Dispatchers : dispatcher'[e].at = "loaded" => dispatcher'[e] = dispatcher[e]
        BY <2>1, <2>4, AnswersTyped
    <3> QED
        BY <2>2, <2>4, <3>1, CachesUntouched
  <2> QED
      BY <1>5, <2>3, <2>4 DEF LoadClaimed
<1>6. CASE LoadFails(d) \/ AddressUnreadable(d)
  <2>1. w \in Delivery /\ w.target \in Targets
      BY <1>6, BusyTyped DEF LoadFails, AddressUnreadable
  <2>2. target[w.target].failures \in Nat
      BY <2>1, RowTypes DEF Target
  <2>3. \A e \in Dispatchers : dispatcher'[e].at = "loaded" => dispatcher'[e] = dispatcher[e]
      BY <1>6, <2>1, <2>2, AnswersTyped DEF LoadFails, AddressUnreadable
  <2> QED
      BY <1>6, <2>3, CachesUntouched DEF LoadFails, AddressUnreadable, rows
<1> QED
    BY <1>2, <1>3, <1>4, <1>5, <1>6 DEF sendClaimed

LEMMA ClaimsKeepCaches ==
    ASSUME NotifyTypeOK, CacheInv, NEW d \in Dispatchers, NEW m \in Messages,
           ClaimNext(d, m) \/ \E t \in Targets : TestTarget(d, m, t)
    PROVE  CacheInv'
<1>1. UNCHANGED <<channel, sender>>
    BY DEF ClaimNext, TestTarget
<1>2. dispatcher' \in [Dispatchers -> Dispatcher]
      /\ dispatcher'[d].at = "claimed"
      /\ \A e \in Dispatchers \ {d} : dispatcher'[e] = dispatcher[e]
  <2>1. PICK attempt, max : Hold(d, m, attempt, max)
      BY DEF ClaimNext, TestTarget
  <2>2. NotifyTypeOK'
      BY ClaimTypes
  <2> QED
      BY <2>1, <2>2 DEF Hold, NotifyTypeOK
<1>3. \A e \in Dispatchers : dispatcher'[e].at = "loaded" => dispatcher'[e] = dispatcher[e]
    BY <1>2
<1> QED
    BY <1>1, <1>3, CachesUntouched

\* senderFor: whichever dispatcher process built an adapter and whenever, a
\* provider is called with the credential that the channel had when the rows of
\* the message were loaded.
THEOREM CredentialStaysCurrent == NotifySpec => []CredentialIsCurrent
<1>1. NotifyInit => CacheInv
    BY DEF NotifyInit, CacheInv, CredentialIsCurrent, NoChannel, NoSenders, IdleDispatcher
<1>2. NotifyTypeOK /\ CacheInv /\ [NotifyNext]_notifyVars => CacheInv'
  <2> SUFFICES ASSUME NotifyTypeOK, CacheInv, [NotifyNext]_notifyVars
               PROVE  CacheInv'
    OBVIOUS
  <2>1. CASE UNCHANGED <<channel, sender, dispatcher>>
    BY <2>1, CachesUntouched
  <2>2. CASE UserNotifications
    BY <2>1, <2>2, ClaimsKeepCaches DEF UserNotifications, CreateTarget, UpdateTarget, DeleteTarget
  <2>3. CASE AdminNotifications
    BY <2>3, EditsKeepCaches, DeliveryKeepsCaches DEF AdminNotifications
  <2>4. CASE \E d \in Dispatchers : DispatchDue(d) \/ DispatcherDies(d)
    BY <2>4, ClaimsKeepCaches, DeliveryKeepsCaches DEF DispatchDue
  <2>5. CASE ReadTargets \/ Publish \/ Broadcast \/ PublishLost
    BY <2>1, <2>5 DEF ReadTargets, Publish, Broadcast, PublishLost, rows
  <2>6. CASE Prune \/ \E m \in Messages : RunAfterPasses(m)
    BY <2>1, <2>6 DEF Prune, RunAfterPasses
  <2>7. CASE UNCHANGED notifyVars
    BY <2>1, <2>7 DEF notifyVars
  <2> QED
    BY <2>2, <2>3, <2>4, <2>5, <2>6, <2>7 DEF NotifyNext
<1>3. CacheInv => CredentialIsCurrent
    BY DEF CacheInv
<1> QED
    BY <1>1, <1>2, <1>3, NotifyTypes, PTL DEF NotifySpec

-----------------------------------------------------------------------------
(* What is recorded of a delivery.                                          *)

\* A dispatcher works on a message that was queued, with the budget of its row,
\* and its verdict has a cause.
WorkIsReal(d) ==
    /\ message[dispatcher[d].message].status # "none"
    /\ message[dispatcher[d].message].status # "gone" =>
          message[dispatcher[d].message].max = dispatcher[d].max
    /\ dispatcher[d].verdict = "invalid" =>
          dispatcher[d].target \in rejected \cup misread \cup unreadable
    /\ dispatcher[d].verdict = "sent" => dispatcher[d].message \in accepted

DeliveryInv ==
    /\ \A d \in Dispatchers : dispatcher[d].at # "idle" => WorkIsReal(d)
    /\ RetiredForCause /\ SentWasAccepted /\ QueuedHasBudget

\* Rows change, dispatchers do not.
LEMMA RowsKeepDelivery ==
    ASSUME NotifyTypeOK, DeliveryInv, UNCHANGED <<dispatcher, history>>,
           \A t \in Targets : target'[t].status = "invalid" => target[t].status = "invalid",
           \A m \in Messages :
              \/ message'[m].status = "gone"
              \/ message[m].status = "none" /\ message'[m].status = "queued"
                    /\ message'[m].attempts < message'[m].max
              \/ /\ message'[m].status = message[m].status /\ message'[m].max = message[m].max
                 /\ message'[m].attempts = message[m].attempts
    PROVE  DeliveryInv'
<1>1. \A d \in Dispatchers : dispatcher[d].at # "idle" => dispatcher[d].message \in Messages
    BY BusyTyped
<1>2. \A d \in Dispatchers : dispatcher'[d].at # "idle" => WorkIsReal(d)'
    BY <1>1 DEF DeliveryInv, WorkIsReal, history
<1>3. RetiredForCause' /\ SentWasAccepted' /\ QueuedHasBudget'
    BY DEF DeliveryInv, RetiredForCause, SentWasAccepted, QueuedHasBudget, history
<1> QED
    BY <1>2, <1>3 DEF DeliveryInv

LEMMA WithoutTargetsRows ==
    ASSUME NEW dropped, WithoutTargets(dropped)
    PROVE  /\ \A t \in Targets : target'[t] = target[t] \/ target'[t].status = "gone"
           /\ \A m \in Messages : message'[m] = message[m] \/ message'[m].status = "gone"
BY DEF WithoutTargets, GoneTarget, GoneMessage, NoNotification

LEMMA RegistrationKeepsDelivery ==
    ASSUME NotifyTypeOK, DeliveryInv,
           \/ \E t \in Targets : CreateTarget(t) \/ UpdateTarget(t) \/ DeleteTarget(t)
           \/ \E c \in Channels : CreateChannel(c) \/ UpdateChannel(c) \/ DeleteChannel(c)
    PROVE  DeliveryInv'
<1>1. UNCHANGED <<dispatcher, history>>
    BY DEF CreateTarget, UpdateTarget, DeleteTarget, CreateChannel, UpdateChannel, DeleteChannel,
       history
<1>2. CASE \E t \in Targets : DeleteTarget(t)
    BY <1>1, <1>2, WithoutTargetsRows, RowsKeepDelivery DEF DeleteTarget
<1>3. CASE \E c \in Channels : DeleteChannel(c)
    BY <1>1, <1>3, WithoutTargetsRows, RowsKeepDelivery DEF DeleteChannel
<1>4. CASE \E t \in Targets : CreateTarget(t)
  <2>1. \A t \in Targets : target'[t].status = "invalid" => target[t].status = "invalid"
      BY <1>4 DEF CreateTarget, NotifyTypeOK
  <2> QED
      BY <1>1, <1>4, <2>1, RowsKeepDelivery DEF CreateTarget
<1>5. CASE \E t \in Targets : UpdateTarget(t)
  <2>1. PICK t \in Targets : UpdateTarget(t)
      BY <1>5
  <2>2. target[t] \in Target
      BY RowTypes
  <2>3. \A u \in Targets \ {t} : target'[u] = target[u]
      BY <2>1 DEF UpdateTarget, SetTargetAddress, SetTargetStatus, NotifyTypeOK
  <2>4. target'[t].status = target[t].status \/ target'[t].status \in {"active", "disabled"}
    <3>1. CASE SetTargetAddress(t)
        BY <2>2, <3>1 DEF SetTargetAddress, NotifyTypeOK, Target
    <3>2. ASSUME NEW s \in {"active", "disabled"}, SetTargetStatus(t, s)
          PROVE  target'[t].status = s
        BY <2>2, <3>2 DEF SetTargetStatus, NotifyTypeOK, Target
    <3> QED
        BY <2>1, <3>1, <3>2 DEF UpdateTarget
  <2>5. UNCHANGED message
      BY <2>1 DEF UpdateTarget
  <2> QED
      BY <1>1, <2>3, <2>4, <2>5, RowsKeepDelivery
<1>6. CASE \E c \in Channels : CreateChannel(c) \/ UpdateChannel(c)
    BY <1>1, <1>6, RowsKeepDelivery DEF CreateChannel, UpdateChannel
<1> QED
    BY <1>2, <1>3, <1>4, <1>5, <1>6

LEMMA QueueKeepsDelivery ==
    ASSUME NotifyTypeOK, DeliveryInv,
           \/ ReadTargets \/ Publish \/ Broadcast \/ PublishLost \/ Prune
           \/ \E m \in Messages : RunAfterPasses(m)
    PROVE  DeliveryInv'
<1>1. UNCHANGED <<dispatcher, target, history>>
    BY DEF ReadTargets, Publish, Broadcast, PublishLost, Prune, RunAfterPasses, history, rows
<1>2. ASSUME NEW batch, QueueBatch(batch), batch \subseteq Targets
      PROVE  DeliveryInv'
  <2>1. \A t \in Targets : /\ newMessage(t).status = "queued"
                           /\ newMessage(t).attempts < newMessage(t).max
      BY NotifyAssumption DEF newMessage
  <2>2. \A m \in Messages :
           \/ message'[m] = message[m]
           \/ message[m].status = "none" /\ \E t \in Targets : message'[m] = newMessage(t)
      BY <1>2 DEF QueueBatch
  <2> QED
      BY <1>1, <2>1, <2>2, RowsKeepDelivery
<1>3. CASE UNCHANGED message
    BY <1>1, <1>3, RowsKeepDelivery
<1>4. CASE Publish
    BY <1>2, <1>3, <1>4 DEF Publish, NotifyTypeOK
<1>5. CASE Broadcast
    BY <1>2, <1>3, <1>5 DEF Broadcast, NotifyTypeOK
<1>6. CASE Prune
  <2>1. \A m \in Messages : message'[m] = message[m] \/ message'[m].status = "gone"
      BY <1>6 DEF Prune, GoneMessage, NoNotification
  <2> QED
      BY <1>1, <2>1, RowsKeepDelivery
<1>7. CASE \E m \in Messages : RunAfterPasses(m)
  <2>1. PICK m \in Messages : message' = [message EXCEPT ![m].due = TRUE]
      BY <1>7 DEF RunAfterPasses
  <2>2. \A n \in Messages : /\ message'[n].status = message[n].status
                            /\ message'[n].max = message[n].max
                            /\ message'[n].attempts = message[n].attempts
      BY <2>1, RowTypes DEF NotifyTypeOK, NotificationMessage
  <2> QED
      BY <1>1, <2>2, RowsKeepDelivery
<1> QED
    BY <1>3, <1>4, <1>5, <1>6, <1>7 DEF ReadTargets, PublishLost, rows

\* A claim: of a row whose claimants keep its budget, or of a new row.
LEMMA ClaimsKeepDelivery ==
    ASSUME NotifyTypeOK, DeliveryInv, NEW d \in Dispatchers, NEW m \in Messages,
           ClaimNext(d, m) \/ \E t \in Targets : TestTarget(d, m, t)
    PROVE  DeliveryInv'
<1>1. /\ UNCHANGED <<target, history>>
      /\ \A n \in Messages \ {m} : message'[n] = message[n]
    BY DEF ClaimNext, TestTarget, history, NotifyTypeOK
<1>2. message'[m].status = "sending"
      /\ \/ message[m].status = "none"
         \/ message'[m].max = message[m].max /\ message[m].status # "gone"
  <2>1. CASE ClaimNext(d, m)
      BY <2>1, RowTypes DEF ClaimNext, Claimable, NotifyTypeOK, NotificationMessage
  <2>2. ASSUME NEW t \in Targets, TestTarget(d, m, t)
        PROVE  message[m].status = "none" /\ message'[m].status = "sending"
      BY <2>2, RowTypes DEF TestTarget, NotifyTypeOK, newMessage
  <2> QED
      BY <2>1, <2>2
<1> DEFINE row(attempt, max) ==
        [at |-> "claimed", message |-> m, attempt |-> attempt, max |-> max,
         target |-> message'[m].target, failures |-> 0, secret |-> 0,
         provider |-> "none", verdict |-> "none"]
<1>3. /\ \E attempt : dispatcher'[d] = row(attempt, message'[m].max)
      /\ \A e \in Dispatchers \ {d} : dispatcher'[e] = dispatcher[e]
  <2>1. CASE ClaimNext(d, m)
    <3>1. Hold(d, m, message[m].attempts + 1, message[m].max) /\ message'[m].max = message[m].max
        BY <2>1, RowTypes DEF ClaimNext, NotifyTypeOK, NotificationMessage
    <3>2. dispatcher' = [dispatcher EXCEPT ![d] = row(message[m].attempts + 1, message'[m].max)]
        BY <3>1 DEF Hold
    <3> HIDE DEF row
    <3> QED
        BY <3>2 DEF NotifyTypeOK
  <2>2. ASSUME NEW t \in Targets, TestTarget(d, m, t)
        PROVE  /\ \E attempt : dispatcher'[d] = row(attempt, message'[m].max)
               /\ \A e \in Dispatchers \ {d} : dispatcher'[e] = dispatcher[e]
    <3>1. Hold(d, m, 1, 1)
        BY <2>2 DEF TestTarget
    <3>2. message'[m].max = 1
        BY <2>2 DEF TestTarget, NotifyTypeOK, newMessage
    <3>3. dispatcher' = [dispatcher EXCEPT ![d] = row(1, message'[m].max)]
        BY <3>1, <3>2 DEF Hold
    <3> HIDE DEF row
    <3> QED
        BY <3>3 DEF NotifyTypeOK
  <2> QED
      BY <2>1, <2>2
<1>4. /\ dispatcher'[d].message = m /\ dispatcher'[d].max = message'[m].max
      /\ dispatcher'[d].verdict = "none"
    BY <1>3
<1>5. ASSUME NEW e \in Dispatchers, dispatcher'[e].at # "idle"
      PROVE  WorkIsReal(e)'
  <2>1. CASE e = d
      BY <1>2, <1>4, <2>1 DEF WorkIsReal
  <2>2. CASE e # d
    <3>1. WorkIsReal(e) /\ dispatcher'[e] = dispatcher[e] /\ dispatcher[e].message \in Messages
        BY <1>3, <1>5, <2>2, BusyTyped DEF DeliveryInv
    <3> QED
        BY <1>1, <1>2, <3>1 DEF WorkIsReal, history
  <2> QED
      BY <2>1, <2>2
<1>6. RetiredForCause' /\ SentWasAccepted' /\ QueuedHasBudget'
    BY <1>1, <1>2 DEF DeliveryInv, RetiredForCause, SentWasAccepted, QueuedHasBudget, history
<1> QED
    BY <1>5, <1>6 DEF DeliveryInv

LEMMA RepliesKeepDelivery ==
    ASSUME NotifyTypeOK, DeliveryInv, NEW d \in Dispatchers,
           \/ LoadClaimed(d) \/ LoadFails(d) \/ AddressUnreadable(d)
           \/ ProviderReplies(d) \/ DispatcherDies(d)
           \/ \E c \in Channels : CheckChannel(d, c)
    PROVE  DeliveryInv'
<1> DEFINE w == dispatcher[d]
<1>1. UNCHANGED <<target, message>>
      /\ accepted \subseteq accepted' /\ rejected \subseteq rejected'
      /\ misread \subseteq misread' /\ unreadable \subseteq unreadable'
    BY DEF LoadClaimed, LoadFails, AddressUnreadable, ProviderReplies, DispatcherDies, CheckChannel,
       rows, history
<1>2. RetiredForCause' /\ SentWasAccepted' /\ QueuedHasBudget'
    BY <1>1 DEF DeliveryInv, RetiredForCause, SentWasAccepted, QueuedHasBudget
<1>3. \A e \in Dispatchers \ {d} : dispatcher'[e] = dispatcher[e]
    BY DEF LoadClaimed, LoadFails, AddressUnreadable, Answer, ProviderReplies, DispatcherDies,
       CheckChannel, NotifyTypeOK
<1>4. dispatcher'[d].at # "idle" => WorkIsReal(d)'
  <2>1. CASE DispatcherDies(d) \/ \E c \in Channels : CheckChannel(d, c)
      BY <2>1 DEF DispatcherDies, CheckChannel, IdleDispatcher, NotifyTypeOK
  <2>2. CASE LoadClaimed(d)
    <3>1. w \in Delivery /\ WorkIsReal(d)
        BY <2>2, BusyTyped DEF LoadClaimed, DeliveryInv
    <3>2. /\ dispatcher'[d].message = w.message /\ dispatcher'[d].max = w.max
          /\ dispatcher'[d].target = w.target
          /\ dispatcher'[d].verdict \in {w.verdict, "void"}
      <4> DEFINE loaded == [w EXCEPT !.at = "loaded", !.failures = target[w.target].failures,
                                     !.secret = channel[ChannelOf[w.target]].secret,
                                     !.provider = channel[ChannelOf[w.target]].provider]
      <4>1. /\ loaded.message = w.message /\ loaded.max = w.max /\ loaded.target = w.target
            /\ loaded.verdict = w.verdict
          BY <3>1 DEF Delivery
      <4>2. CASE dispatcher' = [dispatcher EXCEPT ![d] = loaded]
        <5> HIDE DEF loaded
        <5> QED
            BY <4>1, <4>2 DEF NotifyTypeOK
      <4>3. CASE Answer(d, "void", 0)
          BY <3>1, <4>3, AnswersTyped
      <4> QED
          BY <2>2, <4>2, <4>3 DEF LoadClaimed
    <3> QED
        BY <1>1, <3>1, <3>2 DEF WorkIsReal
  <2>3. CASE ProviderReplies(d)
    <3>1. w \in Delivery /\ WorkIsReal(d)
        BY <2>3, BusyTyped DEF ProviderReplies, DeliveryInv
    <3>2. PICK r \in Replies :
             /\ dispatcher' = [dispatcher EXCEPT ![d] =
                   [w EXCEPT !.at = "answered", !.verdict = NewSender(w.provider)[r]]]
             /\ r = "accepted" => w.message \in accepted'
             /\ r = "dead_address" => w.target \in rejected'
             /\ r = "wrong_channel" /\ w.provider # "telegram" => w.target \in misread'
        BY <2>3 DEF ProviderReplies
    <3>3. /\ dispatcher'[d].message = w.message /\ dispatcher'[d].max = w.max
          /\ dispatcher'[d].target = w.target
          /\ dispatcher'[d].verdict = NewSender(w.provider)[r]
        BY <3>1, <3>2 DEF NotifyTypeOK, Delivery
    <3> QED
        BY <1>1, <3>1, <3>2, <3>3, VerdictsOfReplies DEF WorkIsReal
  <2>4. CASE LoadFails(d) \/ AddressUnreadable(d)
    <3>1. w \in Delivery /\ w.target \in Targets /\ WorkIsReal(d)
        BY <2>4, BusyTyped DEF LoadFails, AddressUnreadable, DeliveryInv
    <3>2. target[w.target].failures \in Nat
        BY <3>1, RowTypes DEF Target
    <3>3. CASE LoadFails(d)
        BY <1>1, <3>1, <3>3, AnswersTyped DEF LoadFails, WorkIsReal
    <3>4. CASE AddressUnreadable(d)
        BY <1>1, <3>1, <3>2, <3>4, AnswersTyped DEF AddressUnreadable, WorkIsReal
    <3> QED
        BY <2>4, <3>3, <3>4
  <2> QED
      BY <2>1, <2>2, <2>3, <2>4
<1>5. \A e \in Dispatchers \ {d} : dispatcher'[e].at # "idle" => WorkIsReal(e)'
    BY <1>1, <1>3 DEF DeliveryInv, WorkIsReal
<1> QED
    BY <1>2, <1>4, <1>5 DEF DeliveryInv

LEMMA RecordsKeepDelivery ==
    ASSUME NotifyTypeOK, DeliveryInv, NEW d \in Dispatchers, finishDelivery(d)
    PROVE  DeliveryInv'
<1> DEFINE w == dispatcher[d]
<1>1. /\ w \in Delivery /\ w.message \in Messages /\ w.target \in Targets /\ WorkIsReal(d)
      /\ message[w.message] \in NotificationMessage /\ target[w.target] \in Target
      /\ w.attempt \in Nat /\ w.max \in Nat
    BY BusyTyped, RowTypes DEF finishDelivery, DeliveryInv, Delivery
<1>2. UNCHANGED history
      /\ dispatcher'[d].at = "idle"
      /\ \A e \in Dispatchers \ {d} : dispatcher'[e] = dispatcher[e]
    BY DEF finishDelivery, history, NotifyTypeOK, IdleDispatcher
<1>3. /\ \A n \in Messages \ {w.message} : message'[n] = message[n]
      /\ \A t \in Targets \ {w.target} : target'[t] = target[t]
    BY DEF finishDelivery, RecordOnTarget, NotifyTypeOK
<1>4. \/ message'[w.message] = message[w.message]
      \/ /\ HoldsClaim(d)
         /\ message'[w.message].status = RecordedStatus(w)
         /\ message'[w.message].max = message[w.message].max
         /\ message'[w.message].attempts = message[w.message].attempts
    BY <1>1 DEF finishDelivery, NotifyTypeOK, NotificationMessage
<1>5. target'[w.target].status = target[w.target].status
      \/ (target'[w.target].status = "invalid" /\ w.verdict = "invalid")
    BY <1>1 DEF finishDelivery, RecordOnTarget, NotifyTypeOK, Target
<1>6. RetiredForCause'
    BY <1>1, <1>2, <1>3, <1>5 DEF DeliveryInv, RetiredForCause, WorkIsReal, history
<1>7. SentWasAccepted'
    BY <1>1, <1>2, <1>3, <1>4 DEF DeliveryInv, SentWasAccepted, WorkIsReal, RecordedStatus, history
<1>8. QueuedHasBudget'
  <2>1. CASE HoldsClaim(d) /\ message'[w.message].status = "queued"
             /\ RecordedStatus(w) = "queued"
    <3>1. w.attempt < w.max /\ message[w.message].attempts = w.attempt
        BY <2>1 DEF RecordedStatus, Retried, HoldsClaim
    <3>2. message[w.message].max = w.max
        BY <1>1, <2>1 DEF HoldsClaim, WorkIsReal
    <3> QED
        BY <1>3, <1>4, <3>1, <3>2 DEF DeliveryInv, QueuedHasBudget
  <2> QED
      BY <1>3, <1>4, <2>1 DEF DeliveryInv, QueuedHasBudget
<1>9. ASSUME NEW e \in Dispatchers, dispatcher'[e].at # "idle"
      PROVE  WorkIsReal(e)'
  <2>1. /\ dispatcher'[e] = dispatcher[e] /\ WorkIsReal(e) /\ dispatcher[e].message \in Messages
      BY <1>2, <1>9, BusyTyped DEF DeliveryInv
  <2>2. RecordedStatus(w) \notin {"none", "gone"}
      BY DEF RecordedStatus
  <2>3. HoldsClaim(d) => message[w.message].status # "gone"
      BY DEF HoldsClaim
  <2> QED
      BY <1>2, <1>3, <1>4, <2>1, <2>2, <2>3 DEF WorkIsReal, history
<1> QED
    BY <1>6, <1>7, <1>8, <1>9 DEF DeliveryInv

LEMMA DeliveryInductive == NotifySpec => []DeliveryInv
<1>1. NotifyInit => DeliveryInv
    BY DEF NotifyInit, DeliveryInv, WorkIsReal, RetiredForCause, SentWasAccepted, QueuedHasBudget,
       NoTarget, NoNotification, IdleDispatcher
<1>2. NotifyTypeOK /\ DeliveryInv /\ [NotifyNext]_notifyVars => DeliveryInv'
  <2> SUFFICES ASSUME NotifyTypeOK, DeliveryInv, [NotifyNext]_notifyVars
               PROVE  DeliveryInv'
    OBVIOUS
  <2>1. CASE UNCHANGED notifyVars
    BY <2>1, RowsKeepDelivery DEF notifyVars, history
  <2>2. CASE UserNotifications
    BY <2>2, RegistrationKeepsDelivery, ClaimsKeepDelivery DEF UserNotifications
  <2>3. CASE AdminNotifications
    BY <2>3, RegistrationKeepsDelivery, RepliesKeepDelivery DEF AdminNotifications
  <2>4. CASE \E d \in Dispatchers : DispatchDue(d) \/ DispatcherDies(d)
    BY <2>4, ClaimsKeepDelivery, RepliesKeepDelivery, RecordsKeepDelivery DEF DispatchDue, sendClaimed
  <2> QED
    BY <2>1, <2>2, <2>3, <2>4, QueueKeepsDelivery DEF NotifyNext
<1> QED
    BY <1>1, <1>2, NotifyTypes, PTL DEF NotifySpec

\* sendClaimed, finishDelivery, ErrUndeliverable: whatever the adapters answer
\* and whenever it is recorded, a target is retired only when a provider blamed
\* its address (Telegram for a dead one only; Bark, FCM and APNs also for one
\* that does not belong to the channel's server, project or topic) or when the
\* address could not be decrypted, and the log says "sent" only of a message
\* that a provider accepted.
THEOREM RecordsAreTrue == NotifySpec => [](RetiredForCause /\ SentWasAccepted)
<1>1. DeliveryInv => RetiredForCause /\ SentWasAccepted
    BY DEF DeliveryInv
<1> QED
    BY <1>1, DeliveryInductive, PTL

\* sendClaimed, finishDelivery: a message that waits for another attempt has one
\* left, whichever of several claimants recorded the last.
THEOREM BudgetIsKept == NotifySpec => []QueuedHasBudget
<1>1. DeliveryInv => QueuedHasBudget
    BY DEF DeliveryInv
<1> QED
    BY <1>1, DeliveryInductive, PTL

-----------------------------------------------------------------------------
(* What a step may never do.                                                *)

\* Only the record of a verdict and a death end a delivery that was answered.
LEMMA AnsweredEnds ==
    ASSUME NotifyTypeOK, NotifyNext, NEW d \in Dispatchers,
           dispatcher[d].at = "answered", dispatcher'[d] = IdleDispatcher
    PROVE  finishDelivery(d) \/ DispatcherDies(d)
<1>1. dispatcher'[d] # dispatcher[d] /\ dispatcher[d] # IdleDispatcher
    BY DEF IdleDispatcher
<1>2. CASE UserNotifications
  <2>1. CASE \E t \in Targets : CreateTarget(t) \/ UpdateTarget(t) \/ DeleteTarget(t)
      BY <1>1, <2>1 DEF CreateTarget, UpdateTarget, DeleteTarget
  <2>2. ASSUME NEW e \in Dispatchers, NEW m \in Messages, NEW t \in Targets, TestTarget(e, m, t)
        PROVE  FALSE
    <3>1. e # d
        BY <1>1, <2>2 DEF TestTarget
    <3>2. PICK row : dispatcher' = [dispatcher EXCEPT ![e] = row]
        BY <2>2 DEF TestTarget, Hold
    <3> QED
        BY <1>1, <3>1, <3>2 DEF NotifyTypeOK
  <2> QED
      BY <1>2, <2>1, <2>2 DEF UserNotifications
<1>3. CASE AdminNotifications
    BY <1>1, <1>3 DEF AdminNotifications, CreateChannel, UpdateChannel, DeleteChannel, CheckChannel
<1>4. CASE ReadTargets \/ Publish \/ Broadcast \/ PublishLost \/ Prune
           \/ \E m \in Messages : RunAfterPasses(m)
    BY <1>1, <1>4 DEF ReadTargets, Publish, Broadcast, PublishLost, Prune, RunAfterPasses
<1>5. ASSUME NEW e \in Dispatchers, DispatchDue(e) \/ DispatcherDies(e)
      PROVE  finishDelivery(d) \/ DispatcherDies(d)
  <2>1. CASE e = d
    <3>1. dispatcher[d].at \notin {"claimed", "loaded"}
        OBVIOUS
    <3> QED
        BY <1>1, <1>5, <2>1, <3>1 
        DEF DispatchDue, sendClaimed, ClaimNext, LoadClaimed, LoadFails, AddressUnreadable,
            ProviderReplies
  <2>2. CASE e # d
    <3>1. dispatcher'[d] = dispatcher[d]
      <4>1. ASSUME NEW m \in Messages, ClaimNext(e, m)
            PROVE  \E row : dispatcher' = [dispatcher EXCEPT ![e] = row]
          BY <4>1 DEF ClaimNext, Hold
      <4>2. CASE LoadClaimed(e) \/ LoadFails(e) \/ AddressUnreadable(e)
          BY <2>2, <4>2 DEF LoadClaimed, LoadFails, AddressUnreadable, Answer, NotifyTypeOK
      <4>3. CASE ProviderReplies(e)
          BY <2>2, <4>3 DEF ProviderReplies, NotifyTypeOK
      <4>4. CASE finishDelivery(e) \/ DispatcherDies(e)
          BY <2>2, <4>4 DEF finishDelivery, DispatcherDies, NotifyTypeOK
      <4> QED
          BY <1>5, <2>2, <4>1, <4>2, <4>3, <4>4 DEF DispatchDue, sendClaimed, NotifyTypeOK
    <3> QED
        BY <1>1, <3>1
  <2> QED
      BY <2>1, <2>2
<1> QED
    BY <1>2, <1>3, <1>4, <1>5 DEF NotifyNext

\* finishDelivery: a dispatcher whose claim was overtaken records nothing, on the
\* message or on its target, whichever of them lapsed, died or was edited.
THEOREM OvertakenRecordIsDropped == NotifySpec => LateRecordIsDropped
<1> DEFINE LateRecord ==
        \A d \in Dispatchers :
          (/\ dispatcher[d].at = "answered" /\ dispatcher'[d] = IdleDispatcher
           /\ message[dispatcher[d].message].attempts # dispatcher[d].attempt)
          => UNCHANGED <<message, target>>
<1>1. NotifyTypeOK /\ [NotifyNext]_notifyVars => [LateRecord]_notifyVars
  <2> SUFFICES ASSUME NotifyTypeOK, NotifyNext, NEW d \in Dispatchers,
                      dispatcher[d].at = "answered", dispatcher'[d] = IdleDispatcher,
                      message[dispatcher[d].message].attempts # dispatcher[d].attempt
               PROVE  UNCHANGED <<message, target>>
    OBVIOUS
  <2>1. finishDelivery(d) \/ DispatcherDies(d)
    BY AnsweredEnds
  <2>2. CASE DispatcherDies(d)
    BY <2>2 DEF DispatcherDies, rows
  <2>3. CASE finishDelivery(d)
    BY <2>3 DEF finishDelivery, HoldsClaim
  <2> QED
    BY <2>1, <2>2, <2>3
<1>2. NotifySpec => [][LateRecord]_notifyVars
    BY <1>1, NotifyTypes, PTL DEF NotifySpec
<1> QED
    BY <1>2 DEF LateRecordIsDropped

\* sendClaimed, Prune, the cascades: the row of a message that was sent or given
\* up is never written again, it can only be deleted.
THEOREM OverIsOver == NotifySpec => FinishedIsFinal
<1> DEFINE StaysFinished ==
        \A m \in Messages : message[m].status \in {"sent", "failed"} =>
            message'[m] = message[m] \/ message'[m].status = "gone"
<1>1. NotifyTypeOK /\ [NotifyNext]_notifyVars => [StaysFinished]_notifyVars
  <2> SUFFICES ASSUME NotifyTypeOK, NotifyNext, NEW m \in Messages,
                      message[m].status \in {"sent", "failed"}
               PROVE  message'[m] = message[m] \/ message'[m].status = "gone"
    OBVIOUS
  <2>1. CASE UserNotifications
    <3>1. CASE \E t \in Targets : CreateTarget(t) \/ UpdateTarget(t) \/ DeleteTarget(t)
        BY <3>1, WithoutTargetsRows DEF CreateTarget, UpdateTarget, DeleteTarget
    <3>2. ASSUME NEW e \in Dispatchers, NEW n \in Messages, NEW t \in Targets,
                 TestTarget(e, n, t)
          PROVE  message'[m] = message[m]
        BY <3>2 DEF TestTarget, NotifyTypeOK
    <3> QED
        BY <2>1, <3>1, <3>2 DEF UserNotifications
  <2>2. CASE AdminNotifications
    BY <2>2, WithoutTargetsRows
    DEF AdminNotifications, CreateChannel, UpdateChannel, DeleteChannel, CheckChannel, rows
  <2>3. CASE Publish \/ Broadcast
    <3>1. ASSUME NEW batch, QueueBatch(batch)
          PROVE  message'[m] = message[m]
        BY <3>1 DEF QueueBatch
    <3> QED
        BY <2>3, <3>1 DEF Publish, Broadcast
  <2>4. CASE ReadTargets \/ PublishLost \/ Prune
    BY <2>4 DEF ReadTargets, PublishLost, Prune, GoneMessage, NoNotification, rows
  <2>5. CASE \E n \in Messages : RunAfterPasses(n)
    BY <2>5 DEF RunAfterPasses, NotifyTypeOK
  <2>6. ASSUME NEW d \in Dispatchers, DispatchDue(d) \/ DispatcherDies(d)
        PROVE  message'[m] = message[m]
    <3>1. ASSUME NEW n \in Messages, ClaimNext(d, n)
          PROVE  message'[m] = message[m]
        BY <3>1 DEF ClaimNext, Claimable, NotifyTypeOK
    <3>2. CASE finishDelivery(d)
        BY <3>2 DEF finishDelivery, HoldsClaim, NotifyTypeOK
    <3> QED
        BY <2>6, <3>1, <3>2 DEF DispatchDue, sendClaimed, LoadClaimed, LoadFails,
           AddressUnreadable, ProviderReplies, DispatcherDies, rows
  <2> QED
    BY <2>1, <2>2, <2>3, <2>4, <2>5, <2>6 DEF NotifyNext
<1>2. NotifySpec => [][StaysFinished]_notifyVars
    BY <1>1, NotifyTypes, PTL DEF NotifySpec
<1> QED
    BY <1>2 DEF FinishedIsFinal

-----------------------------------------------------------------------------
(* The references of a queued message.                                      *)

ServingChannel(t) == channel[ChannelOf[t]].status \in {"active", "disabled"}

\* A dispatcher knows the target of the message it claimed, whose id no other
\* message gets.
ReferenceInv ==
    /\ \A t \in Targets : Existing(t) => ServingChannel(t)
    /\ \A m \in Messages : Queued(m) => Existing(message[m].target)
    /\ \A d \in Dispatchers : dispatcher[d].at # "idle" =>
          message[dispatcher[d].message].target = dispatcher[d].target

LEMMA RegistrationKeepsReferences ==
    ASSUME NotifyTypeOK, ReferenceInv, \E t \in Targets : CreateTarget(t) \/ UpdateTarget(t)
    PROVE  ReferenceInv'
<1>1. UNCHANGED <<channel, message, dispatcher>>
    BY DEF CreateTarget, UpdateTarget
<1>2. PICK t \in Targets : CreateTarget(t) \/ UpdateTarget(t)
    OBVIOUS
<1>3. \A u \in Targets \ {t} : target'[u] = target[u]
    BY <1>2 DEF CreateTarget, UpdateTarget, SetTargetAddress, SetTargetStatus, NotifyTypeOK
<1>4. Existing(t)' /\ ServingChannel(t)
  <2>1. CASE CreateTarget(t)
      BY <2>1 DEF CreateTarget, Existing, ServingChannel, NotifyTypeOK
  <2>2. CASE SetTargetAddress(t)
      BY <2>2, RowTypes
      DEF SetTargetAddress, ReferenceInv, Existing, NotifyTypeOK, Target
  <2>3. ASSUME NEW s \in {"active", "disabled"}, SetTargetStatus(t, s)
        PROVE  Existing(t)' /\ ServingChannel(t)
      BY <2>3, RowTypes DEF SetTargetStatus, ReferenceInv, Existing, NotifyTypeOK, Target
  <2> QED
      BY <1>2, <2>1, <2>2, <2>3 DEF UpdateTarget
<1> QED
    BY <1>1, <1>3, <1>4, RowTypes DEF ReferenceInv, Existing, Queued, ServingChannel, NotificationMessage

\* ON DELETE CASCADE: the targets of a channel go with it, and the messages of a
\* target with it.
LEMMA DeletionsKeepReferences ==
    ASSUME NotifyTypeOK, ReferenceInv,
           \/ \E t \in Targets : DeleteTarget(t)
           \/ \E c \in Channels : DeleteChannel(c)
    PROVE  ReferenceInv'
<1>1. PICK dropped \in SUBSET Targets :
         /\ WithoutTargets(dropped) /\ dispatcher' = dispatcher
         /\ \A t \in Targets \ dropped : ServingChannel(t) => ServingChannel(t)'
  <2>1. ASSUME NEW t \in Targets, DeleteTarget(t)
        PROVE  /\ WithoutTargets({t}) /\ dispatcher' = dispatcher
               /\ \A u \in Targets : ServingChannel(u) => ServingChannel(u)'
      BY <2>1 DEF DeleteTarget, ServingChannel
  <2>2. ASSUME NEW c \in Channels, DeleteChannel(c)
        PROVE  /\ WithoutTargets({t \in Targets : ChannelOf[t] = c}) /\ dispatcher' = dispatcher
               /\ \A u \in Targets \ {t \in Targets : ChannelOf[t] = c} :
                     ServingChannel(u) => ServingChannel(u)'
      BY <2>2, NotifyAssumption DEF DeleteChannel, ServingChannel, NotifyTypeOK
  <2> QED
      BY <2>1, <2>2
<1>2. \A t \in Targets : Existing(t)' => t \notin dropped /\ Existing(t)
    BY <1>1 DEF WithoutTargets, Existing, GoneTarget
<1>3. \A m \in Messages : message'[m].target = message[m].target
    BY <1>1 DEF WithoutTargets, GoneMessage, NoNotification
<1>4. \A m \in Messages : Queued(m)' => Queued(m) /\ message[m].target \notin dropped
    BY <1>1 DEF WithoutTargets, Queued, GoneMessage, NoNotification
<1>5. \A m \in Messages : Queued(m)' => Existing(message[m].target)'
  <2> SUFFICES ASSUME NEW m \in Messages, Queued(m)'
               PROVE  Existing(message[m].target)'
      OBVIOUS
  <2>1. message[m].target \in Targets
      BY RowTypes DEF NotificationMessage
  <2>2. target'[message[m].target] = target[message[m].target]
      BY <1>1, <1>4, <2>1 DEF WithoutTargets
  <2> QED
      BY <1>3, <1>4, <2>2 DEF ReferenceInv, Existing
<1> QED
    BY <1>1, <1>2, <1>3, <1>5, BusyTyped DEF ReferenceInv

\* The inserts: of a message whose target exists when it is queued.
LEMMA PublicationKeepsReferences ==
    ASSUME NotifyTypeOK, DeliveryInv, ReferenceInv,
           \/ Publish \/ Broadcast
           \/ \E d \in Dispatchers, m \in Messages, t \in Targets : TestTarget(d, m, t)
    PROVE  ReferenceInv'
<1>1. UNCHANGED <<channel, target>>
    BY DEF Publish, Broadcast, TestTarget
<1>2. ASSUME NEW batch \in SUBSET Targets, QueueBatch(batch), TargetsExist(batch),
             dispatcher' = dispatcher
      PROVE  ReferenceInv'
  <2>1. \A m \in Messages :
           \/ message'[m] = message[m]
           \/ message[m].status = "none" /\ message'[m].target \in batch
    <3> SUFFICES ASSUME NEW m \in Messages, message'[m] # message[m]
                 PROVE  message[m].status = "none" /\ message'[m].target \in batch
        OBVIOUS
    <3>1. PICK at \in [batch -> Messages] :
             /\ \A t \in batch : message[at[t]].status = "none"
             /\ message' = [n \in Messages |->
                   IF \E t \in batch : at[t] = n
                   THEN newMessage(CHOOSE t \in batch : at[t] = n) ELSE message[n]]
        BY <1>2 DEF QueueBatch
    <3>2. PICK t \in batch : at[t] = m
        BY <3>1
    <3>3. (CHOOSE u \in batch : at[u] = m) \in batch
        BY <3>2
    <3> QED
        BY <3>1, <3>2, <3>3 DEF newMessage
  <2>2. \A d \in Dispatchers : dispatcher[d].at # "idle" =>
           /\ dispatcher[d].message \in Messages
           /\ message[dispatcher[d].message].status # "none"
      BY BusyTyped DEF DeliveryInv, WorkIsReal
  <2>3. \A t \in Targets : Existing(t)' <=> Existing(t)
      BY <1>1 DEF Existing
  <2>4. \A m \in Messages : Queued(m)' => Existing(message'[m].target)
      BY <1>2, <2>1 DEF ReferenceInv, Queued, TargetsExist
  <2>5. \A d \in Dispatchers : dispatcher'[d].at # "idle" =>
           message'[dispatcher'[d].message].target = dispatcher'[d].target
      BY <1>2, <2>1, <2>2 DEF ReferenceInv
  <2> QED
      BY <1>1, <2>3, <2>4, <2>5 DEF ReferenceInv, ServingChannel, Existing
<1>3. ASSUME NEW d \in Dispatchers, NEW m \in Messages, NEW t \in Targets, TestTarget(d, m, t)
      PROVE  ReferenceInv'
  <2>1. message'[m].target = t /\ \A n \in Messages \ {m} : message'[n] = message[n]
      BY <1>3 DEF TestTarget, newMessage, NotifyTypeOK
  <2>2. PICK row : /\ dispatcher' = [dispatcher EXCEPT ![d] = row]
                   /\ row.message = m /\ row.target = message'[m].target
    <3> DEFINE held == [at |-> "claimed", message |-> m, attempt |-> 1, max |-> 1,
                        target |-> message'[m].target, failures |-> 0, secret |-> 0,
                        provider |-> "none", verdict |-> "none"]
    <3>1. dispatcher' = [dispatcher EXCEPT ![d] = held]
        BY <1>3 DEF TestTarget, Hold
    <3>2. held.message = m /\ held.target = message'[m].target
        OBVIOUS
    <3> HIDE DEF held
    <3> QED
        BY <3>1, <3>2
  <2>3. dispatcher'[d] = row /\ \A e \in Dispatchers \ {d} : dispatcher'[e] = dispatcher[e]
      BY <2>2 DEF NotifyTypeOK
  <2>4. \A n \in Messages : Queued(n)' => Existing(message'[n].target)
    <3>1. target[t].status = "active"
        BY <1>3 DEF TestTarget
    <3> QED
        BY <1>1, <2>1, <3>1 DEF ReferenceInv, Queued, Existing
  <2>5. ASSUME NEW e \in Dispatchers, dispatcher'[e].at # "idle"
        PROVE  message'[dispatcher'[e].message].target = dispatcher'[e].target
    <3>1. CASE e = d
        BY <2>2, <2>3, <3>1
    <3>2. CASE e # d
      <4>1. /\ dispatcher'[e] = dispatcher[e] /\ dispatcher[e].message \in Messages
            /\ message[dispatcher[e].message].status # "none"
          BY <2>3, <2>5, <3>2, BusyTyped DEF DeliveryInv, WorkIsReal
      <4>2. dispatcher[e].message # m
          BY <1>3, <4>1 DEF TestTarget
      <4> QED
          BY <2>1, <2>5, <4>1, <4>2 DEF ReferenceInv
    <3> QED
        BY <3>1, <3>2
  <2> QED
      BY <1>1, <2>4, <2>5 DEF ReferenceInv, ServingChannel, Existing
<1>4. CASE UNCHANGED <<message, dispatcher>>
    BY <1>1, <1>4 DEF ReferenceInv, ServingChannel, Existing, Queued
<1>5. CASE Publish
    BY <1>2, <1>4, <1>5 DEF Publish, NotifyTypeOK
<1>6. CASE Broadcast
    BY <1>2, <1>4, <1>6 DEF Broadcast, NotifyTypeOK
<1> QED
    BY <1>3, <1>5, <1>6

\* The steps of a delivery: a recorded verdict concerns the message's own target.
LEMMA DeliveriesKeepReferences ==
    ASSUME NotifyTypeOK, ReferenceInv, NEW d \in Dispatchers,
           DispatchDue(d) \/ DispatcherDies(d)
    PROVE  ReferenceInv'
<1> DEFINE w == dispatcher[d]
<1>1. UNCHANGED channel
    BY DEF DispatchDue, sendClaimed, DispatcherDies, ClaimNext, LoadClaimed, LoadFails,
       AddressUnreadable, ProviderReplies, finishDelivery, rows
<1>2. ASSUME NEW m \in Messages, ClaimNext(d, m)
      PROVE  ReferenceInv'
  <2>1. /\ \A n \in Messages : message'[n].target = message[n].target
        /\ \A n \in Messages : Queued(n)' <=> Queued(n)
    <3>1. message'[m].target = message[m].target /\ Queued(m)' /\ Queued(m)
        BY <1>2, RowTypes DEF ClaimNext, Claimable, Queued, NotifyTypeOK, NotificationMessage
    <3>2. \A n \in Messages \ {m} : message'[n] = message[n]
        BY <1>2 DEF ClaimNext, NotifyTypeOK
    <3> QED
        BY <3>1, <3>2 DEF Queued
  <2>2. PICK attempt, max : Hold(d, m, attempt, max)
      BY <1>2 DEF ClaimNext
  <2> DEFINE held == [at |-> "claimed", message |-> m, attempt |-> attempt, max |-> max,
                      target |-> message'[m].target, failures |-> 0, secret |-> 0,
                      provider |-> "none", verdict |-> "none"]
  <2>3. dispatcher' = [dispatcher EXCEPT ![d] = held]
      BY <2>2 DEF Hold
  <2>4. held.message = m /\ held.target = message'[m].target
      OBVIOUS
  <2> HIDE DEF held
  <2>5. \A e \in Dispatchers : dispatcher'[e].at # "idle" =>
           message'[dispatcher'[e].message].target = dispatcher'[e].target
    <3> SUFFICES ASSUME NEW e \in Dispatchers, dispatcher'[e].at # "idle"
                 PROVE  message'[dispatcher'[e].message].target = dispatcher'[e].target
        OBVIOUS
    <3>1. CASE e = d
        BY <2>3, <2>4, <3>1 DEF NotifyTypeOK
    <3>2. CASE e # d
      <4>1. dispatcher'[e] = dispatcher[e]
          BY <2>3, <3>2 DEF NotifyTypeOK
      <4> QED
          BY <2>1, <4>1, BusyTyped DEF ReferenceInv
    <3> QED
        BY <3>1, <3>2
  <2>6. UNCHANGED target
      BY <1>2 DEF ClaimNext
  <2> QED
      BY <1>1, <2>1, <2>5, <2>6 DEF ReferenceInv, ServingChannel, Existing
<1>3. CASE \/ LoadClaimed(d) \/ LoadFails(d) \/ AddressUnreadable(d)
           \/ ProviderReplies(d) \/ DispatcherDies(d)
  <2>1. UNCHANGED <<message, target>>
      BY <1>3 DEF LoadClaimed, LoadFails, AddressUnreadable, ProviderReplies, DispatcherDies, rows
  <2>2. \A e \in Dispatchers \ {d} : dispatcher'[e] = dispatcher[e]
      BY <1>3 DEF LoadClaimed, LoadFails, AddressUnreadable, Answer, ProviderReplies,
         DispatcherDies, NotifyTypeOK
  <2>3. \/ dispatcher'[d].at = "idle"
        \/ /\ dispatcher[d].at # "idle" /\ dispatcher'[d].message = w.message
           /\ dispatcher'[d].target = w.target
    <3>1. CASE DispatcherDies(d)
        BY <3>1 DEF DispatcherDies, IdleDispatcher, NotifyTypeOK
    <3>2. CASE LoadClaimed(d)
      <4> DEFINE loaded == [w EXCEPT !.at = "loaded", !.failures = target[w.target].failures,
                                     !.secret = channel[ChannelOf[w.target]].secret,
                                     !.provider = channel[ChannelOf[w.target]].provider]
      <4>1. w \in Delivery /\ w.at = "claimed"
          BY <3>2, BusyTyped DEF LoadClaimed
      <4>2. loaded.message = w.message /\ loaded.target = w.target
          BY <4>1 DEF Delivery
      <4>3. CASE dispatcher' = [dispatcher EXCEPT ![d] = loaded]
        <5> HIDE DEF loaded
        <5> QED
            BY <4>1, <4>2, <4>3 DEF NotifyTypeOK
      <4>4. CASE Answer(d, "void", 0)
          BY <4>1, <4>4, AnswersTyped
      <4> QED
          BY <3>2, <4>3, <4>4 DEF LoadClaimed
    <3>4. CASE LoadFails(d) \/ AddressUnreadable(d)
      <4>1. w \in Delivery /\ w.target \in Targets /\ w.at = "claimed"
          BY <3>4, BusyTyped DEF LoadFails, AddressUnreadable
      <4>2. target[w.target].failures \in Nat
          BY <4>1, RowTypes DEF Target
      <4> QED
          BY <3>4, <4>1, <4>2, AnswersTyped DEF LoadFails, AddressUnreadable
    <3>3. CASE ProviderReplies(d)
      <4>1. w \in Delivery /\ w.at = "loaded"
          BY <3>3, BusyTyped DEF ProviderReplies
      <4>2. PICK verdict : dispatcher' = [dispatcher EXCEPT ![d] =
                              [w EXCEPT !.at = "answered", !.verdict = verdict]]
          BY <3>3 DEF ProviderReplies
      <4> QED
          BY <4>1, <4>2 DEF NotifyTypeOK, Delivery
    <3> QED
        BY <1>3, <3>1, <3>2, <3>3, <3>4
  <2>4. \A e \in Dispatchers : dispatcher'[e].at # "idle" =>
           message'[dispatcher'[e].message].target = dispatcher'[e].target
      BY <2>1, <2>2, <2>3 DEF ReferenceInv
  <2> QED
      BY <1>1, <2>1, <2>4 DEF ReferenceInv, ServingChannel, Existing, Queued
<1>4. CASE finishDelivery(d)
  <2>1. /\ w \in Delivery /\ w.message \in Messages /\ w.target \in Targets
        /\ message[w.message].target = w.target
      BY <1>4, BusyTyped DEF finishDelivery, ReferenceInv, Delivery
  <2>2. dispatcher'[d].at = "idle" /\ \A e \in Dispatchers \ {d} : dispatcher'[e] = dispatcher[e]
      BY <1>4 DEF finishDelivery, IdleDispatcher, NotifyTypeOK
  <2>3. CASE UNCHANGED <<message, target>>
      BY <1>1, <2>2, <2>3 DEF ReferenceInv, ServingChannel, Existing, Queued
  <2>4. CASE HoldsClaim(d) /\ RecordOnTarget(w)
             /\ message' = [message EXCEPT ![w.message].status = RecordedStatus(w)]
    <3>0. message[w.message] \in NotificationMessage /\ target[w.target] \in Target
        BY <2>1, RowTypes
    <3>1. /\ message'[w.message].target = message[w.message].target
          /\ message'[w.message].status = RecordedStatus(w)
          /\ \A n \in Messages \ {w.message} : message'[n] = message[n]
        BY <2>1, <2>4, <3>0 DEF NotifyTypeOK, NotificationMessage
    <3>2. Queued(w.message) /\ message'[w.message].status \notin {"none", "gone"}
        BY <2>4, <3>1 DEF HoldsClaim, Queued, RecordedStatus
    <3>3. Existing(w.target)
        BY <2>1, <3>2 DEF ReferenceInv
    <3>4. /\ target'[w.target].status \notin {"none", "gone"}
          /\ \A t \in Targets \ {w.target} : target'[t] = target[t]
      <4>1. target'[w.target].status = target[w.target].status
            \/ target'[w.target].status = "invalid"
          BY <2>1, <2>4, <3>0 DEF RecordOnTarget, NotifyTypeOK, Target
      <4>2. \A t \in Targets \ {w.target} : target'[t] = target[t]
          BY <2>4 DEF RecordOnTarget, NotifyTypeOK
      <4> QED
          BY <3>3, <4>1, <4>2 DEF Existing
    <3>5. \A t \in Targets : Existing(t)' <=> Existing(t)
      <4> SUFFICES ASSUME NEW t \in Targets
                   PROVE  Existing(t)' <=> Existing(t)
          OBVIOUS
      <4>1. CASE t = w.target
          BY <3>3, <3>4, <4>1 DEF Existing
      <4>2. CASE t # w.target
          BY <3>4, <4>2 DEF Existing
      <4> QED
          BY <4>1, <4>2
    <3>9. \A n \in Messages :
             message'[n].target = message[n].target /\ (Queued(n)' <=> Queued(n))
      <4> SUFFICES ASSUME NEW n \in Messages
                   PROVE  message'[n].target = message[n].target /\ (Queued(n)' <=> Queued(n))
          OBVIOUS
      <4>1. CASE n = w.message
          BY <3>1, <3>2, <4>1 DEF Queued
      <4>2. CASE n # w.message
          BY <3>1, <4>2 DEF Queued
      <4> QED
          BY <4>1, <4>2
    <3>6. \A n \in Messages : message[n].target \in Targets
        BY RowTypes DEF NotificationMessage
    <3>7. \A n \in Messages : Queued(n)' => Existing(message[n].target)'
        BY <3>5, <3>9, <3>6 DEF ReferenceInv
    <3>8. \A e \in Dispatchers : dispatcher'[e].at # "idle" =>
             message'[dispatcher'[e].message].target = dispatcher'[e].target
        BY <2>2, <3>9, BusyTyped DEF ReferenceInv
    <3> QED
        BY <1>1, <3>5, <3>7, <3>8, <3>9 DEF ReferenceInv, ServingChannel
  <2> QED
      BY <1>4, <2>3, <2>4 DEF finishDelivery
<1> QED
    BY <1>2, <1>3, <1>4 DEF DispatchDue, sendClaimed

LEMMA ReferencesInductive == NotifySpec => []ReferenceInv
<1>1. NotifyInit => ReferenceInv
    BY DEF NotifyInit, ReferenceInv, Existing, Queued, NoTarget, NoNotification, IdleDispatcher
<1>2. NotifyTypeOK /\ DeliveryInv /\ ReferenceInv /\ [NotifyNext]_notifyVars => ReferenceInv'
  <2> SUFFICES ASSUME NotifyTypeOK, DeliveryInv, ReferenceInv, [NotifyNext]_notifyVars
               PROVE  ReferenceInv'
    OBVIOUS
  <2>1. CASE UNCHANGED <<target, message, dispatcher>>
             /\ \A c \in Channels : channel[c].status \in {"active", "disabled"} =>
                   channel'[c].status \in {"active", "disabled"}
    BY <2>1, NotifyAssumption DEF ReferenceInv, ServingChannel, Existing, Queued
  <2>2. CASE UserNotifications
    BY <2>2, RegistrationKeepsReferences, DeletionsKeepReferences, PublicationKeepsReferences
    DEF UserNotifications
  <2>3. CASE AdminNotifications
    <3>1. ASSUME NEW c \in Channels, CreateChannel(c) \/ UpdateChannel(c)
          PROVE  \A b \in Channels : channel[b].status \in {"active", "disabled"} =>
                    channel'[b].status \in {"active", "disabled"}
      <4>1. \A b \in Channels \ {c} : channel'[b] = channel[b]
          BY <3>1 DEF CreateChannel, UpdateChannel, NotifyTypeOK
      <4>2. channel'[c].status \in {"active", "disabled"}
          BY <3>1, RowTypes DEF CreateChannel, UpdateChannel, NotifyTypeOK, Channel
      <4> QED
          BY <4>1, <4>2
    <3> QED
      BY <2>1, <2>3, <3>1, DeletionsKeepReferences
      DEF AdminNotifications, CreateChannel, UpdateChannel, CheckChannel, rows
  <2>4. CASE Publish \/ Broadcast
    BY <2>4, PublicationKeepsReferences
  <2>5. CASE \E d \in Dispatchers : DispatchDue(d) \/ DispatcherDies(d)
    BY <2>5, DeliveriesKeepReferences
  <2>6. CASE Prune \/ \E m \in Messages : RunAfterPasses(m)
    <3>1. UNCHANGED <<channel, target, dispatcher>>
      BY <2>6 DEF Prune, RunAfterPasses
    <3>2. \A m \in Messages : /\ message'[m].target = message[m].target
                              /\ Queued(m)' => Queued(m)
      <4>1. CASE Prune
          BY <4>1 DEF Prune, GoneMessage, NoNotification, Queued
      <4>2. ASSUME NEW n \in Messages, RunAfterPasses(n)
            PROVE  \A m \in Messages : /\ message'[m].target = message[m].target
                                       /\ message'[m].status = message[m].status
          BY <4>2, RowTypes DEF RunAfterPasses, NotifyTypeOK, NotificationMessage
      <4> QED
          BY <2>6, <4>1, <4>2 DEF Queued
    <3> QED
      BY <3>1, <3>2, BusyTyped DEF ReferenceInv, ServingChannel, Existing
  <2> QED
    BY <2>1, <2>2, <2>3, <2>4, <2>5, <2>6
    DEF NotifyNext, notifyVars, ReadTargets, PublishLost, rows
<1> QED
    BY <1>1, <1>2, NotifyTypes, DeliveryInductive, PTL DEF NotifySpec

\* Publish, Broadcast, TestTarget: whatever is deleted between the reads of a
\* publication and its inserts, and while dispatchers write, a message in the
\* queue has its target, and the target its channel.
THEOREM MessagesKeepTargets == NotifySpec => []NoOrphanMessages
<1>1. NotifyTypeOK /\ ReferenceInv => NoOrphanMessages
    BY RowTypes DEF ReferenceInv, NoOrphanMessages, ServingChannel, NotificationMessage
<1> QED
    BY <1>1, NotifyTypes, ReferencesInductive, PTL

=============================================================================
