--------------------------- MODULE ServicesProofs ---------------------------
(***************************************************************************)
(* Proofs about the services of MCServices, which share no row, and about  *)
(* the sidecar that starts the harness: model providers, idempotency       *)
(* records, stored files, sessions, the transcript of a run and the        *)
(* sidecar's supervisor, a section each.  They hold for every number of    *)
(* rows, requests, images, faults, users, sessions, links, parts of a reply, *)
(* streams, viewers and restarts.                                          *)
(***************************************************************************)
EXTENDS Sessions, Idempotency, ModelProviders, StoredFiles, Transcript, Sidecar, Recursion

-----------------------------------------------------------------------------
(* Model providers.                                                         *)

\* One default at most, and it is active.
OneDefault ==
    /\ \A p \in ModelProviderIds : provider[p].default => provider[p].status = "active"
    /\ \A p, q \in ModelProviderIds : provider[p].default /\ provider[q].default => p = q

ProvidersInv == ProvidersTypeOK /\ OneDefault

LEMMA ClearedType ==
    ASSUME ProvidersTypeOK, NEW clear \in BOOLEAN
    PROVE  /\ clearDefaultProvider(clear) \in [ModelProviderIds -> ModelProvider]
           /\ \A p \in ModelProviderIds :
                 /\ clearDefaultProvider(clear)[p].status = provider[p].status
                 /\ clearDefaultProvider(clear)[p].default = (provider[p].default /\ ~clear)
BY DEF ProvidersTypeOK, ModelProvider, clearDefaultProvider

\* A row written over rows whose default was cleared when the row takes it.
LEMMA WriteKeepsOneDefault ==
    ASSUME ProvidersInv, NEW p \in ModelProviderIds, NEW row \in ModelProvider,
           row.default => row.status = "active",
           provider' = [clearDefaultProvider(row.default) EXCEPT ![p] = row]
    PROVE  ProvidersInv'
<1> DEFINE cleared == clearDefaultProvider(row.default)
<1>1. row.default \in BOOLEAN
    BY DEF ModelProvider
<1>2. /\ cleared \in [ModelProviderIds -> ModelProvider]
      /\ \A q \in ModelProviderIds :
            /\ cleared[q].status = provider[q].status
            /\ cleared[q].default = (provider[q].default /\ ~row.default)
    BY <1>1, ClearedType DEF ProvidersInv
<1> HIDE DEF cleared
<1>3. provider' = [cleared EXCEPT ![p] = row]
    BY DEF cleared
<1>4. ProvidersTypeOK'
    BY <1>2, <1>3 DEF ProvidersTypeOK
<1>5. OneDefault'
    BY <1>2, <1>3 DEF ProvidersInv, OneDefault
<1> QED
    BY <1>4, <1>5 DEF ProvidersInv

LEMMA CreateKeepsOneDefault ==
    ASSUME ProvidersInv, NEW p \in ModelProviderIds, CreateModelProvider(p)
    PROVE  ProvidersInv'
<1>1. PICK st \in {"active", "disabled"}, wanted \in BOOLEAN :
         provider' = [clearDefaultProvider(wanted /\ st = "active") EXCEPT
                        ![p] = [status |-> st, default |-> wanted /\ st = "active", revision |-> 1]]
    BY DEF CreateModelProvider
<1> DEFINE row == [status |-> st, default |-> wanted /\ st = "active", revision |-> 1]
<1>2. row \in ModelProvider /\ (row.default => row.status = "active")
    BY DEF ModelProvider
<1>3. row.default = (wanted /\ st = "active")
    OBVIOUS
<1> QED
    BY <1>1, <1>2, <1>3, WriteKeepsOneDefault

LEMMA UpdateKeepsOneDefault ==
    ASSUME ProvidersInv, NEW p \in ModelProviderIds, NEW expected \in 1..MaxRevision,
           UpdateModelProvider(p, expected)
    PROVE  ProvidersInv'
<1>1. PICK st \in {"active", "disabled"}, given \in {"default", "ordinary", "absent"} :
         provider' = [clearDefaultProvider(given = "default" \/ (given = "absent" /\ provider[p].default))
             EXCEPT ![p] = Updated(p, st, given = "default" \/ (given = "absent" /\ provider[p].default),
                                   given)]
    BY DEF UpdateModelProvider
<1> DEFINE default == given = "default" \/ (given = "absent" /\ provider[p].default)
           row == Updated(p, st, default, given)
<1>2. provider[p] \in ModelProvider /\ default \in BOOLEAN
    BY DEF ProvidersInv, ProvidersTypeOK
<1> DEFINE status == IF default THEN "active" ELSE st
<1>3. /\ provider[p].revision + 1 \in Nat
      /\ status \in {"none", "active", "disabled"}
      /\ row = [status |-> status, default |-> default, revision |-> provider[p].revision + 1]
    BY <1>2 DEF ModelProvider, Updated
<1>4. row \in ModelProvider /\ (row.default => row.status = "active") /\ row.default = default
  <2> HIDE DEF row, default
  <2> QED
    BY <1>2, <1>3 DEF ModelProvider
<1> QED
    BY <1>1, <1>4, WriteKeepsOneDefault

LEMMA ActivateKeepsOneDefault ==
    ASSUME ProvidersInv, NEW p \in ModelProviderIds, ActivateModelProvider(p)
    PROVE  ProvidersInv'
<1> DEFINE row == [status |-> "active", default |-> TRUE, revision |-> provider[p].revision + 1]
<1>1. provider[p] \in ModelProvider
    BY DEF ProvidersInv, ProvidersTypeOK
<1>2. row \in ModelProvider /\ row.default = TRUE /\ row.status = "active"
    BY <1>1 DEF ModelProvider
<1>3. provider' = [clearDefaultProvider(row.default) EXCEPT ![p] = row]
    BY <1>2 DEF ActivateModelProvider
<1> QED
    BY <1>2, <1>3, WriteKeepsOneDefault

LEMMA DeleteKeepsOneDefault ==
    ASSUME ProvidersInv, NEW p \in ModelProviderIds, DeleteModelProvider(p)
    PROVE  ProvidersInv'
BY DEF ProvidersInv, ProvidersTypeOK, OneDefault, DeleteModelProvider, NoProvider, ModelProvider

LEMMA DefaultIsTheRuntimes ==
    ASSUME ProvidersInv
    PROVE  OneUsableDefault
<1> SUFFICES ASSUME NEW p \in ModelProviderIds, provider[p].default
             PROVE  ActiveProvider = {p}
    BY DEF OneUsableDefault
<1>1. p \in ActiveProvider
    BY DEF ProvidersInv, OneDefault, ActiveProvider
<1>2. \A q \in ActiveProvider : q = p
    BY DEF ProvidersInv, OneDefault, ActiveProvider
<1> QED
    BY <1>1, <1>2

\* No sequence of creations, patches, activations and deletions leaves two
\* default providers or a default that is disabled (clearDefaultProvider,
\* UpdateModelProvider), for any number of rows and edits.
THEOREM DefaultIsUsable == ProvidersSpec => []OneUsableDefault
<1>1. ProvidersInit => ProvidersInv
    BY DEF ProvidersInit, ProvidersInv, ProvidersTypeOK, OneDefault, NoProvider, ModelProvider
<1>2. ProvidersInv /\ [ProvidersNext]_providerVars => ProvidersInv'
  <2> SUFFICES ASSUME ProvidersInv, [ProvidersNext]_providerVars
               PROVE  ProvidersInv'
    OBVIOUS
  <2>1. CASE UNCHANGED providerVars
    BY <2>1 DEF providerVars, ProvidersInv, ProvidersTypeOK, OneDefault
  <2>2. CASE ProvidersNext
    BY <2>2, CreateKeepsOneDefault, UpdateKeepsOneDefault, ActivateKeepsOneDefault,
       DeleteKeepsOneDefault DEF ProvidersNext
  <2> QED
    BY <2>1, <2>2
<1>3. ProvidersInv => OneUsableDefault
    BY DefaultIsTheRuntimes
<1> QED
    BY <1>1, <1>2, <1>3, PTL DEF ProvidersSpec

-----------------------------------------------------------------------------
(* Idempotency records.                                                     *)

Working(r) == request[r].at \in {"reserved", "handled"}

\* A record is its request's.  While the request works on it the reservation
\* stands; a receipt is that of a request which was answered; an effect has a
\* record that remembers it.
RecordsInv ==
    /\ IdempotencyTypeOK
    /\ \A k \in Keys : record[k].status # "none" =>
          record[k].by \in Requests /\ KeyOf[record[k].by] = k
    /\ \A r \in Requests : Working(r) =>
          \/ record[KeyOf[r]].status = "reserved" /\ record[KeyOf[r]].by = r
          \/ KeyOf[r] \in CredentialKeys
    /\ \A k \in Keys \ CredentialKeys : effects[k] > 0 =>
          /\ effects[k] = 1
          /\ record[k].status # "none"
          /\ request[record[k].by].at # "reserved"
    /\ ReplayAnswersTheRequest

LEMMA KeyTyped ==
    ASSUME NEW r \in Requests
    PROVE  KeyOf[r] \in Keys /\ BodyOf[r] \in Bodies /\ r # NoRequest
BY IdempotencyAssumption

LEMMA LookKeepsRecords ==
    ASSUME RecordsInv, NEW r \in Requests, Look(r)
    PROVE  RecordsInv'
<1>1. UNCHANGED <<record, faults, effects>>
    BY DEF Look
<1>2. PICK at \in {"looked", "refused", "answered"} :
         \E o \in {"none", "success", "failure"}, from \in Requests \cup {NoRequest} :
            /\ request' = [request EXCEPT ![r] = [at |-> at, outcome |-> o, from |-> from]]
            /\ from # NoRequest => BodyOf[from] = BodyOf[r]
  <2> DEFINE c == record[KeyOf[r]]
  <2>1. request[r] \in Attempt /\ c \in Record
      BY KeyTyped DEF RecordsInv, IdempotencyTypeOK
  <2>2. request[r].from # NoRequest => BodyOf[request[r].from] = BodyOf[r]
      BY DEF RecordsInv, ReplayAnswersTheRequest
  <2>3. CASE c.status = "none" \/ c.expired
      BY <2>1, <2>2, <2>3 DEF Look, Goes, Attempt, RecordsInv, IdempotencyTypeOK
  <2>4. CASE ~(c.status = "none" \/ c.expired) /\ (~SameRequest(r) \/ c.status = "reserved")
      BY <2>1, <2>2, <2>4 DEF Look, Goes, Attempt, RecordsInv, IdempotencyTypeOK
  <2>5. CASE ~(c.status = "none" \/ c.expired) /\ ~(~SameRequest(r) \/ c.status = "reserved")
      BY <2>1, <2>5 DEF Look, SameRequest, Record
  <2> QED
      BY <2>3, <2>4, <2>5
<1>3. request[r].at = "new"
    BY DEF Look
<1> QED
    BY <1>1, <1>2, <1>3, KeyTyped DEF RecordsInv, IdempotencyTypeOK, Attempt, Working,
       ReplayAnswersTheRequest

LEMMA ReserveKeepsRecords ==
    ASSUME RecordsInv, NEW r \in Requests, Reserve(r)
    PROVE  RecordsInv'
<1>1. request[r] \in Attempt /\ request[r].at = "looked" /\ UNCHANGED <<faults, effects>>
    BY DEF RecordsInv, IdempotencyTypeOK, Reserve
<1>2. CASE ~Free(KeyOf[r])
  <2>1. request' = [request EXCEPT ![r].at = "refused"] /\ UNCHANGED record
      BY <1>2 DEF Reserve, Goes
  <2> QED
      BY <1>1, <2>1, KeyTyped DEF RecordsInv, IdempotencyTypeOK, Attempt, Working,
         ReplayAnswersTheRequest
<1>3. CASE Free(KeyOf[r])
  <2> DEFINE mine == [status |-> "reserved", by |-> r, outcome |-> "none", expired |-> FALSE]
  <2>1. /\ request' = [request EXCEPT ![r].at = "reserved"]
        /\ record' = [record EXCEPT ![KeyOf[r]] = mine]
      BY <1>3 DEF Reserve, Goes, NoRecord
  <2>2. mine \in Record
      BY DEF Record
  <2>3. record[KeyOf[r]].status = "none"
      BY <1>3 DEF Free
  <2>4. IdempotencyTypeOK'
      BY <1>1, <2>1, <2>2, KeyTyped DEF RecordsInv, IdempotencyTypeOK, Attempt
  <2> QED
      BY <1>1, <2>1, <2>3, <2>4, KeyTyped DEF RecordsInv, IdempotencyTypeOK, Attempt, Working,
         ReplayAnswersTheRequest
<1> QED
    BY <1>2, <1>3

LEMMA HandleKeepsRecords ==
    ASSUME RecordsInv, NEW r \in Requests, Handle(r)
    PROVE  RecordsInv'
<1>1. PICK o \in {"success", "failure"} :
         /\ request' = [request EXCEPT ![r].at = "handled", ![r].outcome = o]
         /\ effects' = IF o = "success" THEN [effects EXCEPT ![KeyOf[r]] = @ + 1] ELSE effects
    BY DEF Handle
<1>2. request[r] \in Attempt /\ request[r].at = "reserved" /\ UNCHANGED <<record, faults>>
    BY DEF RecordsInv, IdempotencyTypeOK, Handle
<1>3. KeyOf[r] \notin CredentialKeys =>
         effects[KeyOf[r]] = 0 /\ record[KeyOf[r]].status = "reserved" /\ record[KeyOf[r]].by = r
    BY <1>2, KeyTyped DEF RecordsInv, IdempotencyTypeOK, Working
<1>4. IdempotencyTypeOK'
  <2> DEFINE now == [request[r] EXCEPT !.at = "handled", !.outcome = o]
  <2>1. now \in Attempt /\ request' = [request EXCEPT ![r] = now]
      BY <1>1, <1>2 DEF Attempt, RecordsInv, IdempotencyTypeOK
  <2>2. request' \in [Requests -> Attempt]
    <3> HIDE DEF now
    <3> QED
      BY <2>1 DEF RecordsInv, IdempotencyTypeOK
  <2>3. effects' \in [Keys -> Nat]
      BY <1>1, KeyTyped DEF RecordsInv, IdempotencyTypeOK
  <2> QED
      BY <1>2, <2>2, <2>3 DEF RecordsInv, IdempotencyTypeOK
<1> QED
    BY <1>1, <1>2, <1>3, <1>4, KeyTyped DEF RecordsInv, IdempotencyTypeOK, Attempt, Working,
       ReplayAnswersTheRequest

LEMMA SaveKeepsRecords ==
    ASSUME RecordsInv, NEW r \in Requests, SaveReceipt(r)
    PROVE  RecordsInv'
<1> DEFINE k == KeyOf[r]
<1>1. /\ request[r] \in Attempt /\ request[r].at = "handled" /\ UNCHANGED effects
      /\ k \in Keys /\ record[k] \in Record
    BY KeyTyped DEF RecordsInv, IdempotencyTypeOK, SaveReceipt
<1>2. request' = [request EXCEPT ![r].at = "answered", ![r].from = r]
    BY DEF SaveReceipt
<1>3. faults' \in 0..MaxFaults
    BY IdempotencyAssumption DEF SaveReceipt, Fault, RecordsInv, IdempotencyTypeOK
<1>4. \/ record' = record
      \/ /\ record[k].by = r
         /\ record' = [record EXCEPT ![k].status = "done", ![k].outcome = request[r].outcome]
    BY DEF SaveReceipt
<1>5. IdempotencyTypeOK'
  <2> DEFINE now == [request[r] EXCEPT !.at = "answered", !.from = r]
             receipt == [record[k] EXCEPT !.status = "done", !.outcome = request[r].outcome]
  <2>1. now \in Attempt /\ request' = [request EXCEPT ![r] = now]
      BY <1>1, <1>2 DEF Attempt, RecordsInv, IdempotencyTypeOK
  <2>2. receipt \in Record /\ (record' = record \/ record' = [record EXCEPT ![k] = receipt])
      BY <1>1, <1>4 DEF Attempt, Record, RecordsInv, IdempotencyTypeOK
  <2>3. request' \in [Requests -> Attempt] /\ record' \in [Keys -> Record]
    <3> HIDE DEF now, receipt, k
    <3> QED
      BY <2>1, <2>2 DEF RecordsInv, IdempotencyTypeOK
  <2> QED
      BY <1>1, <1>3, <2>3 DEF RecordsInv, IdempotencyTypeOK
<1>6. \A j \in Keys : record'[j].by = record[j].by
    BY <1>1, <1>4 DEF RecordsInv, IdempotencyTypeOK, Record
<1>7. \A j \in Keys :
         \/ record'[j].status = record[j].status
         \/ j = k /\ record[k].by = r /\ record'[j].status = "done"
    BY <1>1, <1>4 DEF RecordsInv, IdempotencyTypeOK, Record
<1>8. r \in Requests /\ k = KeyOf[r]
    OBVIOUS
<1> HIDE DEF k
<1>9. \A j \in Keys : record'[j].status # "none" =>
         record'[j].by \in Requests /\ KeyOf[record'[j].by] = j
    BY <1>6, <1>7, <1>8 DEF RecordsInv
<1>10. \A q \in Requests : Working(q)' =>
         \/ record'[KeyOf[q]].status = "reserved" /\ record'[KeyOf[q]].by = q
         \/ KeyOf[q] \in CredentialKeys
    BY <1>1, <1>2, <1>6, <1>7, KeyTyped DEF RecordsInv, IdempotencyTypeOK, Attempt, Working
<1>11. \A j \in Keys \ CredentialKeys : effects'[j] > 0 =>
          /\ effects'[j] = 1
          /\ record'[j].status # "none"
          /\ request'[record'[j].by].at # "reserved"
    BY <1>1, <1>2, <1>6, <1>7 DEF RecordsInv, IdempotencyTypeOK
<1>12. ReplayAnswersTheRequest'
    BY <1>1, <1>2 DEF RecordsInv, ReplayAnswersTheRequest, IdempotencyTypeOK, Attempt
<1> QED
    BY <1>5, <1>9, <1>10, <1>11, <1>12 DEF RecordsInv

LEMMA DeathKeepsRecords ==
    ASSUME RecordsInv, Dies
    PROVE  RecordsInv'
<1>1. faults' \in 0..MaxFaults /\ UNCHANGED <<record, effects>>
    BY IdempotencyAssumption DEF Dies, Fault, RecordsInv, IdempotencyTypeOK
<1>2. request' \in [Requests -> Attempt]
      /\ \A r \in Requests : /\ request'[r].from = request[r].from
                             /\ request'[r].at \in {request[r].at, "dead"}
                             /\ request'[r].at \notin {"looked", "reserved", "handled"}
  <2> SUFFICES ASSUME NEW r \in Requests
               PROVE  /\ request'[r] \in Attempt
                      /\ request'[r].from = request[r].from
                      /\ request'[r].at \in {request[r].at, "dead"}
                      /\ request'[r].at \notin {"looked", "reserved", "handled"}
      BY DEF Dies
  <2> QED
      BY DEF Dies, RecordsInv, IdempotencyTypeOK, Attempt
<1> QED
    BY <1>1, <1>2 DEF RecordsInv, IdempotencyTypeOK, Working, ReplayAnswersTheRequest

LEMMA ExpiryKeepsRecords ==
    ASSUME RecordsInv, NEW k \in Keys, ReceiptExpires(k)
    PROVE  RecordsInv'
<1>1. record[k] \in Record /\ UNCHANGED <<request, faults, effects>>
      /\ record' = [record EXCEPT ![k].expired = TRUE]
    BY DEF RecordsInv, IdempotencyTypeOK, ReceiptExpires
<1>2. IdempotencyTypeOK'
    BY <1>1 DEF RecordsInv, IdempotencyTypeOK, Record
<1>3. \A j \in Keys : record'[j].status = record[j].status /\ record'[j].by = record[j].by
    BY <1>1 DEF RecordsInv, IdempotencyTypeOK, Record
<1> QED
    BY <1>1, <1>2, <1>3, KeyTyped DEF RecordsInv, Working, ReplayAnswersTheRequest

LEMMA SweepsKeepRecords ==
    ASSUME RecordsInv, NEW k \in Keys, SweepOld(k) \/ SweepCredentials(k)
    PROVE  RecordsInv'
<1>1. NoRecord \in Record /\ record' = [record EXCEPT ![k] = NoRecord]
      /\ UNCHANGED <<request, faults>>
    BY DEF NoRecord, Record, SweepOld, SweepCredentials, Forget
<1>2. \A r \in Requests : Working(r) /\ KeyOf[r] = k => k \in CredentialKeys
    BY DEF SweepOld, SweepCredentials, Orphaned, RecordsInv, Working
<1>3. \/ k \in CredentialKeys /\ effects' = effects
      \/ effects' = [effects EXCEPT ![k] = 0]
    BY DEF SweepOld, SweepCredentials
<1>4. IdempotencyTypeOK'
    BY <1>1, <1>3 DEF RecordsInv, IdempotencyTypeOK
<1>5. record \in [Keys -> Record] /\ effects \in [Keys -> Nat]
    BY DEF RecordsInv, IdempotencyTypeOK
<1>6. \A j \in Keys : record'[j] = record[j] \/ (j = k /\ record'[j].status = "none")
    BY <1>1, <1>5 DEF NoRecord
<1>7. \A j \in Keys : effects'[j] = effects[j] \/ (j = k /\ effects'[j] = 0)
    BY <1>3, <1>5
<1>8. \A j \in Keys : record'[j].status # "none" =>
         record'[j].by \in Requests /\ KeyOf[record'[j].by] = j
    BY <1>6 DEF RecordsInv
<1>9. \A r \in Requests : Working(r)' =>
         \/ record'[KeyOf[r]].status = "reserved" /\ record'[KeyOf[r]].by = r
         \/ KeyOf[r] \in CredentialKeys
    BY <1>1, <1>2, <1>6, KeyTyped DEF RecordsInv, Working
<1>10. \A j \in Keys \ CredentialKeys : effects'[j] > 0 =>
          /\ effects'[j] = 1
          /\ record'[j].status # "none"
          /\ request'[record'[j].by].at # "reserved"
  <2> SUFFICES ASSUME NEW j \in Keys \ CredentialKeys, effects'[j] > 0
               PROVE  /\ effects'[j] = 1
                      /\ record'[j].status # "none"
                      /\ request'[record'[j].by].at # "reserved"
      OBVIOUS
  <2>1. j # k
      BY <1>3, <1>5
  <2> QED
      BY <1>1, <1>6, <1>7, <2>1 DEF RecordsInv
<1> QED
    BY <1>1, <1>4, <1>8, <1>9, <1>10 DEF RecordsInv, ReplayAnswersTheRequest

LEMMA RecordsInductive ==
    IdempotencySpec => []RecordsInv
<1>1. IdempotencyInit => RecordsInv
    BY IdempotencyAssumption
    DEF IdempotencyInit, RecordsInv, IdempotencyTypeOK, NoRecord, Record, Attempt, Working,
        ReplayAnswersTheRequest
<1>2. RecordsInv /\ [IdempotencyNext]_idemVars => RecordsInv'
  <2> SUFFICES ASSUME RecordsInv, [IdempotencyNext]_idemVars
               PROVE  RecordsInv'
    OBVIOUS
  <2>1. CASE UNCHANGED idemVars
    BY <2>1 DEF idemVars, RecordsInv, IdempotencyTypeOK, Working, ReplayAnswersTheRequest
  <2>2. CASE IdempotencyNext
    BY <2>2, LookKeepsRecords, ReserveKeepsRecords, HandleKeepsRecords, SaveKeepsRecords,
       DeathKeepsRecords, ExpiryKeepsRecords, SweepsKeepRecords DEF IdempotencyNext
  <2> QED
    BY <2>1, <2>2
<1> QED
    BY <1>1, <1>2, PTL DEF IdempotencySpec

\* However many attempts of a key arrive, in whichever order they look, reserve,
\* run and answer, and wherever the process dies, the handler of a request that
\* creates no credential commits once while the key's record lives
\* (idempotencyMiddleware).
THEOREM CommandsRunOnce == IdempotencySpec => []CommandRunsOnce
<1>1. RecordsInv => CommandRunsOnce
    BY DEF RecordsInv, IdempotencyTypeOK, CommandRunsOnce
<1> QED
    BY <1>1, RecordsInductive, PTL

\* A stored receipt answers only the request it was made for: a body that
\* differs is refused, whatever other attempts of the key do meanwhile.
THEOREM ReplaysAnswerTheRequest == IdempotencySpec => []ReplayAnswersTheRequest
<1>1. RecordsInv => ReplayAnswersTheRequest
    BY DEF RecordsInv
<1> QED
    BY <1>1, RecordsInductive, PTL

-----------------------------------------------------------------------------
(* Stored files.                                                            *)

LEMMA ImageFields ==
    ASSUME NEW m \in Image, NEW t \in Threads \cup {NoThread}, NEW b \in BOOLEAN,
           NEW row \in {"none", "loose", "bound", "gone"}
    PROVE  /\ [m EXCEPT !.row = row, !.thread = t] \in Image
           /\ [m EXCEPT !.file = b] \in Image
           /\ [m EXCEPT !.old = b] \in Image
BY DEF Image

LEMMA RecordingFields ==
    ASSUME NEW m \in Recording, NEW b \in BOOLEAN,
           NEW job \in {"none", "queued", "failed", "succeeded"}
    PROVE  /\ [m EXCEPT !.file = b] \in Recording
           /\ [m EXCEPT !.old = b] \in Recording
           /\ [m EXCEPT !.job = job] \in Recording
           /\ [m EXCEPT !.file = b, !.job = job] \in Recording
           /\ [m EXCEPT !.job = job, !.file = b] \in Recording
           /\ [m EXCEPT !.job = job, !.retried = b] \in Recording
BY DEF Recording

\* A step of a recording's job changes that recording; one that leaves the queue
\* unretried has its file, and one that enters it had.
LEMMA VoiceStep ==
    ASSUME FilesTypeOK, NEW r \in Recordings,
           RecordVoice(r) \/ EnqueueVoice(r) \/ VoiceJobEnds(r) \/ RetryVoice(r) \/ RecordingAges(r)
    PROVE  /\ recording' \in [Recordings -> Recording]
           /\ \A q \in Recordings \ {r} : recording'[q] = recording[q]
           /\ recording[r].old =>
                 /\ recording'[r].old
                 /\ recording'[r].job = "queued" =>
                       recording'[r].retried \/ recording[r].job = "queued"
           /\ recording[r].retried => recording'[r].retried
           /\ recording'[r].job = "queued" /\ ~recording'[r].retried =>
                 \/ recording[r].job = "queued" /\ recording'[r].file = recording[r].file
                 \/ recording'[r].file
           /\ UNCHANGED sweep
<1> DEFINE m == recording[r]
<1>1. m \in Recording /\ recording \in [Recordings -> Recording]
    BY DEF FilesTypeOK
<1>2. PICK new \in Recording :
         /\ recording' = [recording EXCEPT ![r] = new]
         /\ m.old => new.old /\ (new.job = "queued" => new.retried \/ m.job = "queued")
         /\ m.retried => new.retried
         /\ new.job = "queued" /\ ~new.retried =>
               (m.job = "queued" /\ new.file = m.file) \/ new.file
  <2>1. CASE RecordVoice(r)
    <3> DEFINE new == [m EXCEPT !.file = TRUE]
    <3>1. new \in Recording /\ recording' = [recording EXCEPT ![r] = new]
        BY <1>1, <2>1, RecordingFields DEF RecordVoice
    <3>2. new.old = m.old /\ new.job = m.job /\ new.retried = m.retried /\ new.file
        BY <1>1 DEF Recording
    <3> QED
        BY <3>1, <3>2
  <2>2. CASE EnqueueVoice(r)
    <3>0. m.file /\ ~m.old
        BY <2>2 DEF EnqueueVoice
    <3>1. CASE recording' = [recording EXCEPT ![r].job = "queued"]
      <4> DEFINE new == [m EXCEPT !.job = "queued"]
      <4>1. new \in Recording /\ recording' = [recording EXCEPT ![r] = new]
          BY <1>1, <3>1, RecordingFields
      <4>2. new.file = m.file /\ new.retried = m.retried
          BY <1>1 DEF Recording
      <4> QED
          BY <3>0, <4>1, <4>2
    <3>2. CASE recording' = [recording EXCEPT ![r].file = FALSE, ![r].job = "failed"]
      <4> DEFINE new == [m EXCEPT !.file = FALSE, !.job = "failed"]
      <4>1. new \in Recording /\ recording' = [recording EXCEPT ![r] = new]
          BY <1>1, <3>2, RecordingFields
      <4>2. new.job = "failed" /\ new.retried = m.retried
          BY <1>1 DEF Recording
      <4> QED
          BY <3>0, <4>1, <4>2
    <3> QED
        BY <2>2, <3>1, <3>2 DEF EnqueueVoice
  <2>3. CASE VoiceJobEnds(r)
    <3>1. CASE recording' = [recording EXCEPT ![r].job = "succeeded", ![r].file = FALSE]
      <4> DEFINE new == [m EXCEPT !.job = "succeeded", !.file = FALSE]
      <4>1. new \in Recording /\ recording' = [recording EXCEPT ![r] = new]
          BY <1>1, <3>1, RecordingFields
      <4>2. new.job = "succeeded" /\ new.retried = m.retried /\ new.old = m.old
          BY <1>1 DEF Recording
      <4> QED
          BY <4>1, <4>2
    <3>2. CASE recording' = [recording EXCEPT ![r].job = "failed"]
      <4> DEFINE new == [m EXCEPT !.job = "failed"]
      <4>1. new \in Recording /\ recording' = [recording EXCEPT ![r] = new]
          BY <1>1, <3>2, RecordingFields
      <4>2. new.job = "failed" /\ new.retried = m.retried /\ new.old = m.old
          BY <1>1 DEF Recording
      <4> QED
          BY <4>1, <4>2
    <3> QED
        BY <2>3, <3>1, <3>2 DEF VoiceJobEnds
  <2>4. CASE RetryVoice(r)
    <3> DEFINE new == [m EXCEPT !.job = "queued", !.retried = TRUE]
    <3>1. new \in Recording /\ recording' = [recording EXCEPT ![r] = new]
        BY <1>1, <2>4, RecordingFields DEF RetryVoice
    <3>2. new.old = m.old /\ new.retried
        BY <1>1 DEF Recording
    <3> QED
        BY <3>1, <3>2
  <2>5. CASE RecordingAges(r)
    <3> DEFINE new == [m EXCEPT !.old = TRUE]
    <3>1. new \in Recording /\ recording' = [recording EXCEPT ![r] = new]
        BY <1>1, <2>5, RecordingFields DEF RecordingAges
    <3>2. new.old /\ new.job = m.job /\ new.retried = m.retried /\ new.file = m.file
        BY <1>1 DEF Recording
    <3> QED
        BY <3>1, <3>2
  <2> QED
      BY <2>1, <2>2, <2>3, <2>4, <2>5
<1>3. UNCHANGED sweep
    BY DEF RecordVoice, EnqueueVoice, VoiceJobEnds, RetryVoice, RecordingAges
<1> QED
    BY <1>1, <1>2, <1>3

LEMMA FilesTypes == FilesSpec => []FilesTypeOK
<1>1. FilesInit => FilesTypeOK
    BY FilesAssumption
    DEF FilesInit, FilesTypeOK, NoImage, NoUpload, NoRecording, Image, Recording
<1>2. FilesTypeOK /\ [FilesNext]_fileVars => FilesTypeOK'
  <2> SUFFICES ASSUME FilesTypeOK, [FilesNext]_fileVars
               PROVE  FilesTypeOK'
    OBVIOUS
  <2>1. CASE UNCHANGED fileVars
    BY <2>1 DEF fileVars, FilesTypeOK
  <2>2. CASE FilesStop
    BY <2>2, FilesAssumption DEF FilesStop, FilesTypeOK, NoUpload
  <2>3. ASSUME NEW i \in Images, NEW t \in Threads \cup {NoThread}, UploadChecks(i, t)
        PROVE  FilesTypeOK'
    BY <2>3 DEF UploadChecks, FilesTypeOK, audio
  <2>0. (\A i \in Images : image[i] \in Image) /\ \A r \in Recordings : recording[r] \in Recording
    BY DEF FilesTypeOK
  <2>4. ASSUME NEW i \in Images, UploadWrites(i) \/ ImageAges(i)
        PROVE  FilesTypeOK'
    <3>1. /\ [image[i] EXCEPT !.file = TRUE] \in Image
          /\ [image[i] EXCEPT !.old = TRUE] \in Image
      BY <2>0, ImageFields
    <3>2. image' \in [Images -> Image]
      BY <2>4, <3>1 DEF UploadWrites, ImageAges, FilesTypeOK
    <3> QED
      BY <2>4, <3>2 DEF UploadWrites, ImageAges, FilesTypeOK, audio
  <2>5. ASSUME NEW i \in Images, UploadRecords(i)
        PROVE  FilesTypeOK'
    <3>1. PICK new \in Image : image' = [image EXCEPT ![i] = new]
      BY <2>5 DEF UploadRecords, FilesTypeOK, NoImage, Image
    <3> QED
      BY <2>5, <3>1 DEF UploadRecords, FilesTypeOK, NoUpload, audio
  <2>6. ASSUME NEW i \in Images, DeleteImage(i)
        PROVE  FilesTypeOK'
    BY <2>6 DEF DeleteImage, Begin, Removal, FilesTypeOK, audio
  <2>7. ASSUME NEW t \in Threads, DeleteAgentThread(t)
        PROVE  FilesTypeOK'
    BY <2>7 DEF DeleteAgentThread, Begin, Of, Removal, FilesTypeOK, audio
  <2>8. CASE ReapOrphans
    BY <2>8 DEF ReapOrphans, Orphans, Begin, Removal, FilesTypeOK, audio
  <2>9. ASSUME NEW t \in Threads, NEW named \in SUBSET Images, SubmitCommands(t, named)
        PROVE  FilesTypeOK'
    <3>1. \A i \in Images : [image[i] EXCEPT !.row = "bound", !.thread = t] \in Image
      BY <2>0, ImageFields
    <3>2. image' \in [Images -> Image]
      BY <2>9, <3>1 DEF SubmitCommands, FilesTypeOK
    <3> QED
      BY <2>9, <3>2 DEF SubmitCommands, FilesTypeOK, audio
  <2>10. ASSUME NEW d \in removal, DeleteRows(d)
         PROVE  FilesTypeOK'
    <3>1. \A i \in Images : [image[i] EXCEPT !.row = "gone", !.thread = NoThread] \in Image
      BY <2>0, ImageFields
    <3>2. d \in Removal /\ [d EXCEPT !.at = "deleted"] \in Removal
      BY DEF FilesTypeOK, Removal
    <3>3. Without(RowsOf(d)) \in [Images -> Image]
      BY <3>1 DEF Without, FilesTypeOK
    <3> QED
      BY <2>10, <3>2, <3>3 DEF DeleteRows, NextRemoval, FilesTypeOK, audio
  <2>11. ASSUME NEW d \in removal, DeleteFiles(d)
         PROVE  FilesTypeOK'
    <3>1. \A i \in Images : [image[i] EXCEPT !.file = FALSE] \in Image
      BY <2>0, ImageFields
    <3> QED
      BY <2>11, <3>1 DEF DeleteFiles, NextRemoval, FilesTypeOK, audio
  <2>12. ASSUME NEW r \in Recordings,
                RecordVoice(r) \/ EnqueueVoice(r) \/ VoiceJobEnds(r) \/ RetryVoice(r) \/ RecordingAges(r)
         PROVE  FilesTypeOK'
    <3>1. recording' \in [Recordings -> Recording]
      BY <2>12, VoiceStep
    <3> QED
      BY <2>12, <3>1 DEF RecordVoice, EnqueueVoice, VoiceJobEnds, RetryVoice, RecordingAges,
         FilesTypeOK
  <2>13. CASE ReapStaleAudio \/ RemoveAudio
    <3>1. \A r \in Recordings : [recording[r] EXCEPT !.file = FALSE] \in Recording
      BY <2>0, RecordingFields
    <3> QED
      BY <2>13, <3>1 DEF ReapStaleAudio, RemoveAudio, FilesTypeOK
  <2> QED
    BY <2>1, <2>2, <2>3, <2>4, <2>5, <2>6, <2>7, <2>8, <2>9, <2>10, <2>11, <2>12, <2>13
    DEF FilesNext, ImageNext, AudioNext
<1> QED
    BY <1>1, <1>2, PTL DEF FilesSpec

\* What a sweep will remove is old and no job waits for it, but one that was
\* retried since.
AudioInv ==
    /\ \A r \in sweep : recording[r].old /\ (recording[r].job = "queued" => recording[r].retried)
    /\ QueuedVoiceHasAudio

LEMMA VoiceKeepsAudio ==
    ASSUME FilesTypeOK, AudioInv, NEW r \in Recordings,
           RecordVoice(r) \/ EnqueueVoice(r) \/ VoiceJobEnds(r) \/ RetryVoice(r) \/ RecordingAges(r)
    PROVE  AudioInv'
<1>1. sweep \in SUBSET Recordings
    BY DEF FilesTypeOK
<1> QED
    BY <1>1, VoiceStep DEF AudioInv, QueuedVoiceHasAudio

LEMMA SweepKeepsAudio ==
    ASSUME FilesTypeOK, AudioInv, ReapStaleAudio \/ RemoveAudio
    PROVE  AudioInv'
BY DEF ReapStaleAudio, RemoveAudio, InUse, FilesTypeOK, Recording, AudioInv, QueuedVoiceHasAudio

\* A transcription that waits however long in the queue finds its recording,
\* whichever sweep read the jobs before it came (ReapStaleAudio).
THEOREM QueuedVoiceKeepsAudio == FilesSpec => []QueuedVoiceHasAudio
<1>1. FilesInit => AudioInv
    BY DEF FilesInit, AudioInv, QueuedVoiceHasAudio, NoRecording
<1>2. FilesTypeOK /\ AudioInv /\ [FilesNext]_fileVars => AudioInv'
  <2> SUFFICES ASSUME FilesTypeOK, AudioInv, [FilesNext]_fileVars
               PROVE  AudioInv'
    OBVIOUS
  <2>1. CASE UNCHANGED audio
    BY <2>1 DEF audio, AudioInv, QueuedVoiceHasAudio
  <2>2. CASE FilesStop
    BY <2>2 DEF FilesStop, AudioInv, QueuedVoiceHasAudio
  <2>3. CASE AudioNext
    BY <2>3, VoiceKeepsAudio, SweepKeepsAudio DEF AudioNext
  <2>4. CASE ImageNext
    BY <2>1, <2>4 DEF ImageNext, UploadWrites, UploadRecords, DeleteImage, ImageAges, UploadChecks,
       DeleteAgentThread, SubmitCommands, ReapOrphans, DeleteRows, DeleteFiles
  <2>5. CASE UNCHANGED fileVars
    BY <2>1, <2>5 DEF fileVars, audio
  <2> QED
    BY <2>2, <2>3, <2>4, <2>5 DEF FilesNext
<1>3. AudioInv => QueuedVoiceHasAudio
    BY DEF AudioInv
<1> QED
    BY <1>1, <1>2, <1>3, FilesTypes, PTL DEF FilesSpec

\* An image is uploaded once.  A removal lists images that have been uploaded; a
\* thread's lists images bound to that thread, and stay so unless they are
\* carried to another; and it has taken the rows of its images, those carried
\* away excepted, before it takes their files.
ImagesInv ==
    /\ \A i \in Images :
          /\ image[i].row # "none" => upload[i].at = "idle"
          /\ upload[i].at = "written" => image[i].file
          /\ HasRow(i) /\ i \notin carried => image[i].file
          /\ image[i].row = "loose" => image[i].thread = NoThread
    /\ \A d \in removal :
          /\ d.kind = "thread" => d.thread \in Threads
          /\ \A i \in d.images :
                /\ image[i].row # "none"
                /\ d.kind = "thread" /\ HasRow(i) /\ i \notin carried =>
                      image[i].row = "bound" /\ image[i].thread = d.thread
                /\ d.at = "deleted" /\ i \notin carried => ~HasRow(i)

LEMMA ImageTyped ==
    ASSUME FilesTypeOK, NEW i \in Images
    PROVE  /\ image[i] \in Image
           /\ upload[i] \in [at: {"idle", "checked", "written"}, thread: Threads \cup {NoThread}]
BY DEF FilesTypeOK

LEMMA RemovalTyped ==
    ASSUME FilesTypeOK, NEW d \in removal
    PROVE  d \in Removal /\ d.images \subseteq Images
BY DEF FilesTypeOK, Removal

LEMMA UploadKeepsBytes ==
    ASSUME FilesTypeOK, ImagesInv, NEW i \in Images, NEW t \in Threads \cup {NoThread},
           UploadChecks(i, t) \/ UploadWrites(i) \/ UploadRecords(i) \/ ImageAges(i)
    PROVE  ImagesInv'
<1>1. /\ image \in [Images -> Image]
      /\ upload \in [Images -> [at: {"idle", "checked", "written"}, thread: Threads \cup {NoThread}]]
      /\ \A d \in removal : d.images \subseteq Images
    BY RemovalTyped DEF FilesTypeOK
<1>2. \A j \in Images \ {i} : image'[j] = image[j] /\ upload'[j] = upload[j]
    BY <1>1 DEF UploadChecks, UploadWrites, UploadRecords, ImageAges
<1>3. removal' = removal /\ carried' = carried
    BY DEF UploadChecks, UploadWrites, UploadRecords, ImageAges
<1>4. /\ image'[i].row # "none" => upload'[i].at = "idle"
      /\ upload'[i].at = "written" => image'[i].file
      /\ HasRow(i)' /\ i \notin carried => image'[i].file
      /\ image'[i].row = "loose" => image'[i].thread = NoThread
      /\ image[i].row # "none" => image'[i].row = image[i].row /\ image'[i].thread = image[i].thread
  <2>1. image[i] \in Image
      BY <1>1
  <2>2. CASE UploadChecks(i, t)
      BY <1>1, <2>2 DEF UploadChecks, NoImage, HasRow
  <2>3. CASE UploadWrites(i)
      BY <1>1, <2>1, <2>3 DEF UploadWrites, Image, HasRow, ImagesInv
  <2>4. CASE UploadRecords(i)
      BY <1>1, <2>1, <2>4 DEF UploadRecords, NoImage, NoUpload, HasRow, ImagesInv
  <2>5. CASE ImageAges(i)
      BY <1>1, <2>1, <2>5 DEF ImageAges, Image, HasRow, ImagesInv
  <2> QED
      BY <2>2, <2>3, <2>4, <2>5
<1>5. ASSUME NEW d \in removal
      PROVE  /\ d.kind = "thread" => d.thread \in Threads
             /\ \A j \in d.images :
                   /\ image'[j].row # "none"
                   /\ d.kind = "thread" /\ HasRow(j)' /\ j \notin carried =>
                         image'[j].row = "bound" /\ image'[j].thread = d.thread
                   /\ d.at = "deleted" /\ j \notin carried => ~HasRow(j)'
    BY <1>1, <1>2, <1>4 DEF ImagesInv, HasRow
<1> QED
    BY <1>2, <1>3, <1>4, <1>5 DEF ImagesInv, HasRow

\* An image that is bound somewhere else was listed by no deletion of another
\* conversation, or is carried from now on.
LEMMA SendKeepsBytes ==
    ASSUME FilesTypeOK, ImagesInv, NEW t \in Threads, NEW named \in SUBSET Images,
           SubmitCommands(t, named)
    PROVE  ImagesInv'
<1>1. \A i \in Images :
         \/ image'[i] = image[i]
         \/ /\ i \in named /\ HasRow(i) /\ image'[i].row = "bound" /\ image'[i].thread = t
            /\ image'[i].file = image[i].file
    BY ImageTyped DEF SubmitCommands, Image
<1>2. UNCHANGED <<upload, removal>> /\ carried \subseteq carried'
    BY DEF SubmitCommands
<1>3. \A i \in Images :
         /\ image'[i].row # "none" => upload'[i].at = "idle"
         /\ upload'[i].at = "written" => image'[i].file
         /\ HasRow(i)' /\ i \notin carried' => image'[i].file
         /\ image'[i].row = "loose" => image'[i].thread = NoThread
    BY <1>1, <1>2 DEF ImagesInv, HasRow
<1>4. ASSUME NEW d \in removal, NEW i \in d.images
      PROVE  /\ image'[i].row # "none"
             /\ d.kind = "thread" /\ HasRow(i)' /\ i \notin carried' =>
                   image'[i].row = "bound" /\ image'[i].thread = d.thread
             /\ d.at = "deleted" /\ i \notin carried' => ~HasRow(i)'
  <2>1. i \in Images
      BY RemovalTyped
  <2>2. CASE image'[i] = image[i]
      BY <1>2, <2>2 DEF ImagesInv, HasRow
  <2>3. CASE /\ i \in named /\ HasRow(i)
             /\ image'[i].row = "bound" /\ image'[i].thread = t
    <3>1. d.kind = "thread" /\ d.thread # t => i \in carried'
        BY <2>1, <2>3 DEF SubmitCommands, ListedElsewhere
    <3> QED
        BY <1>2, <2>3, <3>1 DEF ImagesInv
  <2> QED
      BY <1>1, <2>1, <2>2, <2>3
<1> QED
    BY <1>2, <1>3, <1>4 DEF ImagesInv

LEMMA ListingKeepsBytes ==
    ASSUME FilesTypeOK, ImagesInv,
           \/ \E i \in Images : DeleteImage(i)
           \/ \E t \in Threads : DeleteAgentThread(t)
           \/ ReapOrphans
    PROVE  ImagesInv'
<1>1. UNCHANGED <<image, upload, carried>>
    BY DEF DeleteImage, DeleteAgentThread, ReapOrphans
<1>2. PICK kind, images, t :
         /\ kind \in {"image", "thread", "sweep"}
         /\ Begin(kind, images, t)
         /\ kind = "thread" => t \in Threads
         /\ \A i \in images :
               /\ i \in Images /\ HasRow(i)
               /\ kind = "thread" => image[i].row = "bound" /\ image[i].thread = t
  <2>1. CASE \E i \in Images : DeleteImage(i)
    <3>1. PICK i \in Images : HasRow(i) /\ Begin("image", {i}, NoThread)
        BY <2>1 DEF DeleteImage
    <3> QED
        BY <3>1
  <2>2. CASE \E t \in Threads : DeleteAgentThread(t)
    <3>1. PICK t \in Threads : Begin("thread", Of(t), t)
        BY <2>2 DEF DeleteAgentThread
    <3>2. \A i \in Of(t) : i \in Images /\ HasRow(i) /\ image[i].row = "bound" /\ image[i].thread = t
        BY FilesAssumption DEF Of, HasRow, ImagesInv
    <3> QED
        BY <3>1, <3>2
  <2>3. CASE ReapOrphans
    <3>1. \A i \in Orphans : i \in Images /\ HasRow(i)
        BY DEF Orphans, HasRow
    <3>2. Begin("sweep", Orphans, NoThread)
        BY <2>3 DEF ReapOrphans
    <3> QED
        BY <3>1, <3>2
  <2> QED
      BY <2>1, <2>2, <2>3
<1> DEFINE d == [kind |-> kind, at |-> "listed", images |-> images, thread |-> t]
<1>3. removal' = removal \cup {d}
    BY <1>2 DEF Begin
<1> QED
    BY <1>1, <1>2, <1>3 DEF ImagesInv, HasRow

LEMMA RemovingKeepsBytes ==
    ASSUME FilesTypeOK, ImagesInv, NEW d \in removal, DeleteRows(d)
    PROVE  ImagesInv'
<1>1. UNCHANGED <<upload, carried>> /\ d \in Removal /\ d.images \subseteq Images
    BY RemovalTyped DEF DeleteRows
<1>2. CASE removal' = removal \ {d} /\ UNCHANGED image
    BY <1>1, <1>2 DEF ImagesInv, HasRow
<1>3. CASE /\ image' = Without(RowsOf(d))
           /\ removal' = (removal \ {d}) \cup {[d EXCEPT !.at = "deleted"]}
  <2> DEFINE next == [d EXCEPT !.at = "deleted"]
  <2>1. \A i \in Images :
           \/ image'[i] = image[i]
           \/ /\ image[i].row # "none" /\ image'[i].row = "gone"
      BY <1>3, ImageTyped DEF Without, HasRow, Image
  <2>2. /\ next.kind = d.kind /\ next.images = d.images /\ next.thread = d.thread
        /\ next.at = "deleted"
      BY <1>1 DEF Removal
  <2>3. \A i \in d.images : i \notin carried => ~HasRow(i)'
    <3> SUFFICES ASSUME NEW i \in d.images, i \notin carried
                 PROVE  ~HasRow(i)'
        OBVIOUS
    <3>1. CASE i \in RowsOf(d)
        BY <1>1, <1>3, <3>1, ImageTyped DEF Without, HasRow, Image
    <3>2. CASE i \notin RowsOf(d)
        BY <1>1, <1>3, <3>2 DEF RowsOf, Of, Without, HasRow, ImagesInv
    <3> QED
        BY <3>1, <3>2
  <2>4. \A e \in removal' : e \in removal \/ e = next
      BY <1>3
  <2> HIDE DEF next
  <2>5. \A i \in Images :
           /\ image'[i].row # "none" => upload'[i].at = "idle"
           /\ upload'[i].at = "written" => image'[i].file
           /\ HasRow(i)' /\ i \notin carried => image'[i].file
           /\ image'[i].row = "loose" => image'[i].thread = NoThread
      BY <1>1, <2>1 DEF ImagesInv, HasRow
  <2>6. ASSUME NEW e \in removal'
        PROVE  /\ e.kind = "thread" => e.thread \in Threads
               /\ \A i \in e.images :
                     /\ image'[i].row # "none"
                     /\ e.kind = "thread" /\ HasRow(i)' /\ i \notin carried =>
                           image'[i].row = "bound" /\ image'[i].thread = e.thread
                     /\ e.at = "deleted" /\ i \notin carried => ~HasRow(i)'
    <3>1. CASE e = next
        BY <1>1, <2>1, <2>2, <2>3, <3>1 DEF ImagesInv
    <3>2. CASE e \in removal
        BY <2>1, <3>2, RemovalTyped DEF ImagesInv, HasRow
    <3> QED
        BY <2>4, <3>1, <3>2
  <2> QED
      BY <1>1, <2>5, <2>6 DEF ImagesInv
<1> QED
    BY <1>2, <1>3 DEF DeleteRows, NextRemoval

LEMMA UnlinkingKeepsBytes ==
    ASSUME FilesTypeOK, ImagesInv, NEW d \in removal, DeleteFiles(d)
    PROVE  ImagesInv'
<1>1. /\ UNCHANGED <<upload, carried>>
      /\ removal' \subseteq removal
    BY DEF DeleteFiles, NextRemoval
<1>2. \A i \in Images :
         /\ image'[i].row = image[i].row /\ image'[i].thread = image[i].thread
         /\ image'[i].file = image[i].file \/ i \in d.images
    BY ImageTyped DEF DeleteFiles, Image
<1>3. \A i \in d.images : (i \notin carried => ~HasRow(i)) /\ upload[i].at = "idle"
    BY RemovalTyped DEF DeleteFiles, ImagesInv
<1> QED
    BY <1>1, <1>2, <1>3, RemovalTyped DEF ImagesInv, HasRow

\* "A row that still exists must keep its bytes readable" (DeleteAgentThread):
\* no order of uploads, sends, deletions and sweeps, and no death between their
\* steps, leaves a row without its file, except that of an image sent in one
\* conversation after the deletion of another has listed it.
THEOREM RowsKeepTheirBytes == FilesSpec => []RowKeepsItsBytes
<1>1. FilesInit => ImagesInv
    BY DEF FilesInit, ImagesInv, NoImage, NoUpload, HasRow
<1>2. FilesTypeOK /\ ImagesInv /\ [FilesNext]_fileVars => ImagesInv'
  <2> SUFFICES ASSUME FilesTypeOK, ImagesInv, [FilesNext]_fileVars
               PROVE  ImagesInv'
    OBVIOUS
  <2>1. CASE UNCHANGED <<image, upload, removal, carried>>
    BY <2>1 DEF ImagesInv, HasRow
  <2>2. CASE FilesStop
    BY <2>2 DEF FilesStop, ImagesInv, HasRow, NoUpload
  <2>3. CASE AudioNext
    BY <2>1, <2>3 DEF AudioNext, RecordVoice, EnqueueVoice, VoiceJobEnds, RetryVoice,
       RecordingAges, ReapStaleAudio, RemoveAudio
  <2>4. CASE ImageNext
    BY <2>4, UploadKeepsBytes, SendKeepsBytes, ListingKeepsBytes, RemovingKeepsBytes,
       UnlinkingKeepsBytes DEF ImageNext
  <2>5. CASE UNCHANGED fileVars
    BY <2>1, <2>5 DEF fileVars
  <2> QED
    BY <2>2, <2>3, <2>4, <2>5 DEF FilesNext
<1>3. ImagesInv => RowKeepsItsBytes
    BY DEF ImagesInv, RowKeepsItsBytes
<1> QED
    BY <1>1, <1>2, <1>3, FilesTypes, PTL DEF FilesSpec

-----------------------------------------------------------------------------
(***************************************************************************)
(* Users, sessions and links, whatever tokens are presented and in whatever *)
(* order the issuer speaks.                                                *)
(***************************************************************************)


-----------------------------------------------------------------------------
(* What each kind of write does to the rows.                                *)

SameButStatus(s) ==
    /\ session'[s].user = session[s].user
    /\ session'[s].family = session[s].family
    /\ session'[s].link = session[s].link

LEMMA RowTyped ==
    ASSUME session \in Seq(SessionRow)
    PROVE  /\ Len(session) \in Nat
           /\ session \in [Rows -> SessionRow]
           /\ \A s \in Rows : session[s] \in SessionRow
BY DEF Rows

LEMMA RevokedRows ==
    ASSUME session \in Seq(SessionRow), NEW which, session' = Revoked(which)
    PROVE  /\ session' \in Seq(SessionRow) /\ Len(session') = Len(session)
           /\ \A s \in Rows :
                 /\ SameButStatus(s)
                 /\ session'[s].next = session[s].next
                 /\ session'[s].status \in {session[s].status, "revoked"}
                 /\ s \in which => session'[s].status = "revoked"
<1>1. \A s \in Rows : [session[s] EXCEPT !.status = "revoked"] \in SessionRow
    BY RowTyped DEF SessionRow
<1>2. session' \in [Rows -> SessionRow]
    BY <1>1, RowTyped DEF Revoked
<1>3. session' \in Seq(SessionRow) /\ Len(session') = Len(session)
    BY <1>2, RowTyped DEF Rows
<1>4. ASSUME NEW s \in Rows
      PROVE  /\ SameButStatus(s)
             /\ session'[s].next = session[s].next
             /\ session'[s].status \in {session[s].status, "revoked"}
             /\ s \in which => session'[s].status = "revoked"
    BY RowTyped DEF Revoked, SameButStatus, SessionRow
<1> QED
    BY <1>3, <1>4

LEMMA AppendedRow ==
    ASSUME session \in Seq(SessionRow), NEW row \in SessionRow, session' = Append(session, row)
    PROVE  /\ session' \in Seq(SessionRow) /\ Len(session') = Len(session) + 1
           /\ \A s \in Rows : session'[s] = session[s]
           /\ session'[Len(session) + 1] = row
           /\ Rows' = Rows \cup {Len(session) + 1}
BY DEF Rows

LEMMA RotatedRows ==
    ASSUME session \in Seq(SessionRow), NEW p \in Rows, NEW s \in Rows,
           session[s].status = "active", Len(session) < MaxSessions, MaxSessions \in Nat,
           session' = Append(Replaced(p, s, Len(session) + 1), Successor(s))
    PROVE  /\ session' \in Seq(SessionRow) /\ Len(session') = Len(session) + 1
           /\ Rows' = Rows \cup {Len(session) + 1}
           /\ \A r \in Rows :
                 /\ SameButStatus(r)
                 /\ session'[r].next \in {session[r].next, Len(session) + 1}
                 /\ session'[r].status = IF r = s THEN "rotated" ELSE session[r].status
           /\ session'[s].next = Len(session) + 1
           /\ session'[Len(session) + 1] = Successor(s)
           /\ Successor(s) \in SessionRow
<1> DEFINE new == Len(session) + 1
           mid == [session EXCEPT ![s] = [session[s] EXCEPT !.status = "rotated", !.next = new,
                                                            !.fresh = TRUE]]
           rows == [mid EXCEPT ![p] = [mid[p] EXCEPT !.next = new]]
<1>1. new \in SessionIds
    BY RowTyped DEF SessionIds
<1>2. [session[s] EXCEPT !.status = "rotated", !.next = new, !.fresh = TRUE] \in SessionRow
  <2> HIDE DEF new
  <2> QED
    BY <1>1, RowTyped DEF SessionRow
<1>3. mid \in [Rows -> SessionRow]
    BY <1>2, RowTyped
<1>4. [mid[p] EXCEPT !.next = new] \in SessionRow
  <2>1. mid[p] \in SessionRow
    <3> HIDE DEF mid
    <3> QED
      BY <1>3
  <2> HIDE DEF mid, new
  <2> QED
    BY <1>1, <2>1 DEF SessionRow
<1>5. rows \in [Rows -> SessionRow]
  <2> HIDE DEF mid, new
  <2> QED
    BY <1>3, <1>4
<1>6. Replaced(p, s, new) = rows
    BY RowTyped DEF Replaced
<1>7. rows \in Seq(SessionRow) /\ Len(rows) = Len(session)
  <2> HIDE DEF rows
  <2> QED
    BY <1>5, RowTyped DEF Rows
<1>8. Successor(s) \in SessionRow
    BY RowTyped DEF Successor, SessionRow
<1>9. /\ session' \in Seq(SessionRow) /\ Len(session') = new
      /\ \A r \in Rows : session'[r] = rows[r]
      /\ session'[new] = Successor(s)
      /\ Rows' = Rows \cup {new}
  <2> HIDE DEF rows
  <2> QED
    BY <1>6, <1>7, <1>8, RowTyped DEF Rows
<1>10. ASSUME NEW r \in Rows
       PROVE  /\ rows[r].user = session[r].user
              /\ rows[r].family = session[r].family
              /\ rows[r].link = session[r].link
              /\ rows[r].next \in {session[r].next, new}
              /\ r = s => rows[r].next = new
              /\ rows[r].status = IF r = s THEN "rotated" ELSE session[r].status
  <2>1. /\ mid[r] \in SessionRow
        /\ mid[r].user = session[r].user
        /\ mid[r].family = session[r].family
        /\ mid[r].link = session[r].link
        /\ mid[r].next = IF r = s THEN new ELSE session[r].next
        /\ mid[r].status = IF r = s THEN "rotated" ELSE session[r].status
      BY <1>2, RowTyped DEF SessionRow
  <2> HIDE DEF mid, new
  <2>2. rows[r] = IF r = p THEN [mid[p] EXCEPT !.next = new] ELSE mid[r]
      BY <1>3
  <2> QED
      BY <1>4, <2>1, <2>2 DEF SessionRow
<1> QED
    BY <1>8, <1>9, <1>10 DEF SameButStatus

-----------------------------------------------------------------------------
(* The invariant of the rows.                                               *)

\* A row belongs to the family of a row before it or its own, and carries that
\* row's link; a rotated row was replaced; a browser stores the token of a row.
RowsInv ==
    /\ Len(session) <= MaxSessions
    /\ \A s \in Rows :
          /\ Family(s) \in Rows /\ Family(Family(s)) = Family(s)
          /\ session[s].link = session[Family(s)].link
          /\ session[s].next \in 0..Len(session)
          /\ session[s].status = "rotated" => session[s].next # 0
    /\ OneLiveTokenPerFamily
    /\ \A f \in SessionIds : held[f] \in 0..Len(session)

IdentityInv ==
    IdentityTypeOK /\ RowsInv /\ RevokedLinkHasNoSessions /\ SomeAdminRemains

\* A handler that only touches what the rows do not depend on.
LEMMA RowsUntouched ==
    ASSUME RowsInv, UNCHANGED <<session, held>>
    PROVE  RowsInv'
BY DEF RowsInv, Rows, Family, OneLiveTokenPerFamily

LEMMA LinksUntouched ==
    ASSUME RevokedLinkHasNoSessions, UNCHANGED <<session, link>>
    PROVE  RevokedLinkHasNoSessions'
BY DEF RevokedLinkHasNoSessions, Rows, Family

LEMMA AdminUntouched ==
    ASSUME SomeAdminRemains, UNCHANGED user
    PROVE  SomeAdminRemains'
BY DEF SomeAdminRemains

LEMMA RevokingKeepsRows ==
    ASSUME session \in Seq(SessionRow), RowsInv, NEW which, session' = Revoked(which),
           \A f \in SessionIds : held'[f] \in {held[f], 0}
    PROVE  RowsInv'
<1>1. Rows' = Rows /\ Len(session') = Len(session)
    BY RevokedRows DEF Rows
<1>2. \A s \in Rows :
         /\ Family(s)' = Family(s)
         /\ session'[s].link = session[s].link
         /\ session'[s].next = session[s].next
         /\ session'[s].status \in {session[s].status, "revoked"}
    BY RevokedRows DEF Family, SameButStatus
<1>3. Len(session) \in Nat
    BY RowTyped
<1> QED
    BY <1>1, <1>2, <1>3 DEF RowsInv, Family, OneLiveTokenPerFamily

LEMMA RevokingKeepsLinks ==
    ASSUME session \in Seq(SessionRow), RowsInv, RevokedLinkHasNoSessions, NEW which,
           session' = Revoked(which), UNCHANGED link
    PROVE  RevokedLinkHasNoSessions'
<1>1. Rows' = Rows
    BY RevokedRows DEF Rows
<1>2. \A s \in Rows :
         /\ Family(s)' = Family(s)
         /\ session'[s].link = session[s].link
         /\ session'[s].status = "active" => session[s].status = "active"
    BY RevokedRows DEF Family, SameButStatus
<1> QED
    BY <1>1, <1>2 DEF RowsInv, RevokedLinkHasNoSessions

LEMMA SignInKeepsRows ==
    ASSUME IdentityTypeOK, RowsInv, RevokedLinkHasNoSessions, MaxSessions \in Nat,
           NEW u \in Users, NEW l \in Links \cup {NoLink}, NEW c \in CasSids \cup {NoLink},
           SignIn(u, l, c), UNCHANGED link,
           l # NoLink => link[l].state # "revoked"
    PROVE  /\ session' \in Seq(SessionRow)
           /\ held' \in [SessionIds -> SessionIds \cup {0}]
           /\ RowsInv' /\ RevokedLinkHasNoSessions'
<1> DEFINE new == Len(session) + 1
           row == [user |-> u, family |-> new, status |-> "active", next |-> 0,
                   fresh |-> FALSE, expired |-> FALSE, link |-> l, sid |-> c]
<1>1. session \in Seq(SessionRow) /\ Len(session) \in Nat /\ new \in SessionIds
    BY RowTyped DEF IdentityTypeOK, SessionIds, SignIn
<1>2. row \in SessionRow
    BY <1>1 DEF SessionRow
<1>3. session' = Append(session, row) /\ held' = [held EXCEPT ![new] = new]
    BY DEF SignIn
<1>4. /\ session' \in Seq(SessionRow) /\ Len(session') = new
      /\ Rows' = Rows \cup {new}
      /\ \A s \in Rows : session'[s] = session[s]
      /\ session'[new] = row
    BY <1>1, <1>2, <1>3, AppendedRow
<1>5. held' \in [SessionIds -> SessionIds \cup {0}]
    BY <1>1, <1>3 DEF IdentityTypeOK
<1>6. \A f \in SessionIds : held'[f] \in 0..new
    BY <1>1, <1>3 DEF IdentityTypeOK, RowsInv
<1>7. new \notin Rows /\ new <= MaxSessions
    BY <1>1 DEF Rows, SessionIds
<1>8. /\ row.family = new /\ row.link = l /\ row.next = 0 /\ row.status = "active"
    OBVIOUS
<1> HIDE DEF row
<1>9. \A s \in Rows : Family(s)' = Family(s)
    BY <1>4 DEF Family
<1>10. \A s \in Rows' :
          /\ Family(s)' \in Rows' /\ Family(Family(s))' = Family(s)'
          /\ session'[s].link = session'[session'[s].family].link
          /\ session'[s].next \in 0..Len(session')
          /\ session'[s].status = "rotated" => session'[s].next # 0
  <2> SUFFICES ASSUME NEW s \in Rows'
               PROVE  /\ Family(s)' \in Rows' /\ Family(Family(s))' = Family(s)'
                      /\ session'[s].link = session'[session'[s].family].link
                      /\ session'[s].next \in 0..Len(session')
                      /\ session'[s].status = "rotated" => session'[s].next # 0
      OBVIOUS
  <2>1. 0 \in 0..Len(session') /\ \A n \in 0..Len(session) : n \in 0..Len(session')
      BY <1>1, <1>4
  <2>2. CASE s = new
    <3> HIDE DEF new
    <3> QED
      BY <1>4, <1>8, <2>1, <2>2 DEF Family
  <2>3. CASE s \in Rows
    <3> HIDE DEF new
    <3> QED
      BY <1>4, <2>1, <2>3 DEF RowsInv, Family
  <2> QED
      BY <1>4, <2>2, <2>3
<1>11. OneLiveTokenPerFamily'
  <2> SUFFICES ASSUME NEW s \in Rows', NEW t \in Rows', Family(s)' = Family(t)',
                      session'[s].status = "active", session'[t].status = "active"
               PROVE  s = t
      BY DEF OneLiveTokenPerFamily
  <2> HIDE DEF new
  <2>1. \A r \in Rows : session'[r].family # new
      BY <1>4, <1>7 DEF RowsInv, Family
  <2>2. CASE s \in Rows /\ t \in Rows
      BY <1>4, <2>2 DEF RowsInv, OneLiveTokenPerFamily, Family
  <2> QED
      BY <1>4, <1>8, <2>1, <2>2 DEF Family
<1>12. RevokedLinkHasNoSessions'
  <2> SUFFICES ASSUME NEW s \in Rows', session'[s].status = "active",
                      session'[session'[s].family].link # NoLink
               PROVE  link'[session'[session'[s].family].link].state # "revoked"
      BY DEF RevokedLinkHasNoSessions, Family
  <2> HIDE DEF new
  <2>1. CASE s = new
      BY <1>4, <1>8, <2>1
  <2>2. CASE s \in Rows
      BY <1>4, <2>2 DEF RowsInv, RevokedLinkHasNoSessions, Family
  <2> QED
      BY <1>4, <2>1, <2>2
<1> QED
    BY <1>4, <1>5, <1>6, <1>7, <1>10, <1>11, <1>12 DEF RowsInv, Family

\* The row a presented token rotates is an active one of the rows.
LEMMA AcceptedRow ==
    ASSUME session \in Seq(SessionRow), RowsInv, NEW p \in Rows, Accepted(p)
    PROVE  Rotating(p) \in Rows /\ session[Rotating(p)].status = "active"
<1>1. session[p].next \in 0..Len(session) /\ (session[p].status = "rotated" => session[p].next # 0)
    BY DEF RowsInv
<1> QED
    BY <1>1, RowTyped DEF Accepted, Usable, Rotating, GraceSuccessor, Rows

LEMMA RotationKeepsRows ==
    ASSUME IdentityTypeOK, RowsInv, RevokedLinkHasNoSessions, MaxSessions \in Nat,
           NEW p \in Rows, Accepted(p), Rotate(p, Rotating(p)), UNCHANGED link,
           \A f \in SessionIds : held'[f] \in {held[f], Len(session')}
    PROVE  session' \in Seq(SessionRow) /\ RowsInv' /\ RevokedLinkHasNoSessions'
<1> DEFINE s == Rotating(p)
           new == Len(session) + 1
<1>1. /\ session \in Seq(SessionRow) /\ Len(session) \in Nat
      /\ s \in Rows /\ session[s].status = "active" /\ session[s] \in SessionRow
      /\ Len(session) < MaxSessions
    BY AcceptedRow, RowTyped DEF IdentityTypeOK, Rotate
<1>2. session' = Append(Replaced(p, s, new), Successor(s))
    BY DEF Rotate
<1>3. /\ session' \in Seq(SessionRow) /\ Len(session') = new
      /\ Rows' = Rows \cup {new}
      /\ \A r \in Rows :
            /\ session'[r].family = session[r].family /\ session'[r].link = session[r].link
            /\ session'[r].next \in {session[r].next, new}
            /\ session'[r].status = IF r = s THEN "rotated" ELSE session[r].status
      /\ session'[s].next = new
      /\ session'[new] = Successor(s)
  <2> HIDE DEF s
  <2> QED
      BY <1>1, <1>2, RotatedRows DEF SameButStatus
<1>4. /\ Successor(s).family = session[s].family /\ Successor(s).link = session[s].link
      /\ Successor(s).next = 0 /\ Successor(s).status = "active"
    BY <1>1 DEF Successor, SessionRow
<1>5. new \notin Rows /\ new # 0 /\ new \in 0..new /\ new <= MaxSessions
    BY <1>1 DEF Rows
<1>6. \A f \in SessionIds : held'[f] \in 0..Len(session')
    BY <1>1, <1>3, <1>5 DEF RowsInv
<1>7. 0 \in 0..Len(session') /\ \A n \in 0..Len(session) : n \in 0..Len(session')
    BY <1>1, <1>3
<1> HIDE DEF s, new
<1>8. \A r \in Rows' :
         /\ session'[r].family \in Rows
         /\ session'[session'[r].family].family = session'[r].family
         /\ session'[r].link = session'[session'[r].family].link
         /\ session'[r].next \in 0..Len(session')
         /\ session'[r].status = "rotated" => session'[r].next # 0
  <2> SUFFICES ASSUME NEW r \in Rows'
               PROVE  /\ session'[r].family \in Rows
                      /\ session'[session'[r].family].family = session'[r].family
                      /\ session'[r].link = session'[session'[r].family].link
                      /\ session'[r].next \in 0..Len(session')
                      /\ session'[r].status = "rotated" => session'[r].next # 0
      OBVIOUS
  <2>1. CASE r = new
      BY <1>1, <1>3, <1>4, <1>7, <2>1 DEF RowsInv, Family
  <2>2. CASE r \in Rows
    <3>1. /\ session[r].family \in Rows /\ session[session[r].family].family = session[r].family
          /\ session[r].link = session[session[r].family].link
          /\ session[r].next \in 0..Len(session)
          /\ session[r].status = "rotated" => session[r].next # 0
        BY <2>2 DEF RowsInv, Family
    <3> QED
        BY <1>3, <1>5, <1>7, <2>2, <3>1
  <2> QED
      BY <1>3, <2>1, <2>2
<1>9. OneLiveTokenPerFamily'
  <2> SUFFICES ASSUME NEW q \in Rows', NEW t \in Rows', session'[q].family = session'[t].family,
                      session'[q].status = "active", session'[t].status = "active"
               PROVE  q = t
      BY DEF OneLiveTokenPerFamily, Family
  <2>1. \A r \in Rows : session'[r].status = "active" => session'[r].family # session[s].family
      BY <1>1, <1>3 DEF RowsInv, OneLiveTokenPerFamily, Family
  <2>2. CASE q \in Rows /\ t \in Rows
    <3>1. /\ session[q].family = session[t].family
          /\ session[q].status = "active" /\ session[t].status = "active"
        BY <1>3, <2>2
    <3> QED
        BY <2>2, <3>1 DEF RowsInv, OneLiveTokenPerFamily, Family
  <2> QED
      BY <1>3, <1>4, <2>1, <2>2
<1>10. RevokedLinkHasNoSessions'
  <2> SUFFICES ASSUME NEW r \in Rows', session'[r].status = "active",
                      session'[session'[r].family].link # NoLink
               PROVE  link'[session'[session'[r].family].link].state # "revoked"
      BY DEF RevokedLinkHasNoSessions, Family
  <2>1. PICK q \in Rows : /\ session[q].status = "active"
                          /\ session[q].family = session'[r].family
    <3>1. CASE r = new
        BY <1>1, <1>3, <1>4, <3>1
    <3>2. CASE r \in Rows
        BY <1>3, <3>2
    <3> QED
        BY <1>3, <3>1, <3>2
  <2>2. session[q].family \in Rows
      BY DEF RowsInv, Family
  <2> QED
      BY <1>3, <2>1, <2>2 DEF RevokedLinkHasNoSessions, Family
<1> QED
    BY <1>1, <1>3, <1>5, <1>6, <1>8, <1>9, <1>10 DEF RowsInv, Family

-----------------------------------------------------------------------------
(* The steps.                                                               *)

LEMMA RowIds ==
    ASSUME IdentityTypeOK, RowsInv, MaxSessions \in Nat
    PROVE  /\ session \in Seq(SessionRow) /\ Rows \subseteq SessionIds
           /\ \A s \in Rows : session[s] \in SessionRow /\ Family(s) \in SessionIds
BY RowTyped DEF IdentityTypeOK, RowsInv, Rows, SessionIds, Family, SessionRow

LEMMA SignInSteps ==
    ASSUME IdentityInv, NEW u \in Users,
           LoginVerifies(u) \/ LoginInserts(u) \/ LoginFastResearch(u)
    PROVE  IdentityInv'
<1>1. CASE LoginVerifies(u)
  <2>1. IdentityTypeOK'
      BY <1>1 DEF LoginVerifies, IdentityInv, IdentityTypeOK, casVars
  <2> QED
      BY <1>1, <2>1, RowsUntouched, LinksUntouched, AdminUntouched
      DEF LoginVerifies, IdentityInv, casVars
<1>2. ASSUME SignIn(u, NoLink, NoLink), UNCHANGED casVars
      PROVE  /\ session' \in Seq(SessionRow)
             /\ held' \in [SessionIds -> SessionIds \cup {0}]
             /\ RowsInv' /\ RevokedLinkHasNoSessions'
    BY <1>2, SignInKeepsRows, SessionsAssumption DEF IdentityInv, casVars
<1>3. CASE LoginInserts(u)
  <2>1. SignIn(u, NoLink, NoLink) /\ UNCHANGED <<user, signingOut, casVars, upsets>>
        /\ signingIn' = signingIn \ {u}
      BY <1>3 DEF LoginInserts
  <2>2. IdentityTypeOK'
      BY <1>2, <2>1 DEF IdentityInv, IdentityTypeOK, casVars
  <2> QED
      BY <1>2, <2>1, <2>2, AdminUntouched DEF IdentityInv
<1>4. CASE LoginFastResearch(u)
  <2>1. SignIn(u, NoLink, NoLink) /\ UNCHANGED <<signingIn, signingOut, casVars, upsets>>
      BY <1>4 DEF LoginFastResearch
  <2>2. user' \in [Users -> User] /\ SomeAdminRemains'
    <3>1. user[u] \in User /\ user \in [Users -> User]
        BY DEF IdentityInv, IdentityTypeOK
    <3>2. [user[u] EXCEPT !.status = "active"] \in User
        BY <3>1 DEF User
    <3>3. PICK a \in Users : user[a] = [status |-> "active", role |-> "admin"]
        BY DEF IdentityInv, SomeAdminRemains
    <3>4. user' = user \/ (user[u].status = "none"
                           /\ user' = [user EXCEPT ![u] = [user[u] EXCEPT !.status = "active"]])
        BY <1>4 DEF LoginFastResearch
    <3>5. user'[a] = user[a]
        BY <3>1, <3>3, <3>4
    <3> QED
        BY <3>1, <3>2, <3>3, <3>4, <3>5 DEF SomeAdminRemains
  <2>3. IdentityTypeOK'
      BY <1>2, <2>1, <2>2 DEF IdentityInv, IdentityTypeOK, casVars
  <2> QED
      BY <1>2, <2>1, <2>2, <2>3 DEF IdentityInv
<1> QED
    BY <1>1, <1>3, <1>4

LEMMA RefreshSteps ==
    ASSUME IdentityInv, NEW s \in Rows, BrowserRefreshes(s) \/ OtherRefreshes(s)
    PROVE  IdentityInv'
<1>1. /\ session \in Seq(SessionRow) /\ s \in SessionIds /\ MaxSessions \in Nat
      /\ Len(session) \in Nat
    BY RowIds, RowTyped, SessionsAssumption DEF IdentityInv
<1>2. PICK p \in Rows :
         /\ \/ Accepted(p) /\ Rotate(p, Rotating(p))
                           /\ \A f \in SessionIds : held'[f] \in {held[f], Len(session')}
            \/ Refused(Rotating(p)) /\ \A f \in SessionIds : held'[f] \in {held[f], 0}
         /\ held' \in [SessionIds -> {held[f] : f \in SessionIds} \cup {0, Len(session')}]
         /\ UNCHANGED <<user, signingIn, signingOut, casVars>>
         /\ upsets' \in Nat
         /\ held' = held \/ Accepted(p) \/ held' = [held EXCEPT ![s] = 0]
  <2>1. held \in [SessionIds -> SessionIds \cup {0}] /\ upsets \in Nat
      BY DEF IdentityInv, IdentityTypeOK
  <2>2. CASE OtherRefreshes(s)
      BY <2>1, <2>2 DEF OtherRefreshes, Upset
  <2>3. CASE BrowserRefreshes(s)
    <3>1. held[s] \in Rows
        BY <1>1, <2>1, <2>3 DEF BrowserRefreshes, IdentityInv, RowsInv, Rows
    <3> QED
        BY <1>1, <2>1, <2>3, <3>1 DEF BrowserRefreshes
  <2> QED
      BY <2>2, <2>3
<1>3. CASE Accepted(p) /\ Rotate(p, Rotating(p))
           /\ \A f \in SessionIds : held'[f] \in {held[f], Len(session')}
  <2>1. session' \in Seq(SessionRow) /\ RowsInv' /\ RevokedLinkHasNoSessions'
      BY <1>1, <1>2, <1>3, RotationKeepsRows DEF IdentityInv, casVars
  <2>2. Len(session') \in SessionIds \cup {0}
      BY <1>1, <2>1 DEF RowsInv, SessionIds
  <2>3. IdentityTypeOK'
      BY <1>2, <2>1, <2>2 DEF IdentityInv, IdentityTypeOK, casVars
  <2> QED
      BY <1>2, <2>1, <2>3, AdminUntouched DEF IdentityInv
<1>4. CASE Refused(Rotating(p)) /\ \A f \in SessionIds : held'[f] \in {held[f], 0}
  <2>0. held' \in [SessionIds -> SessionIds \cup {0}]
      BY <1>2, <1>4 DEF IdentityInv, IdentityTypeOK
  <2>1. CASE UNCHANGED session
    <3>1. \A f \in SessionIds : held'[f] \in 0..Len(session)
        BY <1>1, <1>4 DEF IdentityInv, RowsInv
    <3>2. RowsInv'
        BY <2>1, <3>1 DEF IdentityInv, RowsInv, Rows, Family, OneLiveTokenPerFamily
    <3>3. IdentityTypeOK'
        BY <1>2, <2>0, <2>1 DEF IdentityInv, IdentityTypeOK, casVars
    <3> QED
        BY <1>2, <2>1, <3>2, <3>3, LinksUntouched, AdminUntouched DEF IdentityInv, casVars
  <2>2. ASSUME NEW which, session' = Revoked(which)
        PROVE  IdentityInv'
    <3>1. RowsInv' /\ RevokedLinkHasNoSessions' /\ session' \in Seq(SessionRow)
        BY <1>1, <1>2, <1>4, <2>2, RevokingKeepsRows, RevokingKeepsLinks, RevokedRows
        DEF IdentityInv, casVars
    <3>2. IdentityTypeOK'
        BY <1>2, <2>0, <3>1 DEF IdentityInv, IdentityTypeOK, casVars
    <3> QED
        BY <1>2, <3>1, <3>2, AdminUntouched DEF IdentityInv
  <2> QED
      BY <1>4, <2>1, <2>2 DEF Refused
<1> QED
    BY <1>2, <1>3, <1>4

\* Steps that may revoke rows and change nothing else that the invariant reads.
LEMMA RevokingSteps ==
    ASSUME IdentityInv, IdentityTypeOK',
           session' = session \/ \E which : session' = Revoked(which),
           \A f \in SessionIds : held'[f] \in {held[f], 0},
           UNCHANGED link, SomeAdminRemains'
    PROVE  IdentityInv'
<1>1. session \in Seq(SessionRow) /\ Len(session) \in Nat
    BY RowTyped DEF IdentityInv, IdentityTypeOK
<1>2. CASE session' = session
  <2>1. \A f \in SessionIds : held'[f] \in 0..Len(session)
      BY <1>1 DEF IdentityInv, RowsInv
  <2>2. RowsInv'
      BY <1>2, <2>1 DEF IdentityInv, RowsInv, Rows, Family, OneLiveTokenPerFamily
  <2> QED
      BY <1>2, <2>2, LinksUntouched DEF IdentityInv
<1>3. ASSUME NEW which, session' = Revoked(which)
      PROVE  IdentityInv'
    BY <1>1, <1>3, RevokingKeepsRows, RevokingKeepsLinks DEF IdentityInv
<1> QED
    BY <1>2, <1>3

LEMMA RowFields ==
    ASSUME NEW row \in SessionRow
    PROVE  /\ [row EXCEPT !.fresh = FALSE] \in SessionRow
           /\ [row EXCEPT !.expired = TRUE] \in SessionRow
           /\ \A r \in {[row EXCEPT !.fresh = FALSE], [row EXCEPT !.expired = TRUE]} :
                 /\ r.family = row.family /\ r.link = row.link /\ r.next = row.next
                 /\ r.status = row.status
BY DEF SessionRow

LEMMA AgingSteps ==
    ASSUME IdentityInv, NEW s \in Rows, GraceEnds(s) \/ SessionExpires(s)
    PROVE  IdentityInv'
<1>1. /\ session \in Seq(SessionRow) /\ session \in [Rows -> SessionRow] /\ Len(session) \in Nat
      /\ session[s] \in SessionRow
    BY RowTyped DEF IdentityInv, IdentityTypeOK
<1>2. PICK row \in {[session[s] EXCEPT !.fresh = FALSE], [session[s] EXCEPT !.expired = TRUE]} :
         session' = [session EXCEPT ![s] = row]
    BY DEF GraceEnds, SessionExpires
<1>3. /\ row \in SessionRow /\ row.family = session[s].family /\ row.link = session[s].link
      /\ row.next = session[s].next /\ row.status = session[s].status
    BY <1>1, RowFields
<1>4. session' \in Seq(SessionRow) /\ Len(session') = Len(session) /\ Rows' = Rows
    BY <1>1, <1>2, <1>3 DEF Rows
<1>5. \A r \in Rows : /\ session'[r].family = session[r].family /\ session'[r].link = session[r].link
                      /\ session'[r].next = session[r].next /\ session'[r].status = session[r].status
    BY <1>1, <1>2, <1>3
<1>6. UNCHANGED <<user, signingIn, signingOut, casVars, held>> /\ upsets' = upsets + 1
    BY DEF GraceEnds, SessionExpires, Upset
<1>7. RowsInv' /\ RevokedLinkHasNoSessions'
  <2>1. \A r \in Rows : session[r].family \in Rows
      BY DEF IdentityInv, RowsInv, Family
  <2>2. RowsInv'
      BY <1>4, <1>5, <1>6, <2>1 DEF IdentityInv, RowsInv, Family, OneLiveTokenPerFamily
  <2>3. RevokedLinkHasNoSessions'
      BY <1>4, <1>5, <1>6, <2>1 DEF IdentityInv, Family, RevokedLinkHasNoSessions, casVars
  <2> QED
      BY <2>2, <2>3
<1>8. IdentityTypeOK'
    BY <1>4, <1>6 DEF IdentityInv, IdentityTypeOK, casVars
<1> QED
    BY <1>6, <1>7, <1>8, AdminUntouched DEF IdentityInv

LEMMA RevokedTyped ==
    ASSUME session \in Seq(SessionRow)
    PROVE  \A which : Revoked(which) \in Seq(SessionRow)
<1> SUFFICES ASSUME NEW which
             PROVE  Revoked(which) \in Seq(SessionRow)
    OBVIOUS
<1>1. \A s \in Rows : [session[s] EXCEPT !.status = "revoked"] \in SessionRow
    BY RowTyped DEF SessionRow
<1>2. Revoked(which) \in [Rows -> SessionRow]
    BY <1>1, RowTyped DEF Revoked
<1> QED
    BY <1>2, RowTyped DEF Rows

LEMMA LogoutSteps ==
    ASSUME IdentityInv, NEW s \in Rows, LogoutAuthenticates(s) \/ LogoutRevokes(s)
    PROVE  IdentityInv'
<1>1. /\ session \in Seq(SessionRow) /\ s \in SessionIds
      /\ Family(s) \in SessionIds /\ held \in [SessionIds -> SessionIds \cup {0}]
    BY RowIds, SessionsAssumption DEF IdentityInv, IdentityTypeOK
<1>2. UNCHANGED <<user, signingIn, casVars>> /\ upsets' \in Nat
    BY DEF LogoutAuthenticates, LogoutRevokes, Upset, IdentityInv, IdentityTypeOK
<1>3. held' = held \/ held' = [held EXCEPT ![Family(s)] = 0]
    BY DEF LogoutAuthenticates, LogoutRevokes
<1>4. session' = session \/ session' = Revoked({s})
    BY DEF LogoutAuthenticates, LogoutRevokes
<1>5. signingOut' \in SUBSET SessionIds
    BY <1>1 DEF LogoutAuthenticates, LogoutRevokes, IdentityInv, IdentityTypeOK
<1>6. IdentityTypeOK'
    BY <1>1, <1>2, <1>3, <1>4, <1>5, RevokedTyped DEF IdentityInv, IdentityTypeOK, casVars
<1>7. \A f \in SessionIds : held'[f] \in {held[f], 0}
    BY <1>1, <1>3
<1> QED
    BY <1>2, <1>4, <1>6, <1>7, AdminUntouched, RevokingSteps DEF IdentityInv, casVars

LEMMA AdministrationSteps ==
    ASSUME IdentityInv, NEW u \in Users, CreateUser(u) \/ UpdateUser(u) \/ RevokeUserSessions(u)
    PROVE  IdentityInv'
<1>1. /\ user \in [Users -> User] /\ session \in Seq(SessionRow) /\ held' = held
      /\ UNCHANGED <<signingIn, signingOut, casVars>> /\ upsets' \in Nat
    BY DEF CreateUser, UpdateUser, RevokeUserSessions, Upset, IdentityInv, IdentityTypeOK
<1>2. session' = session \/ session' = Revoked(ActiveRowsOf(u))
    BY DEF CreateUser, UpdateUser, RevokeUserSessions
<1>3. PICK a \in Users : user[a] = [status |-> "active", role |-> "admin"]
    BY DEF IdentityInv, SomeAdminRemains
<1>4. user' \in [Users -> User] /\ SomeAdminRemains'
  <2>1. CASE CreateUser(u)
    <3>1. PICK r \in {"member", "admin"} : user' = [user EXCEPT ![u] = [status |-> "active", role |-> r]]
        BY <2>1 DEF CreateUser
    <3>2. a # u
        BY <1>3, <2>1 DEF CreateUser
    <3>3. [status |-> "active", role |-> r] \in User
        BY DEF User
    <3> QED
        BY <1>1, <1>3, <3>1, <3>2, <3>3 DEF SomeAdminRemains
  <2>2. CASE UpdateUser(u)
    <3>1. PICK r \in {"member", "admin"}, st \in {"active", "disabled"} :
             /\ user' = [user EXCEPT ![u] = [status |-> st, role |-> r]]
             /\ \/ user[u].role = "admin" /\ r # "admin"
                \/ user[u].status = "active" /\ st # "active"
                => OtherAdmin(u)
        BY <2>2 DEF UpdateUser
    <3>2. [status |-> st, role |-> r] \in User
        BY DEF User
    <3>3. user' \in [Users -> User]
        BY <1>1, <3>1, <3>2
    <3>4. CASE a # u
        BY <1>1, <1>3, <3>1, <3>3, <3>4 DEF SomeAdminRemains
    <3>5. CASE a = u /\ ~OtherAdmin(u)
      <4>1. user[u].role = "admin" /\ user[u].status = "active"
          BY <1>3, <3>5
      <4>2. r = "admin" /\ st = "active"
          BY <3>1, <3>5, <4>1
      <4> QED
          BY <1>1, <3>1, <3>3, <4>2 DEF SomeAdminRemains
    <3>6. CASE OtherAdmin(u)
      <4>1. PICK b \in Users \ {u} : user[b].role = "admin" /\ user[b].status = "active"
          BY <3>6 DEF OtherAdmin
      <4>2. user[b] \in User
          BY <1>1
      <4>3. user[b] = [status |-> "active", role |-> "admin"]
          BY <4>1, <4>2 DEF User
      <4> QED
          BY <1>1, <3>1, <3>3, <4>3 DEF SomeAdminRemains
    <3> QED
        BY <3>3, <3>4, <3>5, <3>6
  <2>3. CASE RevokeUserSessions(u)
    BY <1>1, <2>3, AdminUntouched DEF RevokeUserSessions, IdentityInv
  <2> QED
    BY <2>1, <2>2, <2>3
<1>5. IdentityTypeOK'
    BY <1>1, <1>2, <1>4, RevokedTyped DEF IdentityInv, IdentityTypeOK, casVars
<1> QED
    BY <1>1, <1>2, <1>4, <1>5, RevokingSteps DEF casVars

LEMMA LinkTyped ==
    ASSUME IdentityTypeOK, NEW l \in Links
    PROVE  /\ link[l] \in LinkState /\ remote[l] \in LinkState
           /\ [state |-> "prepared", version |-> 1] \in LinkState
BY DEF IdentityTypeOK, LinkState

LEMMA IssuerSteps ==
    ASSUME IdentityInv, NEW l \in Links, AskIssuer(l) \/ RevokeLink(l)
    PROVE  IdentityInv'
<1>1. remote[l] \in LinkState /\ remote \in [Links -> LinkState]
    BY LinkTyped DEF IdentityInv, IdentityTypeOK
<1>2. PICK st \in {"active", "revoked"} :
         \/ UNCHANGED remote /\ remote[l].state # "none"
         \/ remote' = [remote EXCEPT ![l] = [state |-> st, version |-> remote[l].version + 1]]
    BY <1>1 DEF AskIssuer, RevokeLink
<1>3. remote' \in [Links -> LinkState] /\ remote'[l].state \in {"prepared", "active", "revoked"}
  <2>1. [state |-> st, version |-> remote[l].version + 1] \in LinkState
      BY <1>1 DEF LinkState
  <2>2. remote[l].state # "none" => remote[l].state \in {"prepared", "active", "revoked"}
      BY <1>1 DEF LinkState
  <2> QED
      BY <1>1, <1>2, <2>1, <2>2
<1>4. Seen(l, remote') \in Snapshot
  <2>1. remote'[l] \in LinkState
      BY <1>3
  <2> QED
      BY <1>3, <2>1 DEF Seen, Snapshot, LinkState
<1>5. /\ snapshots' = snapshots \cup {Seen(l, remote')}
      /\ UNCHANGED <<user, session, signingIn, signingOut, link, upsets, held>>
    BY DEF AskIssuer, RevokeLink
<1>6. IdentityTypeOK'
    BY <1>3, <1>4, <1>5 DEF IdentityInv, IdentityTypeOK
<1> QED
    BY <1>5, <1>6, RowsUntouched, LinksUntouched, AdminUntouched DEF IdentityInv

LEMMA PreparingSteps ==
    ASSUME IdentityInv, NEW l \in Links, PrepareLink(l)
    PROVE  IdentityInv'
<1> DEFINE prepared == [state |-> "prepared", version |-> 1]
<1>1. /\ UNCHANGED <<user, session, signingIn, signingOut, snapshots, upsets, held>>
      /\ remote' = [remote EXCEPT ![l] = prepared]
      /\ link' = link \/ link' = [link EXCEPT ![l] = prepared]
    BY DEF PrepareLink
<1>2. prepared \in LinkState /\ prepared.state # "revoked"
    BY LinkTyped DEF IdentityInv
<1>3. link \in [Links -> LinkState]
    BY DEF IdentityInv, IdentityTypeOK
<1> HIDE DEF prepared
<1>4. IdentityTypeOK'
    BY <1>1, <1>2 DEF IdentityInv, IdentityTypeOK
<1>5. \A k \in Links : link'[k].state = "revoked" => link[k].state = "revoked"
    BY <1>1, <1>2, <1>3
<1>6. \A s \in Rows : session[Family(s)].link \in Links \cup {NoLink}
  <2>1. session \in Seq(SessionRow)
      BY DEF IdentityInv, IdentityTypeOK
  <2>2. \A s \in Rows : session[Family(s)] \in SessionRow
      BY <2>1, RowTyped DEF IdentityInv, RowsInv
  <2> QED
      BY <2>2 DEF SessionRow
<1>7. RevokedLinkHasNoSessions'
    BY <1>1, <1>5, <1>6 DEF IdentityInv, RevokedLinkHasNoSessions, Rows, Family
<1> QED
    BY <1>1, <1>4, <1>7, RowsUntouched, AdminUntouched DEF IdentityInv

LEMMA ApplyingSteps ==
    ASSUME IdentityInv, NEW f \in snapshots, applyFastCASLink(f)
    PROVE  IdentityInv'
<1>1. f \in Snapshot /\ f.link \in Links /\ link \in [Links -> LinkState]
      /\ session \in Seq(SessionRow)
    BY DEF IdentityInv, IdentityTypeOK, Snapshot
<1>2. /\ link' = [link EXCEPT ![f.link] = [state |-> f.state, version |-> f.version]]
      /\ session' = IF f.state = "revoked" THEN Revoked(LinkRows(f.link)) ELSE session
      /\ UNCHANGED <<user, signingIn, signingOut, remote, snapshots, upsets, held>>
    BY DEF applyFastCASLink
<1>3. [state |-> f.state, version |-> f.version] \in LinkState
    BY <1>1 DEF Snapshot, LinkState
<1>4. IdentityTypeOK'
    BY <1>1, <1>2, <1>3, RevokedTyped DEF IdentityInv, IdentityTypeOK
<1>5. RowsInv'
  <2>1. CASE f.state = "revoked"
      BY <1>1, <1>2, <2>1, RevokingKeepsRows DEF IdentityInv
  <2>2. CASE f.state # "revoked"
      BY <1>2, <2>2, RowsUntouched DEF IdentityInv
  <2> QED
      BY <2>1, <2>2
<1>6. RevokedLinkHasNoSessions'
  <2>1. \A k \in Links : link'[k].state = "revoked" =>
            link[k].state = "revoked" \/ (k = f.link /\ f.state = "revoked")
      BY <1>1, <1>2
  <2>2. \A s \in Rows : session[Family(s)].link \in Links \cup {NoLink}
    <3>1. \A s \in Rows : session[Family(s)] \in SessionRow
        BY <1>1, RowTyped DEF IdentityInv, RowsInv
    <3> QED
        BY <3>1 DEF SessionRow
  <2>3. CASE f.state # "revoked"
      BY <1>2, <2>1, <2>2, <2>3 DEF IdentityInv, RevokedLinkHasNoSessions, Rows, Family
  <2>4. CASE f.state = "revoked"
    <3>1. session' = Revoked(LinkRows(f.link))
        BY <1>2, <2>4
    <3>2. Rows' = Rows
        BY <1>1, <3>1, RevokedRows DEF Rows
    <3>3. \A s \in Rows :
             /\ session'[s].family = session[s].family /\ session'[s].link = session[s].link
             /\ session'[s].status = "active" =>
                   session[s].status = "active" /\ session[s].link # f.link
        BY <1>1, <3>1, RevokedRows DEF SameButStatus, LinkRows
    <3>4. \A s \in Rows : session[s].family \in Rows
                          /\ session[s].link = session[session[s].family].link
        BY DEF IdentityInv, RowsInv, Family
    <3> QED
        BY <2>1, <2>2, <3>2, <3>3, <3>4 DEF IdentityInv, RevokedLinkHasNoSessions, Family
  <2> QED
      BY <2>3, <2>4
<1> QED
    BY <1>2, <1>4, <1>5, <1>6, AdminUntouched DEF IdentityInv

LEMMA FastCASSteps ==
    ASSUME IdentityInv,
           \/ \E f \in snapshots, c \in CasSids : LoginFastCAS(f, c)
           \/ \E l \in Links : CasLogout(l)
    PROVE  IdentityInv'
<1>1. CASE \E f \in snapshots, c \in CasSids : LoginFastCAS(f, c)
  <2>1. PICK f \in snapshots, c \in CasSids : LoginFastCAS(f, c)
      BY <1>1
  <2>2. f.link \in Links /\ LinkUser[f.link] \in Users
      BY SessionsAssumption DEF IdentityInv, IdentityTypeOK, Snapshot
  <2>3. link[f.link].state # "revoked" /\ UNCHANGED <<user, signingIn, signingOut, casVars, upsets>>
        /\ SignIn(LinkUser[f.link], f.link, c)
      BY <2>1 DEF LoginFastCAS
  <2>4. /\ session' \in Seq(SessionRow)
        /\ held' \in [SessionIds -> SessionIds \cup {0}]
        /\ RowsInv' /\ RevokedLinkHasNoSessions'
      BY <2>2, <2>3, SignInKeepsRows, SessionsAssumption DEF IdentityInv, casVars
  <2>5. IdentityTypeOK'
      BY <2>3, <2>4 DEF IdentityInv, IdentityTypeOK, casVars
  <2> QED
      BY <2>3, <2>4, <2>5, AdminUntouched DEF IdentityInv
<1>2. CASE \E l \in Links : CasLogout(l)
  <2>1. PICK l \in Links : CasLogout(l)
      BY <1>2
  <2>2. UNCHANGED <<user, signingIn, signingOut, casVars, held>> /\ upsets' \in Nat
      BY <2>1 DEF CasLogout, Upset, IdentityInv, IdentityTypeOK
  <2>3. \E which : session' = Revoked(which)
      BY <2>1 DEF CasLogout
  <2>4. IdentityTypeOK'
      BY <2>2, <2>3, RevokedTyped DEF IdentityInv, IdentityTypeOK, casVars
  <2> QED
      BY <2>2, <2>3, <2>4, AdminUntouched, RevokingSteps DEF IdentityInv, casVars
<1> QED
    BY <1>1, <1>2

LEMMA IdentityStarts == IdentityInit => IdentityInv
<1> SUFFICES ASSUME IdentityInit
             PROVE  IdentityInv
    OBVIOUS
<1>1. Len(session) = 0 /\ session \in Seq(SessionRow) /\ Rows = {}
    BY DEF IdentityInit, Rows
<1>2. IdentityTypeOK
    BY <1>1 DEF IdentityInit, IdentityTypeOK, User, LinkState
<1>3. RowsInv /\ RevokedLinkHasNoSessions
    BY <1>1, SessionsAssumption
    DEF IdentityInit, RowsInv, OneLiveTokenPerFamily, RevokedLinkHasNoSessions
<1>4. user[FirstAdmin] = [status |-> "active", role |-> "admin"]
    BY SessionsAssumption DEF IdentityInit
<1> QED
    BY <1>2, <1>3, <1>4, SessionsAssumption DEF IdentityInv, SomeAdminRemains

LEMMA IdentityInductive == IdentitySpec => []IdentityInv
<1>1. IdentityInv /\ [IdentityNext]_identityVars => IdentityInv'
  <2> SUFFICES ASSUME IdentityInv, [IdentityNext]_identityVars
               PROVE  IdentityInv'
    OBVIOUS
  <2>1. CASE UNCHANGED identityVars
    <3>1. IdentityTypeOK'
        BY <2>1 DEF identityVars, IdentityInv, IdentityTypeOK
    <3> QED
        BY <2>1, <3>1, RowsUntouched, LinksUntouched, AdminUntouched DEF identityVars, IdentityInv
  <2>2. ASSUME NEW u \in Users, UserSteps(u)
        PROVE  IdentityInv'
    BY <2>2, SignInSteps, AdministrationSteps DEF UserSteps
  <2>3. ASSUME NEW s \in Rows, SessionSteps(s)
        PROVE  IdentityInv'
    BY <2>3, RefreshSteps, AgingSteps, LogoutSteps DEF SessionSteps
  <2>4. ASSUME NEW l \in Links, LinkSteps(l)
        PROVE  IdentityInv'
    BY <2>4, PreparingSteps, IssuerSteps, FastCASSteps DEF LinkSteps
  <2>5. ASSUME NEW f \in snapshots, applyFastCASLink(f) \/ \E c \in CasSids : LoginFastCAS(f, c)
        PROVE  IdentityInv'
    BY <2>5, ApplyingSteps, FastCASSteps
  <2> QED
    BY <2>1, <2>2, <2>3, <2>4, <2>5 DEF IdentityNext
<1> QED
    BY <1>1, IdentityStarts, PTL DEF IdentitySpec

-----------------------------------------------------------------------------
(* The theorems.                                                            *)

THEOREM IdentityTypes == IdentitySpec => []IdentityTypeOK
<1>1. IdentityInv => IdentityTypeOK
    BY DEF IdentityInv
<1> QED
    BY <1>1, IdentityInductive, PTL

\* Refresh: however often and by whomever the tokens of a family are presented,
\* in the grace window and after it, the family has at most one active row.
THEOREM FamilyHasOneToken == IdentitySpec => []OneLiveTokenPerFamily
<1>1. IdentityInv => OneLiveTokenPerFamily
    BY DEF IdentityInv, RowsInv
<1> QED
    BY <1>1, IdentityInductive, PTL

\* applyFastCASLink, loginFastCAS, Refresh: when the revocation of a link has
\* been applied, no session that came from the link is active, and none becomes
\* active again, in whatever order the issuer's snapshots are applied.
THEOREM RevokedLinkSignsOut == IdentitySpec => []RevokedLinkHasNoSessions
<1>1. IdentityInv => RevokedLinkHasNoSessions
    BY DEF IdentityInv
<1> QED
    BY <1>1, IdentityInductive, PTL

\* UpdateUser: no sequence of edits by any number of administrators takes away
\* the last one who can sign in.
THEOREM AdminRemains == IdentitySpec => []SomeAdminRemains
<1>1. IdentityInv => SomeAdminRemains
    BY DEF IdentityInv
<1> QED
    BY <1>1, IdentityInductive, PTL

-----------------------------------------------------------------------------
(***************************************************************************)
(* The transcript of a run: the log of its parts and what is read from it, *)
(* for any number of parts, deltas, streams, returns and deaths.  The      *)
(* inductive invariant says that the log replays to the snapshot a reader  *)
(* is given, that a viewer holds a prefix of it, and what the rows kept    *)
(* for a reload owe to the calls that were streamed.                       *)
(***************************************************************************)


-----------------------------------------------------------------------------
(* Replaying the log.                                                      *)

\* An event takes a view to a view, also when it adds to a part that is missing.
LEMMA AppliedTyped ==
    ASSUME NEW v \in View, NEW c \in Chunk
    PROVE  Applied(v, c) \in View
<1>1. c.op \in {"shell", "set", "append", "end"} /\ c.part \in PartIds /\ c.n \in Amount
      /\ c.gain \in [PartIds -> Nat]
  BY DEF Chunk, Amount
<1>2. \A p \in PartIds : v.part[p] + c.gain[p] \in Amount
  <2> TAKE p \in PartIds
  <2>1. v.part[p] \in Amount /\ c.gain[p] \in Nat
    BY <1>1 DEF View
  <2> QED
    BY <2>1 DEF Amount, Missing
<1>3. CASE c.op = "shell"
  BY <1>3 DEF Applied, View
<1>4. CASE c.op = "end"
  BY <1>4 DEF Applied, View
<1>5. CASE c.op = "set"
  <2>1. Applied(v, c) = [v EXCEPT !.part[c.part] = c.n]
    BY <1>5 DEF Applied
  <2> QED
    BY <1>1, <2>1 DEF View
<1>6. CASE c.op = "append"
  <2>1. Applied(v, c) = [v EXCEPT !.part = [p \in PartIds |-> v.part[p] + c.gain[p]]]
    BY <1>6 DEF Applied
  <2> QED
    BY <1>2, <2>1 DEF View
<1> QED
  BY <1>1, <1>3, <1>4, <1>5, <1>6

\* The views that a replay of c[from..to] goes through.
Retold(f, v, c, from, to) ==
    f = [n \in 0 .. to |-> IF n < from THEN v ELSE Applied(f[n - 1], c[n])]

\* A part of such a way, and two logs that do not differ there.
Retells(f, c, base, top) == \A n \in base + 1 .. top : f[n] = Applied(f[n - 1], c[n])
SameEvents(c, d, base, top) == \A n \in base + 1 .. top : c[n] = d[n]

\* Two replays of the same events from the same view go through the same views.
LEMMA SameRetelling ==
    ASSUME NEW f, NEW g, NEW c, NEW d, NEW base \in Nat, NEW top \in Nat, f[base] = g[base],
           Retells(f, c, base, top), Retells(g, d, base, top), SameEvents(c, d, base, top)
    PROVE  \A n \in base .. top : f[n] = g[n]
<1> DEFINE T == {k \in Nat : base + k <= top => f[base + k] = g[base + k]}
<1>1. 0 \in T
  OBVIOUS
<1>2. ASSUME NEW k \in Nat, k \in T PROVE k + 1 \in T
  <2>1. SUFFICES ASSUME base + (k + 1) <= top PROVE f[base + (k + 1)] = g[base + (k + 1)]
    OBVIOUS
  <2>2. base + (k + 1) \in base + 1 .. top /\ (base + (k + 1)) - 1 = base + k /\ base + k <= top
    BY <2>1
  <2>3. f[base + k] = g[base + k]
    BY <1>2, <2>2
  <2> DEFINE m == base + (k + 1)
  <2>4. m \in base + 1 .. top /\ f[m - 1] = g[m - 1]
    BY <2>2, <2>3
  <2> HIDE DEF m
  <2>5. f[m] = g[m]
    BY <2>4 DEF Retells, SameEvents
  <2> QED
    BY <2>5 DEF m
<1> HIDE DEF T
<1>3. \A k \in Nat : k \in T
  BY <1>1, <1>2, Induction
<1>4. ASSUME NEW n \in base .. top PROVE f[n] = g[n]
  <2>1. n - base \in Nat /\ base + (n - base) = n /\ n <= top
    OBVIOUS
  <2>2. n - base \in T
    BY <1>3, <2>1
  <2> QED
    BY <2>1, <2>2 DEF T
<1> QED
  BY <1>4

\* A step from view to view can be repeated.
LEMMA ViewsIterate ==
    ASSUME NEW v \in View, NEW step, Steps(step, View)
    PROVE  \E f \in [Nat -> View] : f[0] = v /\ \A n \in Nat : f[n + 1] = step[n][f[n]]
<1> DEFINE S == View
<1>1. v \in S /\ Steps(step, S)
  OBVIOUS
<1> HIDE DEF S
<1>2. \E f \in [Nat -> S] : f[0] = v /\ \A n \in Nat : f[n + 1] = step[n][f[n]]
  BY <1>1, IterationExists
<1> QED
  BY <1>2 DEF S

\* One event of a replay of c[from..to], and the way it takes.
Logged(c, from, to) == \A n \in from .. to : c[n] \in Chunk
Moved(x, c, from, to, n) == IF n \in from .. to THEN Applied(x, c[n]) ELSE x

LEMMA PathExists ==
    ASSUME NEW v \in View, NEW c, NEW from, NEW to, Logged(c, from, to)
    PROVE  \E w \in [Nat -> View] :
              w[0] = v /\ \A n \in Nat : w[n + 1] = Moved(w[n], c, from, to, n + 1)
<1> DEFINE step == [n \in Nat |-> [x \in View |-> Moved(x, c, from, to, n + 1)]]
<1>1. Steps(step, View)
  BY AppliedTyped DEF Steps, Moved, Logged
<1>2. PICK w \in [Nat -> View] : w[0] = v /\ \A n \in Nat : w[n + 1] = step[n][w[n]]
  <2> HIDE DEF step
  <2> QED
    BY <1>1, ViewsIterate
<1>3. \A n \in Nat : w[n + 1] = Moved(w[n], c, from, to, n + 1)
  BY <1>2
<1> QED
  BY <1>2, <1>3

\* A replay is defined, and it ends in a view.
ReplayedWell(v, c, from, to) ==
    \E f \in [0 .. to -> View] : Retold(f, v, c, from, to) /\ Replayed(v, c, from, to) = f[to]

LEMMA ReplayIsDefined ==
    ASSUME NEW v \in View, NEW c, NEW from \in Nat \ {0}, NEW to \in Nat, Logged(c, from, to)
    PROVE  ReplayedWell(v, c, from, to)
<1> DEFINE view == CHOOSE f : f = [n \in 0 .. to |-> IF n < from THEN v ELSE Applied(f[n - 1], c[n])]
<1>2. PICK w \in [Nat -> View] : w[0] = v /\ \A n \in Nat : w[n + 1] = Moved(w[n], c, from, to, n + 1)
  <2> HIDE DEF view
  <2> QED
    BY PathExists
<1>4. \A n \in Nat : w[n + 1] = IF n + 1 \in from .. to THEN Applied(w[n], c[n + 1]) ELSE w[n]
  BY <1>2 DEF Moved
<1> DEFINE T == {n \in Nat : n < from => w[n] = v}
<1>5. \A n \in Nat : n \in T
  <2> HIDE DEF view
  <2>1. 0 \in T
    BY <1>2
  <2>2. \A n \in Nat : n \in T => n + 1 \in T
    BY <1>4
  <2> HIDE DEF T
  <2> QED
    BY <2>1, <2>2, Induction
<1>6. \A n \in Nat : n < from => w[n] = v
  BY <1>5
<1> DEFINE g == [n \in 0 .. to |-> w[n]]
<1>7. g \in [0 .. to -> View]
  OBVIOUS
<1>8. g = [n \in 0 .. to |-> IF n < from THEN v ELSE Applied(g[n - 1], c[n])]
  <2> HIDE DEF view, T
  <2>1. ASSUME NEW n \in 0 .. to, ~ (n < from) PROVE w[n] = Applied(g[n - 1], c[n])
    <3>1. n - 1 \in Nat /\ n - 1 \in 0 .. to /\ (n - 1) + 1 = n /\ n \in from .. to
      BY <2>1
    <3> QED
      BY <3>1, <1>4
  <2> HIDE DEF g
  <2>2. \A n \in 0 .. to : g[n] = w[n]
    BY DEF g
  <2>3. \A n \in 0 .. to : g[n] = IF n < from THEN v ELSE Applied(g[n - 1], c[n])
    BY <2>1, <2>2, <1>6
  <2> QED
    BY <2>3, <1>7
<1> HIDE DEF T, g
<1>9. view = [n \in 0 .. to |-> IF n < from THEN v ELSE Applied(view[n - 1], c[n])]
  BY <1>8
<1>10. Replayed(v, c, from, to) = view[to]
  BY DEF Replayed
<1> HIDE DEF view
<1>11. \A n \in 0 .. to : view[n] = g[n]
  <2>1. view[0] = g[0]
    BY <1>8, <1>9
  <2>2. \A n \in 0 + 1 .. to : n < from => view[n] = g[n]
    BY <1>8, <1>9
  <2> DEFINE base == IF from - 1 < to THEN from - 1 ELSE to
  <2>3. base \in Nat /\ base <= to /\ base < from /\ to \in Nat
        /\ \A n \in base + 1 .. to : n \in 0 .. to /\ ~ (n < from)
    OBVIOUS
  <2> HIDE DEF base
  <2>4. view[base] = g[base]
    BY <2>3, <1>8, <1>9
  <2>5. Retells(view, c, base, to) /\ Retells(g, c, base, to) /\ SameEvents(c, c, base, to)
    BY <2>3, <1>8, <1>9 DEF Retells, SameEvents
  <2>6. \A n \in base .. to : view[n] = g[n]
    BY <2>3, <2>4, <2>5, SameRetelling
  <2> QED
    BY <2>1, <2>2, <2>3, <2>6
<1>12. view = g
  BY <1>7, <1>9, <1>11
<1>13. to \in 0 .. to
  OBVIOUS
<1> QED
  BY <1>7, <1>8, <1>10, <1>12, <1>13 DEF Retold, ReplayedWell

LEMMA ReplayedBy ==
    ASSUME NEW v \in View, NEW c \in Seq(Chunk), NEW from \in Nat \ {0}, NEW to \in 0 .. Len(c)
    PROVE  \E f \in [0 .. to -> View] : Retold(f, v, c, from, to) /\ Replayed(v, c, from, to) = f[to]
<1>1. Logged(c, from, to) /\ to \in Nat
  BY DEF Logged
<1>2. ReplayedWell(v, c, from, to)
  BY <1>1, ReplayIsDefined
<1> QED
  BY <1>2 DEF ReplayedWell

LEMMA ReplayedTyped ==
    ASSUME NEW v \in View, NEW c \in Seq(Chunk), NEW from \in Nat \ {0}, NEW to \in 0 .. Len(c)
    PROVE  Replayed(v, c, from, to) \in View
<1>1. PICK f \in [0 .. to -> View] : Retold(f, v, c, from, to) /\ Replayed(v, c, from, to) = f[to]
  BY ReplayedBy
<1>2. to \in 0 .. to
  OBVIOUS
<1> QED
  BY <1>1, <1>2

\* Replaying nothing changes nothing.
LEMMA ReplayedNothing ==
    ASSUME NEW v \in View, NEW c \in Seq(Chunk), NEW from \in Nat \ {0}, NEW to \in 0 .. Len(c), to < from
    PROVE  Replayed(v, c, from, to) = v
<1>1. PICK f \in [0 .. to -> View] : Retold(f, v, c, from, to) /\ Replayed(v, c, from, to) = f[to]
  BY ReplayedBy
<1> QED
  BY <1>1 DEF Retold

\* A replay of a longer log goes through the same views.
LEMMA ReplayedPrefix ==
    ASSUME NEW v \in View, NEW c \in Seq(Chunk), NEW e \in Chunk, NEW k \in 0 .. Len(c)
    PROVE  Replayed(v, Append(c, e), 1, k) = Replayed(v, c, 1, k)
<1> DEFINE d == Append(c, e)
<1>1. d \in Seq(Chunk) /\ k \in 0 .. Len(d) /\ \A n \in 1 .. k : d[n] = c[n]
  OBVIOUS
<1> HIDE DEF d
<1>2. PICK f \in [0 .. k -> View] : Retold(f, v, c, 1, k) /\ Replayed(v, c, 1, k) = f[k]
  BY ReplayedBy
<1>3. PICK g \in [0 .. k -> View] : Retold(g, v, d, 1, k) /\ Replayed(v, d, 1, k) = g[k]
  BY <1>1, ReplayedBy
<1>4. f[0] = g[0]
  BY <1>2, <1>3 DEF Retold
<1>5. Retells(f, c, 0, k) /\ Retells(g, d, 0, k) /\ SameEvents(c, d, 0, k)
  BY <1>1, <1>2, <1>3 DEF Retold, Retells, SameEvents
<1>6. \A n \in 0 .. k : f[n] = g[n]
  <2>1. 0 \in Nat /\ k \in Nat
    OBVIOUS
  <2> QED
    BY <1>4, <1>5, <2>1, SameRetelling
<1>7. k \in 0 .. k
  OBVIOUS
<1> QED
  BY <1>2, <1>3, <1>6, <1>7 DEF d

\* One more event is applied to what was replayed before it.
LEMMA ReplayedNext ==
    ASSUME NEW v \in View, NEW c \in Seq(Chunk), NEW e \in Chunk
    PROVE  Replayed(v, Append(c, e), 1, Len(c) + 1) = Applied(Replayed(v, c, 1, Len(c)), e)
<1> DEFINE d == Append(c, e)
           n == Len(c)
<1>1. d \in Seq(Chunk) /\ n \in Nat /\ n + 1 \in 0 .. Len(d) /\ d[n + 1] = e
      /\ \A i \in 1 .. n : d[i] = c[i]
  OBVIOUS
<1> HIDE DEF d
<1>2. PICK g \in [0 .. n + 1 -> View] :
         Retold(g, v, d, 1, n + 1) /\ Replayed(v, d, 1, n + 1) = g[n + 1]
  BY <1>1, ReplayedBy
<1>3. PICK f \in [0 .. n -> View] : Retold(f, v, c, 1, n) /\ Replayed(v, c, 1, n) = f[n]
  <2>1. n \in 0 .. Len(c) /\ 1 \in Nat \ {0}
    BY <1>1
  <2> HIDE DEF n
  <2> QED
    BY <2>1, ReplayedBy
<1> HIDE DEF n
<1>4. f[0] = g[0]
  BY <1>1, <1>2, <1>3 DEF Retold
<1>5. Retells(f, c, 0, n) /\ Retells(g, d, 0, n) /\ SameEvents(c, d, 0, n)
  BY <1>1, <1>2, <1>3 DEF Retold, Retells, SameEvents
<1>6. \A i \in 0 .. n : f[i] = g[i]
  BY <1>1, <1>4, <1>5, SameRetelling
<1>7. n \in 0 .. n /\ n + 1 \in 0 .. n + 1 /\ ~ (n + 1 < 1) /\ (n + 1) - 1 = n
  BY <1>1
<1>8. g[n + 1] = Applied(g[n], d[n + 1])
  BY <1>2, <1>7 DEF Retold
<1> QED
  BY <1>1, <1>2, <1>3, <1>6, <1>7, <1>8 DEF d, n

\* Who replays the rest of the log holds what one replay of the whole gives.
LEMMA ReplayedFurther ==
    ASSUME NEW v \in View, NEW c \in Seq(Chunk), NEW k \in 0 .. Len(c)
    PROVE  Replayed(Replayed(v, c, 1, k), c, k + 1, Len(c)) = Replayed(v, c, 1, Len(c))
<1> DEFINE n == Len(c)
           u == Replayed(v, c, 1, k)
<1>1. n \in Nat /\ n \in 0 .. Len(c) /\ k \in Nat /\ k <= n /\ k + 1 \in Nat \ {0}
  OBVIOUS
<1>2. PICK f \in [0 .. n -> View] : Retold(f, v, c, 1, n) /\ Replayed(v, c, 1, n) = f[n]
  BY <1>1, ReplayedBy
<1>3. PICK h \in [0 .. k -> View] : Retold(h, v, c, 1, k) /\ u = h[k]
  BY ReplayedBy
<1>4. u \in View
  BY <1>3, <1>1
<1> HIDE DEF n, u
<1>5. PICK g \in [0 .. n -> View] : Retold(g, u, c, k + 1, n) /\ Replayed(u, c, k + 1, n) = g[n]
  BY <1>1, <1>4, ReplayedBy
<1>6. f[k] = h[k]
  <2>1. f[0] = h[0]
    BY <1>1, <1>2, <1>3 DEF Retold
  <2>2. Retells(f, c, 0, k) /\ Retells(h, c, 0, k) /\ SameEvents(c, c, 0, k)
    BY <1>1, <1>2, <1>3 DEF Retold, Retells, SameEvents
  <2>3. 0 \in Nat /\ k \in 0 .. k
    BY <1>1
  <2>4. \A i \in 0 .. k : f[i] = h[i]
    BY <1>1, <2>1, <2>2, <2>3, SameRetelling
  <2> QED
    BY <2>3, <2>4
<1>7. g[k] = u
  BY <1>1, <1>5 DEF Retold
<1>8. Retells(f, c, k, n) /\ Retells(g, c, k, n) /\ SameEvents(c, c, k, n)
  BY <1>1, <1>2, <1>5 DEF Retold, Retells, SameEvents
<1>9. \A i \in k .. n : f[i] = g[i]
  BY <1>1, <1>3, <1>6, <1>7, <1>8, SameRetelling
<1>10. n \in k .. n
  BY <1>1
<1> QED
  BY <1>2, <1>5, <1>9, <1>10 DEF n, u

-----------------------------------------------------------------------------
(* The invariant.                                                          *)

Shown(p) == retained.view.part[p]

\* The snapshot is the log; a session is loaded after the log began.
LogIsKept ==
    /\ SnapshotIsTheLog
    /\ runSession.loaded => chunk # << >>

\* An end that was not silent is in the log before the status, or with it.
EndIsLogged ==
    /\ \A w \in Writers : reply[w].at = "closed" => ~ retained.view.running \/ turn.silent
    /\ ~Active /\ retained.view.running => turn.silent

\* What a browser that never left holds, up to its cursor.
ViewerFollows ==
    /\ viewer.terminal => ~Active
    /\ viewer.at = "done" => viewer.terminal
    /\ viewer.returns = 0 =>
          /\ viewer.at # "told" /\ viewer.cursor <= Len(chunk)
          /\ viewer.view = Replayed(Blank, chunk, 1, viewer.cursor)
          /\ viewer.terminal /\ viewer.at \in {"drained", "done"} /\ ~ viewer.missed /\ ~ turn.silent
                => ~ viewer.view.running

\* The part of an open stream is a row of its kind that the current model call
\* has made and not yet written; it has no deltas before it is there and shown.
Owns(k) ==
    modelStream[k] # 0 =>
       LET r == partRow[modelStream[k]] IN r.kind = k /\ r.n = 0 /\ r.call = turn.calls + 1
Counts(k) ==
    /\ modelStream.pending[k] <= modelStream.total[k]
    /\ modelStream[k] \in {0, modelStream.mirror} => modelStream.total[k] = 0
    /\ modelStream.at = "flushed" => modelStream.pending[k] = 0

\* The parts of a stream, which is open only while the budget lasts.
StreamApart ==
    /\ modelStream.at = "idle" => modelStream = NoStream
    /\ modelStream.at # "idle" => turn.driver = "host" /\ turn.calls < MaxCalls
    /\ modelStream.mirror \in {0, modelStream.text, modelStream.reasoning, modelStream.call}
    /\ modelStream.at = "flushed" => modelStream.mirror = 0
    /\ Owns("text") /\ Owns("reasoning") /\ Owns("call")
    /\ Counts("text") /\ Counts("reasoning")

\* The notices of a run with a model come when the budget is spent.
RepliesApart ==
    \A w \in Writers : Writing(w) =>
       reply[w].part # 0 /\ (turn.driver = "host" => turn.calls >= MaxCalls)

\* What the rows of model calls hold that have not ended.
RowsWait ==
    \A p \in PartIds :
       /\ partRow[p].call <= turn.calls + 1
       /\ partRow[p].kind = "reasoning" /\ partRow[p].call = turn.calls + 1 => partRow[p].n = 0

\* What the viewers should see of a part, given its row and its stream.
Due(p) ==
    IF p = modelStream.text THEN modelStream.total["text"] - modelStream.pending["text"]
    ELSE IF p = modelStream.reasoning THEN modelStream.total["reasoning"] - modelStream.pending["reasoning"]
    ELSE StoredParts[p]

\* A part whose writer was lost is torn before its writer is forgotten.
AllDue == \A p \in PartIds \ torn : Shown(p) \in {Missing, Due(p)}

\* The same of the parts that no reply is writing ...
Said(p) == \E w \in Writers : Saying(w) /\ reply[w].part = p
PartsAreDue == \A p \in PartIds \ torn : Said(p) \/ Shown(p) \in {Missing, Due(p)}

\* ... and what the only writer of a part without a row has shown of it.
Alone(w) == \A v \in Writers : Saying(v) /\ reply[v].part = reply[w].part => v = w
RepliesAreDue ==
    \A w \in Writers, p \in PartIds : Saying(w) /\ reply[w].part = p =>
       /\ Shown(p) # Missing
       /\ Alone(w) /\ p \notin torn /\ partRow[p].kind = "none" =>
             Shown(p) = IF reply[w].at = "set" THEN 0 ELSE 1

StreamRight == StreamApart /\ RowsWait /\ AllDue
RowsAreRight == StreamApart /\ RepliesApart /\ RowsWait /\ PartsAreDue /\ RepliesAreDue
TranscriptInv == TranscriptTypeOK /\ RowsAreRight /\ LogIsKept /\ EndIsLogged /\ ViewerFollows

-----------------------------------------------------------------------------
(* Types.                                                                  *)

\* The events that the handlers log, and what each does to a view.
LEMMA Events ==
    /\ Event("shell") \in Chunk /\ Event("end") \in Chunk
    /\ \A p \in PartIds, n \in Nat : Set(p, n) \in Chunk
    /\ \A gain \in [PartIds -> Nat] : AppendText(gain) \in Chunk
<1>1. 1 \in PartIds /\ NoGain \in [PartIds -> Nat]
  BY TranscriptAssumption DEF PartIds, NoGain
<1> QED
  BY <1>1 DEF Event, Set, AppendText, Chunk

LEMMA EventEffects ==
    ASSUME NEW v \in View
    PROVE  /\ Applied(v, Event("shell")) = [v EXCEPT !.shell = TRUE]
           /\ Applied(v, Event("end")) = [v EXCEPT !.running = FALSE]
           /\ \A p \in PartIds, n \in Nat : Applied(v, Set(p, n)) = [v EXCEPT !.part[p] = n]
           /\ \A gain \in [PartIds -> Nat] :
                 Applied(v, AppendText(gain)) = [v EXCEPT !.part = [p \in PartIds |-> v.part[p] + gain[p]]]
<1>1. /\ Event("shell").op = "shell" /\ Event("end").op = "end"
      /\ \A p \in PartIds, n \in Nat : Set(p, n).op = "set" /\ Set(p, n).part = p /\ Set(p, n).n = n
      /\ \A gain \in [PartIds -> Nat] : AppendText(gain).op = "append" /\ AppendText(gain).gain = gain
  BY DEF Event, Set, AppendText
<1>2. Applied(v, Event("shell")) = [v EXCEPT !.shell = TRUE]
  BY <1>1 DEF Applied
<1>3. Applied(v, Event("end")) = [v EXCEPT !.running = FALSE]
  BY <1>1 DEF Applied
<1>4. ASSUME NEW p \in PartIds, NEW n \in Nat
      PROVE  Applied(v, Set(p, n)) = [v EXCEPT !.part[p] = n]
  BY <1>1 DEF Applied
<1>5. ASSUME NEW gain \in [PartIds -> Nat]
      PROVE  Applied(v, AppendText(gain)) = [v EXCEPT !.part = [p \in PartIds |-> v.part[p] + gain[p]]]
  BY <1>1 DEF Applied
<1> QED
  BY <1>2, <1>3, <1>4, <1>5

\* What is waiting is a number of deltas for each part.
LEMMA WaitingTyped == TranscriptTypeOK => Waiting \in [PartIds -> Nat]
  BY DEF TranscriptTypeOK, Waiting, Stream

\* An appended event and the snapshot it is folded into.
LEMMA LogGrows ==
    ASSUME TranscriptTypeOK, NEW c \in Chunk, AppendChunk(c)
    PROVE  /\ chunk' = Append(chunk, c) /\ chunk' \in Seq(Chunk) /\ chunk' # << >>
           /\ Len(chunk') = Len(chunk) + 1 /\ Len(chunk) \in Nat
           /\ retained' \in RetainedRow
           /\ retained'.view = Applied(retained.view, c)
           /\ retained'.checkpoint = Len(chunk')
<1>1. chunk \in Seq(Chunk) /\ retained.view \in View
  BY DEF TranscriptTypeOK, RetainedRow
<1>2. chunk' = Append(chunk, c) /\ retained' = [view |-> Applied(retained.view, c), checkpoint |-> Len(chunk) + 1]
  BY DEF AppendChunk
<1>3. Applied(retained.view, c) \in View
  BY <1>1, AppliedTyped
<1>4. Append(chunk, c) \in Seq(Chunk) /\ Len(Append(chunk, c)) = Len(chunk) + 1 /\ Len(chunk) \in Nat
  BY <1>1
<1>5. Append(chunk, c) # << >>
  <2>1. Len(<< >>) = 0
    OBVIOUS
  <2> QED
    BY <1>4, <2>1
<1> QED
  BY <1>2, <1>3, <1>4, <1>5 DEF RetainedRow

LEMMA BlankTyped == Blank \in View /\ NoSession \in RunSession
  BY DEF Blank, View, Amount, NoSession, RunSession

LEMMA StoredTyped == TranscriptTypeOK => StoredParts \in [PartIds -> Amount]
  BY DEF TranscriptTypeOK, StoredParts, Amount, PartRow

LEMMA FreePart ==
    ASSUME FreeIdx # {}
    PROVE  NextPartIdx \in PartIds /\ partRow[NextPartIdx].kind = "none"
<1>1. FreeIdx \in SUBSET Nat
  BY DEF FreeIdx, PartIds
<1>2. \E p \in FreeIdx : \A q \in FreeIdx : p <= q
  BY <1>1, LeastNumber
<1>3. NextPartIdx \in FreeIdx
  BY <1>2 DEF NextPartIdx
<1> QED
  BY <1>3 DEF FreeIdx

LEMMA NothingTyped == NoStream \in Stream /\ NoReply \in Reply /\ Over \in Reply
  BY TranscriptAssumption DEF NoStream, NoReply, Over, Stream, Reply, StreamPart

LEMMA TypesAtStart == TranscriptInit => TranscriptTypeOK
<1> SUFFICES ASSUME TranscriptInit PROVE TranscriptTypeOK
  OBVIOUS
<1>1. turn \in Turn
  BY TranscriptAssumption DEF TranscriptInit, Turn
<1>2. partRow \in [PartIds -> PartRow]
  BY DEF TranscriptInit, PartRow
<1>3. chunk \in Seq(Chunk) /\ retained \in RetainedRow
  BY BlankTyped DEF TranscriptInit, RetainedRow
<1>4. viewer \in Viewer
  BY BlankTyped, TranscriptAssumption DEF TranscriptInit, Viewer
<1>5. reply \in [Writers -> Reply]
  BY NothingTyped DEF TranscriptInit
<1> QED
  BY <1>1, <1>2, <1>3, <1>4, <1>5, BlankTyped, NothingTyped DEF TranscriptInit, TranscriptTypeOK

\* Each group of steps keeps the types of what it writes.
LEMMA RunStepTyped ==
    ASSUME TranscriptTypeOK, BeginRun \/ FinishRun \/ LoadNoSession \/ FinishStatusOnly \/ BeginFails
                             \/ WorkerStarts \/ Detach \/ RefreshDetachedApproval
    PROVE  TranscriptTypeOK'
<1>1. turn' \in Turn
  BY DEF TranscriptTypeOK, Turn, BeginRun, FinishRun, LoadNoSession, FinishStatusOnly, BeginFails,
         WorkerStarts, Detach, EndSilently, RefreshDetachedApproval
<1>2. chunk' \in Seq(Chunk) /\ retained' \in RetainedRow
  <2>1. AppendChunk(Event("shell")) \/ AppendChunk(Event("end")) \/ UNCHANGED <<chunk, retained>>
    BY DEF BeginRun, FinishRun, LoadNoSession, FinishStatusOnly, BeginFails, WorkerStarts, Detach,
           EndSilently, RefreshDetachedApproval
  <2> QED
    BY <2>1, Events, LogGrows DEF TranscriptTypeOK
<1>3. UNCHANGED <<partRow, modelStream, reply, runSession, viewer, torn>>
  BY DEF BeginRun, FinishRun, LoadNoSession, FinishStatusOnly, BeginFails, WorkerStarts, Detach,
         EndSilently, RefreshDetachedApproval
<1> QED
  BY <1>1, <1>2, <1>3 DEF TranscriptTypeOK

LEMMA PartStepTyped ==
    ASSUME TranscriptTypeOK, NEW kind \in {"text", "reasoning", "call"}, CreatePart(kind)
    PROVE  TranscriptTypeOK'
<1>1. PICK p \in PartIds :
        /\ IF kind = "reasoning" /\ BegunBefore # {}
           THEN p \in BegunBefore /\ UNCHANGED partRow
           ELSE /\ FreeIdx # {} /\ p = NextPartIdx
                /\ partRow' = [partRow EXCEPT ![p] = [kind |-> kind, n |-> 0, call |-> turn.calls + 1, twice |-> FALSE]]
        /\ modelStream' = [modelStream EXCEPT ![kind] = p, !.mirror = p]
  BY DEF CreatePart
<1>2. partRow' \in [PartIds -> PartRow]
  <2>1. turn.calls + 1 \in Nat
    BY DEF TranscriptTypeOK, Turn
  <2>2. [kind |-> kind, n |-> 0, call |-> turn.calls + 1, twice |-> FALSE] \in PartRow
    BY <2>1 DEF PartRow
  <2> QED
    BY <1>1, <2>2 DEF TranscriptTypeOK
<1>3. p \in StreamPart
  BY DEF StreamPart, PartIds
<1>4. modelStream' \in Stream
  <2>1. CASE kind = "text"
    BY <1>1, <1>3, <2>1 DEF Stream, TranscriptTypeOK
  <2>2. CASE kind = "reasoning"
    BY <1>1, <1>3, <2>2 DEF Stream, TranscriptTypeOK
  <2>3. CASE kind = "call"
    BY <1>1, <1>3, <2>3 DEF Stream, TranscriptTypeOK
  <2> QED
    BY <2>1, <2>2, <2>3
<1> QED
  BY <1>2, <1>4 DEF CreatePart, TranscriptTypeOK

LEMMA OpenStepTyped ==
    ASSUME TranscriptTypeOK, OpenStream \/ MirrorPart \/ HangUp \/ Flush
    PROVE  TranscriptTypeOK'
<1>1. CASE OpenStream
  <2>1. [NoStream EXCEPT !.at = "open"] \in Stream
    BY NothingTyped DEF Stream
  <2>2. turn' \in Turn
    <3>1. turn \in Turn /\ turn.streams + 1 \in 0 .. MaxStreams /\ turn' = [turn EXCEPT !.streams = @ + 1]
      BY <1>1, TranscriptAssumption DEF OpenStream, TranscriptTypeOK, Turn
    <3> QED
      BY <3>1 DEF Turn
  <2> QED
    BY <1>1, <2>1, <2>2 DEF OpenStream, TranscriptTypeOK
<1>2. CASE MirrorPart
  <2>1. modelStream.mirror \in PartIds /\ partRow[modelStream.mirror].n \in Nat
    <3>1. modelStream.mirror \in StreamPart /\ modelStream.mirror # 0
      BY <1>2 DEF MirrorPart, TranscriptTypeOK, Stream
    <3>2. modelStream.mirror \in PartIds
      BY <3>1, TranscriptAssumption DEF StreamPart, PartIds
    <3> QED
      BY <3>2 DEF TranscriptTypeOK, PartRow
  <2>4. modelStream' \in Stream
    <3>1. 0 \in StreamPart
      BY TranscriptAssumption DEF StreamPart
    <3> QED
      BY <1>2, <3>1 DEF MirrorPart, TranscriptTypeOK, Stream
  <2>2. UNCHANGED <<chunk, retained>> \/ AppendChunk(Set(modelStream.mirror, partRow[modelStream.mirror].n))
    BY <1>2 DEF MirrorPart, UnchangedLog
  <2>3. chunk' \in Seq(Chunk) /\ retained' \in RetainedRow
    BY <2>1, <2>2, Events, LogGrows DEF TranscriptTypeOK
  <2> QED
    BY <1>2, <2>1, <2>3, <2>4 DEF MirrorPart, TranscriptTypeOK
<1>3. CASE HangUp
  BY <1>3 DEF HangUp, TranscriptTypeOK, Stream
<1>4. CASE Flush
  <2>1. Flushed \in Stream
    BY NothingTyped DEF Flushed, TranscriptTypeOK, Stream
  <2>2. chunk' \in Seq(Chunk) /\ retained' \in RetainedRow
    BY <1>4, Events, WaitingTyped, LogGrows DEF Flush
  <2> QED
    BY <1>4, <2>1, <2>2 DEF Flush, TranscriptTypeOK
<1> QED
  BY <1>1, <1>2, <1>3, <1>4

LEMMA DeltaStepTyped ==
    ASSUME TranscriptTypeOK, NEW kind \in {"text", "reasoning"}, Delta(kind)
    PROVE  TranscriptTypeOK'
<1>1. modelStream.total[kind] + 1 \in Nat /\ modelStream.pending[kind] + 1 \in Nat
  BY DEF TranscriptTypeOK, Stream
<1>2. modelStream' \in Stream
  BY <1>1 DEF Delta, TranscriptTypeOK, Stream
<1> QED
  BY <1>2 DEF Delta, TranscriptTypeOK

LEMMA LostTyped ==
    ASSUME TranscriptTypeOK, NEW ps, ps \subseteq StreamPart \ {0}
    PROVE  ShownOnly(ps) \subseteq PartIds
<1>1. StreamPart \ {0} \subseteq PartIds
  BY TranscriptAssumption DEF StreamPart, PartIds
<1>2. ShownOnly(ps) \subseteq ps
  BY DEF ShownOnly
<1> QED
  BY <1>1, <1>2

LEMMA FinishStepTyped ==
    ASSUME TranscriptTypeOK, FinishFlush \/ FinishRows
    PROVE  TranscriptTypeOK'
<1>1. CASE FinishFlush
  <2>1. StreamTexts \subseteq StreamPart \ {0}
    BY DEF StreamTexts, TranscriptTypeOK, Stream
  <2>2. torn' \in SUBSET PartIds
    BY <1>1, <2>1, LostTyped DEF FinishFlush, TranscriptTypeOK
  <2>3. UNCHANGED <<chunk, retained>> \/ AppendChunk(AppendText(Waiting))
    BY <1>1 DEF FinishFlush, UnchangedLog
  <2>4. chunk' \in Seq(Chunk) /\ retained' \in RetainedRow
    BY <2>3, WaitingTyped, Events, LogGrows DEF TranscriptTypeOK
  <2>5. modelStream' \in Stream
    <3>1. \A failed \in BOOLEAN : [Flushed EXCEPT !.at = "flushed", !.failed = failed] \in Stream
      BY NothingTyped DEF Flushed, TranscriptTypeOK, Stream
    <3>2. modelStream.cut \in BOOLEAN
      BY DEF TranscriptTypeOK, Stream
    <3> QED
      BY <1>1, <3>1, <3>2, NothingTyped DEF FinishFlush
  <2> QED
    BY <1>1, <2>2, <2>4, <2>5 DEF FinishFlush, TranscriptTypeOK
<1>2. CASE FinishRows
  <2> DEFINE n == IF modelStream.failed THEN 0 ELSE 1
  <2>1. modelStream.call # 0 => modelStream.call \in PartIds
    BY DEF StreamPart, PartIds, TranscriptTypeOK, Stream
  <2>2. UNCHANGED <<chunk, retained>> \/ (modelStream.call # 0 /\ AppendChunk(Set(modelStream.call, n)))
    BY <1>2 DEF FinishRows, UnchangedLog
  <2>3. chunk' \in Seq(Chunk) /\ retained' \in RetainedRow
    BY <2>1, <2>2, Events, LogGrows DEF TranscriptTypeOK
  <2>4. FinalText("text") \in Nat /\ FinalText("reasoning") \in Nat /\ n \in Nat
    BY DEF FinalText, TranscriptTypeOK, Stream
  <2>5. partRow' \in [PartIds -> PartRow]
    <3>1. \A p \in PartIds, i \in Nat : [partRow[p] EXCEPT !.n = i] \in PartRow
      BY DEF TranscriptTypeOK, PartRow
    <3>2. \A p \in PartIds : partRow[p] \in PartRow
      BY DEF TranscriptTypeOK
    <3> HIDE DEF n
    <3>3. partRow' = [p \in PartIds |->
              IF p = modelStream.text THEN [partRow[p] EXCEPT !.n = FinalText("text")]
              ELSE IF p = modelStream.reasoning THEN [partRow[p] EXCEPT !.n = FinalText("reasoning")]
              ELSE IF p = modelStream.call THEN [partRow[p] EXCEPT !.n = n] ELSE partRow[p]]
      BY <1>2 DEF FinishRows, n
    <3> QED
      BY <2>4, <3>1, <3>2, <3>3
  <2>6. turn' \in Turn
    BY <1>2 DEF FinishRows, TranscriptTypeOK, Turn
  <2> QED
    BY <1>2, <2>3, <2>5, <2>6, NothingTyped DEF FinishRows, TranscriptTypeOK
<1> QED
  BY <1>1, <1>2

LEMMA ReplyStepTyped ==
    ASSUME TranscriptTypeOK, NEW w \in Writers, Writing(w) => reply[w].part # 0,
           \/ BeginReply(w) \/ AddTextPart(w) \/ AppendReply(w) \/ PersistReply(w)
           \/ CloseReply(w) \/ FailRun(w) \/ SetRunStatus(w) \/ ReplyCut(w)
    PROVE  TranscriptTypeOK'
<1>0. reply \in [Writers -> Reply] /\ reply[w] \in Reply
  BY DEF TranscriptTypeOK
<1>p. reply[w].at \notin {"idle", "over"} => reply[w].part \in PartIds
  BY <1>0, TranscriptAssumption DEF Reply, StreamPart, PartIds, Writing
<1>a. \A a \in {"loaded", "set", "said", "stored", "closed", "over"} : [reply[w] EXCEPT !.at = a] \in Reply
  BY <1>0 DEF Reply
<1>1. CASE BeginReply(w)
  <2>1. NextPartIdx \in StreamPart
    BY <1>1, FreePart DEF BeginReply, StreamPart, PartIds
  <2>2. [at |-> "loaded", part |-> NextPartIdx] \in Reply
    BY <2>1 DEF Reply
  <2>3. reply' \in [Writers -> Reply]
    BY <1>0, <1>1, <2>2 DEF BeginReply
  <2> QED
    BY <1>1, <2>3 DEF BeginReply, TranscriptTypeOK
<1>2. CASE AddTextPart(w)
  <2>1. chunk' \in Seq(Chunk) /\ retained' \in RetainedRow
    BY <1>2, <1>p, Events, LogGrows DEF AddTextPart
  <2>2. reply' \in [Writers -> Reply]
    BY <1>0, <1>2, <1>a DEF AddTextPart
  <2> QED
    BY <1>2, <2>1, <2>2 DEF AddTextPart, TranscriptTypeOK
<1>3. CASE AppendReply(w)
  <2>1. [NoGain EXCEPT ![reply[w].part] = 1] \in [PartIds -> Nat]
    BY DEF NoGain
  <2>2. chunk' \in Seq(Chunk) /\ retained' \in RetainedRow
    BY <1>3, <2>1, Events, LogGrows DEF AppendReply
  <2>3. reply' \in [Writers -> Reply]
    BY <1>0, <1>3, <1>a DEF AppendReply
  <2> QED
    BY <1>3, <2>2, <2>3 DEF AppendReply, TranscriptTypeOK
<1>4. CASE PersistReply(w)
  <2>1. partRow' \in [PartIds -> PartRow]
    BY <1>4 DEF PersistReply, Notice, PartRow, TranscriptTypeOK
  <2>2. reply' \in [Writers -> Reply]
    BY <1>0, <1>4, <1>a, NothingTyped DEF PersistReply
  <2>3. torn' \in SUBSET PartIds
    BY <1>4, <1>p DEF PersistReply, TranscriptTypeOK
  <2> QED
    BY <1>4, <2>1, <2>2, <2>3 DEF PersistReply, TranscriptTypeOK
<1>5. SayTheEnd => turn' \in Turn /\ chunk' \in Seq(Chunk) /\ retained' \in RetainedRow
  BY Events, LogGrows DEF SayTheEnd, UnchangedLog, TranscriptTypeOK, Turn
<1>6. CASE CloseReply(w)
  <2>1. reply' \in [Writers -> Reply]
    BY <1>0, <1>6, <1>a DEF CloseReply
  <2> QED
    BY <1>5, <1>6, <2>1 DEF CloseReply, TranscriptTypeOK
<1>7. reply[w].at \notin {"idle", "over"} => ShownOnly({reply[w].part}) \subseteq PartIds
  BY <1>p DEF ShownOnly
<1>8. CASE FailRun(w)
  <2>1. reply' \in [Writers -> Reply]
    BY <1>0, <1>8, <1>a DEF FailRun
  <2>2. torn' \in SUBSET PartIds
    BY <1>7, <1>8 DEF FailRun, Saying, TranscriptTypeOK
  <2> QED
    BY <1>5, <1>8, <2>1, <2>2 DEF FailRun, TranscriptTypeOK
<1>9. CASE SetRunStatus(w)
  <2>1. turn' \in Turn
    BY <1>9 DEF SetRunStatus, Turn, TranscriptTypeOK
  <2>2. reply' \in [Writers -> Reply]
    BY <1>0, <1>9, NothingTyped DEF SetRunStatus
  <2> QED
    BY <1>9, <2>1, <2>2 DEF SetRunStatus, TranscriptTypeOK
<1>10. CASE ReplyCut(w)
  <2>1. reply' \in [Writers -> Reply]
    BY <1>0, <1>10, NothingTyped DEF ReplyCut
  <2>2. torn' \in SUBSET PartIds
    BY <1>7, <1>10 DEF ReplyCut, Writing, TranscriptTypeOK
  <2> QED
    BY <1>10, <2>1, <2>2 DEF ReplyCut, TranscriptTypeOK
<1> QED
  BY <1>1, <1>2, <1>3, <1>4, <1>6, <1>8, <1>9, <1>10

LEMMA ViewerStepTyped ==
    ASSUME TranscriptTypeOK, ViewerNext
    PROVE  TranscriptTypeOK'
<1>1. viewer' \in Viewer
  <2>1. CASE DrainChunks
    <3>1. chunk \in Seq(Chunk) /\ viewer.view \in View /\ viewer.cursor + 1 \in Nat \ {0} /\ Len(chunk) \in 0 .. Len(chunk)
          /\ Len(chunk) \in Nat
      BY DEF TranscriptTypeOK, Viewer
    <3>2. Replayed(viewer.view, chunk, viewer.cursor + 1, Len(chunk)) \in View
      BY <3>1, ReplayedTyped
    <3> QED
      BY <2>1, <3>1, <3>2 DEF DrainChunks, TranscriptTypeOK, Viewer
  <2>2. CASE EndOrPoll
    BY <2>2 DEF EndOrPoll, Terminal, Active, TranscriptTypeOK, Viewer
  <2>3. CASE Leave
    BY <2>3 DEF Leave, TranscriptTypeOK, Viewer
  <2>4. CASE ResumeState
    <3>1. viewer.returns + 1 \in 0 .. MaxReturns /\ retained.view \in View
      BY <2>4, TranscriptAssumption DEF ResumeState, TranscriptTypeOK, Viewer, RetainedRow
    <3> QED
      BY <2>4, <3>1 DEF ResumeState, TranscriptTypeOK, Viewer
  <2>5. CASE Resume
    BY <2>5 DEF Resume, Active, TranscriptTypeOK, Viewer, RetainedRow
  <2>6. CASE DrainFails \/ StreamExpires
    BY <2>6 DEF DrainFails, StreamExpires, TranscriptTypeOK, Viewer
  <2> QED
    BY <2>1, <2>2, <2>3, <2>4, <2>5, <2>6 DEF ViewerNext
<1>2. UNCHANGED <<turn, partRow, chunk, retained, modelStream, reply, runSession, torn>>
  BY DEF ViewerNext, DrainChunks, DrainFails, EndOrPoll, StreamExpires, Leave, ResumeState, Resume
<1> QED
  BY <1>1, <1>2 DEF TranscriptTypeOK

LEMMA SessionStepTyped ==
    ASSUME TranscriptTypeOK, SessionNext
    PROVE  TranscriptTypeOK'
<1>1. CASE LoadSession
  <2>1. [retained.view EXCEPT !.part = StoredParts] \in View
    BY StoredTyped DEF TranscriptTypeOK, RetainedRow, View
  <2>2. runSession' \in RunSession
    BY <1>1, <2>1 DEF LoadSession, RunSession, TranscriptTypeOK
  <2> QED
    BY <1>1, <2>2 DEF LoadSession, TranscriptTypeOK
<1>2. CASE SaveSession
  <2>1. retained' \in RetainedRow
    BY <1>2 DEF SaveSession, RetainedRow, RunSession, TranscriptTypeOK
  <2> QED
    BY <1>2, <2>1, BlankTyped DEF SaveSession, TranscriptTypeOK
<1> QED
  BY <1>1, <1>2 DEF SessionNext

LEMMA ToolStepTyped ==
    ASSUME TranscriptTypeOK, NEW p \in PartIds, RecordToolResult(p)
    PROVE  TranscriptTypeOK'
<1>1. chunk' \in Seq(Chunk) /\ retained' \in RetainedRow
  BY Events, LogGrows DEF RecordToolResult
<1>2. partRow' \in [PartIds -> PartRow]
  BY DEF RecordToolResult, TranscriptTypeOK, PartRow
<1> QED
  BY <1>1, <1>2 DEF RecordToolResult, TranscriptTypeOK

LEMMA ConflictTyped ==
    ASSUME TranscriptTypeOK, RecordConflict
    PROVE  TranscriptTypeOK'
<1>1. NextPartIdx \in PartIds
  BY FreePart DEF RecordConflict
<1>2. chunk' \in Seq(Chunk) /\ retained' \in RetainedRow
  BY <1>1, Events, LogGrows DEF RecordConflict
<1>3. partRow' \in [PartIds -> PartRow]
  BY DEF RecordConflict, Notice, TranscriptTypeOK, PartRow
<1> QED
  BY <1>2, <1>3 DEF RecordConflict, TranscriptTypeOK

LEMMA DeathTyped ==
    ASSUME TranscriptTypeOK, RepliesApart, ServerDies
    PROVE  TranscriptTypeOK'
<1>1. StreamTexts \cup {reply[w].part : w \in {v \in Writers : Saying(v)}} \subseteq StreamPart \ {0}
  BY DEF StreamTexts, RepliesApart, Saying, Writing, TranscriptTypeOK, Stream, Reply
<1>2. torn' \in SUBSET PartIds
  BY <1>1, LostTyped DEF ServerDies, TranscriptTypeOK
<1>3. turn' \in Turn
  BY TranscriptAssumption DEF ServerDies, TranscriptTypeOK, Turn
<1>4. viewer' \in Viewer
  BY DEF ServerDies, TranscriptTypeOK, Viewer
<1>5. reply' \in [Writers -> Reply]
  BY NothingTyped DEF ServerDies, TranscriptTypeOK
<1> QED
  BY <1>2, <1>3, <1>4, <1>5, NothingTyped, BlankTyped DEF ServerDies, TranscriptTypeOK

LEMMA TypeKept ==
    ASSUME TranscriptTypeOK, RepliesApart, TranscriptNext
    PROVE  TranscriptTypeOK'
  BY RunStepTyped, PartStepTyped, OpenStepTyped, DeltaStepTyped, FinishStepTyped, ReplyStepTyped,
     ViewerStepTyped, SessionStepTyped, ToolStepTyped, ConflictTyped, DeathTyped
     DEF TranscriptNext, WriterNext, ToolCallDelta, RepliesApart

-----------------------------------------------------------------------------
(* The log, its end and the browser.                                       *)

\* Only the event of the end changes whether the run is shown as running.
LEMMA RunningStays ==
    ASSUME NEW v \in View, NEW c \in Chunk, c.op # "end"
    PROVE  Applied(v, c).running = v.running
<1>1. c.op \in {"shell", "set", "append"}
  BY DEF Chunk
<1>2. CASE c.op = "shell"
  BY <1>2 DEF Applied, View
<1>3. CASE c.op = "set"
  BY <1>3 DEF Applied, View
<1>4. CASE c.op = "append"
  BY <1>4 DEF Applied, View
<1> QED
  BY <1>1, <1>2, <1>3, <1>4

LogsEnd == AppendChunk(Event("end"))
LogsEvent == \E c \in Chunk : AppendChunk(c) /\ c.op # "end"

\* The steps of the writer of a reply.
ReplyStep(w) ==
    \/ BeginReply(w) \/ AddTextPart(w) \/ AppendReply(w) \/ PersistReply(w)
    \/ CloseReply(w) \/ FailRun(w) \/ SetRunStatus(w) \/ ReplyCut(w)

\* What a step may do to the log.
LEMMA LogSteps ==
    ASSUME TranscriptTypeOK, LogIsKept, RepliesApart, TranscriptNext
    PROVE  UNCHANGED <<chunk, retained>> \/ LogsEvent \/ LogsEnd
<1>1. /\ Event("shell").op # "end"
      /\ \A p \in PartIds, n \in Nat : Set(p, n).op # "end"
      /\ \A gain \in [PartIds -> Nat] : AppendText(gain).op # "end"
  BY DEF Event, Set, AppendText
<1>2. CASE BeginRun
  BY <1>1, <1>2, Events DEF BeginRun, LogsEvent
<1>3. CASE FinishRun \/ RefreshDetachedApproval
  BY <1>3 DEF FinishRun, RefreshDetachedApproval, LogsEnd
<1>4. CASE LoadNoSession \/ FinishStatusOnly \/ BeginFails \/ WorkerStarts \/ Detach \/ OpenStream \/ HangUp
           \/ ServerDies \/ ViewerNext
  BY <1>4 DEF LoadNoSession, FinishStatusOnly, BeginFails, WorkerStarts, Detach, EndSilently, OpenStream,
              HangUp, ServerDies, ViewerNext, DrainChunks, DrainFails, EndOrPoll, StreamExpires, Leave,
              ResumeState, Resume
<1>5. CASE MirrorPart
  <2>1. modelStream.mirror \in PartIds
    <3>1. modelStream.mirror \in StreamPart /\ modelStream.mirror # 0
      BY <1>5 DEF MirrorPart, TranscriptTypeOK, Stream
    <3> QED
      BY <3>1, TranscriptAssumption DEF StreamPart, PartIds
  <2>2. partRow[modelStream.mirror].n \in Nat
    BY <2>1 DEF TranscriptTypeOK, PartRow
  <2> QED
    BY <1>1, <1>5, <2>1, <2>2, Events DEF MirrorPart, LogsEvent, UnchangedLog
<1>6. CASE Flush \/ FinishFlush
  <2>1. UNCHANGED <<chunk, retained>> \/ AppendChunk(AppendText(Waiting))
    BY <1>6 DEF Flush, FinishFlush, UnchangedLog
  <2> QED
    BY <1>1, <2>1, WaitingTyped, Events DEF LogsEvent
<1>7. CASE FinishRows
  <2> DEFINE n == IF modelStream.failed THEN 0 ELSE 1
  <2>1. modelStream.call # 0 => modelStream.call \in PartIds
    BY TranscriptAssumption DEF StreamPart, PartIds, TranscriptTypeOK, Stream
  <2>2. UNCHANGED <<chunk, retained>> \/ (modelStream.call # 0 /\ AppendChunk(Set(modelStream.call, n)))
    BY <1>7 DEF FinishRows, UnchangedLog
  <2> QED
    BY <1>1, <2>1, <2>2, Events DEF LogsEvent
<1>8. CASE \E kind \in {"text", "reasoning", "call"} : CreatePart(kind) \/ (kind # "call" /\ Delta(kind))
  BY <1>8 DEF CreatePart, Delta
<1>9. ASSUME NEW p \in PartIds, RecordToolResult(p) PROVE LogsEvent
  BY <1>1, <1>9, Events DEF RecordToolResult, LogsEvent
<1>10. CASE RecordConflict
  BY <1>1, <1>10, FreePart, Events DEF RecordConflict, LogsEvent
<1>11. ASSUME NEW w \in Writers, ReplyStep(w) PROVE UNCHANGED <<chunk, retained>> \/ LogsEvent \/ LogsEnd
  <2>1. CASE AddTextPart(w)
    <3>1. reply[w].part \in PartIds
      <4>1. reply[w] \in Reply /\ reply[w].part # 0
        BY <2>1 DEF AddTextPart, RepliesApart, Writing, TranscriptTypeOK
      <4> QED
        BY <4>1, TranscriptAssumption DEF Reply, StreamPart, PartIds
    <3> QED
      BY <1>1, <2>1, <3>1, Events DEF AddTextPart, LogsEvent
  <2>2. CASE AppendReply(w)
    <3>1. [NoGain EXCEPT ![reply[w].part] = 1] \in [PartIds -> Nat]
      BY DEF NoGain
    <3> QED
      BY <1>1, <2>2, <3>1, Events DEF AppendReply, LogsEvent
  <2>3. CASE CloseReply(w) \/ FailRun(w)
    BY <2>3 DEF CloseReply, FailRun, SayTheEnd, LogsEnd, UnchangedLog
  <2>4. CASE BeginReply(w) \/ PersistReply(w) \/ SetRunStatus(w) \/ ReplyCut(w)
    BY <2>4 DEF BeginReply, PersistReply, SetRunStatus, ReplyCut
  <2> QED
    BY <1>11, <2>1, <2>2, <2>3, <2>4 DEF ReplyStep
<1>12. CASE SessionNext
  BY <1>12 DEF SessionNext, LoadSession, SaveSession, MaySave, LogIsKept
<1> QED
  BY <1>2, <1>3, <1>4, <1>5, <1>6, <1>7, <1>8, <1>9, <1>10, <1>11, <1>12
     DEF TranscriptNext, WriterNext, ToolCallDelta, ReplyStep

\* What a step of the log keeps.
LEMMA LogAfter ==
    ASSUME TranscriptTypeOK, SnapshotIsTheLog,
           UNCHANGED <<chunk, retained>> \/ LogsEvent \/ LogsEnd
    PROVE  /\ SnapshotIsTheLog'
           /\ chunk # << >> => chunk' # << >>
           /\ Len(chunk) \in Nat /\ Len(chunk) <= Len(chunk')
           /\ \A k \in 0 .. Len(chunk) : Replayed(Blank, chunk', 1, k) = Replayed(Blank, chunk, 1, k)
           /\ ~ retained.view.running => ~ retained'.view.running
           /\ ~ LogsEnd => retained'.view.running = retained.view.running
           /\ LogsEnd => ~ retained'.view.running
<1>0. chunk \in Seq(Chunk) /\ retained.view \in View /\ Len(chunk) \in Nat
  BY DEF TranscriptTypeOK, RetainedRow
<1>1. CASE UNCHANGED <<chunk, retained>> /\ ~ LogsEnd
  BY <1>0, <1>1 DEF SnapshotIsTheLog
<1>2. ASSUME NEW c \in Chunk, AppendChunk(c)
      PROVE  /\ SnapshotIsTheLog' /\ chunk' # << >> /\ Len(chunk') = Len(chunk) + 1
             /\ \A k \in 0 .. Len(chunk) : Replayed(Blank, chunk', 1, k) = Replayed(Blank, chunk, 1, k)
             /\ retained'.view = Applied(retained.view, c)
  <2>1. /\ chunk' = Append(chunk, c) /\ chunk' # << >> /\ Len(chunk') = Len(chunk) + 1
        /\ retained'.view = Applied(retained.view, c) /\ retained'.checkpoint = Len(chunk')
    BY <1>2, LogGrows
  <2>2. Replayed(Blank, Append(chunk, c), 1, Len(chunk) + 1) = Applied(Replayed(Blank, chunk, 1, Len(chunk)), c)
    BY <1>0, BlankTyped, ReplayedNext
  <2>3. SnapshotIsTheLog'
    BY <2>1, <2>2 DEF SnapshotIsTheLog
  <2>4. \A k \in 0 .. Len(chunk) : Replayed(Blank, Append(chunk, c), 1, k) = Replayed(Blank, chunk, 1, k)
    BY <1>0, BlankTyped, ReplayedPrefix
  <2> QED
    BY <2>1, <2>3, <2>4
<1>3. CASE LogsEnd
  <2>1. AppendChunk(Event("end")) /\ Event("end") \in Chunk
    BY <1>3, Events DEF LogsEnd
  <2>2. retained'.view = [retained.view EXCEPT !.running = FALSE]
    BY <1>0, <1>2, <2>1, EventEffects
  <2>3. ~ retained'.view.running
    BY <1>0, <2>2 DEF View
  <2> QED
    BY <1>0, <1>2, <1>3, <2>1, <2>3
<1>4. CASE LogsEvent /\ ~ LogsEnd
  <2>1. PICK c \in Chunk : AppendChunk(c) /\ c.op # "end"
    BY <1>4 DEF LogsEvent
  <2>2. retained'.view.running = retained.view.running
    BY <1>0, <1>2, <2>1, RunningStays
  <2> QED
    BY <1>0, <1>2, <1>4, <2>1, <2>2
<1> QED
  BY <1>1, <1>3, <1>4

\* What a step may do to the status of the run.
LEMMA StatusSteps ==
    ASSUME TranscriptTypeOK, EndIsLogged, TranscriptNext
    PROVE  /\ turn'.driver = turn.driver
           /\ ~ Active => ~ Active'
           /\ turn.silent => turn'.silent
           /\ Active /\ ~ Active' =>
                 LogsEnd \/ turn'.silent \/ (\E w \in Writers : reply[w].at = "closed")
           /\ \A w \in Writers : reply'[w].at = "closed" => reply[w].at = "closed" \/ LogsEnd \/ turn'.silent
<1> USE DEF TranscriptTypeOK, Turn, Active
<1>1. CASE FinishRun
  BY <1>1 DEF FinishRun, LogsEnd
<1>2. CASE LoadNoSession \/ FinishStatusOnly \/ BeginFails \/ WorkerStarts \/ Detach
  BY <1>2 DEF LoadNoSession, FinishStatusOnly, BeginFails, WorkerStarts, Detach, EndSilently
<1>3. CASE OpenStream
  BY <1>3 DEF OpenStream
<1>4. CASE FinishRows
  BY <1>4 DEF FinishRows
<1>5. CASE ServerDies
  BY <1>5 DEF ServerDies, Over, NoReply
<1>6. ASSUME NEW v \in Writers, ReplyStep(v)
      PROVE  /\ turn'.driver = turn.driver
             /\ ~ Active => ~ Active'
             /\ turn.silent => turn'.silent
             /\ Active /\ ~ Active' => reply[v].at = "closed"
             /\ \A w \in Writers : reply'[w].at = "closed" => reply[w].at = "closed" \/ LogsEnd \/ turn'.silent
  <2>1. CASE BeginReply(v) \/ AddTextPart(v) \/ AppendReply(v) \/ PersistReply(v) \/ ReplyCut(v)
    BY <2>1 DEF BeginReply, AddTextPart, AppendReply, PersistReply, ReplyCut, Over, NoReply, Reply
  <2>2. CASE CloseReply(v) \/ FailRun(v)
    <3>1. SayTheEnd /\ \A w \in Writers \ {v} : reply'[w] = reply[w]
      BY <2>2 DEF CloseReply, FailRun
    <3>2. (UNCHANGED turn /\ LogsEnd) \/ turn' = [turn EXCEPT !.silent = TRUE]
      BY <3>1 DEF SayTheEnd, LogsEnd
    <3> QED
      BY <3>1, <3>2
  <2>3. CASE SetRunStatus(v)
    BY <2>3 DEF SetRunStatus, Over, NoReply
  <2> QED
    BY <1>6, <2>1, <2>2, <2>3 DEF ReplyStep
<1>7. CASE UNCHANGED <<turn, reply>>
  BY <1>7
<1>8. BeginRun \/ RefreshDetachedApproval \/ MirrorPart \/ Flush \/ HangUp \/ FinishFlush \/ RecordConflict
         \/ SessionNext \/ ViewerNext
         \/ (\E p \in PartIds : RecordToolResult(p))
         \/ (\E kind \in {"text", "reasoning", "call"} : CreatePart(kind) \/ (kind # "call" /\ Delta(kind)))
       => UNCHANGED <<turn, reply>>
  BY DEF BeginRun, RefreshDetachedApproval, MirrorPart, Flush, HangUp, FinishFlush, RecordConflict,
         SessionNext, LoadSession, SaveSession, ViewerNext, DrainChunks, DrainFails, EndOrPoll,
         StreamExpires, Leave, ResumeState, Resume, RecordToolResult, CreatePart, Delta
<1> QED
  BY <1>1, <1>2, <1>3, <1>4, <1>5, <1>6, <1>7, <1>8
     DEF TranscriptNext, WriterNext, ToolCallDelta, ReplyStep

LEMMA LogStaysKept ==
    ASSUME TranscriptTypeOK, LogIsKept, RepliesApart, TranscriptNext
    PROVE  LogIsKept'
<1>1. SnapshotIsTheLog' /\ (chunk # << >> => chunk' # << >>)
  BY LogSteps, LogAfter DEF LogIsKept
<1>2. retained.view.shell => chunk # << >>
  <2>1. ASSUME chunk = << >> PROVE ~ retained.view.shell
    <3>1. << >> \in Seq(Chunk) /\ Len(<< >>) = 0 /\ 0 \in 0 .. Len(<< >>) /\ 1 \in Nat \ {0} /\ 0 < 1
      OBVIOUS
    <3>2. Replayed(Blank, << >>, 1, 0) = Blank
      BY <3>1, BlankTyped, ReplayedNothing
    <3> QED
      BY <2>1, <3>1, <3>2 DEF LogIsKept, SnapshotIsTheLog, Blank
  <2> QED
    BY <2>1
<1>3. runSession'.loaded => runSession.loaded \/ retained.view.shell
  <2>1. UNCHANGED runSession \/ LoadSession \/ runSession' = NoSession
    BY DEF TranscriptNext, WriterNext, SessionNext, ViewerNext, BeginRun, FinishRun, LoadNoSession,
           FinishStatusOnly, BeginFails, WorkerStarts, Detach, EndSilently, RefreshDetachedApproval,
           OpenStream, MirrorPart, Flush, HangUp, FinishFlush, FinishRows, CreatePart, Delta,
           ToolCallDelta, RecordToolResult, RecordConflict, BeginReply, AddTextPart, AppendReply,
           PersistReply, CloseReply, FailRun, SetRunStatus, ReplyCut, ServerDies, SaveSession,
           DrainChunks, DrainFails, EndOrPoll, StreamExpires, Leave, ResumeState, Resume
  <2> QED
    BY <2>1 DEF LoadSession, NoSession
<1> QED
  BY <1>1, <1>2, <1>3 DEF LogIsKept

LEMMA EndStaysLogged ==
    ASSUME TranscriptTypeOK, LogIsKept, RepliesApart, EndIsLogged, TranscriptNext
    PROVE  EndIsLogged'
<1>1. /\ ~ retained.view.running => ~ retained'.view.running
      /\ LogsEnd => ~ retained'.view.running
  BY LogSteps, LogAfter DEF LogIsKept
<1>2. turn.silent => turn'.silent
  BY StatusSteps
<1>3. ASSUME NEW w \in Writers, reply'[w].at = "closed" PROVE ~ retained'.view.running \/ turn'.silent
  <2>1. reply[w].at = "closed" \/ LogsEnd \/ turn'.silent
    BY <1>3, StatusSteps
  <2> QED
    BY <1>1, <1>2, <2>1 DEF EndIsLogged
<1>4. ASSUME ~ Active', retained'.view.running PROVE turn'.silent
  <2>1. CASE ~ Active
    BY <1>1, <1>2, <1>4, <2>1 DEF EndIsLogged
  <2>2. CASE Active
    <3>1. LogsEnd \/ turn'.silent \/ \E w \in Writers : reply[w].at = "closed"
      BY <1>4, <2>2, StatusSteps
    <3> QED
      BY <1>1, <1>2, <1>4, <3>1 DEF EndIsLogged
  <2> QED
    BY <2>1, <2>2
<1> QED
  BY <1>3, <1>4 DEF EndIsLogged

LEMMA ViewerStillFollows ==
    ASSUME TranscriptTypeOK, LogIsKept, RepliesApart, EndIsLogged, ViewerFollows, TranscriptNext
    PROVE  ViewerFollows'
<1>0. /\ viewer \in Viewer /\ chunk \in Seq(Chunk) /\ Len(chunk) \in Nat /\ retained.checkpoint = Len(chunk)
  BY DEF TranscriptTypeOK, LogIsKept, SnapshotIsTheLog
<1>1. /\ Len(chunk) <= Len(chunk')
      /\ \A k \in 0 .. Len(chunk) : Replayed(Blank, chunk', 1, k) = Replayed(Blank, chunk, 1, k)
  BY LogSteps, LogAfter DEF LogIsKept
<1>2. (~ Active => ~ Active') /\ (turn.silent => turn'.silent)
  BY StatusSteps
<1>3. CASE \/ UNCHANGED viewer
           \/ \E a \in {"away", "expired"} : viewer' = [viewer EXCEPT !.at = a]
           \/ viewer' = [viewer EXCEPT !.at = "drained", !.missed = TRUE]
  <2>1. /\ viewer'.cursor = viewer.cursor /\ viewer'.view = viewer.view /\ viewer'.terminal = viewer.terminal
        /\ viewer'.returns = viewer.returns
        /\ \/ viewer'.at = viewer.at /\ viewer'.missed = viewer.missed
           \/ viewer'.at \in {"away", "expired"}
           \/ viewer'.at = "drained" /\ viewer'.missed
    BY <1>0, <1>3 DEF Viewer
  <2>2. viewer.returns = 0 => viewer'.cursor \in 0 .. Len(chunk)
    BY <1>0, <2>1 DEF ViewerFollows, Viewer
  <2>3. viewer.returns = 0 => viewer'.cursor <= Len(chunk')
                              /\ viewer'.view = Replayed(Blank, chunk', 1, viewer'.cursor)
    <3>1. ASSUME NEW k, k \in 0 .. Len(chunk) PROVE k <= Len(chunk')
      BY <3>1, <1>0, <1>1
    <3> QED
      BY <2>1, <2>2, <3>1, <1>1 DEF ViewerFollows
  <2> QED
    BY <1>2, <2>1, <2>3 DEF ViewerFollows
<1>4. CASE DrainChunks
  <2>1. /\ UNCHANGED <<turn, chunk, retained>> /\ viewer.at = "polled" /\ viewer'.at = "drained"
        /\ viewer'.cursor = Len(chunk) /\ viewer'.terminal = viewer.terminal /\ viewer'.returns = viewer.returns
        /\ viewer'.view = Replayed(viewer.view, chunk, viewer.cursor + 1, Len(chunk))
    BY <1>0, <1>4 DEF DrainChunks, Viewer
  <2>2. ASSUME viewer.returns = 0 PROVE viewer'.view = retained.view
    <3>1. viewer.cursor \in 0 .. Len(chunk) /\ viewer.view = Replayed(Blank, chunk, 1, viewer.cursor)
      BY <1>0, <2>2 DEF ViewerFollows, Viewer
    <3> QED
      BY <1>0, <2>1, <3>1, BlankTyped, ReplayedFurther DEF LogIsKept, SnapshotIsTheLog
  <2>3. viewer.terminal /\ ~ turn.silent => ~ retained.view.running
    BY DEF ViewerFollows, EndIsLogged
  <2>4. viewer.terminal => ~ Active'
    BY <1>2 DEF ViewerFollows
  <2> QED
    BY <1>0, <2>1, <2>2, <2>3, <2>4 DEF ViewerFollows, LogIsKept, SnapshotIsTheLog
<1>5. CASE EndOrPoll
  <2>1. /\ viewer.at = "drained" /\ UNCHANGED <<turn, chunk, retained>>
        /\ viewer'.cursor = viewer.cursor /\ viewer'.view = viewer.view /\ viewer'.missed = viewer.missed
        /\ viewer'.returns = viewer.returns
        /\ \/ viewer.terminal /\ viewer'.terminal = viewer.terminal /\ viewer'.at = "done"
           \/ viewer'.at = "polled" /\ viewer'.terminal = ~ Active
    BY <1>0, <1>5 DEF EndOrPoll, Terminal, Viewer, Active
  <2> QED
    BY <1>2, <2>1 DEF ViewerFollows
<1>6. CASE ResumeState
  <2>1. viewer'.returns = viewer.returns + 1 /\ viewer'.returns # 0 /\ viewer'.at = "told"
        /\ viewer'.terminal = viewer.terminal
    BY <1>0, <1>6, TranscriptAssumption DEF ResumeState, Viewer
  <2> QED
    BY <1>2, <2>1 DEF ViewerFollows
<1>7. CASE Resume
  <2>1. viewer'.at = "polled" /\ viewer'.terminal = ~ Active /\ viewer'.returns = viewer.returns
        /\ viewer.at = "told"
    BY <1>0, <1>7 DEF Resume, Viewer
  <2> QED
    BY <1>2, <2>1 DEF ViewerFollows
<1>8. ServerDies => UNCHANGED viewer \/ viewer' = [viewer EXCEPT !.at = "away"]
  BY DEF ServerDies
<1>9. \/ UNCHANGED viewer \/ ServerDies
      \/ \E a \in {"away", "expired"} : viewer' = [viewer EXCEPT !.at = a]
      \/ viewer' = [viewer EXCEPT !.at = "drained", !.missed = TRUE]
      \/ DrainChunks \/ EndOrPoll \/ ResumeState \/ Resume
  BY DEF TranscriptNext, WriterNext, SessionNext, ViewerNext, BeginRun, FinishRun, LoadNoSession,
         FinishStatusOnly, BeginFails, WorkerStarts, Detach, EndSilently, RefreshDetachedApproval,
         OpenStream, MirrorPart, Flush, HangUp, FinishFlush, FinishRows, CreatePart, Delta,
         ToolCallDelta, RecordToolResult, RecordConflict, BeginReply, AddTextPart, AppendReply,
         PersistReply, CloseReply, FailRun, SetRunStatus, ReplyCut, LoadSession, SaveSession,
         DrainFails, StreamExpires, Leave
<1> QED
  BY <1>3, <1>4, <1>5, <1>6, <1>7, <1>8, <1>9

-----------------------------------------------------------------------------
(* Rows, writers and what is shown of them.                                *)

\* What an event does to what is shown.
LEMMA ShownAfter ==
    ASSUME TranscriptTypeOK
    PROVE  /\ \A q \in PartIds : Shown(q) \in Amount
           /\ UNCHANGED retained \/ AppendChunk(Event("shell")) \/ AppendChunk(Event("end"))
                 => \A q \in PartIds : Shown(q)' = Shown(q)
           /\ \A p \in PartIds, n \in Nat : AppendChunk(Set(p, n))
                 => \A q \in PartIds : Shown(q)' = IF q = p THEN n ELSE Shown(q)
           /\ \A gain \in [PartIds -> Nat] : AppendChunk(AppendText(gain))
                 => \A q \in PartIds : /\ Shown(q)' = Shown(q) + gain[q]
                                       /\ gain[q] > 0 => Shown(q) # Missing
<1>1. retained.view \in View /\ \A q \in PartIds : Shown(q) \in Amount
  BY DEF TranscriptTypeOK, RetainedRow, Shown, View
<1>2. \A c \in Chunk : AppendChunk(c) => retained'.view = Applied(retained.view, c)
  BY LogGrows
<1>3. UNCHANGED retained \/ AppendChunk(Event("shell")) \/ AppendChunk(Event("end"))
         => retained'.view.part = retained.view.part
  BY <1>1, <1>2, Events, EventEffects DEF View
<1>4. ASSUME NEW p \in PartIds, NEW n \in Nat, AppendChunk(Set(p, n)), NEW q \in PartIds
      PROVE  Shown(q)' = IF q = p THEN n ELSE Shown(q)
  <2>1. retained'.view = [retained.view EXCEPT !.part[p] = n]
    BY <1>1, <1>2, <1>4, Events, EventEffects
  <2> QED
    BY <1>1, <2>1 DEF View, Shown
<1>5. ASSUME NEW gain \in [PartIds -> Nat], AppendChunk(AppendText(gain)), NEW q \in PartIds
      PROVE  Shown(q)' = Shown(q) + gain[q] /\ (gain[q] > 0 => Shown(q) # Missing)
  <2>0. AppendText(gain) \in Chunk
    BY Events
  <2>1. retained'.view = [retained.view EXCEPT !.part = [p \in PartIds |-> retained.view.part[p] + gain[p]]]
    <3>1. Applied(retained.view, AppendText(gain))
            = [retained.view EXCEPT !.part = [p \in PartIds |-> retained.view.part[p] + gain[p]]]
      BY <1>1, EventEffects
    <3> QED
      BY <1>2, <1>5, <2>0, <3>1
  <2>2. AppendText(gain).gain = gain
    BY DEF AppendText, Event
  <2>3. gain[q] > 0 => Shown(q) # Missing
    BY <1>5, <2>2 DEF AppendChunk, FoldsInto, Shown
  <2> QED
    BY <1>1, <2>1, <2>3 DEF View, Shown
<1> QED
  BY <1>1, <1>3, <1>4, <1>5 DEF Shown

\* The state of a stream, field by field.
LEMMA StreamFields ==
    ASSUME TranscriptTypeOK
    PROVE  /\ modelStream.at \in {"idle", "open", "flushed"} /\ modelStream.cut \in BOOLEAN
           /\ modelStream.text \in PartIds \cup {0} /\ modelStream.reasoning \in PartIds \cup {0}
           /\ modelStream.call \in PartIds \cup {0} /\ modelStream.mirror \in PartIds \cup {0}
           /\ modelStream.total["text"] \in Nat /\ modelStream.total["reasoning"] \in Nat
           /\ modelStream.pending["text"] \in Nat /\ modelStream.pending["reasoning"] \in Nat
           /\ \A w \in Writers : reply[w] \in Reply /\ reply[w].part \in PartIds \cup {0}
           /\ turn.calls \in Nat /\ 0 \notin PartIds
           /\ \A p \in PartIds : partRow[p] \in PartRow /\ partRow[p].n \in Nat /\ partRow[p].call \in Nat
<1>1. StreamPart = PartIds \cup {0} /\ 0 \notin PartIds
  BY TranscriptAssumption DEF StreamPart, PartIds
<1> QED
  BY <1>1 DEF TranscriptTypeOK, Stream, Reply, Turn, PartRow

\* Steps that leave the writers, the rows and the shown parts alone.
LEMMA CatalogueUntouched ==
    ASSUME TranscriptTypeOK, RowsAreRight, UNCHANGED <<partRow, modelStream, reply, torn>>,
           turn'.calls = turn.calls, turn'.driver = turn.driver,
           UNCHANGED retained \/ AppendChunk(Event("shell")) \/ AppendChunk(Event("end"))
    PROVE  RowsAreRight'
<1>1. \A q \in PartIds : Shown(q)' = Shown(q)
  BY ShownAfter
<1>2. \A q \in PartIds : Due(q)' = Due(q) /\ Said(q)' = Said(q)
  BY DEF Due, StoredParts, Said, Saying
<1>3. PartsAreDue'
  BY <1>1, <1>2 DEF RowsAreRight, PartsAreDue
<1>4. StreamApart' /\ RowsWait'
  BY DEF RowsAreRight, StreamApart, RowsWait, Owns, Counts
<1>5. RepliesApart'
  BY DEF RowsAreRight, RepliesApart, Writing
<1>6. RepliesAreDue'
  <2> SUFFICES ASSUME NEW w \in Writers, NEW r \in PartIds, Saying(w)', reply'[w].part = r
               PROVE  /\ Shown(r)' # Missing
                      /\ Alone(w)' /\ r \notin torn' /\ partRow'[r].kind = "none" =>
                            Shown(r)' = IF reply'[w].at = "set" THEN 0 ELSE 1
    BY DEF RepliesAreDue
  <2>1. Saying(w) /\ Alone(w)' = Alone(w) /\ reply'[w] = reply[w]
    BY DEF Saying, Alone
  <2>2. reply[w].part \in PartIds
    BY <2>1, StreamFields DEF RowsAreRight, RepliesApart, Saying, Writing
  <2> QED
    BY <1>1, <2>1, <2>2 DEF RowsAreRight, RepliesAreDue
<1> QED
  BY <1>3, <1>4, <1>5, <1>6 DEF RowsAreRight

\* While a stream is open nobody writes a reply, before a step of it and after.
Quiet == \A w \in Writers : ~ Writing(w)

LEMMA QuietStream ==
    ASSUME TranscriptTypeOK, RowsAreRight, modelStream.at # "idle" \/ OpenStream
    PROVE  StreamRight /\ Quiet
<1>1. Quiet
  <2>1. turn.driver = "host" /\ turn.calls \in Nat /\ turn.calls < MaxCalls
    BY StreamFields DEF RowsAreRight, StreamApart, OpenStream
  <2> QED
    BY <2>1, TranscriptAssumption DEF RowsAreRight, RepliesApart, Quiet
<1>2. \A q \in PartIds : ~ Said(q)
  BY <1>1 DEF Said, Saying, Quiet, Writing
<1> QED
  BY <1>1, <1>2 DEF RowsAreRight, PartsAreDue, StreamRight, AllDue

LEMMA QuietAfter ==
    ASSUME Quiet, UNCHANGED reply, StreamRight'
    PROVE  RowsAreRight'
<1>1. \A w \in Writers : ~ Writing(w)' /\ ~ Saying(w)'
  BY DEF Quiet, Writing, Saying
<1> QED
  BY <1>1 DEF StreamRight, RowsAreRight, AllDue, PartsAreDue, RepliesApart, RepliesAreDue

LEMMA RowsAfterOpening ==
    ASSUME TranscriptTypeOK, StreamRight, OpenStream
    PROVE  StreamRight'
<1>1. /\ modelStream = NoStream /\ modelStream' = [NoStream EXCEPT !.at = "open"]
      /\ turn'.calls = turn.calls /\ turn'.driver = "host" /\ turn.calls < MaxCalls
      /\ UNCHANGED <<partRow, torn, retained>>
  BY DEF OpenStream, StreamRight, StreamApart, TranscriptTypeOK, Turn
<1>2. /\ modelStream'.text = 0 /\ modelStream'.reasoning = 0 /\ modelStream'.call = 0
      /\ modelStream'.mirror = 0 /\ modelStream'.at = "open"
      /\ modelStream'.total["text"] = 0 /\ modelStream'.total["reasoning"] = 0
      /\ modelStream'.pending["text"] = 0 /\ modelStream'.pending["reasoning"] = 0
  BY <1>1 DEF NoStream
<1>3. \A q \in PartIds : Due(q)' = Due(q) /\ Shown(q)' = Shown(q)
  BY <1>1, <1>2, StreamFields DEF Due, StoredParts, Shown, NoStream
<1> QED
  BY <1>1, <1>2, <1>3 DEF StreamRight, StreamApart, RowsWait, AllDue, Owns, Counts

LEMMA RowsAfterPart ==
    ASSUME TranscriptTypeOK, StreamRight, NEW kind \in {"text", "reasoning", "call"}, CreatePart(kind)
    PROVE  StreamRight'
<1>1. PICK p \in PartIds :
        /\ IF kind = "reasoning" /\ BegunBefore # {}
           THEN p \in BegunBefore /\ UNCHANGED partRow
           ELSE /\ FreeIdx # {} /\ p = NextPartIdx
                /\ partRow' = [partRow EXCEPT ![p] = [kind |-> kind, n |-> 0, call |-> turn.calls + 1, twice |-> FALSE]]
        /\ modelStream' = [modelStream EXCEPT ![kind] = p, !.mirror = p]
  BY DEF CreatePart
<1>2. /\ modelStream.at = "open" /\ modelStream.mirror = 0 /\ modelStream[kind] = 0
      /\ UNCHANGED <<turn, retained, torn>>
  BY DEF CreatePart, StreamRight, StreamApart
<1>3. /\ modelStream' \in Stream
      /\ modelStream'[kind] = p /\ modelStream'.mirror = p /\ modelStream'.at = "open"
      /\ \A k \in {"text", "reasoning", "call"} \ {kind} : modelStream'[k] = modelStream[k]
      /\ modelStream'.total = modelStream.total /\ modelStream'.pending = modelStream.pending
  <2>1. modelStream \in Stream
    BY DEF TranscriptTypeOK
  <2>2. modelStream' \in Stream
    BY PartStepTyped DEF TranscriptTypeOK
  <2> QED
    BY <1>1, <1>2, <2>1, <2>2 DEF Stream
<1>4. /\ partRow'[p].kind = kind /\ partRow'[p].n = 0 /\ partRow'[p].call = turn.calls + 1
      /\ partRow[p].n \in Nat /\ (partRow[p].kind = "none" \/ (partRow[p].kind = "reasoning" /\ partRow[p].n = 0))
      /\ partRow[p].kind = "reasoning" => kind = "reasoning"
      /\ \A q \in PartIds \ {p} : partRow'[q] = partRow[q]
  <2>1. CASE kind = "reasoning" /\ BegunBefore # {}
    BY <1>1, <2>1, StreamFields DEF BegunBefore, StreamRight, RowsWait
  <2>2. CASE ~ (kind = "reasoning" /\ BegunBefore # {})
    <3>1. partRow[p].kind = "none" /\ partRow \in [PartIds -> PartRow]
      BY <1>1, <2>2, FreePart DEF TranscriptTypeOK
    <3>2. partRow' = [partRow EXCEPT ![p] = [kind |-> kind, n |-> 0, call |-> turn.calls + 1, twice |-> FALSE]]
      BY <1>1, <2>2
    <3>3. partRow'[p] = [kind |-> kind, n |-> 0, call |-> turn.calls + 1, twice |-> FALSE]
          /\ \A q \in PartIds \ {p} : partRow'[q] = partRow[q]
      BY <3>1, <3>2
    <3> QED
      BY <3>1, <3>3, StreamFields
  <2> QED
    BY <2>1, <2>2
<1>5. \A k \in {"text", "reasoning", "call"} : modelStream[k] # p
  BY <1>2, <1>4, StreamFields DEF StreamRight, StreamApart, Owns
<1>6. \A q \in PartIds \ torn : Shown(q)' \in {Missing, Due(q)'}
  <2> TAKE q \in PartIds \ torn
  <2>1. Shown(q)' = Shown(q) /\ Shown(q) \in {Missing, Due(q)}
    BY <1>2 DEF Shown, StreamRight, AllDue
  <2>2. CASE q # p
    <3>1. StoredParts[q]' = StoredParts[q]
      BY <1>4, <2>2 DEF StoredParts
    <3>2. Due(q)' = Due(q)
      <4>1. CASE kind = "text"
        BY <1>2, <1>3, <2>2, <3>1, <4>1, StreamFields DEF Due
      <4>2. CASE kind = "reasoning"
        BY <1>2, <1>3, <2>2, <3>1, <4>2, StreamFields DEF Due
      <4>3. CASE kind = "call"
        BY <1>2, <1>3, <2>2, <3>1, <4>3, StreamFields DEF Due
      <4> QED
        BY <4>1, <4>2, <4>3
    <3> QED
      BY <2>1, <3>2
  <2>3. CASE q = p
    <3>1. Due(p) = StoredParts[p] /\ StoredParts[p] \in {Missing, 0}
      BY <1>2, <1>4, <1>5, StreamFields DEF Due, StoredParts
    <3>2. Due(p)' = 0
      <4>1. StoredParts[p]' = 0
        BY <1>4 DEF StoredParts
      <4>2. CASE kind = "text"
        <5>1. modelStream'.text = p
          BY <1>3, <4>2
        <5>2. modelStream'.total["text"] = 0 /\ modelStream'.pending["text"] = 0
          BY <1>2, <1>3, <4>2, StreamFields DEF StreamRight, StreamApart, Counts
        <5> QED
          BY <5>1, <5>2 DEF Due
      <4>3. CASE kind = "reasoning"
        <5>1. modelStream'.text # p /\ modelStream'.reasoning = p
          BY <1>3, <1>5, <4>3
        <5>2. modelStream'.total["reasoning"] = 0 /\ modelStream'.pending["reasoning"] = 0
          BY <1>2, <1>3, <4>3, StreamFields DEF StreamRight, StreamApart, Counts
        <5> QED
          BY <5>1, <5>2 DEF Due
      <4>4. CASE kind = "call"
        <5>1. modelStream'.text # p /\ modelStream'.reasoning # p
          BY <1>3, <1>5, <4>4
        <5> QED
          BY <1>2, <4>1, <5>1, StreamFields DEF Due
      <4> QED
        BY <4>2, <4>3, <4>4
    <3> QED
      BY <2>1, <2>3, <3>1, <3>2
  <2> QED
    BY <2>2, <2>3
<1>7. Owns("text")' /\ Owns("reasoning")' /\ Owns("call")'
  <2>1. \A k \in {"text", "reasoning", "call"} : Owns(k) /\ modelStream[k] \in PartIds \cup {0}
    BY StreamFields DEF StreamRight, StreamApart
  <2>2. ASSUME NEW k \in {"text", "reasoning", "call"} PROVE Owns(k)'
    <3>1. CASE k = kind
      BY <1>2, <1>3, <1>4, <3>1 DEF Owns
    <3>2. CASE k # kind
      BY <1>2, <1>3, <1>4, <1>5, <2>1, <3>2 DEF Owns
    <3> QED
      BY <3>1, <3>2
  <2> QED
    BY <2>2
<1>8. Counts("text")' /\ Counts("reasoning")'
  <2>1. ASSUME NEW k \in {"text", "reasoning"} PROVE Counts(k)'
    <3>1. Counts(k)
      BY DEF StreamRight, StreamApart
    <3>2. CASE k = kind
      BY <1>2, <1>3, <3>1, <3>2 DEF Counts
    <3>3. CASE k # kind
      BY <1>2, <1>3, <1>5, <3>1, <3>3, StreamFields DEF Counts
    <3> QED
      BY <3>2, <3>3
  <2> QED
    BY <2>1
<1>9. RowsWait'
  <2> SUFFICES ASSUME NEW q \in PartIds
               PROVE  /\ partRow'[q].call <= turn'.calls + 1
                      /\ partRow'[q].kind = "reasoning" /\ partRow'[q].call = turn'.calls + 1 => partRow'[q].n = 0
    BY DEF RowsWait
  <2> QED
    BY <1>2, <1>4, StreamFields DEF StreamRight, RowsWait
<1>10. modelStream'.mirror \in {0, modelStream'.text, modelStream'.reasoning, modelStream'.call}
  BY <1>3
<1> QED
  BY <1>2, <1>3, <1>6, <1>7, <1>8, <1>9, <1>10 DEF StreamRight, StreamApart, AllDue

LEMMA RowsAfterMirror ==
    ASSUME TranscriptTypeOK, StreamRight, MirrorPart
    PROVE  StreamRight'
<1> DEFINE m == modelStream.mirror
<1>1. /\ m # 0 /\ m \in PartIds /\ modelStream.at = "open" /\ UNCHANGED <<turn, partRow>>
      /\ m \in {modelStream.text, modelStream.reasoning, modelStream.call}
  BY StreamFields DEF MirrorPart, StreamRight, StreamApart
<1>2. /\ modelStream'.mirror = 0 /\ modelStream'.at = modelStream.at
      /\ modelStream'.text = modelStream.text /\ modelStream'.reasoning = modelStream.reasoning
      /\ modelStream'.call = modelStream.call
      /\ modelStream'.total = modelStream.total /\ modelStream'.pending = modelStream.pending
  BY DEF MirrorPart, TranscriptTypeOK, Stream
<1> HIDE DEF m
<1>3. \A q \in PartIds : Due(q)' = Due(q)
  BY <1>1, <1>2 DEF Due, StoredParts
<1>4. Due(m) = 0 /\ partRow[m].n = 0
  <2>1. CASE m = modelStream.text
    <3>1. modelStream.total["text"] = 0 /\ modelStream.pending["text"] = 0
      BY <1>1, <2>1, StreamFields DEF StreamRight, StreamApart, Counts, m
    <3>2. partRow[m].n = 0
      BY <1>1, <2>1 DEF StreamRight, StreamApart, Owns
    <3> QED
      BY <2>1, <3>1, <3>2 DEF Due
  <2>2. CASE m # modelStream.text /\ m = modelStream.reasoning
    <3>1. modelStream.total["reasoning"] = 0 /\ modelStream.pending["reasoning"] = 0
      BY <1>1, <2>2, StreamFields DEF StreamRight, StreamApart, Counts, m
    <3>2. partRow[m].n = 0
      BY <1>1, <2>2 DEF StreamRight, StreamApart, Owns
    <3> QED
      BY <2>2, <3>1, <3>2 DEF Due
  <2>3. CASE m # modelStream.text /\ m # modelStream.reasoning /\ m = modelStream.call
    <3>1. partRow[m].kind = "call" /\ partRow[m].n = 0
      BY <1>1, <2>3 DEF StreamRight, StreamApart, Owns
    <3> QED
      BY <1>1, <2>3, <3>1 DEF Due, StoredParts
  <2> QED
    BY <1>1, <2>1, <2>2, <2>3
<1>5. AllDue'
  <2>1. CASE modelStream.cut
    <3>1. UNCHANGED <<retained, torn>>
      BY <2>1 DEF MirrorPart, UnchangedLog
    <3> QED
      BY <1>3, <3>1 DEF StreamRight, AllDue, Shown
  <2>2. CASE ~ modelStream.cut
    <3>1. AppendChunk(Set(m, 0)) /\ torn' = torn \ {m}
      BY <1>4, <2>2 DEF MirrorPart, m
    <3>2. \A q \in PartIds : Shown(q)' = IF q = m THEN 0 ELSE Shown(q)
      BY <1>1, <3>1, ShownAfter
    <3> QED
      BY <1>3, <1>4, <3>1, <3>2 DEF StreamRight, AllDue
  <2> QED
    BY <2>1, <2>2
<1>6. Counts("text")' /\ Counts("reasoning")'
  BY <1>1, <1>2, StreamFields DEF StreamRight, StreamApart, Counts
<1>7. Owns("text")' /\ Owns("reasoning")' /\ Owns("call")'
  BY <1>1, <1>2 DEF StreamRight, StreamApart, Owns
<1> QED
  BY <1>1, <1>2, <1>5, <1>6, <1>7 DEF StreamRight, StreamApart, RowsWait

LEMMA RowsAfterDelta ==
    ASSUME TranscriptTypeOK, StreamRight, NEW kind \in {"text", "reasoning"}, Delta(kind)
    PROVE  StreamRight'
<1>1. /\ modelStream.at = "open" /\ modelStream.mirror = 0 /\ modelStream[kind] # 0
      /\ UNCHANGED <<turn, partRow, retained, torn>>
      /\ modelStream' = [modelStream EXCEPT !.total[kind] = @ + 1, !.pending[kind] = @ + 1]
  BY DEF Delta
<1>2. /\ modelStream'.mirror = 0 /\ modelStream'.at = modelStream.at
      /\ modelStream'.text = modelStream.text /\ modelStream'.reasoning = modelStream.reasoning
      /\ modelStream'.call = modelStream.call
      /\ modelStream'.total = [modelStream.total EXCEPT ![kind] = @ + 1]
      /\ modelStream'.pending = [modelStream.pending EXCEPT ![kind] = @ + 1]
      /\ modelStream.total \in [{"text", "reasoning"} -> Nat]
      /\ modelStream.pending \in [{"text", "reasoning"} -> Nat]
  BY <1>1 DEF TranscriptTypeOK, Stream
<1>3. \A k \in {"text", "reasoning"} :
         modelStream'.total[k] - modelStream'.pending[k] = modelStream.total[k] - modelStream.pending[k]
  BY <1>2
<1>4. \A q \in PartIds : Due(q)' = Due(q) /\ Shown(q)' = Shown(q)
  BY <1>1, <1>2, <1>3 DEF Due, StoredParts, Shown
<1>5. ASSUME NEW k \in {"text", "reasoning"} PROVE Counts(k)' /\ Owns(k)'
  <2>1. Counts(k) /\ Owns(k)
    BY DEF StreamRight, StreamApart
  <2>2. modelStream'[k] = modelStream[k]
    BY <1>2
  <2> QED
    BY <1>1, <1>2, <2>1, <2>2 DEF Counts, Owns
<1>6. Owns("call")'
  BY <1>1, <1>2 DEF StreamRight, StreamApart, Owns
<1> QED
  BY <1>1, <1>2, <1>4, <1>5, <1>6 DEF StreamRight, StreamApart, RowsWait, AllDue

\* The waiting deltas are logged: what is due grows by what is shown.
LEMMA DueAfterFlush ==
    ASSUME TranscriptTypeOK, StreamRight, modelStream.mirror = 0, NEW q \in PartIds,
           Waiting = NoGain \/ AppendChunk(AppendText(Waiting)),
           Waiting = NoGain => UNCHANGED retained \/ AppendChunk(AppendText(Waiting)),
           q \notin torn, UNCHANGED partRow,
           modelStream'.text = modelStream.text, modelStream'.reasoning = modelStream.reasoning,
           modelStream'.total = modelStream.total,
           modelStream'.pending["text"] = 0, modelStream'.pending["reasoning"] = 0
    PROVE  Shown(q)' \in {Missing, Due(q)'}
<1>1. Due(q)' = Due(q) + Waiting[q]
  <2>1. modelStream.text = modelStream.reasoning => modelStream.text = 0
    BY DEF StreamRight, StreamApart, Owns
  <2>2. CASE q = modelStream.text
    BY <2>2, StreamFields DEF Due, Waiting
  <2>3. CASE q # modelStream.text /\ q = modelStream.reasoning
    BY <2>3, StreamFields DEF Due, Waiting
  <2>4. CASE q # modelStream.text /\ q # modelStream.reasoning
    <3>1. Waiting[q] = 0
      BY <2>4 DEF Waiting
    <3>2. Due(q)' = Due(q)
      BY <2>4 DEF Due, StoredParts
    <3>3. Due(q) \in Int
      BY <2>4, StreamFields DEF Due, StoredParts, Missing
    <3> QED
      BY <3>1, <3>2, <3>3
  <2> QED
    BY <2>2, <2>3, <2>4
<1>2. Shown(q) \in {Missing, Due(q)} /\ Shown(q) \in Amount /\ Due(q) \in Int
  <2>1. Due(q) \in Int
    BY StreamFields DEF Due, StoredParts, Missing
  <2> QED
    BY <2>1, ShownAfter DEF StreamRight, AllDue
<1>3. Waiting \in [PartIds -> Nat]
  BY WaitingTyped
<1>4. CASE AppendChunk(AppendText(Waiting))
  <2>1. Shown(q)' = Shown(q) + Waiting[q] /\ (Waiting[q] > 0 => Shown(q) # Missing)
    BY <1>3, <1>4, ShownAfter
  <2>2. Waiting[q] \in Nat
    BY <1>3
  <2> QED
    BY <1>1, <1>2, <2>1, <2>2 DEF Missing
<1>5. CASE ~ AppendChunk(AppendText(Waiting))
  <2>1. Waiting[q] = 0 /\ Shown(q)' = Shown(q)
    BY <1>5 DEF NoGain, Shown
  <2> QED
    BY <1>1, <1>2, <2>1
<1> QED
  BY <1>4, <1>5

LEMMA RowsAfterFlush ==
    ASSUME TranscriptTypeOK, StreamRight, Flush
    PROVE  StreamRight'
<1>1. /\ modelStream.at = "open" /\ modelStream.mirror = 0 /\ AppendChunk(AppendText(Waiting))
      /\ modelStream' = Flushed /\ UNCHANGED <<turn, partRow, torn>>
  BY DEF Flush
<1>2. /\ modelStream'.mirror = modelStream.mirror /\ modelStream'.at = modelStream.at
      /\ modelStream'.text = modelStream.text /\ modelStream'.reasoning = modelStream.reasoning
      /\ modelStream'.call = modelStream.call /\ modelStream'.total = modelStream.total
      /\ modelStream'.pending["text"] = 0 /\ modelStream'.pending["reasoning"] = 0
  BY <1>1 DEF Flushed, NoStream, TranscriptTypeOK, Stream
<1>3. AllDue'
  BY <1>1, <1>2, DueAfterFlush DEF AllDue
<1>4. Counts("text")' /\ Counts("reasoning")'
  BY <1>1, <1>2, StreamFields DEF StreamRight, StreamApart, Counts
<1>5. Owns("text")' /\ Owns("reasoning")' /\ Owns("call")'
  BY <1>1, <1>2 DEF StreamRight, StreamApart, Owns
<1> QED
  BY <1>1, <1>2, <1>3, <1>4, <1>5 DEF StreamRight, StreamApart, RowsWait

LEMMA RowsAfterHangUp ==
    ASSUME TranscriptTypeOK, StreamRight, HangUp
    PROVE  StreamRight'
<1>1. /\ modelStream.at = "open" /\ UNCHANGED <<turn, partRow, retained, torn>>
      /\ modelStream'.mirror = modelStream.mirror /\ modelStream'.at = modelStream.at
      /\ modelStream'.text = modelStream.text /\ modelStream'.reasoning = modelStream.reasoning
      /\ modelStream'.call = modelStream.call
      /\ modelStream'.total = modelStream.total /\ modelStream'.pending = modelStream.pending
  BY DEF HangUp, TranscriptTypeOK, Stream
<1>2. \A q \in PartIds : Due(q)' = Due(q) /\ Shown(q)' = Shown(q)
  BY <1>1 DEF Due, StoredParts, Shown
<1> QED
  BY <1>1, <1>2 DEF StreamRight, StreamApart, RowsWait, AllDue, Owns, Counts

\* The stream is lost: what it showed and did not store is torn.
LEMMA RowsAfterLoss ==
    ASSUME TranscriptTypeOK, StreamRight, modelStream' = NoStream,
           turn'.calls = turn.calls, UNCHANGED <<partRow, retained>>,
           torn' = torn \cup ShownOnly(StreamTexts)
    PROVE  StreamRight'
<1>1. /\ modelStream'.text = 0 /\ modelStream'.reasoning = 0 /\ modelStream'.call = 0
      /\ modelStream'.mirror = 0 /\ modelStream'.at = "idle"
      /\ modelStream'.total["text"] = 0 /\ modelStream'.total["reasoning"] = 0
      /\ modelStream'.pending["text"] = 0 /\ modelStream'.pending["reasoning"] = 0
  BY DEF NoStream
<1>2. ASSUME NEW q \in PartIds, q \notin torn' PROVE Shown(q)' \in {Missing, Due(q)'}
  <2>1. Shown(q)' = Shown(q) /\ StoredParts[q]' = StoredParts[q] /\ q # 0
    BY StreamFields DEF Shown, StoredParts
  <2>2. Due(q)' = StoredParts[q]
    BY <1>1, <2>1 DEF Due
  <2>3. CASE q \in StreamTexts
    BY <1>2, <2>1, <2>2, <2>3 DEF ShownOnly, Shown
  <2>4. CASE q \notin StreamTexts
    <3>1. Due(q) = StoredParts[q]
      BY <2>1, <2>4 DEF StreamTexts, Due
    <3> QED
      BY <1>2, <2>1, <2>2, <3>1 DEF StreamRight, AllDue
  <2> QED
    BY <2>3, <2>4
<1> QED
  BY <1>1, <1>2 DEF StreamRight, StreamApart, RowsWait, AllDue, Owns, Counts

LEMMA RowsAfterFinishFlush ==
    ASSUME TranscriptTypeOK, StreamRight, FinishFlush
    PROVE  StreamRight'
<1>1. /\ modelStream.at = "open" /\ modelStream.mirror = 0 /\ UNCHANGED <<turn, partRow>>
  BY DEF FinishFlush, StreamRight, StreamApart
<1>2. CASE ~ FoldsInto(retained.view, AppendText(Waiting))
  BY <1>1, <1>2, RowsAfterLoss DEF FinishFlush, UnchangedLog
<1>3. CASE FoldsInto(retained.view, AppendText(Waiting))
  <2>1. PICK failed \in {modelStream.cut, TRUE} :
           modelStream' = [Flushed EXCEPT !.at = "flushed", !.failed = failed]
    BY <1>3 DEF FinishFlush
  <2>2. /\ IF Waiting = NoGain THEN UNCHANGED <<chunk, retained>> ELSE AppendChunk(AppendText(Waiting))
        /\ UNCHANGED torn
    BY <1>3 DEF FinishFlush, UnchangedLog
  <2>3. /\ modelStream'.mirror = modelStream.mirror /\ modelStream'.at = "flushed"
        /\ modelStream'.text = modelStream.text /\ modelStream'.reasoning = modelStream.reasoning
        /\ modelStream'.call = modelStream.call /\ modelStream'.total = modelStream.total
        /\ modelStream'.pending["text"] = 0 /\ modelStream'.pending["reasoning"] = 0
    BY <2>1 DEF Flushed, NoStream, TranscriptTypeOK, Stream
  <2>4. AllDue'
    BY <1>1, <2>2, <2>3, DueAfterFlush DEF AllDue
  <2>5. Counts("text")' /\ Counts("reasoning")'
    BY <1>1, <2>3, StreamFields DEF StreamRight, StreamApart, Counts
  <2>6. Owns("text")' /\ Owns("reasoning")' /\ Owns("call")'
    BY <1>1, <2>3 DEF StreamRight, StreamApart, Owns
  <2> QED
    BY <1>1, <2>3, <2>4, <2>5, <2>6 DEF StreamRight, StreamApart, RowsWait
<1> QED
  BY <1>2, <1>3

LEMMA RowsAfterFinish ==
    ASSUME TranscriptTypeOK, StreamRight, FinishRows
    PROVE  StreamRight'
<1> DEFINE c == modelStream.call
           n == IF modelStream.failed THEN 0 ELSE 1
<1>1. /\ modelStream.at = "flushed" /\ modelStream' = NoStream /\ UNCHANGED torn
      /\ modelStream.pending["text"] = 0 /\ modelStream.pending["reasoning"] = 0
      /\ turn'.calls = turn.calls + 1 /\ n \in Nat
      /\ IF c # 0 THEN AppendChunk(Set(c, n)) ELSE UNCHANGED retained
  BY DEF FinishRows, UnchangedLog, StreamRight, StreamApart, Counts, TranscriptTypeOK, Turn
<1> HIDE DEF n
<1>2. \A p \in PartIds : partRow'[p] =
         IF p = modelStream.text THEN [partRow[p] EXCEPT !.n = modelStream.total["text"]]
         ELSE IF p = modelStream.reasoning THEN [partRow[p] EXCEPT !.n = modelStream.total["reasoning"]]
         ELSE IF p = c THEN [partRow[p] EXCEPT !.n = n] ELSE partRow[p]
  BY DEF FinishRows, FinalText, n
<1> HIDE DEF c
<1>3. \A p \in PartIds : /\ partRow'[p].kind = partRow[p].kind /\ partRow'[p].call = partRow[p].call
                         /\ partRow'[p].n = IF p = modelStream.text THEN modelStream.total["text"]
                                            ELSE IF p = modelStream.reasoning THEN modelStream.total["reasoning"]
                                            ELSE IF p = c THEN n ELSE partRow[p].n
  BY <1>2, StreamFields DEF PartRow
<1>4. /\ c # 0 => c # modelStream.text /\ c # modelStream.reasoning /\ c \in PartIds
      /\ \A k \in {modelStream.text, modelStream.reasoning, c} : k # 0 => partRow[k].kind # "none"
  BY StreamFields DEF StreamRight, StreamApart, Owns, c
<1>5. \A q \in PartIds : Shown(q)' = IF q = c THEN n ELSE Shown(q)
  <2>1. CASE c # 0
    BY <1>1, <1>4, <2>1, ShownAfter
  <2>2. CASE c = 0
    BY <1>1, <2>2, StreamFields, ShownAfter
  <2> QED
    BY <2>1, <2>2
<1>6. /\ modelStream'.text = 0 /\ modelStream'.reasoning = 0 /\ modelStream'.call = 0
      /\ modelStream'.mirror = 0 /\ modelStream'.at = "idle"
      /\ modelStream'.total["text"] = 0 /\ modelStream'.total["reasoning"] = 0
      /\ modelStream'.pending["text"] = 0 /\ modelStream'.pending["reasoning"] = 0
  BY <1>1 DEF NoStream
<1>7. ASSUME NEW q \in PartIds, q \notin torn PROVE Shown(q)' \in {Missing, Due(q)'}
  <2>1. Due(q)' = IF partRow[q].kind = "none" THEN Missing ELSE partRow'[q].n
    <3>1. q # 0
      BY StreamFields
    <3> QED
      BY <1>3, <1>6, <3>1 DEF Due, StoredParts
  <2>2. Shown(q) \in {Missing, Due(q)}
    BY <1>7 DEF StreamRight, AllDue
  <2>3. CASE q = modelStream.text \/ q = modelStream.reasoning
    <3>1. q # c /\ q # 0
      BY <1>4, <2>3, StreamFields
    <3>2. Due(q) = partRow'[q].n /\ partRow[q].kind # "none"
      BY <1>1, <1>3, <1>4, <2>3, <3>1, StreamFields DEF Due
    <3> QED
      BY <1>5, <2>1, <2>2, <3>1, <3>2
  <2>4. CASE q # modelStream.text /\ q # modelStream.reasoning /\ q = c
    <3>1. q # 0
      BY StreamFields
    <3> QED
      BY <1>3, <1>4, <1>5, <2>1, <2>4, <3>1
  <2>5. CASE q # modelStream.text /\ q # modelStream.reasoning /\ q # c
    <3>1. Due(q) = StoredParts[q]
      BY <1>1, <2>5 DEF Due
    <3> QED
      BY <1>3, <1>5, <2>1, <2>2, <2>5, <3>1 DEF StoredParts
  <2> QED
    BY <2>3, <2>4, <2>5
<1>8. RowsWait'
  BY <1>1, <1>3, StreamFields DEF StreamRight, RowsWait
<1> QED
  BY <1>1, <1>6, <1>7, <1>8 DEF StreamRight, StreamApart, AllDue, Owns, Counts

\* A row and its event in one transaction, beside whoever writes.
LEMMA RowsAfterSet ==
    ASSUME TranscriptTypeOK, RowsAreRight, NEW p \in PartIds, NEW n \in Nat, AppendChunk(Set(p, n)),
           UNCHANGED <<turn, modelStream, reply>>, torn' \in {torn, torn \ {p}},
           partRow'[p].n = n, partRow'[p].kind \in {"text", "call"}, partRow'[p].call <= turn.calls + 1,
           \A q \in PartIds \ {p} : partRow'[q] = partRow[q],
           p \notin {modelStream.text, modelStream.reasoning, modelStream.call}
    PROVE  RowsAreRight'
<1>1. \A q \in PartIds : Shown(q)' = IF q = p THEN n ELSE Shown(q)
  BY ShownAfter
<1>2. Due(p)' = n /\ \A q \in PartIds \ {p} : Due(q)' = Due(q)
  <2>1. StoredParts[p]' = n /\ \A q \in PartIds \ {p} : StoredParts[q]' = StoredParts[q]
    BY DEF StoredParts
  <2> QED
    BY <2>1 DEF Due
<1>3. Owns("text")' /\ Owns("reasoning")' /\ Owns("call")'
  BY StreamFields DEF RowsAreRight, StreamApart, Owns
<1>4. StreamApart'
  BY <1>3 DEF RowsAreRight, StreamApart, Counts
<1>5. RowsWait'
  <2> SUFFICES ASSUME NEW q \in PartIds
               PROVE  /\ partRow'[q].call <= turn'.calls + 1
                      /\ partRow'[q].kind = "reasoning" /\ partRow'[q].call = turn'.calls + 1 => partRow'[q].n = 0
    BY DEF RowsWait
  <2> QED
    BY DEF RowsAreRight, RowsWait
<1>6. RepliesApart'
  BY DEF RowsAreRight, RepliesApart, Writing
<1>7. \A q \in PartIds : Said(q)' = Said(q)
  BY DEF Said, Saying
<1>8. PartsAreDue'
  BY <1>1, <1>2, <1>7 DEF RowsAreRight, PartsAreDue
<1>9. RepliesAreDue'
  <2> SUFFICES ASSUME NEW w \in Writers, NEW r \in PartIds, Saying(w)', reply'[w].part = r
               PROVE  /\ Shown(r)' # Missing
                      /\ Alone(w)' /\ r \notin torn' /\ partRow'[r].kind = "none" =>
                            Shown(r)' = IF reply'[w].at = "set" THEN 0 ELSE 1
    BY DEF RepliesAreDue
  <2>1. Saying(w) /\ Alone(w)' = Alone(w) /\ reply'[w] = reply[w]
    BY DEF Saying, Alone
  <2>2. reply[w].part \in PartIds
    BY <2>1, StreamFields DEF RowsAreRight, RepliesApart, Saying, Writing
  <2>3. CASE reply[w].part = p
    BY <1>1, <2>1, <2>3 DEF Missing
  <2>4. CASE reply[w].part # p
    BY <1>1, <2>1, <2>2, <2>4 DEF RowsAreRight, RepliesAreDue
  <2> QED
    BY <2>3, <2>4
<1> QED
  BY <1>4, <1>5, <1>6, <1>8, <1>9 DEF RowsAreRight

LEMMA RowsAfterResult ==
    ASSUME TranscriptTypeOK, RowsAreRight, NEW p \in PartIds, RecordToolResult(p)
    PROVE  RowsAreRight'
<1>1. /\ partRow[p].kind = "call" /\ partRow[p].n = 1 /\ AppendChunk(Set(p, 2))
      /\ UNCHANGED <<turn, modelStream, reply, torn>>
      /\ partRow'[p].n = 2 /\ partRow'[p].kind = "call" /\ partRow'[p].call = partRow[p].call
      /\ \A q \in PartIds \ {p} : partRow'[q] = partRow[q]
  BY DEF RecordToolResult, TranscriptTypeOK, PartRow
<1>2. p \notin {modelStream.text, modelStream.reasoning, modelStream.call}
  BY <1>1, StreamFields DEF RowsAreRight, StreamApart, Owns
<1>3. partRow'[p].call <= turn.calls + 1
  BY <1>1 DEF RowsAreRight, RowsWait
<1> QED
  BY <1>1, <1>2, <1>3, RowsAfterSet

LEMMA RowsAfterConflict ==
    ASSUME TranscriptTypeOK, RowsAreRight, RecordConflict
    PROVE  RowsAreRight'
<1>1. PICK p \in PartIds : p = NextPartIdx /\ partRow[p].kind = "none"
  BY FreePart DEF RecordConflict
<1>2. /\ AppendChunk(Set(p, 1)) /\ torn' = torn \ {p} /\ UNCHANGED <<turn, modelStream, reply>>
      /\ partRow' = [partRow EXCEPT ![p] = Notice(FALSE)]
  BY <1>1 DEF RecordConflict
<1>3. /\ partRow'[p] = Notice(FALSE)
      /\ \A q \in PartIds \ {p} : partRow'[q] = partRow[q]
  BY <1>2 DEF TranscriptTypeOK
<1>4. p \notin {modelStream.text, modelStream.reasoning, modelStream.call}
  BY <1>1, StreamFields DEF RowsAreRight, StreamApart, Owns
<1>5. partRow'[p].call <= turn.calls + 1
  BY <1>3, StreamFields DEF Notice
<1>6. partRow'[p].kind = "text" /\ partRow'[p].n = 1
  BY <1>3 DEF Notice
<1> QED
  BY <1>2, <1>3, <1>4, <1>5, <1>6, RowsAfterSet

\* A reply moves, is written or is lost.
LEMMA RowsAfterReply ==
    ASSUME TranscriptTypeOK, RowsAreRight, NEW w \in Writers, ReplyStep(w)
    PROVE  RowsAreRight'
<1>p. PICK p : p = reply[w].part
  OBVIOUS
<1>0. /\ reply[w] \in Reply /\ reply \in [Writers -> Reply]
      /\ Writing(w) => p \in PartIds
      /\ p # 0 => p \in PartIds
  BY <1>p, StreamFields DEF RowsAreRight, RepliesApart, TranscriptTypeOK
<1>1. /\ UNCHANGED modelStream /\ turn'.calls = turn.calls /\ turn'.driver = turn.driver
      /\ \A v \in Writers \ {w} : reply'[v] = reply[v]
  BY <1>0 DEF ReplyStep, BeginReply, AddTextPart, AppendReply, PersistReply, CloseReply, FailRun, SetRunStatus,
         ReplyCut, SayTheEnd, TranscriptTypeOK, Turn
<1>2. modelStream = NoStream
  <2>1. Writing(w) \/ BeginReply(w)
    BY DEF ReplyStep, AddTextPart, AppendReply, PersistReply, CloseReply, FailRun, SetRunStatus, ReplyCut,
           Saying, Writing
  <2>2. turn.driver = "host" => turn.calls >= MaxCalls
    BY <2>1 DEF RowsAreRight, RepliesApart, BeginReply
  <2>3. modelStream.at = "idle"
    BY <2>2, StreamFields, TranscriptAssumption DEF RowsAreRight, StreamApart
  <2> QED
    BY <2>3 DEF RowsAreRight, StreamApart
<1>3. modelStream.text = 0 /\ modelStream.reasoning = 0 /\ modelStream.call = 0 /\ 0 \notin PartIds
  BY <1>2, StreamFields DEF NoStream
<1>4. \A q \in PartIds : Due(q) = StoredParts[q] /\ Due(q)' = StoredParts[q]'
  BY <1>1, <1>3 DEF Due
<1>5. StreamApart'
  BY <1>1, <1>2, <1>3 DEF RowsAreRight, StreamApart, Owns, Counts, NoStream
<1>6. ASSUME \A q \in PartIds : partRow'[q] = partRow[q] \/ (partRow'[q].kind = "text" /\ partRow'[q].call = 0)
      PROVE  RowsWait'
  BY <1>1, <1>6, StreamFields DEF RowsAreRight, RowsWait
<1>7. ASSUME ~ Writing(w)' \/ (reply'[w].part # 0 /\ (turn.driver = "host" => turn.calls >= MaxCalls))
      PROVE  RepliesApart'
  BY <1>1, <1>7 DEF RowsAreRight, RepliesApart, Writing
<1>8. Writing(w) /\ turn.driver = "host" => turn.calls >= MaxCalls
  BY DEF RowsAreRight, RepliesApart
<1>9. \A v \in Writers : Saying(v) => reply[v].part \in PartIds
  BY StreamFields DEF RowsAreRight, RepliesApart, Saying, Writing
<1>10. CloseReply(w) \/ FailRun(w) => reply'[w].part = p /\ Writing(w) /\ ~ Saying(w)'
  <2>1. ASSUME reply' = [reply EXCEPT ![w].at = "closed"]
        PROVE  reply'[w].part = p /\ ~ Saying(w)'
    BY <1>p, <1>0, <2>1 DEF Reply, Saying
  <2>2. CloseReply(w) \/ FailRun(w) => Writing(w)
    BY DEF CloseReply, FailRun, Writing, Saying
  <2> QED
    BY <2>1, <2>2 DEF CloseReply, FailRun
<1>b. CASE BeginReply(w) \/ CloseReply(w) \/ SetRunStatus(w) \/ (ReplyCut(w) /\ ~ Saying(w))
           \/ (FailRun(w) /\ ~ Saying(w))
  <2>1. /\ UNCHANGED <<partRow, torn>> /\ ~ Saying(w) /\ ~ Saying(w)'
        /\ UNCHANGED retained \/ AppendChunk(Event("end"))
    <3>1. CASE BeginReply(w)
      BY <1>0, <3>1 DEF BeginReply, Saying
    <3>2. CASE CloseReply(w)
      BY <1>0, <3>2 DEF CloseReply, SayTheEnd, UnchangedLog, Saying
    <3>3. CASE FailRun(w) /\ ~ Saying(w)
      BY <1>0, <3>3 DEF FailRun, SayTheEnd, UnchangedLog, Saying
    <3>4. CASE SetRunStatus(w)
      BY <1>0, <3>4 DEF SetRunStatus, Saying, Over, NoReply
    <3>5. CASE ReplyCut(w) /\ ~ Saying(w)
      BY <1>0, <3>5 DEF ReplyCut, Saying, Over, NoReply
    <3> QED
      BY <1>b, <3>1, <3>2, <3>3, <3>4, <3>5
  <2>2. \A q \in PartIds : Shown(q)' = Shown(q) /\ StoredParts[q]' = StoredParts[q]
    BY <2>1, ShownAfter DEF StoredParts
  <2>3. ~ Writing(w)' \/ (reply'[w].part # 0 /\ (turn.driver = "host" => turn.calls >= MaxCalls))
    <3>1. CASE BeginReply(w)
      BY <1>0, <1>3, <3>1, FreePart DEF BeginReply
    <3>2. CASE CloseReply(w) \/ FailRun(w)
      BY <1>0, <1>3, <1>8, <1>10, <3>2
    <3>3. CASE SetRunStatus(w) \/ ReplyCut(w)
      BY <1>0, <3>3 DEF SetRunStatus, ReplyCut, Writing, Over, NoReply
    <3> QED
      BY <1>b, <3>1, <3>2, <3>3
  <2>4. \A v \in Writers : Saying(v)' = Saying(v) /\ (Saying(v) => v # w /\ reply'[v] = reply[v])
    BY <1>1, <2>1 DEF Saying
  <2>5. \A q \in PartIds : Said(q) => Said(q)'
    BY <2>4 DEF Said
  <2>6. PartsAreDue'
    BY <1>4, <2>1, <2>2, <2>5 DEF RowsAreRight, PartsAreDue
  <2>7. \A v \in Writers : Saying(v) /\ Alone(v)' => Alone(v)
    BY <2>4 DEF Alone
  <2>8. RepliesAreDue'
    BY <1>9, <2>1, <2>2, <2>4, <2>7 DEF RowsAreRight, RepliesAreDue
  <2> QED
    BY <1>5, <1>6, <1>7, <2>1, <2>3, <2>6, <2>8 DEF RowsAreRight
<1>c. CASE AddTextPart(w)
  <2>1. /\ reply[w].at = "loaded" /\ reply'[w].at = "set" /\ reply'[w].part = p /\ p \in PartIds
        /\ AppendChunk(Set(p, 0)) /\ torn' = torn \ {p} /\ UNCHANGED partRow
    BY <1>p, <1>0, <1>c DEF AddTextPart, Writing, Reply
  <2>2. \A q \in PartIds : Shown(q)' = IF q = p THEN 0 ELSE Shown(q)
    BY <2>1, ShownAfter
  <2>3. \A q \in PartIds : StoredParts[q]' = StoredParts[q]
    BY <2>1 DEF StoredParts
  <2>4. /\ Saying(w)' /\ ~ Saying(w) /\ \A v \in Writers \ {w} : Saying(v)' = Saying(v)
    BY <1>1, <2>1 DEF Saying
  <2>5. Said(p)' /\ \A q \in PartIds : Said(q) => Said(q)'
    BY <1>1, <2>1, <2>4 DEF Said
  <2>6. PartsAreDue'
    BY <1>4, <2>1, <2>2, <2>3, <2>5 DEF RowsAreRight, PartsAreDue
  <2>7. ASSUME NEW v \in Writers, NEW r \in PartIds, Saying(v)', reply'[v].part = r
        PROVE  /\ Shown(r)' # Missing
               /\ Alone(v)' /\ r \notin torn' /\ partRow'[r].kind = "none" =>
                     Shown(r)' = IF reply'[v].at = "set" THEN 0 ELSE 1
    <3>1. CASE v = w
      BY <2>7, <2>1, <2>2, <3>1 DEF Missing
    <3>2. CASE v # w /\ reply[v].part = p
      <4>1. ~ Alone(v)'
        BY <2>7, <1>1, <2>1, <2>4, <3>2 DEF Alone
      <4> QED
        BY <2>7, <1>1, <2>1, <2>2, <3>2, <4>1 DEF Missing
    <3>3. CASE v # w /\ reply[v].part # p
      <4>1. Saying(v) /\ reply'[v] = reply[v] /\ reply[v].part \in PartIds
        BY <1>1, <1>9, <2>4, <2>7, <3>3
      <4>2. Alone(v)' => Alone(v)
        BY <2>7, <1>1, <2>4, <4>1 DEF Alone
      <4> QED
        BY <2>7, <2>1, <2>2, <3>3, <4>1, <4>2 DEF RowsAreRight, RepliesAreDue
    <3> QED
      BY <2>7, <3>1, <3>2, <3>3
  <2>8. RepliesAreDue'
    BY <2>7 DEF RepliesAreDue
  <2>9. RepliesApart'
    BY <1>3, <1>7, <1>8, <2>1 DEF Writing
  <2> QED
    BY <1>5, <1>6, <2>1, <2>6, <2>8, <2>9 DEF RowsAreRight
<1>d. CASE AppendReply(w)
  <2> DEFINE gain == [NoGain EXCEPT ![p] = 1]
  <2>1. gain \in [PartIds -> Nat] /\ \A q \in PartIds : gain[q] = IF q = p THEN 1 ELSE 0
    BY DEF NoGain
  <2>2. /\ reply[w].at = "set" /\ reply'[w].at = "said" /\ reply'[w].part = p /\ p \in PartIds
        /\ AppendChunk(AppendText(gain)) /\ UNCHANGED <<partRow, torn>>
    BY <1>p, <1>0, <1>d DEF AppendReply, Writing, Reply
  <2> HIDE DEF gain
  <2>3. \A q \in PartIds : Shown(q) \in Amount /\ Shown(q)' = Shown(q) + gain[q]
    BY <2>1, <2>2, ShownAfter
  <2>4. \A q \in PartIds \ {p} : Shown(q)' = Shown(q)
    BY <2>1, <2>3 DEF Amount, Missing
  <2>5. Shown(p) # Missing /\ Shown(p) \in Nat /\ Shown(p)' = Shown(p) + 1
    <3>1. Shown(p) # Missing
      BY <1>p, <2>2 DEF RowsAreRight, RepliesAreDue, Saying
    <3> QED
      BY <2>1, <2>2, <2>3, <3>1 DEF Amount
  <2>6. \A q \in PartIds : StoredParts[q]' = StoredParts[q]
    BY <2>2 DEF StoredParts
  <2>7. Saying(w) /\ \A v \in Writers : Saying(v)' = Saying(v) /\ reply'[v].part = reply[v].part
    BY <1>p, <1>1, <2>2 DEF Saying
  <2>8. (\A q \in PartIds : Said(q)' = Said(q)) /\ Said(p) /\ \A v \in Writers : Alone(v)' = Alone(v)
    BY <1>p, <2>7 DEF Said, Alone
  <2>9. PartsAreDue'
    BY <1>4, <2>2, <2>4, <2>6, <2>8 DEF RowsAreRight, PartsAreDue
  <2>10. ASSUME NEW v \in Writers, NEW r \in PartIds, Saying(v)', reply'[v].part = r
         PROVE  /\ Shown(r)' # Missing
                /\ Alone(v)' /\ r \notin torn' /\ partRow'[r].kind = "none" =>
                      Shown(r)' = IF reply'[v].at = "set" THEN 0 ELSE 1
    <3>1. CASE v = w
      <4>1. Alone(w) /\ p \notin torn /\ partRow[p].kind = "none" => Shown(p) = 0
        BY <2>10, <1>p, <2>2, <2>7 DEF RowsAreRight, RepliesAreDue
      <4> QED
        BY <2>10, <2>2, <2>5, <2>8, <3>1, <4>1 DEF Missing
    <3>2. CASE v # w /\ reply[v].part = p
      <4>1. ~ Alone(v)'
        BY <2>10, <2>2, <2>7, <3>2 DEF Alone
      <4> QED
        BY <2>10, <1>1, <2>5, <3>2, <4>1 DEF Missing
    <3>3. CASE v # w /\ reply[v].part # p
      <4>1. Saying(v) /\ reply'[v] = reply[v] /\ reply[v].part \in PartIds
        BY <1>1, <1>9, <2>7, <2>10, <3>3
      <4> QED
        BY <2>10, <2>2, <2>4, <2>8, <3>3, <4>1 DEF RowsAreRight, RepliesAreDue
    <3> QED
      BY <2>10, <3>1, <3>2, <3>3
  <2>11. RepliesAreDue'
    BY <2>10 DEF RepliesAreDue
  <2>12. RepliesApart'
    BY <1>3, <1>7, <1>8, <2>2 DEF Writing
  <2> QED
    BY <1>5, <1>6, <2>2, <2>9, <2>11, <2>12 DEF RowsAreRight
<1>e. CASE PersistReply(w)
  <2>1. /\ reply[w].at = "said" /\ ~ Saying(w)' /\ p \in PartIds /\ UNCHANGED retained
        /\ partRow' = [partRow EXCEPT ![p] = Notice(partRow[p].kind # "none")]
        /\ torn \subseteq torn' /\ (partRow[p].kind # "none" => p \in torn')
    BY <1>p, <1>0, <1>e, TranscriptAssumption DEF PersistReply, Writing, Saying, Reply, Over, NoReply, PartIds
  <2>2. /\ partRow'[p] = Notice(partRow[p].kind # "none")
        /\ \A q \in PartIds \ {p} : partRow'[q] = partRow[q]
    BY <2>1 DEF TranscriptTypeOK
  <2>3. StoredParts[p]' = 1 /\ \A q \in PartIds \ {p} : StoredParts[q]' = StoredParts[q]
    BY <2>1, <2>2 DEF StoredParts, Notice
  <2>4. \A q \in PartIds : Shown(q)' = Shown(q)
    BY <2>1 DEF Shown
  <2>5. Saying(w) /\ \A v \in Writers \ {w} : Saying(v)' = Saying(v)
    BY <1>1, <2>1 DEF Saying
  <2>6. ASSUME NEW q \in PartIds \ torn' PROVE Said(q)' \/ Shown(q)' \in {Missing, Due(q)'}
    <3>1. CASE q = p
      <4>1. CASE Alone(w)
        <5>1. Shown(p) = 1
          BY <1>p, <2>1, <2>5, <2>6, <3>1, <4>1 DEF RowsAreRight, RepliesAreDue
        <5> QED
          BY <2>6, <1>4, <2>3, <2>4, <3>1, <5>1
      <4>2. CASE ~ Alone(w)
        <5>1. PICK v \in Writers : Saying(v) /\ reply[v].part = p /\ v # w
          BY <2>6, <1>p, <4>2 DEF Alone
        <5>2. Said(p)'
          BY <2>6, <1>1, <2>5, <5>1 DEF Said
        <5> QED
          BY <2>6, <3>1, <5>2
      <4> QED
        BY <2>6, <4>1, <4>2
    <3>2. CASE q # p
      <4>1. Said(q) => Said(q)'
        BY <2>6, <1>p, <1>1, <2>5, <3>2 DEF Said
      <4> QED
        BY <1>4, <2>1, <2>3, <2>4, <2>6, <3>2, <4>1 DEF RowsAreRight, PartsAreDue
    <3> QED
      BY <2>6, <3>1, <3>2
  <2>7. ASSUME NEW v \in Writers, NEW r \in PartIds, Saying(v)', reply'[v].part = r
        PROVE  /\ Shown(r)' # Missing
               /\ Alone(v)' /\ r \notin torn' /\ partRow'[r].kind = "none" =>
                     Shown(r)' = IF reply'[v].at = "set" THEN 0 ELSE 1
    <3>1. v # w /\ Saying(v) /\ reply'[v] = reply[v] /\ reply[v].part \in PartIds
      BY <1>1, <1>9, <2>1, <2>5, <2>7
    <3>2. CASE reply[v].part = p
      BY <2>7, <2>2, <2>4, <3>1, <3>2 DEF RowsAreRight, RepliesAreDue, Notice
    <3>3. CASE reply[v].part # p
      <4>1. Alone(v)' => Alone(v)
        BY <2>7, <1>p, <1>1, <2>5, <3>1, <3>3 DEF Alone
      <4> QED
        BY <2>7, <2>1, <2>2, <2>4, <3>1, <3>3, <4>1 DEF RowsAreRight, RepliesAreDue
    <3> QED
      BY <2>7, <3>2, <3>3
  <2>8. PartsAreDue' /\ RepliesAreDue'
    BY <2>6, <2>7 DEF PartsAreDue, RepliesAreDue
  <2>9. RepliesApart'
    <3>1. ~ Writing(w)' \/ reply'[w].part = p
      BY <1>p, <1>0, <1>e DEF PersistReply, Writing, Over, NoReply
    <3>2. Writing(w)
      BY <2>1 DEF Writing
    <3> QED
      BY <1>3, <1>7, <1>8, <2>1, <3>1, <3>2
  <2>10. RowsWait'
    BY <1>6, <2>2 DEF Notice
  <2> QED
    BY <1>5, <2>8, <2>9, <2>10 DEF RowsAreRight
<1>f. CASE (ReplyCut(w) \/ FailRun(w)) /\ Saying(w)
  <2>1. /\ UNCHANGED partRow /\ torn' = torn \cup ShownOnly({p}) /\ p \in PartIds
        /\ ~ Saying(w)' /\ (UNCHANGED retained \/ AppendChunk(Event("end")))
    <3>1. p \in PartIds
      BY <1>p, <1>9, <1>f
    <3>2. CASE ReplyCut(w)
      BY <1>p, <1>0, <1>f, <3>1, <3>2 DEF ReplyCut, Saying, Over, NoReply
    <3>3. CASE FailRun(w)
      BY <1>p, <1>10, <1>f, <3>1, <3>3 DEF FailRun, SayTheEnd, UnchangedLog
    <3> QED
      BY <1>f, <3>2, <3>3
  <2>2. \A q \in PartIds : Shown(q)' = Shown(q) /\ StoredParts[q]' = StoredParts[q]
    BY <2>1, ShownAfter DEF StoredParts
  <2>3. \A v \in Writers \ {w} : Saying(v)' = Saying(v)
    BY <1>1 DEF Saying
  <2>4. p \notin torn' => Shown(p) \in {Missing, StoredParts[p]}
    BY <2>1 DEF ShownOnly, Shown
  <2>5. ASSUME NEW q \in PartIds \ torn' PROVE Said(q)' \/ Shown(q)' \in {Missing, Due(q)'}
    <3>1. CASE q = p
      BY <1>4, <2>2, <2>4, <2>5, <3>1
    <3>2. CASE q # p
      <4>1. Said(q) => Said(q)'
        BY <2>5, <1>p, <1>1, <2>3, <3>2 DEF Said
      <4> QED
        BY <1>4, <2>1, <2>2, <2>5, <4>1 DEF RowsAreRight, PartsAreDue
    <3> QED
      BY <2>5, <3>1, <3>2
  <2>6. ASSUME NEW v \in Writers, NEW r \in PartIds, Saying(v)', reply'[v].part = r
        PROVE  /\ Shown(r)' # Missing
               /\ Alone(v)' /\ r \notin torn' /\ partRow'[r].kind = "none" =>
                     Shown(r)' = IF reply'[v].at = "set" THEN 0 ELSE 1
    <3>1. v # w /\ Saying(v) /\ reply'[v] = reply[v] /\ reply[v].part \in PartIds
      BY <1>1, <1>9, <2>1, <2>3, <2>6
    <3>2. Shown(reply[v].part) # Missing
      BY <2>6, <3>1 DEF RowsAreRight, RepliesAreDue
    <3>3. CASE reply[v].part = p
      <4>1. partRow[p].kind = "none" => StoredParts[p] = Missing
        BY <2>6, <2>1 DEF StoredParts
      <4> QED
        BY <2>6, <2>1, <2>2, <2>4, <3>1, <3>2, <3>3, <4>1
    <3>4. CASE reply[v].part # p
      <4>1. Alone(v)' => Alone(v)
        BY <2>6, <1>p, <1>1, <2>3, <3>1, <3>4 DEF Alone
      <4> QED
        BY <2>6, <2>1, <2>2, <3>1, <4>1 DEF RowsAreRight, RepliesAreDue
    <3> QED
      BY <2>6, <3>3, <3>4
  <2>7. PartsAreDue' /\ RepliesAreDue'
    BY <2>5, <2>6 DEF PartsAreDue, RepliesAreDue
  <2>8. RepliesApart'
    <3>1. ~ Writing(w)' \/ reply'[w].part = p
      BY <1>0, <1>10, <1>f DEF ReplyCut, Writing, Over, NoReply
    <3>2. Writing(w)
      BY <1>f DEF Writing, Saying
    <3> QED
      BY <1>3, <1>7, <1>8, <2>1, <3>1, <3>2
  <2> QED
    BY <1>5, <1>6, <2>1, <2>7, <2>8 DEF RowsAreRight
<1> QED
  BY <1>b, <1>c, <1>d, <1>e, <1>f DEF ReplyStep

\* The process dies: what its writers showed and did not store is torn.
LEMMA RowsAfterDeath ==
    ASSUME TranscriptTypeOK, RowsAreRight, ServerDies
    PROVE  RowsAreRight'
<1>1. /\ modelStream' = NoStream /\ turn'.calls = turn.calls /\ UNCHANGED <<partRow, retained>>
      /\ torn' = torn \cup ShownOnly(StreamTexts \cup {reply[w].part : w \in {v \in Writers : Saying(v)}})
  BY DEF ServerDies, TranscriptTypeOK, Turn
<1>2. /\ modelStream'.text = 0 /\ modelStream'.reasoning = 0 /\ modelStream'.call = 0
      /\ modelStream'.mirror = 0 /\ modelStream'.at = "idle"
      /\ modelStream'.total["text"] = 0 /\ modelStream'.total["reasoning"] = 0
      /\ modelStream'.pending["text"] = 0 /\ modelStream'.pending["reasoning"] = 0
  BY <1>1 DEF NoStream
<1>3. \A w \in Writers : ~ Writing(w)' /\ ~ Saying(w)'
  BY DEF ServerDies, Writing, Saying, Over, NoReply
<1>4. ASSUME NEW q \in PartIds \ torn' PROVE Shown(q)' \in {Missing, Due(q)'}
  <2>1. Shown(q)' = Shown(q) /\ StoredParts[q]' = StoredParts[q] /\ q # 0
    BY <1>1, StreamFields DEF Shown, StoredParts
  <2>2. Due(q)' = StoredParts[q]
    BY <1>2, <2>1 DEF Due
  <2>3. CASE q \in StreamTexts \/ Said(q)
    <3>1. q \in StreamTexts \cup {reply[w].part : w \in {v \in Writers : Saying(v)}}
      BY <2>3 DEF Said
    <3> QED
      BY <1>1, <1>4, <2>1, <2>2, <3>1 DEF ShownOnly, Shown
  <2>4. CASE q \notin StreamTexts /\ ~ Said(q)
    <3>1. Due(q) = StoredParts[q]
      BY <2>1, <2>4 DEF StreamTexts, Due
    <3> QED
      BY <1>1, <1>4, <2>1, <2>2, <2>4, <3>1 DEF RowsAreRight, PartsAreDue
  <2> QED
    BY <2>3, <2>4
<1>5. StreamApart' /\ RowsWait'
  BY <1>1, <1>2 DEF RowsAreRight, StreamApart, RowsWait, Owns, Counts
<1> QED
  BY <1>3, <1>4, <1>5 DEF RowsAreRight, PartsAreDue, RepliesApart, RepliesAreDue

LEMMA RowsStayRight ==
    ASSUME TranscriptTypeOK, LogIsKept, RowsAreRight, TranscriptNext
    PROVE  RowsAreRight'
<1>1. CASE BeginRun \/ FinishRun \/ LoadNoSession \/ FinishStatusOnly \/ BeginFails \/ WorkerStarts
           \/ Detach \/ RefreshDetachedApproval
  BY <1>1, CatalogueUntouched
     DEF BeginRun, FinishRun, LoadNoSession, FinishStatusOnly, BeginFails, WorkerStarts, Detach, EndSilently,
         RefreshDetachedApproval, TranscriptTypeOK, Turn
<1>2. CASE SessionNext \/ ViewerNext
  BY <1>2, CatalogueUntouched DEF SessionNext, LoadSession, SaveSession, MaySave, LogIsKept, ViewerNext,
         DrainChunks, DrainFails, EndOrPoll, StreamExpires, Leave, ResumeState, Resume
<1>3. CASE ServerDies
  BY <1>3, RowsAfterDeath
<1>4. CASE \/ OpenStream \/ MirrorPart \/ Flush \/ HangUp \/ FinishFlush \/ FinishRows
           \/ \E kind \in {"text", "reasoning"} : CreatePart(kind) \/ Delta(kind)
           \/ ToolCallDelta
  <2>1. UNCHANGED reply /\ (modelStream.at # "idle" \/ OpenStream)
    BY <1>4 DEF OpenStream, MirrorPart, Flush, HangUp, FinishFlush, FinishRows, CreatePart, Delta, ToolCallDelta
  <2>2. StreamRight /\ Quiet
    BY <2>1, QuietStream
  <2>3. StreamRight'
    BY <1>4, <2>2, RowsAfterOpening, RowsAfterPart, RowsAfterMirror, RowsAfterDelta, RowsAfterFlush,
       RowsAfterHangUp, RowsAfterFinishFlush, RowsAfterFinish DEF ToolCallDelta
  <2> QED
    BY <2>1, <2>2, <2>3, QuietAfter
<1> QED
  BY <1>1, <1>2, <1>3, <1>4, RowsAfterResult, RowsAfterConflict, RowsAfterReply
     DEF TranscriptNext, WriterNext, ToolCallDelta, ReplyStep

-----------------------------------------------------------------------------
(* The theorems.                                                           *)

LEMMA TranscriptInvInitially == TranscriptInit => TranscriptInv
<1> SUFFICES ASSUME TranscriptInit PROVE TranscriptInv
  OBVIOUS
<1>1. TranscriptTypeOK
  BY TypesAtStart
<1>2. RowsAreRight
  <2>1. modelStream = NoStream /\ \A w \in Writers : ~ Writing(w) /\ ~ Saying(w)
    BY DEF TranscriptInit, NoReply, Writing, Saying
  <2>2. \A p \in PartIds : Shown(p) = Missing
    BY DEF TranscriptInit, Shown, Blank
  <2>3. \A p \in PartIds : partRow[p].kind = "none" /\ partRow[p].call = 0
    BY DEF TranscriptInit
  <2>4. PartsAreDue /\ RepliesApart /\ RepliesAreDue
    BY <2>1, <2>2 DEF PartsAreDue, RepliesApart, RepliesAreDue
  <2> QED
    BY <1>1, <2>1, <2>3, <2>4, StreamFields
       DEF RowsAreRight, StreamApart, RowsWait, Owns, Counts, NoStream
<1>3. chunk = << >> /\ retained = [view |-> Blank, checkpoint |-> 0] /\ viewer.view = Blank /\ viewer.cursor = 0
      /\ ~ runSession.loaded /\ Active /\ viewer.at = "drained" /\ ~ viewer.terminal
      /\ \A w \in Writers : reply[w].at = "idle"
  BY DEF TranscriptInit, NoSession, NoReply, Active
<1>4. << >> \in Seq(Chunk) /\ Len(<< >>) = 0 /\ 0 \in 0 .. Len(<< >>) /\ 1 \in Nat \ {0} /\ 0 < 1
  OBVIOUS
<1>5. Replayed(Blank, << >>, 1, 0) = Blank
  BY <1>4, BlankTyped, ReplayedNothing
<1>6. LogIsKept
  BY <1>3, <1>4, <1>5 DEF LogIsKept, SnapshotIsTheLog
<1>7. EndIsLogged /\ ViewerFollows
  BY <1>3, <1>4, <1>5 DEF EndIsLogged, ViewerFollows
<1> QED
  BY <1>1, <1>2, <1>6, <1>7 DEF TranscriptInv

\* Every reachable state of a run's transcript satisfies the invariant, whatever
\* the number of parts, deltas, streams, returns and deaths (AppendChunk,
\* modelProxySession, streamRun and the writers beside them).
THEOREM TranscriptIsSound == TranscriptSpec => []TranscriptInv
<1>1. TranscriptInit => TranscriptInv
  BY TranscriptInvInitially
<1>2. TranscriptInv /\ [TranscriptNext]_transcriptVars => TranscriptInv'
  <2> SUFFICES ASSUME TranscriptInv, [TranscriptNext]_transcriptVars PROVE TranscriptInv'
    OBVIOUS
  <2>1. CASE TranscriptNext
    <3>1. TranscriptTypeOK'
      BY <2>1, TypeKept DEF TranscriptInv, RowsAreRight
    <3> QED
      BY <2>1, <3>1, RowsStayRight, LogStaysKept, EndStaysLogged, ViewerStillFollows
         DEF TranscriptInv, RowsAreRight
  <2>2. CASE UNCHANGED transcriptVars
    <3>1. UNCHANGED <<turn, partRow, chunk, retained, modelStream, reply, runSession, viewer, torn>>
      BY <2>2 DEF transcriptVars
    <3>2. RowsAreRight'
      BY <3>1, CatalogueUntouched DEF TranscriptInv
    <3> QED
      BY <3>1, <3>2 DEF TranscriptInv, TranscriptTypeOK, LogIsKept, SnapshotIsTheLog, EndIsLogged,
                        ViewerFollows, Active
  <2> QED
    BY <2>1, <2>2
<1> QED
  BY <1>1, <1>2, PTL DEF TranscriptSpec

\* The rows, events, streams and views keep their shape (agent_message_parts,
\* agent_run_chunks, harnessTranscript).
THEOREM TranscriptTypes == TranscriptSpec => []TranscriptTypeOK
<1>1. TranscriptInv => TranscriptTypeOK
  BY DEF TranscriptInv
<1> QED
  BY <1>1, TranscriptIsSound, PTL

\* A session that was loaded before later events were logged never rolls the
\* retained snapshot back (AppendChunk, SaveRunState).
THEOREM LogIsNeverRolledBack == TranscriptSpec => []SnapshotIsTheLog
<1>1. TranscriptInv => SnapshotIsTheLog
  BY DEF TranscriptInv, LogIsKept
<1> QED
  BY <1>1, TranscriptIsSound, PTL

\* A browser that stayed until the [DONE] of a terminal status has been shown the
\* end of the run, unless the run was ended by its status alone, the event of its
\* end could not be written, or the last read of the log failed; and only such an
\* end leaves a log that shows the run as running (streamRun, finishRun, succeed,
\* failRun, MarkInterruptedRuns, detachPendingBrowserApproval).
THEOREM TheEndIsShown == TranscriptSpec => []DoneShowsTheEnd
<1>1. TranscriptInv => DoneShowsTheEnd
  BY DEF TranscriptInv, ViewerFollows, EndIsLogged, DoneShowsTheEnd
<1> QED
  BY <1>1, TranscriptIsSound, PTL

\* Once nobody writes, the rows hold what was streamed, for any number of streams
\* and of requests that write the notice of a spent budget side by side, but for
\* the parts whose writer was lost while they differed and those from an index on
\* that two writers shared (finish, recordToolResult, persistTextPart).
THEOREM RowsHoldWhatWasStreamed == TranscriptSpec => []ReloadShowsWhatWasStreamed
<1>1. ASSUME TranscriptInv, modelStream.at = "idle", \A w \in Writers : ~ Writing(w),
             NEW p \in PartIds \ torn
      PROVE  retained.view.part[p] \in {Missing, StoredParts[p]}
  <2>1. modelStream = NoStream /\ TranscriptTypeOK
    BY <1>1 DEF TranscriptInv, RowsAreRight, StreamApart
  <2>2. ~ Said(p)
    BY <1>1 DEF Said, Saying, Writing
  <2>3. Due(p) = StoredParts[p]
    BY <2>1, StreamFields DEF Due, NoStream
  <2> QED
    BY <1>1, <2>2, <2>3 DEF TranscriptInv, RowsAreRight, PartsAreDue, Shown
<1>2. TranscriptInv => ReloadShowsWhatWasStreamed
  BY <1>1 DEF ReloadShowsWhatWasStreamed
<1> QED
  BY <1>2, TranscriptIsSound, PTL

-----------------------------------------------------------------------------
(***************************************************************************)
(* The sidecar, for any threshold and any number of restarts.  The         *)
(* inductive invariant of OneChild says where a command that may still     *)
(* have a process is known: it is the command the supervisor stores, or    *)
(* the one its goroutine waits for, and there is none while it backs off.  *)
(***************************************************************************)


\* The commands that have a process, or may get one.
Busy == {p \in Commands : Launching(p) \/ Alive(p)}

Located ==
    spawn => /\ \A p, q \in Busy : p = q
             /\ loop = "backoff" => Busy = {}
             /\ loop = "waiting" => \A p \in Busy : p = watched
             \* Stop forgets the command.
             /\ loop \in {"reading", "launching", "asking", "answered"} =>
                    \A p \in Busy : p = sup.cmd \/ sup.cmd = 0
             /\ loop = "none" => \A p \in Busy : p = sup.cmd
             /\ loop = "none" <=> starter # "ready"
             /\ starter = "idle" => Busy = {}
             /\ loop \notin {"probing", "silent"}

ChildInv == SidecarTypeOK /\ Located

-----------------------------------------------------------------------------
(* Types.                                                                   *)

LEMMA CommandNumbers == Commands \subseteq 1..MaxSpawns /\ Commands \subseteq 0..MaxSpawns
                        /\ 0 \notin Commands /\ 1 \in Commands /\ 0 \in 0..MaxSpawns
  BY SidecarAssumption DEF Commands

\* What the critical sections write is a Supervisor.
LEMMA FieldTypes ==
    ASSUME SidecarTypeOK
    PROVE  /\ Failed \in Supervisor /\ Failed.cmd = sup.cmd
           /\ Recovered \in Supervisor /\ Recovered.cmd = sup.cmd
  <1>1. /\ sup.cmd \in 0..MaxSpawns /\ sup.failures \in 0..Threshold
        /\ sup.unavailable \in BOOLEAN /\ sup.cancelled \in BOOLEAN
        BY DEF SidecarTypeOK, Supervisor
  <1> DEFINE n == IF sup.failures < Threshold THEN sup.failures + 1 ELSE Threshold
  <1>2. n \in 0..Threshold /\ 0 \in 0..Threshold
        BY <1>1, SidecarAssumption
  <1>3. (sup.unavailable \/ n >= Threshold) \in BOOLEAN
        OBVIOUS
  <1> HIDE DEF n
  <1>4. /\ [sup EXCEPT !.failures = n, !.unavailable = sup.unavailable \/ n >= Threshold]
               \in Supervisor
        /\ [sup EXCEPT !.failures = n, !.unavailable = sup.unavailable \/ n >= Threshold].cmd
               = sup.cmd
        BY <1>1, <1>2, <1>3, Zenon DEF SidecarTypeOK, Supervisor
  <1>5. Failed = [sup EXCEPT !.failures = n, !.unavailable = sup.unavailable \/ n >= Threshold]
        BY DEF Failed, n
  <1>6. Recovered \in Supervisor /\ Recovered.cmd = sup.cmd
        BY <1>1, <1>2 DEF Recovered, SidecarTypeOK, Supervisor
  <1> QED BY <1>4, <1>5, <1>6

LEMMA TypeStep == ASSUME SidecarTypeOK, [SidecarNext]_sidecarVars PROVE SidecarTypeOK'
  <1> USE CommandNumbers
  <1>1. CASE StartStep
    <2>1. CASE StartBegins
      <3>1. \A p \in Commands : [sup EXCEPT !.cmd = p] \in Supervisor
            BY DEF SidecarTypeOK, Supervisor
      <3> QED BY <2>1, <3>1 DEF StartBegins, BuildCommand, SidecarTypeOK
    <2>2. CASE StartReady
      <3>1. sup' = Recovered
            BY <2>2, Zenon DEF StartReady, Recovered, SidecarTypeOK, Supervisor
      <3> QED BY <2>2, <3>1, FieldTypes DEF StartReady, SidecarTypeOK
    <2>3. CASE StartSpawned \/ StartTimesOut
          BY <2>3 DEF StartSpawned, StartTimesOut, SidecarTypeOK
    <2> QED BY <1>1, <2>1, <2>2, <2>3 DEF StartStep
  <1>2. CASE LoopStep
    <2>1. CASE ChildExited
      <3>1. inARow \in Nat /\ sup \in Supervisor /\ Failed \in Supervisor
            BY FieldTypes DEF SidecarTypeOK
      <3>2. sup' \in {sup, Failed} /\ inARow' \in {inARow, inARow + 1}
            BY <2>1 DEF ChildExited
      <3>3. sup' \in Supervisor /\ inARow' \in Nat
            BY <3>1, <3>2
      <3>4. loop' \in {"done", "gave up", "backoff"}
            BY <2>1 DEF ChildExited
      <3> QED BY <2>1, <3>3, <3>4 DEF ChildExited, SidecarTypeOK
    <2>2. CASE ChildAnswered
          BY <2>2, FieldTypes DEF ChildAnswered, SidecarTypeOK
    <2>3. CASE ProbeRecords
          BY <2>3, FieldTypes DEF ProbeRecords, SidecarTypeOK
    <2>4. CASE SuperviseReads
          BY <2>4 DEF SuperviseReads, SidecarTypeOK, Supervisor
    <2>5. CASE AskChild \/ ProbeEnds
          BY <2>5 DEF AskChild, ProbeEnds, SidecarTypeOK
    <2>6. ASSUME NEW p \in Commands, Launch(p) \/ Fork(p) \/ Respawned(p) PROVE SidecarTypeOK'
          BY <2>6 DEF Launch, Fork, Respawned, SidecarTypeOK
    <2> QED BY <1>2, <2>1, <2>2, <2>3, <2>4, <2>5, <2>6 DEF LoopStep
  <1>3. CASE StopReads \/ StopStep
    <2>1. CASE StopReads
      <3>1. sup.cmd \in 0..MaxSpawns /\ [sup EXCEPT !.cmd = 0, !.unavailable = TRUE] \in Supervisor
            BY DEF SidecarTypeOK, Supervisor
      <3> QED BY <2>1, <3>1 DEF StopReads, SidecarTypeOK
    <2>2. CASE StopFindsNone \/ StopCancels
      <3>1. [sup EXCEPT !.cancelled = TRUE] \in Supervisor
            BY DEF SidecarTypeOK, Supervisor
      <3> QED BY <2>2, <3>1 DEF StopFindsNone, StopCancels, SidecarTypeOK
    <2>3. CASE StopTerminates \/ StopKills
          BY <2>3 DEF StopTerminates, StopKills, Terminated, Signalled, SidecarTypeOK
    <2>4. CASE StopSeesDone \/ StopReturns
          BY <2>4 DEF StopSeesDone, StopReturns, SidecarTypeOK
    <2> QED BY <1>3, <2>1, <2>2, <2>3, <2>4 DEF StopStep
  <1>4. CASE BackoffCancelled \/ Probe
        BY <1>4 DEF BackoffCancelled, Probe, SidecarTypeOK
  <1>5. ASSUME NEW p \in Commands, Respawn(p) PROVE SidecarTypeOK'
    <2>1. [sup EXCEPT !.cmd = p] \in Supervisor
          BY DEF SidecarTypeOK, Supervisor
    <2> QED BY <1>5, <2>1 DEF Respawn, BuildCommand, SidecarTypeOK
  <1>6. ASSUME NEW p \in Commands, ContextKills(p) \/ ChildBoots(p) \/ ChildDies(p)
        PROVE  SidecarTypeOK'
    <2>1. CASE ContextKills(p) \/ ChildDies(p)
          BY <2>1 DEF ContextKills, ChildDies, SidecarTypeOK
    <2>2. CASE ChildBoots(p)
          BY <2>2 DEF ChildBoots, SidecarTypeOK
    <2> QED BY <1>6, <2>1, <2>2
  <1>7. CASE HostReturns
        BY <1>7 DEF HostReturns, SidecarTypeOK
  <1>8. CASE UNCHANGED sidecarVars
        BY <1>8 DEF sidecarVars, SidecarTypeOK
  <1> QED BY <1>1, <1>2, <1>3, <1>4, <1>5, <1>6, <1>7, <1>8 DEF SidecarNext

-----------------------------------------------------------------------------
(* Where the child is.                                                      *)

LEMMA StartLocated == ASSUME ChildInv, StartStep PROVE Located'
  <1> USE DEF ChildInv
  <1>1. CASE StartBegins /\ spawn
    <2>1. Busy' \subseteq {1}
          BY <1>1 DEF StartBegins, BuildCommand, Located, Busy, Launching, Alive, SidecarTypeOK
    <2>2. sup'.cmd = 1 /\ starter' = "launching" /\ loop' = "none"
          BY <1>1 DEF StartBegins, BuildCommand, Located, SidecarTypeOK, Supervisor
    <2> QED BY <2>1, <2>2 DEF Located
  <1>2. CASE StartBegins /\ ~spawn
        BY <1>2 DEF StartBegins, Located
  <1>3. CASE StartSpawned \/ StartTimesOut
    <2>1. Busy' = Busy
          BY <1>3 DEF StartSpawned, StartTimesOut, Busy, Launching, Alive
    <2> QED BY <1>3, <2>1 DEF StartSpawned, StartTimesOut, Located
  <1>4. CASE StartReady
    <2>1. Busy' = Busy
          BY <1>4 DEF StartReady, Busy, Launching, Alive
    <2>2. sup'.cmd = sup.cmd
          BY <1>4 DEF StartReady, SidecarTypeOK, Supervisor
    <2>3. loop' = IF spawn THEN "reading" ELSE "probing"
          BY <1>4 DEF StartReady
    <2> QED BY <1>4, <2>1, <2>2, <2>3 DEF StartReady, Located
  <1> QED BY <1>1, <1>2, <1>3, <1>4 DEF StartStep

LEMMA LoopLocated == ASSUME ChildInv, LoopStep PROVE Located'
  <1> USE DEF ChildInv
  <1>1. CASE SuperviseReads
    <2>1. Busy' = Busy
          BY <1>1 DEF SuperviseReads, Busy, Launching, Alive
    <2>2. ~HasProcess(0)
          BY CommandNumbers DEF HasProcess
    <2> QED BY <1>1, <2>1, <2>2 DEF SuperviseReads, Located
  <1>2. CASE ChildExited
    <2>1. Busy' = Busy
          BY <1>2 DEF ChildExited, Busy, Launching, Alive
    <2>2. watched \notin Busy
          BY <1>2 DEF ChildExited, Busy, Launching, Alive
    <2>3. loop' \in {"done", "gave up", "backoff"} /\ loop = "waiting"
          BY <1>2 DEF ChildExited
    <2> QED BY <1>2, <2>1, <2>2, <2>3 DEF ChildExited, Located
  <1>3. CASE AskChild \/ ChildAnswered
    <2>1. Busy' = Busy
          BY <1>3 DEF AskChild, ChildAnswered, Busy, Launching, Alive
    <2>2. sup'.cmd = sup.cmd
          BY <1>3, FieldTypes DEF AskChild, ChildAnswered
    <2> QED BY <1>3, <2>1, <2>2 DEF AskChild, ChildAnswered, Located
  <1>4. ASSUME NEW p \in Commands, Launch(p) \/ Fork(p) \/ Respawned(p) PROVE Located'
    <2>1. Busy' \subseteq Busy
      <3>1. CASE Launch(p)
            BY <3>1 DEF Launch, Busy, Launching, Alive, SidecarTypeOK
      <3>2. CASE Fork(p)
            BY <3>2 DEF Fork, Busy, Launching, Alive, SidecarTypeOK
      <3>3. CASE Respawned(p)
            BY <3>3 DEF Respawned, Busy, Launching, Alive
      <3> QED BY <1>4, <3>1, <3>2, <3>3
    <2> QED BY <1>4, <2>1 DEF Launch, Fork, Respawned, Located
  <1>5. CASE ProbeRecords
        BY <1>5 DEF ProbeRecords, Located
  <1>6. CASE ProbeEnds
    <2>1. Busy' = Busy
          BY <1>6 DEF ProbeEnds, Busy, Launching, Alive
    <2> QED BY <1>6, <2>1 DEF ProbeEnds, Located
  <1> QED BY <1>1, <1>2, <1>3, <1>4, <1>5, <1>6 DEF LoopStep

LEMMA StopLocated == ASSUME ChildInv, StopReads \/ StopStep PROVE Located'
  <1> USE DEF ChildInv
  <1>1. CASE StopReads
    <2>1. Busy' = Busy
          BY <1>1 DEF StopReads, Busy, Launching, Alive
    <2>2. sup'.cmd = 0
          BY <1>1 DEF StopReads, SidecarTypeOK, Supervisor
    <2> QED BY <1>1, <2>1, <2>2 DEF StopReads, Located
  <1>2. CASE StopStep
    <2>1. Busy' \subseteq Busy
      <3>1. CASE StopTerminates \/ StopKills
            BY <3>1 DEF StopTerminates, StopKills, Terminated, Signalled, Busy, Launching, Alive,
                        SidecarTypeOK
      <3>2. CASE StopFindsNone \/ StopCancels \/ StopSeesDone \/ StopReturns
            BY <3>2 DEF StopFindsNone, StopCancels, StopSeesDone, StopReturns, Busy, Launching, Alive
      <3> QED BY <1>2, <3>1, <3>2 DEF StopStep
    <2>2. sup'.cmd = sup.cmd
          BY <1>2 DEF StopStep, StopFindsNone, StopTerminates, StopCancels, StopSeesDone, StopKills,
                      StopReturns, SidecarTypeOK, Supervisor
    <2>3. UNCHANGED <<spawn, loop, starter, watched>>
          BY <1>2 DEF StopStep, StopFindsNone, StopTerminates, StopCancels, StopSeesDone, StopKills,
                      StopReturns
    <2> QED BY <2>1, <2>2, <2>3 DEF Located
  <1> QED BY <1>1, <1>2

LEMMA ProcessLocated ==
    ASSUME ChildInv, NEW p \in Commands,
           Respawn(p) \/ ContextKills(p) \/ ChildBoots(p) \/ ChildDies(p)
    PROVE  Located'
  <1> USE DEF ChildInv
  <1>1. CASE Respawn(p)
    <2>1. spawn => Busy' \subseteq {p}
          BY <1>1 DEF Respawn, BuildCommand, Located, Busy, Launching, Alive, SidecarTypeOK
    <2>2. sup'.cmd = p /\ loop' = "launching"
          BY <1>1 DEF Respawn, BuildCommand, SidecarTypeOK, Supervisor
    <2> QED BY <1>1, <2>1, <2>2 DEF Respawn, Located
  <1>2. CASE ContextKills(p) \/ ChildBoots(p) \/ ChildDies(p)
    <2>1. p \in Busy
          BY <1>2 DEF ContextKills, Doomed, ChildBoots, ChildDies, Busy, Alive
    <2>2. Busy' \subseteq Busy
          BY <1>2, <2>1 DEF ContextKills, ChildBoots, ChildDies, Busy, Launching, Alive, SidecarTypeOK
    <2> QED BY <1>2, <2>2 DEF ContextKills, ChildBoots, ChildDies, Located
  <1> QED BY <1>1, <1>2

LEMMA ChildStep == ASSUME ChildInv, [SidecarNext]_sidecarVars PROVE ChildInv'
  <1>1. SidecarTypeOK'
        BY TypeStep DEF ChildInv
  <1>2. CASE StartStep \/ LoopStep \/ StopReads \/ StopStep
        BY <1>1, <1>2, StartLocated, LoopLocated, StopLocated DEF ChildInv
  <1>3. CASE BackoffCancelled \/ Probe
    <2>1. Busy' = Busy
          BY <1>3 DEF BackoffCancelled, Probe, Busy, Launching, Alive
    <2> QED BY <1>1, <1>3, <2>1 DEF BackoffCancelled, Probe, ChildInv, Located
  <1>4. ASSUME NEW p \in Commands,
               Respawn(p) \/ ContextKills(p) \/ ChildBoots(p) \/ ChildDies(p)
        PROVE  ChildInv'
        BY <1>1, <1>4, ProcessLocated DEF ChildInv
  <1>5. CASE HostReturns
        BY <1>1, <1>5 DEF HostReturns, ChildInv, Located
  <1>6. CASE UNCHANGED sidecarVars
    <2>1. Busy' = Busy
          BY <1>6 DEF sidecarVars, Busy, Launching, Alive
    <2> QED BY <1>1, <1>6, <2>1 DEF sidecarVars, ChildInv, Located
  <1> QED BY <1>2, <1>3, <1>4, <1>5, <1>6 DEF SidecarNext

-----------------------------------------------------------------------------

LEMMA InitChild == SidecarInit => ChildInv
  <1> SUFFICES ASSUME SidecarInit PROVE ChildInv
      OBVIOUS
  <1>1. SidecarTypeOK
        BY CommandNumbers, SidecarAssumption DEF SidecarInit, SidecarTypeOK, Supervisor
  <1>2. spawn => Busy = {}
        BY DEF SidecarInit, Busy, Launching, Alive
  <1> QED BY <1>1, <1>2 DEF ChildInv, Located, SidecarInit

\* In every state that Start, the goroutine and Stop can reach together, two
\* children of one server never run at the same time, although Stop may read the
\* command at any point of a restart (supervise, spawn, Stop).
THEOREM OneChildAtATime == SidecarSpec => []OneChild
  <1>1. SidecarInit => ChildInv
        BY InitChild
  <1>2. ChildInv /\ [SidecarNext]_sidecarVars => ChildInv'
        BY ChildStep
  <1>3. ChildInv => OneChild
        BY DEF ChildInv, Located, OneChild, Busy
  <1> QED BY <1>1, <1>2, <1>3, PTL DEF SidecarSpec

\* The fields of the supervisor and the states of its children keep their types
\* (SidecarSupervisor).
THEOREM SupervisorTypes == SidecarSpec => []SidecarTypeOK
  <1>1. SidecarInit => ChildInv
        BY InitChild
  <1>2. ChildInv /\ [SidecarNext]_sidecarVars => ChildInv'
        BY ChildStep
  <1>3. ChildInv => SidecarTypeOK
        BY DEF ChildInv
  <1> QED BY <1>1, <1>2, <1>3, PTL DEF SidecarSpec

=============================================================================
