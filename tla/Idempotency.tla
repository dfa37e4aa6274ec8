---------------------------- MODULE Idempotency -----------------------------
(***************************************************************************)
(* The idempotency records that guard the commands of the API: the         *)
(* middleware around every handler (httpapi/server.go) and the sweep of    *)
(* the scheduler that deletes records.                                     *)
(*                                                                         *)
(* A request is one HTTP attempt.  Attempts of one key come in any number  *)
(* and at any time, with the same body or another; the look at the record, *)
(* the reservation, the handler and the receipt are four steps.            *)
(***************************************************************************)
EXTENDS Integers, FiniteSets

CONSTANTS
    Requests, Keys, Bodies,
    KeyOf, BodyOf,    \* of each request
    CredentialKeys,   \* keys used to create a device or to rotate its token
    NoRequest,
    MaxFaults         \* bound: deaths of the process and lost receipts

ASSUME IdempotencyAssumption ==
    /\ KeyOf \in [Requests -> Keys] /\ BodyOf \in [Requests -> Bodies]
    /\ CredentialKeys \subseteq Keys
    /\ NoRequest \notin Requests
    /\ MaxFaults \in Nat

VARIABLES
    record,    \* idempotency_records, by key
    request,   \* where each request is
    faults,
    effects    \* history: commits of the handler since the key's record was made

idemVars == <<record, request, faults, effects>>

\* by: the request that reserved the key, the record's id.
Record == [status: {"none", "reserved", "done"}, by: Requests \cup {NoRequest},
           outcome: {"none", "success", "failure"}, expired: BOOLEAN]

\* from: the request whose outcome this one answers with.
Attempt == [at: {"new", "looked", "reserved", "handled", "answered", "refused", "dead"},
            outcome: {"none", "success", "failure"}, from: Requests \cup {NoRequest}]

IdempotencyTypeOK ==
    /\ record \in [Keys -> Record]
    /\ request \in [Requests -> Attempt]
    /\ faults \in 0..MaxFaults
    /\ effects \in [Keys -> Nat]

NoRecord == [status |-> "none", by |-> NoRequest, outcome |-> "none", expired |-> FALSE]

IdempotencyInit ==
    /\ record = [k \in Keys |-> NoRecord]
    /\ request = [r \in Requests |-> [at |-> "new", outcome |-> "none", from |-> NoRequest]]
    /\ faults = 0
    /\ effects = [k \in Keys |-> 0]

-----------------------------------------------------------------------------

Goes(r, to) == request' = [request EXCEPT ![r].at = to]

\* Another request's body under the same key is refused.
SameRequest(r) == BodyOf[record[KeyOf[r]].by] = BodyOf[r]

\* The first read: an expired record is not seen.
Look(r) ==
    LET c == record[KeyOf[r]] IN
    /\ request[r].at = "new"
    /\ IF c.status = "none" \/ c.expired THEN Goes(r, "looked")
       ELSE IF ~SameRequest(r) \/ c.status = "reserved" THEN Goes(r, "refused")
       ELSE request' = [request EXCEPT ![r] = [at |-> "answered", outcome |-> c.outcome,
                                               from |-> c.by]]
    /\ UNCHANGED <<record, faults, effects>>

\* The unique index also holds against a record that has expired.
Free(k) == record[k].status = "none"

Reserve(r) ==
    LET k == KeyOf[r] IN
    /\ request[r].at = "looked"
    /\ IF Free(k)
       THEN /\ record' = [record EXCEPT ![k] = [NoRecord EXCEPT !.status = "reserved", !.by = r]]
            /\ Goes(r, "reserved")
       ELSE Goes(r, "refused") /\ UNCHANGED record
    /\ UNCHANGED <<faults, effects>>

\* The handler, whose transaction commits or does not.
Handle(r) ==
    /\ request[r].at = "reserved"
    /\ \E o \in {"success", "failure"} :
          /\ request' = [request EXCEPT ![r].at = "handled", ![r].outcome = o]
          /\ effects' = IF o = "success" THEN [effects EXCEPT ![KeyOf[r]] = @ + 1] ELSE effects
    /\ UNCHANGED <<record, faults>>

Fault == faults < MaxFaults /\ faults' = faults + 1

\* The receipt is written where the reservation still is; when it cannot be
\* written, the reservation stays.  The caller gets its answer either way.
SaveReceipt(r) ==
    LET k == KeyOf[r]
        saved == record[k].by = r
    IN  /\ request[r].at = "handled"
        /\ \/ /\ record' = IF saved THEN [record EXCEPT ![k].status = "done",
                                                        ![k].outcome = request[r].outcome]
                           ELSE record
              /\ UNCHANGED faults
           \/ Fault /\ UNCHANGED record
        /\ request' = [request EXCEPT ![r].at = "answered", ![r].from = r]
        /\ UNCHANGED effects

\* The API process dies: its requests end wherever they are.
Dies ==
    /\ Fault
    /\ \E r \in Requests : request[r].at \in {"looked", "reserved", "handled"}
    /\ request' = [r \in Requests |->
          IF request[r].at \in {"looked", "reserved", "handled"}
          THEN [request[r] EXCEPT !.at = "dead"] ELSE request[r]]
    /\ UNCHANGED <<record, effects>>

\* A receipt's day is over.
ReceiptExpires(k) ==
    /\ record[k].status = "done" /\ ~record[k].expired
    /\ record' = [record EXCEPT ![k].expired = TRUE]
    /\ UNCHANGED <<request, faults, effects>>

Orphaned_Always(k) == record[k].status = "reserved"

\* A reservation an hour old is nobody's: no request runs for an hour.
Orphaned(k) ==
    record[k].status = "reserved" /\ request[record[k].by].at \notin {"reserved", "handled"}

Forget(k) == record' = [record EXCEPT ![k] = NoRecord]

\* maintain: receipts past their day and reservations past their hour.
SweepOld(k) ==
    /\ (record[k].status = "done" /\ record[k].expired) \/ Orphaned(k)
    /\ Forget(k)
    /\ effects' = [effects EXCEPT ![k] = 0]
    /\ UNCHANGED <<request, faults>>

\* maintain: every record of a credential request that is not a withheld
\* receipt, a reservation included.
SweepCredentials(k) ==
    /\ k \in CredentialKeys
    /\ record[k].status = "reserved" \/ (record[k].status = "done" /\ record[k].outcome = "failure")
    /\ Forget(k)
    /\ UNCHANGED <<request, faults, effects>>

IdempotencyNext ==
    \/ \E r \in Requests : Look(r) \/ Reserve(r) \/ Handle(r) \/ SaveReceipt(r)
    \/ Dies
    \/ \E k \in Keys : ReceiptExpires(k) \/ SweepOld(k) \/ SweepCredentials(k)

IdempotencySpec == IdempotencyInit /\ [][IdempotencyNext]_idemVars

-----------------------------------------------------------------------------
(* Properties.                                                              *)

\* However many attempts of a key arrive together, and whoever dies between the
\* handler's commit and its receipt, the handler commits once while the key's
\* record lives (idempotencyMiddleware; requests that create no credential).
CommandRunsOnce == \A k \in Keys \ CredentialKeys : effects[k] <= 1

\* An answer that is replayed was made for the same request.
ReplayAnswersTheRequest ==
    \A r \in Requests : request[r].from # NoRequest => BodyOf[request[r].from] = BodyOf[r]

=============================================================================
