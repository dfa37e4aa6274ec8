-------------------------- MODULE HarnessRunProofs --------------------------
(***************************************************************************)
(* Theorems about HarnessRun, for any number of hosts, tokens, model       *)
(* attempts and turns.                                                     *)
(***************************************************************************)
EXTENDS HarnessRun, TLAPS

-----------------------------------------------------------------------------
(* The inductive invariant, in parts.                                       *)

\* Whoever is about to call finishRun passes a terminal status, and only a
\* host's completion may ask for "succeeded".
EndingsAreTerminal ==
    /\ \A h \in Hosts :
          /\ stream[h].ending # "succeeded"
          /\ stream[h].phase \in {"failing", "closing"} => stream[h].ending # "none"
    /\ reaper.ending # "succeeded"

\* A token in its rotation window knows its successor.
RotatingHasSuccessor == \A t \in Tokens : token[t].state = "rotating" => token[t].next # 0

TokenInv == OneAuthorizedHost /\ RotationDoesNotFork /\ RotatingHasSuccessor

Open(h) == stream[h].phase \in {"opening", "streaming", "failing", "done"}

\* An open stream holds the model attempt of the run, and there is one.
OpenStreams ==
    /\ \A h \in Hosts : Open(h) => stream[h].attempt = run.inflight /\ stream[h].attempt # 0
    /\ \A h \in Hosts : ~Open(h) => stream[h].attempt = 0
    /\ \A g, h \in Hosts : Open(g) /\ Open(h) => g = h

\* While a response has not been counted its turn is still free.
TurnIsFree ==
    \A h \in Hosts : stream[h].phase \in {"opening", "streaming", "failing"} => run.calls < MaxTurns

StreamInv == OpenStreams /\ TurnIsFree /\ TurnsWithinBudget

\* Only counted responses have tool calls, and only claimed ones have run.
ToolInv ==
    /\ \A c \in Turns : c > run.calls => tool[c] = "none"
    /\ \A c \in Turns : tool[c] \in {"none", "ready"} => ran[c] = 0
    /\ \A c \in executing : tool[c] = "claimed"
    /\ ToolRunsOnce

\* Whoever reports success has seen a stop of the model.
SuccessInv ==
    /\ run.verified => answered
    /\ \A h \in Hosts : completing[h] = "succeeded" => answered
    /\ SuccessNeedsModelStop

-----------------------------------------------------------------------------
(* Types.                                                                   *)

\* A run with another status is a run.
LEMMA StatusType ==
    ASSUME NEW r \in Run, NEW s \in Active \cup Terminal
    PROVE  [r EXCEPT !.status = s] \in Run
BY DEF Run

\* The row of a voided token is a row.
LEMMA VoidType ==
    ASSUME NEW r \in Token, NEW s \in {"rotating", "revoked", "deleted"}
    PROVE  /\ Void(r, s) \in Token
           /\ \A n \in 0..MaxTokens : [Void(r, s) EXCEPT !.next = n] \in Token
<1>1. 0 \in 0..MaxTokens
  BY HarnessAssumption
<1> QED
  BY <1>1 DEF Void, Token

\* Revoking every token keeps the table well typed.
LEMMA RevokeAllType ==
    ASSUME token \in [Tokens -> Token]
    PROVE  RevokeAll \in [Tokens -> Token]
BY VoidType DEF RevokeAll

\* finishRun writes a terminal status and revokes the tokens.
LEMMA FinishRunType ==
    ASSUME run \in Run, token \in [Tokens -> Token], NEW s \in Terminal, FinishRun(s)
    PROVE  run' \in Run /\ token' \in [Tokens -> Token]
<1>1. CASE run.status \in Terminal
  BY <1>1 DEF FinishRun
<1>2. CASE run.status \notin Terminal
  <2>1. EndStatus(s) \in Active \cup Terminal
    BY DEF EndStatus, Terminal
  <2> QED
    BY <1>2, <2>1, StatusType, RevokeAllType DEF FinishRun
<1> QED
  BY <1>1, <1>2

\* The initial state is well typed.
LEMMA InitType == Init => TypeOK /\ EndingsAreTerminal
<1> SUFFICES ASSUME Init PROVE TypeOK /\ EndingsAreTerminal
  OBVIOUS
<1>1. run \in Run
  <2>1. PICK md \in Modes :
            run = [mode |-> md, status |-> "queued", cancel |-> FALSE, detached |-> FALSE,
                   inflight |-> 0, attempts |-> 0, calls |-> 0, verified |-> FALSE]
    BY DEF Init
  <2>2. md \in AllModes
    BY HarnessAssumption
  <2> QED
    BY <2>1, <2>2 DEF Run, Active
<1>2. NoToken \in Token
  BY HarnessAssumption DEF NoToken, Token
<1>3. token \in [Tokens -> Token] /\ held \in [Hosts -> 0..MaxTokens]
  BY <1>2, HarnessAssumption DEF Init
<1>4. stream \in [Hosts -> Stream]
  BY DEF Init, NoStream, Stream, Ending, Terminal
<1>5. /\ tool \in [Turns -> {"none", "ready", "claimed", "done", "pending", "decided"}]
      /\ ran \in [Turns -> Nat]
      /\ executing \in SUBSET Turns
      /\ answered \in BOOLEAN
  BY DEF Init
<1>6. completing \in [Hosts -> Ending]
  BY DEF Init, Ending, Terminal
<1>7. user \in {"idle", "flagged", "closing"} /\ approver \in {"idle", "decided"}
  BY DEF Init
<1>8. reaper \in [at: {"idle", "cut", "approvals", "stale", "cancelling"},
                  stale: BOOLEAN, ending: Ending]
  BY DEF Init, Idle, Ending, Terminal
<1>9. EndingsAreTerminal
  BY DEF Init, EndingsAreTerminal, NoStream, Idle
<1> QED
  BY <1>1, <1>3, <1>4, <1>5, <1>6, <1>7, <1>8, <1>9 DEF TypeOK

\* The steps on tokens keep the types.
LEMMA TokenStepType ==
    ASSUME TypeOK, EndingsAreTerminal, TokenStep
    PROVE  TypeOK' /\ EndingsAreTerminal'
<1>1. ASSUME NEW h \in Hosts, NEW t \in Tokens, IssueRunGrant(h, t)
      PROVE  TypeOK' /\ EndingsAreTerminal'
  <2>1. run' \in Run
    BY <1>1, StatusType DEF IssueRunGrant, TypeOK, Run, Active
  <2>2. [state |-> "live", generation |-> t, next |-> 0, silent |-> FALSE] \in Token
    BY HarnessAssumption DEF Token, Tokens
  <2>3. token' \in [Tokens -> Token]
    BY <1>1, <2>2, RevokeAllType DEF IssueRunGrant, TypeOK
  <2>4. t \in 0..MaxTokens
    BY HarnessAssumption DEF Tokens
  <2>5. held' \in [Hosts -> 0..MaxTokens]
    BY <1>1, <2>4 DEF IssueRunGrant, TypeOK
  <2> QED
    BY <1>1, <2>1, <2>3, <2>5 DEF IssueRunGrant, TypeOK, EndingsAreTerminal
<1>2. ASSUME NEW h \in Hosts, NEW t \in Tokens, RenewToken(h, t)
      PROVE  TypeOK' /\ EndingsAreTerminal'
  <2> DEFINE o == held[h]
  <2>1. o \in Tokens /\ token[o] \in Token /\ token[t] \in Token
    BY <1>2 DEF RenewToken, Valid, TypeOK
  <2>2. t \in 0..MaxTokens /\ 0 \in 0..MaxTokens
    BY HarnessAssumption DEF Tokens
  <2>3. token' \in [Tokens -> Token]
    <3>1. CASE Successor(o) # 0
      <4>1. \A b \in BOOLEAN : [token[t] EXCEPT !.silent = b] \in Token
        BY <2>1 DEF Token
      <4>2. token[t].silent \in BOOLEAN
        BY <2>1 DEF Token
      <4> QED
        BY <1>2, <3>1, <4>1, <4>2 DEF RenewToken, TypeOK
    <3>2. CASE Successor(o) = 0
      <4>1. [state |-> "live", generation |-> token[o].generation,
             next |-> 0, silent |-> FALSE] \in Token
        BY <2>1, <2>2 DEF Token
      <4>2. [Void(token[o], "rotating") EXCEPT !.next = t] \in Token
        BY <2>1, <2>2, VoidType
      <4> QED
        BY <1>2, <2>1, <3>2, <4>1, <4>2 DEF RenewToken, TypeOK, Void
    <3> QED
      BY <3>1, <3>2
  <2>4. held' \in [Hosts -> 0..MaxTokens]
    BY <1>2, <2>2 DEF RenewToken, TypeOK
  <2> QED
    BY <1>2, <2>3, <2>4 DEF RenewToken, TypeOK, EndingsAreTerminal
<1>3. ASSUME NEW h \in Hosts, BeatHarnessToken(h)
      PROVE  TypeOK' /\ EndingsAreTerminal'
  <2>1. \A t \in Tokens : [token[t] EXCEPT !.silent = FALSE] \in Token
    BY DEF TypeOK, Token
  <2> QED
    BY <1>3, <2>1 DEF BeatHarnessToken, Live, TypeOK, EndingsAreTerminal
<1>4. ASSUME NEW h \in Hosts, HostDies(h)
      PROVE  TypeOK' /\ EndingsAreTerminal'
  <2>1. 0 \in 0..MaxTokens
    BY HarnessAssumption
  <2> QED
    BY <1>4, <2>1 DEF HostDies, TypeOK, EndingsAreTerminal
<1>5. ASSUME NEW t \in Tokens, Silence(t)
      PROVE  TypeOK' /\ EndingsAreTerminal'
  <2>1. token[t] \in Token
    BY DEF TypeOK
  <2>2. [token[t] EXCEPT !.silent = TRUE] \in Token
    BY <2>1 DEF Token
  <2> QED
    BY <1>5, <2>2 DEF Silence, TypeOK, EndingsAreTerminal
<1>6. ASSUME NEW t \in Tokens, Expire(t)
      PROVE  TypeOK' /\ EndingsAreTerminal'
  <2>1. [token[t] EXCEPT !.state = "expired"] \in Token /\ Void(token[t], "revoked") \in Token
    BY VoidType DEF TypeOK, Token
  <2> QED
    BY <1>6, <2>1 DEF Expire, TypeOK, EndingsAreTerminal
<1>7. ASSUME NEW t \in Tokens, PruneHarnessToken(t)
      PROVE  TypeOK' /\ EndingsAreTerminal'
  <2>1. \A u \in Tokens : token[u] \in Token /\ Void(token[u], "deleted") \in Token
    BY VoidType DEF TypeOK
  <2> QED
    BY <1>7, <2>1 DEF PruneHarnessToken, TypeOK, EndingsAreTerminal
<1> QED
  BY <1>1, <1>2, <1>3, <1>4, <1>5, <1>6, <1>7 DEF TokenStep

\* The steps of the model proxy keep the types.
LEMMA ProxyType ==
    ASSUME TypeOK, EndingsAreTerminal, NEW h \in Hosts,
           OpenRefused(h) \/ AcquireModelAttempt(h) \/ Proxy(h)
    PROVE  TypeOK' /\ EndingsAreTerminal'
<1>0. stream[h] \in Stream /\ run \in Run
  BY DEF TypeOK
<1>1. CASE OpenRefused(h)
  <2>1. [phase |-> "closing", attempt |-> 0, ending |-> "failed"] \in Stream
    BY DEF Stream, Ending, Terminal
  <2> QED
    BY <1>1, <2>1 DEF OpenRefused, TypeOK, EndingsAreTerminal
<1>2. CASE AcquireModelAttempt(h)
  <2>1. run.attempts + 1 \in Nat
    BY <1>0 DEF Run
  <2>2. run' \in Run
    BY <1>0, <1>2, <2>1 DEF AcquireModelAttempt, Run
  <2>3. [phase |-> "opening", attempt |-> run.attempts + 1, ending |-> "none"] \in Stream
    BY <2>1 DEF Stream, Ending
  <2> QED
    BY <1>2, <2>2, <2>3 DEF AcquireModelAttempt, TypeOK, EndingsAreTerminal
<1>3. CASE ProviderAnswers(h)
  <2>1. PICK p \in {"streaming", "done", "failing"} :
            stream' = [stream EXCEPT ![h].phase = p,
                                     ![h].ending = IF p = "failing" THEN "failed" ELSE "none"]
    BY <1>3 DEF ProviderAnswers
  <2>2. [[stream[h] EXCEPT !.phase = p] EXCEPT !.ending = IF p = "failing" THEN "failed" ELSE "none"]
          \in Stream
    BY <1>0, <2>1 DEF Stream, Ending, Terminal
  <2>3. stream' \in [Hosts -> Stream]
    BY <2>1, <2>2 DEF TypeOK
  <2> QED
    BY <1>0, <1>3, <2>1, <2>3 DEF ProviderAnswers, TypeOK, EndingsAreTerminal, Stream
<1>4. ASSUME NEW o \in {"stop", "tool_calls", "broken", "unsaved"}, TranscriptEnds(h, o)
      PROVE  TypeOK' /\ EndingsAreTerminal'
  <2>1. [stream[h] EXCEPT !.phase = "done"] \in Stream
    BY <1>0 DEF Stream
  <2>2. stream' \in [Hosts -> Stream]
    BY <1>4, <2>1 DEF TranscriptEnds, TypeOK
  <2>3. run.calls + 1 \in Nat
    BY <1>0 DEF Run
  <2>4. run' \in Run
    <3>1. CASE o = "unsaved"
      BY <1>0, <1>4, <3>1 DEF TranscriptEnds
    <3>2. CASE o # "unsaved"
      <4>1. run' = [run EXCEPT !.calls = run.calls + 1, !.verified = (o = "stop")]
        BY <1>4, <3>2 DEF TranscriptEnds
      <4>2. (o = "stop") \in BOOLEAN
        OBVIOUS
      <4> QED
        BY <1>0, <2>3, <4>1, <4>2 DEF Run
    <3> QED
      BY <3>1, <3>2
  <2>5. tool' \in [Turns -> {"none", "ready", "claimed", "done", "pending", "decided"}]
    BY <1>4 DEF TranscriptEnds, TypeOK
  <2>6. answered' \in BOOLEAN
    BY <1>4 DEF TranscriptEnds, TypeOK
  <2> QED
    BY <1>0, <1>4, <2>2, <2>4, <2>5, <2>6 DEF TranscriptEnds, TypeOK, EndingsAreTerminal, Stream
<1>5. ASSUME NEW c \in {"none", "timeout", "cancelled"}, ReleaseModelAttempt(h, c)
      PROVE  TypeOK' /\ EndingsAreTerminal'
  <2>1. run' \in Run
    BY <1>0, <1>5 DEF ReleaseModelAttempt, Run
  <2>2. \A e \in {"failed", "cancelled"} :
            [phase |-> "closing", attempt |-> 0, ending |-> e] \in Stream
    BY DEF Stream, Ending, Terminal
  <2>3. NoStream \in Stream
    BY DEF NoStream, Stream, Ending
  <2>4. stream' \in [Hosts -> Stream]
    BY <1>5, <2>2, <2>3 DEF ReleaseModelAttempt, TypeOK
  <2> QED
    BY <1>5, <2>1, <2>4 DEF ReleaseModelAttempt, TypeOK, EndingsAreTerminal, NoStream
<1>6. CASE StreamFinishesRun(h)
  <2>1. stream[h].ending \in Terminal
    BY <1>0, <1>6 DEF StreamFinishesRun, EndingsAreTerminal, Stream, Ending
  <2>2. run' \in Run /\ token' \in [Tokens -> Token]
    BY <1>6, <2>1, FinishRunType DEF StreamFinishesRun, TypeOK
  <2>3. [[stream[h] EXCEPT !.phase = "done"] EXCEPT !.ending = "none"] \in Stream
    BY <1>0 DEF Stream, Ending
  <2>4. NoStream \in Stream
    BY DEF NoStream, Stream, Ending
  <2>5. stream' \in [Hosts -> Stream]
    BY <1>6, <2>3, <2>4 DEF StreamFinishesRun, TypeOK
  <2> QED
    BY <1>0, <1>6, <2>2, <2>5 DEF StreamFinishesRun, TypeOK, EndingsAreTerminal, NoStream, Stream
<1> QED
  BY <1>1, <1>2, <1>3, <1>4, <1>5, <1>6 DEF Proxy

\* The steps on tool calls and approvals keep the types.
LEMMA ToolStepType ==
    ASSUME TypeOK, EndingsAreTerminal, ToolStep
    PROVE  TypeOK' /\ EndingsAreTerminal'
<1>1. ASSUME NEW h \in Hosts, NEW c \in Turns, ClaimToolCall(h, c)
      PROVE  TypeOK' /\ EndingsAreTerminal'
  <2>1. ran[c] + 1 \in Nat
    BY DEF TypeOK
  <2> QED
    BY <1>1, <2>1 DEF ClaimToolCall, TypeOK, EndingsAreTerminal
<1>2. ASSUME NEW c \in Turns, RecordToolResult(c) \/ ToolResultLost(c) \/ DecideApproval(c)
      PROVE  TypeOK' /\ EndingsAreTerminal'
  BY <1>2 DEF RecordToolResult, ToolResultLost, DecideApproval, TypeOK, EndingsAreTerminal
<1>3. ASSUME NEW c \in Turns, CommitPendingApproval(c)
      PROVE  TypeOK' /\ EndingsAreTerminal'
  <2>1. run' \in Run
    BY <1>3, StatusType DEF CommitPendingApproval, TypeOK, Active
  <2> QED
    BY <1>3, <2>1 DEF CommitPendingApproval, TypeOK, EndingsAreTerminal
<1>4. CASE DetachBrowser
  <2>1. run' \in Run
    BY <1>4 DEF DetachBrowser, TypeOK, Run, Terminal
  <2> QED
    BY <1>4, <2>1, RevokeAllType DEF DetachBrowser, TypeOK, EndingsAreTerminal
<1>5. CASE ContinueHarnessRun
  <2>1. run' \in Run
    BY <1>5, StatusType DEF ContinueHarnessRun, TypeOK, Run, Active
  <2> QED
    BY <1>5, <2>1 DEF ContinueHarnessRun, TypeOK, EndingsAreTerminal
<1>6. CASE ReceiptCut
  BY <1>6 DEF ReceiptCut, TypeOK, EndingsAreTerminal
<1> QED
  BY <1>1, <1>2, <1>3, <1>4, <1>5, <1>6 DEF ToolStep

\* The steps that end a run keep the types.
LEMMA EndStepType ==
    ASSUME TypeOK, EndingsAreTerminal, EndStep
    PROVE  TypeOK' /\ EndingsAreTerminal'
<1>1. ASSUME NEW h \in Hosts, NEW r \in {"stop", "error", "cancelled"}, CompleteRun(h, r)
      PROVE  TypeOK' /\ EndingsAreTerminal'
  <2>1. Verdict(r) \in Ending
    BY DEF Verdict, Ending, Terminal
  <2> QED
    BY <1>1, <2>1 DEF CompleteRun, TypeOK, EndingsAreTerminal
<1>2. ASSUME NEW h \in Hosts, DriveFails(h)
      PROVE  TypeOK' /\ EndingsAreTerminal'
  BY <1>2 DEF DriveFails, TypeOK, EndingsAreTerminal, Ending, Terminal
<1>3. ASSUME NEW h \in Hosts, CompletionFinishesRun(h)
      PROVE  TypeOK' /\ EndingsAreTerminal'
  <2>1. completing[h] \in Terminal
    BY <1>3 DEF CompletionFinishesRun, TypeOK, Ending
  <2>2. run' \in Run /\ token' \in [Tokens -> Token]
    BY <1>3, <2>1, FinishRunType DEF CompletionFinishesRun, TypeOK
  <2> QED
    BY <1>3, <2>2 DEF CompletionFinishesRun, TypeOK, EndingsAreTerminal, Ending
<1>4. CASE RequestRunCancellation
  <2>1. run' \in Run
    BY <1>4 DEF RequestRunCancellation, TypeOK, Run, Active
  <2> QED
    BY <1>4, <2>1 DEF RequestRunCancellation, TypeOK, EndingsAreTerminal
<1>5. CASE LookForHost
  BY <1>5 DEF LookForHost, TypeOK, EndingsAreTerminal
<1>6. CASE UserFinishesRun
  <2>1. run' \in Run /\ token' \in [Tokens -> Token]
    BY <1>6, FinishRunType DEF UserFinishesRun, TypeOK, Terminal
  <2> QED
    BY <1>6, <2>1 DEF UserFinishesRun, TypeOK, EndingsAreTerminal
<1>7. CASE WorkerStarts
  <2>1. run' \in Run
    BY <1>7, StatusType DEF WorkerStarts, TypeOK, Terminal
  <2> QED
    BY <1>7, <2>1 DEF WorkerStarts, TypeOK, EndingsAreTerminal
<1> QED
  BY <1>1, <1>2, <1>3, <1>4, <1>5, <1>6, <1>7 DEF EndStep

\* The steps of the reaper and the crash of the API process keep the types.
LEMMA ReapType ==
    ASSUME TypeOK, EndingsAreTerminal, Reap \/ ReaperCut \/ APICrash
    PROVE  TypeOK' /\ EndingsAreTerminal'
<1>0. {"none", "failed", "interrupted", "cancelled"} \subseteq Ending
  BY DEF Ending, Terminal
<1>1. ASSUME NEW late \in BOOLEAN,
             ReapBegin(late) \/ ReapApprovals(late) \/ ReapCancelling(late)
      PROVE  TypeOK' /\ EndingsAreTerminal'
  <2>1. (HostSilent \/ (late /\ NeverStarted)) \in BOOLEAN
    OBVIOUS
  <2> QED
    BY <1>0, <1>1, <2>1 DEF ReapBegin, ReapApprovals, ReapCancelling, TypeOK, EndingsAreTerminal
<1>2. CASE ReapStale
  BY <1>0, <1>2 DEF ReapStale, TypeOK, EndingsAreTerminal
<1>3. CASE ReaperFinishesRun
  <2>1. reaper.ending \in Terminal
    BY <1>3 DEF ReaperFinishesRun, TypeOK, Ending
  <2>2. run' \in Run /\ token' \in [Tokens -> Token]
    BY <1>3, <2>1, FinishRunType DEF ReaperFinishesRun, TypeOK
  <2> QED
    BY <1>0, <1>3, <2>2 DEF ReaperFinishesRun, TypeOK, EndingsAreTerminal
<1>4. CASE ReaperCut
  BY <1>0, <1>4 DEF ReaperCut, Idle, TypeOK, EndingsAreTerminal
<1>5. CASE APICrash
  <2>1. NoStream \in Stream
    BY DEF NoStream, Stream, Ending
  <2> QED
    BY <1>0, <1>5, <2>1 DEF APICrash, NoStream, TypeOK, EndingsAreTerminal
<1> QED
  BY <1>1, <1>2, <1>3, <1>4, <1>5 DEF Reap

\* Every step keeps the types.
LEMMA StepType ==
    ASSUME TypeOK, EndingsAreTerminal, [Next]_vars
    PROVE  TypeOK' /\ EndingsAreTerminal'
<1>1. CASE Next
  BY <1>1, TokenStepType, ProxyType, ToolStepType, EndStepType, ReapType DEF Next
<1>2. CASE UNCHANGED vars
  BY <1>2 DEF vars, TypeOK, EndingsAreTerminal
<1> QED
  BY <1>1, <1>2

\* The state of a run stays well typed, and whoever calls finishRun passes a
\* terminal status (harnesslifecycle.go, finishRun and its callers).
THEOREM TypeCorrect == Spec => []TypeOK
<1>1. Init => TypeOK /\ EndingsAreTerminal
  BY InitType
<1>2. TypeOK /\ EndingsAreTerminal /\ [Next]_vars => TypeOK' /\ EndingsAreTerminal'
  BY StepType
<1> QED
  BY <1>1, <1>2, PTL DEF Spec

-----------------------------------------------------------------------------
(* Cancellation and the end of a run.                                       *)

\* finishRun keeps the verdict of a recorded cancellation and never touches a
\* run that has ended.
LEMMA FinishRunEnds ==
    ASSUME TypeOK, CancelWins, NEW s \in Terminal, FinishRun(s)
    PROVE  /\ CancelWins'
           /\ run.status \in Terminal => run' = run
           /\ run'.detached = run.detached
<1>1. run \in Run
  BY DEF TypeOK
<1>2. CASE run.status \in Terminal
  BY <1>2 DEF FinishRun, CancelWins
<1>3. CASE run.status \notin Terminal
  <2>1. run' = [run EXCEPT !.status = EndStatus(s)]
    BY <1>3 DEF FinishRun
  <2> QED
    BY <1>1, <1>3, <2>1 DEF EndStatus, CancelWins, Run, Terminal
<1> QED
  BY <1>2, <1>3

\* The steps that write the run row without finishRun.
LEMMA RunWriteEnds ==
    ASSUME TypeOK, CancelWins,
           \/ \E h \in Hosts, t \in Tokens : IssueRunGrant(h, t)
           \/ \E h \in Hosts : AcquireModelAttempt(h)
           \/ \E h \in Hosts, o \in {"stop", "tool_calls", "broken", "unsaved"} :
                 TranscriptEnds(h, o)
           \/ \E h \in Hosts, c \in {"none", "timeout", "cancelled"} : ReleaseModelAttempt(h, c)
           \/ \E c \in Turns : CommitPendingApproval(c)
           \/ DetachBrowser \/ ContinueHarnessRun \/ RequestRunCancellation \/ WorkerStarts
    PROVE  /\ CancelWins'
           /\ run.status \in Terminal
                => run'.status = run.status /\ run'.detached = run.detached
<1>0. run \in Run
  BY DEF TypeOK
<1>1. ASSUME NEW h \in Hosts, NEW t \in Tokens, IssueRunGrant(h, t)
      PROVE  CancelWins' /\ run.status \notin Terminal
  BY <1>0, <1>1 DEF IssueRunGrant, CancelWins, Run, Active, Terminal
<1>2. ASSUME NEW h \in Hosts, AcquireModelAttempt(h)
      PROVE  CancelWins' /\ run.status \notin Terminal
  BY <1>0, <1>2 DEF AcquireModelAttempt, CancelWins, Run, Terminal
<1>3. ASSUME NEW h \in Hosts, NEW o \in {"stop", "tool_calls", "broken", "unsaved"},
             TranscriptEnds(h, o)
      PROVE  CancelWins' /\ run'.status = run.status /\ run'.detached = run.detached
  BY <1>0, <1>3 DEF TranscriptEnds, CancelWins, Run
<1>4. ASSUME NEW h \in Hosts, NEW c \in {"none", "timeout", "cancelled"},
             ReleaseModelAttempt(h, c)
      PROVE  CancelWins' /\ run'.status = run.status /\ run'.detached = run.detached
  BY <1>0, <1>4 DEF ReleaseModelAttempt, CancelWins, Run
<1>5. ASSUME NEW c \in Turns, CommitPendingApproval(c)
      PROVE  CancelWins' /\ run.status \notin Terminal
  BY <1>0, <1>5 DEF CommitPendingApproval, MayPark, CancelWins, Run, Terminal
<1>6. CASE DetachBrowser
  BY <1>0, <1>6 DEF DetachBrowser, CancelWins, Run, Terminal
<1>7. CASE ContinueHarnessRun
  BY <1>0, <1>7 DEF ContinueHarnessRun, MayContinue, CancelWins, Run, Active, Terminal
<1>8. CASE RequestRunCancellation
  BY <1>0, <1>8 DEF RequestRunCancellation, CancelWins, Run, Active, Terminal
<1>9. CASE WorkerStarts
  BY <1>0, <1>9 DEF WorkerStarts, CancelWins, Run, Terminal
<1> QED
  BY <1>1, <1>2, <1>3, <1>4, <1>5, <1>6, <1>7, <1>8, <1>9

\* Every step writes the run by finishRun, by one of the steps above, or not
\* at all.
LEMMA StepEnds ==
    ASSUME TypeOK, EndingsAreTerminal, CancelWins, [Next]_vars
    PROVE  /\ CancelWins'
           /\ run.status \in Terminal
                => run'.status = run.status /\ run'.detached = run.detached
<1> DEFINE Good == /\ CancelWins'
                   /\ run.status \in Terminal
                        => run'.status = run.status /\ run'.detached = run.detached
<1>1. ASSUME UNCHANGED run PROVE Good
  BY <1>1 DEF CancelWins
<1>2. ASSUME NEW s \in Terminal, FinishRun(s) PROVE Good
  BY <1>2, FinishRunEnds
<1>3. CASE TokenStep
  <2>1. ASSUME NEW h \in Hosts, NEW t \in Tokens, RenewToken(h, t) PROVE UNCHANGED run
    BY <2>1 DEF RenewToken
  <2>2. ASSUME NEW h \in Hosts, BeatHarnessToken(h) \/ HostDies(h) PROVE UNCHANGED run
    BY <2>2 DEF BeatHarnessToken, HostDies
  <2>3. ASSUME NEW t \in Tokens, Silence(t) \/ Expire(t) \/ PruneHarnessToken(t)
        PROVE  UNCHANGED run
    BY <2>3 DEF Silence, Expire, PruneHarnessToken
  <2> QED
    BY <1>1, <1>3, <2>1, <2>2, <2>3, RunWriteEnds DEF TokenStep
<1>4. ASSUME NEW h \in Hosts, OpenRefused(h) \/ AcquireModelAttempt(h) \/ Proxy(h) PROVE Good
  <2>1. ASSUME OpenRefused(h) \/ ProviderAnswers(h) PROVE UNCHANGED run
    BY <2>1 DEF OpenRefused, ProviderAnswers
  <2>2. CASE StreamFinishesRun(h)
    <3>1. stream[h].ending \in Terminal
      BY <2>2 DEF StreamFinishesRun, EndingsAreTerminal, TypeOK, Stream, Ending
    <3> QED
      BY <1>2, <2>2, <3>1 DEF StreamFinishesRun
  <2> QED
    BY <1>1, <1>4, <2>1, <2>2, RunWriteEnds DEF Proxy
<1>5. CASE ToolStep
  <2>1. ASSUME NEW h \in Hosts, NEW c \in Turns, ClaimToolCall(h, c) PROVE UNCHANGED run
    BY <2>1 DEF ClaimToolCall
  <2>2. ASSUME NEW c \in Turns, RecordToolResult(c) \/ ToolResultLost(c) \/ DecideApproval(c)
        PROVE  UNCHANGED run
    BY <2>2 DEF RecordToolResult, ToolResultLost, DecideApproval
  <2>3. CASE ReceiptCut
    BY <1>1, <2>3 DEF ReceiptCut
  <2> QED
    BY <1>1, <1>5, <2>1, <2>2, <2>3, RunWriteEnds DEF ToolStep
<1>6. CASE EndStep
  <2>1. ASSUME NEW h \in Hosts, NEW r \in {"stop", "error", "cancelled"}, CompleteRun(h, r)
        PROVE  UNCHANGED run
    BY <2>1 DEF CompleteRun
  <2>2. ASSUME NEW h \in Hosts, DriveFails(h) PROVE UNCHANGED run
    BY <2>2 DEF DriveFails
  <2>3. ASSUME NEW h \in Hosts, CompletionFinishesRun(h) PROVE Good
    <3>1. completing[h] \in Terminal
      BY <2>3 DEF CompletionFinishesRun, TypeOK, Ending
    <3> QED
      BY <1>2, <2>3, <3>1 DEF CompletionFinishesRun
  <2>4. CASE LookForHost
    BY <1>1, <2>4 DEF LookForHost
  <2>5. CASE UserFinishesRun
    BY <1>2, <2>5 DEF UserFinishesRun, Terminal
  <2> QED
    BY <1>1, <1>6, <2>1, <2>2, <2>3, <2>4, <2>5, RunWriteEnds DEF EndStep
<1>7. CASE APICrash \/ ReaperCut
  BY <1>1, <1>7 DEF APICrash, ReaperCut
<1>8. CASE Reap
  <2>1. ASSUME NEW late \in BOOLEAN,
               ReapBegin(late) \/ ReapApprovals(late) \/ ReapCancelling(late)
        PROVE  UNCHANGED run
    BY <2>1 DEF ReapBegin, ReapApprovals, ReapCancelling
  <2>2. CASE ReapStale
    BY <1>1, <2>2 DEF ReapStale
  <2>3. CASE ReaperFinishesRun
    <3>1. reaper.ending \in Terminal
      BY <2>3 DEF ReaperFinishesRun, TypeOK, Ending
    <3> QED
      BY <1>2, <2>3, <3>1 DEF ReaperFinishesRun
  <2> QED
    BY <1>1, <1>8, <2>1, <2>2, <2>3 DEF Reap
<1>9. CASE UNCHANGED vars
  BY <1>1, <1>9 DEF vars
<1> QED
  BY <1>3, <1>4, <1>5, <1>6, <1>7, <1>8, <1>9 DEF Next

\* A cancellation, once recorded, decides how the run ends, whatever a host, a
\* deadline or the reaper has decided before (finishRun, SetApprovalStatus).
THEOREM Cancellation == Spec => []CancelWins
<1>1. Init => CancelWins
  <2>1. Init => run.cancel = FALSE /\ run.status = "queued"
    BY DEF Init
  <2> QED
    BY <2>1 DEF CancelWins
<1>2. TypeOK /\ EndingsAreTerminal /\ CancelWins /\ [Next]_vars => CancelWins'
  BY StepEnds
<1> QED
  BY <1>1, <1>2, InitType, StepType, PTL DEF Spec

\* No step moves a run that has ended (finishRun, setApprovalRunStatus,
\* issueRunGrant, updateRun).
THEOREM Finality == Spec => TerminalIsFinal
<1>1. TypeOK /\ EndingsAreTerminal /\ CancelWins /\ [Next]_vars
        => [run.status \in Terminal
              => run'.status = run.status /\ run'.detached = run.detached]_vars
  BY StepEnds
<1>2. Init => CancelWins
  <2>1. Init => run.cancel = FALSE /\ run.status = "queued"
    BY DEF Init
  <2> QED
    BY <2>1 DEF CancelWins
<1>3. TypeOK /\ EndingsAreTerminal /\ CancelWins /\ [Next]_vars => CancelWins'
  BY StepEnds
<1> QED
  BY <1>1, <1>2, <1>3, InitType, StepType, PTL DEF Spec, TerminalIsFinal

-----------------------------------------------------------------------------
(* Tokens: one authorised host.                                             *)

\* Tokens that only lose authority keep the invariant.
LEMMA TokensWeaken ==
    ASSUME TokenInv,
           \A t \in Tokens :
              \/ /\ token'[t].state = token[t].state
                 /\ token'[t].generation = token[t].generation
                 /\ token'[t].next = token[t].next
              \/ token[t].state = "live" /\ token'[t].state = "expired"
              \/ token'[t].state \in {"none", "revoked", "deleted"}
    PROVE  TokenInv'
<1>1. \A t \in Tokens : token'[t].state \in {"live", "rotating"}
        => /\ token[t].state \in {"live", "rotating"}
           /\ token'[t].generation = token[t].generation
  OBVIOUS
<1>2. OneAuthorizedHost'
  BY <1>1 DEF TokenInv, OneAuthorizedHost, Valid
<1>3. \A t \in Tokens : token'[t].state \in {"live", "expired"} => Unrevoked(t)
  BY DEF Unrevoked
<1>4. RotationDoesNotFork'
  BY <1>3 DEF TokenInv, RotationDoesNotFork, Unrevoked
<1>5. RotatingHasSuccessor'
  BY DEF TokenInv, RotatingHasSuccessor
<1> QED
  BY <1>2, <1>4, <1>5 DEF TokenInv

\* Revoking all tokens keeps the invariant.
LEMMA RevokeAllTokens ==
    ASSUME TokenInv, token' = RevokeAll
    PROVE  TokenInv'
<1>1. \A t \in Tokens : RevokeAll[t].state \in {"none", "revoked", "deleted"}
  BY DEF RevokeAll, HasRow, Void
<1> QED
  BY <1>1, TokensWeaken

\* A new grant leaves its own token as the only usable one.
LEMMA GrantTokens ==
    ASSUME TypeOK, TokenInv, NEW h \in Hosts, NEW t \in Tokens, IssueRunGrant(h, t)
    PROVE  TokenInv'
<1>1. \A u \in Tokens : RevokeAll[u].state \in {"none", "revoked", "deleted"}
  BY DEF RevokeAll, HasRow, Void
<1>2. RevokeAll \in [Tokens -> Token]
  BY RevokeAllType DEF TypeOK
<1>3. /\ token'[t].state = "live"
      /\ \A u \in Tokens : u # t => token'[u].state \in {"none", "revoked", "deleted"}
  BY <1>1, <1>2 DEF IssueRunGrant
<1> QED
  BY <1>3 DEF TokenInv, OneAuthorizedHost, RotationDoesNotFork, RotatingHasSuccessor, Valid, Unrevoked

\* A rotation replaces the one token that is not revoked.
LEMMA RenewTokens ==
    ASSUME TypeOK, TokenInv, NEW h \in Hosts, NEW n \in Tokens, RenewToken(h, n)
    PROVE  TokenInv'
<1> DEFINE o == held[h]
<1>1. o \in Tokens /\ token[o].state \in {"live", "rotating"}
  BY DEF RenewToken, Valid
<1>2. CASE Successor(o) # 0
  <2>1. \A t \in Tokens : /\ token'[t].state = token[t].state
                          /\ token'[t].generation = token[t].generation
                          /\ token'[t].next = token[t].next
    BY <1>2 DEF RenewToken, TypeOK, Token
  <2> QED
    BY <2>1, TokensWeaken
<1>3. CASE Successor(o) = 0
  <2>1. token[o].state = "live"
    BY <1>1, <1>3 DEF Successor, TokenInv, RotatingHasSuccessor
  <2>2. \A t \in Tokens : token[t].state \in {"live", "expired"} => t = o
    BY <1>1, <2>1 DEF TokenInv, RotationDoesNotFork, Unrevoked
  <2>3. n # o /\ n # 0 /\ token[n].state = "none"
    BY <1>3, <2>1, HarnessAssumption DEF RenewToken, Fresh, Tokens
  <2>4. /\ token'[n].state = "live" /\ token'[n].generation = token[o].generation
        /\ token'[o].state = "rotating" /\ token'[o].generation = token[o].generation
        /\ token'[o].next # 0
        /\ \A t \in Tokens \ {n, o} : token'[t] = token[t]
    BY <1>1, <1>3, <2>3 DEF RenewToken, TypeOK, Void
  <2>5. \A t \in Tokens : token[t].state \in {"live", "rotating"}
          => token[t].generation = token[o].generation
    BY <1>1 DEF TokenInv, OneAuthorizedHost, Valid
  <2>6. OneAuthorizedHost'
    <3>1. \A t \in Tokens : token'[t].state \in {"live", "rotating"}
            => token'[t].generation = token[o].generation
      BY <2>4, <2>5
    <3> QED
      BY <3>1 DEF OneAuthorizedHost, Valid
  <2>7. RotationDoesNotFork'
    <3>1. \A t \in Tokens : token'[t].state \in {"live", "expired"} => t = n
      BY <2>2, <2>4
    <3> QED
      BY <3>1 DEF RotationDoesNotFork, Unrevoked
  <2>8. RotatingHasSuccessor'
    BY <2>4 DEF TokenInv, RotatingHasSuccessor
  <2> QED
    BY <2>6, <2>7, <2>8 DEF TokenInv
<1> QED
  BY <1>2, <1>3

\* finishRun revokes the tokens or leaves them alone.
LEMMA FinishRunTokens ==
    ASSUME TokenInv, NEW s, FinishRun(s)
    PROVE  TokenInv'
<1>1. CASE run.status \in Terminal
  <2>1. token' = token
    BY <1>1 DEF FinishRun
  <2> QED
    BY <2>1, TokensWeaken
<1>2. CASE run.status \notin Terminal
  BY <1>2, RevokeAllTokens DEF FinishRun
<1> QED
  BY <1>1, <1>2

\* Every step keeps the token invariant.
LEMMA StepTokens ==
    ASSUME TypeOK, TokenInv, [Next]_vars
    PROVE  TokenInv'
<1>1. ASSUME UNCHANGED token PROVE TokenInv'
  BY <1>1, TokensWeaken
<1>2. CASE TokenStep
  <2>1. ASSUME NEW h \in Hosts, BeatHarnessToken(h) PROVE TokenInv'
    <3>1. \A t \in Tokens : /\ token'[t].state = token[t].state
                            /\ token'[t].generation = token[t].generation
                            /\ token'[t].next = token[t].next
      BY <2>1 DEF BeatHarnessToken, TypeOK, Token
    <3> QED
      BY <3>1, TokensWeaken
  <2>2. ASSUME NEW t \in Tokens, Silence(t) PROVE TokenInv'
    <3>1. \A u \in Tokens : /\ token'[u].state = token[u].state
                            /\ token'[u].generation = token[u].generation
                            /\ token'[u].next = token[u].next
      BY <2>2 DEF Silence, TypeOK, Token
    <3> QED
      BY <3>1, TokensWeaken
  <2>3. ASSUME NEW t \in Tokens, Expire(t) PROVE TokenInv'
    <3>1. /\ \A u \in Tokens \ {t} : token'[u] = token[u]
          /\ \/ token[t].state = "live" /\ token'[t].state = "expired"
             \/ token'[t].state = "revoked"
      BY <2>3 DEF Expire, Live, Void, TypeOK, Token
    <3> QED
      BY <3>1, TokensWeaken
  <2>4. ASSUME NEW t \in Tokens, PruneHarnessToken(t) PROVE TokenInv'
    <3>1. \A u \in Tokens : token'[u] = token[u] \/ token'[u].state = "deleted"
      BY <2>4 DEF PruneHarnessToken, Void, TypeOK, Token
    <3> QED
      BY <3>1, TokensWeaken
  <2>5. ASSUME NEW h \in Hosts, HostDies(h) PROVE TokenInv'
    BY <1>1, <2>5 DEF HostDies
  <2> QED
    BY <1>2, <2>1, <2>2, <2>3, <2>4, <2>5, GrantTokens, RenewTokens DEF TokenStep
<1>3. ASSUME NEW h \in Hosts, OpenRefused(h) \/ AcquireModelAttempt(h) \/ Proxy(h)
      PROVE  TokenInv'
  BY <1>1, <1>3, FinishRunTokens
     DEF OpenRefused, AcquireModelAttempt, Proxy, ProviderAnswers, TranscriptEnds,
         ReleaseModelAttempt, StreamFinishesRun
<1>4. CASE ToolStep
  <2>1. CASE DetachBrowser
    BY <2>1, RevokeAllTokens DEF DetachBrowser
  <2> QED
    BY <1>1, <1>4, <2>1
       DEF ToolStep, ClaimToolCall, RecordToolResult, CommitPendingApproval, ToolResultLost,
           DecideApproval, ContinueHarnessRun, ReceiptCut
<1>5. CASE EndStep
  BY <1>1, <1>5, FinishRunTokens
     DEF EndStep, CompleteRun, DriveFails, CompletionFinishesRun, RequestRunCancellation,
         LookForHost, UserFinishesRun, WorkerStarts
<1>6. CASE APICrash \/ Reap \/ ReaperCut
  BY <1>1, <1>6, FinishRunTokens
     DEF APICrash, ReaperCut, Reap, ReapBegin, ReapApprovals, ReapStale, ReapCancelling,
         ReaperFinishesRun
<1>7. CASE UNCHANGED vars
  BY <1>1, <1>7 DEF vars
<1> QED
  BY <1>2, <1>3, <1>4, <1>5, <1>6, <1>7 DEF Next

\* At any instant all usable tokens of a run belong to one generation, and at
\* most one of them is not revoked: a grant fences the previous host with its
\* rotation window, and repeated heartbeats do not fork the chain of tokens.
THEOREM OneHost == Spec => [](OneAuthorizedHost /\ RotationDoesNotFork)
<1>1. Init => TokenInv
  BY DEF Init, NoToken, TokenInv, OneAuthorizedHost, RotationDoesNotFork, RotatingHasSuccessor,
         Valid, Unrevoked
<1>2. TypeOK /\ TokenInv /\ [Next]_vars => TokenInv'
  BY StepTokens
<1>3. TokenInv => OneAuthorizedHost /\ RotationDoesNotFork
  BY DEF TokenInv
<1> QED
  BY <1>1, <1>2, <1>3, TypeCorrect, PTL DEF Spec

-----------------------------------------------------------------------------
(* Model streams: one in flight, within the turn budget.                    *)

\* finishRun leaves the counters and the model attempt of the run alone.
LEMMA FinishRunKeeps ==
    ASSUME TypeOK, NEW s, FinishRun(s)
    PROVE  /\ run'.inflight = run.inflight /\ run'.calls = run.calls
           /\ run'.verified = run.verified
BY DEF FinishRun, TypeOK, Run

\* Steps that leave the streams, the counters and the attempt alone.
LEMMA StreamsAlone ==
    ASSUME StreamInv, stream' = stream, run'.inflight = run.inflight, run'.calls = run.calls
    PROVE  StreamInv'
BY DEF StreamInv, OpenStreams, TurnIsFree, TurnsWithinBudget, Open

\* The steps of the model proxy keep the invariant on streams.
LEMMA ProxyStreams ==
    ASSUME TypeOK, StreamInv, NEW h \in Hosts,
           OpenRefused(h) \/ AcquireModelAttempt(h) \/ Proxy(h)
    PROVE  StreamInv'
<1>0. /\ stream \in [Hosts -> Stream] /\ run \in Run
      /\ run.calls \in Nat /\ run.attempts \in Nat /\ MaxTurns \in Nat
  BY HarnessAssumption DEF TypeOK, Run
<1>1. CASE OpenRefused(h)
  <2>1. /\ stream'[h].phase = "closing" /\ stream'[h].attempt = 0
        /\ \A g \in Hosts \ {h} : stream'[g] = stream[g]
        /\ run' = run
    BY <1>0, <1>1 DEF OpenRefused
  <2> QED
    BY <2>1 DEF StreamInv, OpenStreams, TurnIsFree, TurnsWithinBudget, Open
<1>2. CASE AcquireModelAttempt(h)
  <2>1. \A g \in Hosts : ~Open(g)
    BY <1>2 DEF AcquireModelAttempt, AttemptFree, StreamInv, OpenStreams
  <2>2. /\ stream'[h].phase = "opening" /\ stream'[h].attempt = run.attempts + 1
        /\ \A g \in Hosts \ {h} : stream'[g] = stream[g]
        /\ run'.inflight = run.attempts + 1 /\ run'.calls = run.calls
        /\ run.calls < MaxTurns
    BY <1>0, <1>2 DEF AcquireModelAttempt, Run
  <2>3. run.attempts + 1 # 0
    BY <1>0
  <2>4. OpenStreams'
    BY <2>1, <2>2, <2>3 DEF StreamInv, OpenStreams, Open
  <2> QED
    BY <2>1, <2>2, <2>4 DEF StreamInv, TurnIsFree, TurnsWithinBudget, Open
<1>3. CASE ProviderAnswers(h)
  <2>1. PICK p \in {"streaming", "done", "failing"} :
            stream' = [stream EXCEPT ![h].phase = p,
                                     ![h].ending = IF p = "failing" THEN "failed" ELSE "none"]
    BY <1>3 DEF ProviderAnswers
  <2>2. /\ stream[h].phase = "opening"
        /\ stream'[h].phase = p /\ stream'[h].attempt = stream[h].attempt
        /\ \A g \in Hosts \ {h} : stream'[g] = stream[g]
        /\ run' = run
    BY <1>0, <1>3, <2>1 DEF ProviderAnswers, Stream
  <2>3. run.calls < MaxTurns
    BY <2>2 DEF StreamInv, TurnIsFree
  <2>4. OpenStreams'
    <3>1. \A g \in Hosts : /\ Open(g)' <=> Open(g)
                           /\ stream'[g].attempt = stream[g].attempt
      BY <2>2 DEF Open
    <3>2. run'.inflight = run.inflight
      BY <2>2
    <3> QED
      BY <3>1, <3>2 DEF StreamInv, OpenStreams
  <2>5. TurnIsFree' /\ TurnsWithinBudget'
    BY <2>2, <2>3 DEF StreamInv, TurnIsFree, TurnsWithinBudget
  <2> QED
    BY <2>4, <2>5 DEF StreamInv
<1>4. ASSUME NEW o \in {"stop", "tool_calls", "broken", "unsaved"}, TranscriptEnds(h, o)
      PROVE  StreamInv'
  <2>1. /\ stream[h].phase = "streaming"
        /\ stream'[h].phase = "done" /\ stream'[h].attempt = stream[h].attempt
        /\ \A g \in Hosts \ {h} : stream'[g] = stream[g]
        /\ run'.inflight = run.inflight
        /\ run'.calls = run.calls \/ run'.calls = run.calls + 1
    BY <1>0, <1>4 DEF TranscriptEnds, Stream, Run
  <2>2. \A g \in Hosts \ {h} : ~Open(g)
    BY <2>1 DEF StreamInv, OpenStreams, Open
  <2>3. run.calls < MaxTurns
    BY <2>1 DEF StreamInv, TurnIsFree
  <2>4. OpenStreams'
    BY <2>1 DEF StreamInv, OpenStreams, Open
  <2>5. TurnIsFree' /\ TurnsWithinBudget'
    BY <1>0, <2>1, <2>2, <2>3 DEF TurnIsFree, TurnsWithinBudget, Open
  <2> QED
    BY <2>4, <2>5 DEF StreamInv
<1>5. ASSUME NEW c \in {"none", "timeout", "cancelled"}, ReleaseModelAttempt(h, c)
      PROVE  StreamInv'
  <2>1. /\ stream[h].phase = "done"
        /\ stream'[h].phase \in {"none", "closing"} /\ stream'[h].attempt = 0
        /\ \A g \in Hosts \ {h} : stream'[g] = stream[g]
        /\ run'.calls = run.calls
    BY <1>0, <1>5 DEF ReleaseModelAttempt, NoStream, Run
  <2>2. \A g \in Hosts \ {h} : ~Open(g)
    BY <2>1 DEF StreamInv, OpenStreams, Open
  <2> QED
    BY <2>1, <2>2 DEF StreamInv, OpenStreams, TurnIsFree, TurnsWithinBudget, Open
<1>6. CASE StreamFinishesRun(h)
  <2>1. run'.inflight = run.inflight /\ run'.calls = run.calls
    BY <1>6, FinishRunKeeps DEF StreamFinishesRun
  <2>2. \A g \in Hosts \ {h} : stream'[g] = stream[g]
    BY <1>0, <1>6 DEF StreamFinishesRun
  <2>3. CASE stream[h].phase = "failing"
    <3>1. stream'[h].phase = "done" /\ stream'[h].attempt = stream[h].attempt
      BY <1>0, <1>6, <2>3 DEF StreamFinishesRun, Stream
    <3> QED
      BY <2>1, <2>2, <2>3, <3>1
         DEF StreamInv, OpenStreams, TurnIsFree, TurnsWithinBudget, Open
  <2>4. CASE stream[h].phase = "closing"
    <3>1. stream'[h].phase = "none" /\ stream'[h].attempt = 0
      BY <1>0, <1>6, <2>4 DEF StreamFinishesRun, NoStream
    <3> QED
      BY <2>1, <2>2, <2>4, <3>1
         DEF StreamInv, OpenStreams, TurnIsFree, TurnsWithinBudget, Open
  <2> QED
    BY <1>6, <2>3, <2>4 DEF StreamFinishesRun
<1> QED
  BY <1>1, <1>2, <1>3, <1>4, <1>5, <1>6 DEF Proxy

\* Every step keeps the invariant on streams.
LEMMA StepStreams ==
    ASSUME TypeOK, StreamInv, [Next]_vars
    PROVE  StreamInv'
<1>0. run \in Run
  BY DEF TypeOK
<1>1. CASE TokenStep
  <2>1. stream' = stream /\ run'.inflight = run.inflight /\ run'.calls = run.calls
    BY <1>0, <1>1 DEF TokenStep, IssueRunGrant, RenewToken, BeatHarnessToken, HostDies, Silence,
                      Expire, PruneHarnessToken, Run
  <2> QED
    BY <2>1, StreamsAlone
<1>2. CASE ToolStep
  <2>1. stream' = stream /\ run'.inflight = run.inflight /\ run'.calls = run.calls
    BY <1>0, <1>2 DEF ToolStep, ClaimToolCall, RecordToolResult, CommitPendingApproval,
                      ToolResultLost, DetachBrowser, DecideApproval, ContinueHarnessRun,
                      ReceiptCut, Run
  <2> QED
    BY <2>1, StreamsAlone
<1>3. CASE EndStep
  <2>1. stream' = stream /\ run'.inflight = run.inflight /\ run'.calls = run.calls
    BY <1>0, <1>3, FinishRunKeeps
       DEF EndStep, CompleteRun, DriveFails, CompletionFinishesRun, RequestRunCancellation,
           LookForHost, UserFinishesRun, WorkerStarts, Run
  <2> QED
    BY <2>1, StreamsAlone
<1>4. CASE Reap \/ ReaperCut
  <2>1. stream' = stream /\ run'.inflight = run.inflight /\ run'.calls = run.calls
    BY <1>4, FinishRunKeeps
       DEF ReaperCut, Reap, ReapBegin, ReapApprovals, ReapStale, ReapCancelling, ReaperFinishesRun
  <2> QED
    BY <2>1, StreamsAlone
<1>5. CASE APICrash
  <2>1. run' = run /\ \A g \in Hosts : stream'[g].phase = "none" /\ stream'[g].attempt = 0
    BY <1>5 DEF APICrash, NoStream
  <2> QED
    BY <2>1 DEF StreamInv, OpenStreams, TurnIsFree, TurnsWithinBudget, Open
<1>6. CASE UNCHANGED vars
  BY <1>6, StreamsAlone DEF vars
<1> QED
  BY <1>1, <1>2, <1>3, <1>4, <1>5, <1>6, ProxyStreams DEF Next

\* Two hosts never have model streams of a run open at once, and the run gets
\* no more responses than its turn budget, which is tested when a stream opens
\* and counted when it ends (AcquireModelAttempt, CountModelCall).
THEOREM OneModelStream == Spec => [](SingleFlight /\ TurnsWithinBudget)
<1>1. Init => StreamInv
  <2> SUFFICES ASSUME Init PROVE StreamInv
    OBVIOUS
  <2>1. run.calls = 0 /\ \A h \in Hosts : stream[h].phase = "none" /\ stream[h].attempt = 0
    BY DEF Init, NoStream
  <2>2. 0 <= MaxTurns
    BY HarnessAssumption
  <2> QED
    BY <2>1, <2>2 DEF StreamInv, OpenStreams, TurnIsFree, TurnsWithinBudget, Open
<1>2. TypeOK /\ StreamInv /\ [Next]_vars => StreamInv'
  BY StepStreams
<1>3. StreamInv => SingleFlight /\ TurnsWithinBudget
  BY DEF StreamInv, OpenStreams, Open, SingleFlight
<1> QED
  BY <1>1, <1>2, <1>3, TypeCorrect, PTL DEF Spec

-----------------------------------------------------------------------------
(* Tool calls run once.                                                     *)

\* Steps that leave the tool calls and the call counter alone.
LEMMA ToolsAlone ==
    ASSUME ToolInv, tool' = tool, ran' = ran, executing' \subseteq executing,
           run'.calls = run.calls
    PROVE  ToolInv'
BY DEF ToolInv, ToolRunsOnce

\* The execution of a tool call keeps the invariant on tool calls.
LEMMA ToolStepTools ==
    ASSUME TypeOK, ToolInv, ToolStep
    PROVE  ToolInv'
<1>0. /\ run \in Run /\ run.calls \in Nat
      /\ tool \in [Turns -> {"none", "ready", "claimed", "done", "pending", "decided"}]
      /\ ran \in [Turns -> Nat] /\ executing \in SUBSET Turns
  BY DEF TypeOK, Run
<1>1. ASSUME NEW h \in Hosts, NEW c \in Turns, ClaimToolCall(h, c)
      PROVE  ToolInv'
  <2>1. /\ tool[c] = "ready" /\ ran[c] = 0 /\ c = run.calls
        /\ tool'[c] = "claimed" /\ ran'[c] = 1
        /\ \A d \in Turns \ {c} : tool'[d] = tool[d] /\ ran'[d] = ran[d]
        /\ executing' = executing \cup {c}
        /\ run' = run
    BY <1>0, <1>1 DEF ClaimToolCall, Claimable, ToolInv
  <2>2. ~(c > run.calls)
    BY <1>0, <2>1
  <2> QED
    BY <1>0, <2>1, <2>2 DEF ToolInv, ToolRunsOnce
<1>2. ASSUME NEW c \in Turns, RecordToolResult(c) \/ CommitPendingApproval(c)
      PROVE  ToolInv'
  <2>1. /\ tool[c] = "claimed" /\ tool'[c] \in {"done", "pending"}
        /\ \A d \in Turns \ {c} : tool'[d] = tool[d]
        /\ executing' = executing \ {c}
        /\ ran' = ran /\ run'.calls = run.calls
    BY <1>0, <1>2 DEF RecordToolResult, CommitPendingApproval, ToolInv, Run
  <2> QED
    BY <1>0, <2>1 DEF ToolInv, ToolRunsOnce
<1>3. ASSUME NEW c \in Turns, ToolResultLost(c)
      PROVE  ToolInv'
  BY <1>3, ToolsAlone DEF ToolResultLost
<1>4. ASSUME NEW c \in Turns, DecideApproval(c)
      PROVE  ToolInv'
  <2>1. /\ tool[c] = "pending" /\ tool'[c] = "decided"
        /\ \A d \in Turns \ {c} : tool'[d] = tool[d]
        /\ executing' = executing /\ ran' = ran /\ run' = run
    BY <1>0, <1>4 DEF DecideApproval
  <2> QED
    BY <1>0, <2>1 DEF ToolInv, ToolRunsOnce
<1>5. CASE DetachBrowser \/ ContinueHarnessRun
  <2>1. /\ tool' = tool /\ ran' = ran /\ executing' = executing /\ run'.calls = run.calls
    BY <1>0, <1>5 DEF DetachBrowser, ContinueHarnessRun, Run
  <2> QED
    BY <2>1, ToolsAlone
<1>6. CASE ReceiptCut
  BY <1>6, ToolsAlone DEF ReceiptCut
<1> QED
  BY <1>1, <1>2, <1>3, <1>4, <1>5, <1>6 DEF ToolStep

\* The steps of the model proxy keep the invariant on tool calls.
LEMMA ProxyTools ==
    ASSUME TypeOK, ToolInv, NEW h \in Hosts,
           OpenRefused(h) \/ AcquireModelAttempt(h) \/ Proxy(h)
    PROVE  ToolInv'
<1>0. /\ run \in Run /\ run.calls \in Nat
      /\ tool \in [Turns -> {"none", "ready", "claimed", "done", "pending", "decided"}]
      /\ ran \in [Turns -> Nat] /\ executing \in SUBSET Turns
  BY DEF TypeOK, Run
<1>1. CASE OpenRefused(h) \/ AcquireModelAttempt(h) \/ ProviderAnswers(h)
  <2>1. /\ tool' = tool /\ ran' = ran /\ executing' = executing /\ run'.calls = run.calls
    BY <1>0, <1>1 DEF OpenRefused, AcquireModelAttempt, ProviderAnswers, Run
  <2> QED
    BY <2>1, ToolsAlone
<1>2. ASSUME NEW o \in {"stop", "tool_calls", "broken", "unsaved"}, TranscriptEnds(h, o)
      PROVE  ToolInv'
  <2>1. CASE o = "unsaved"
    BY <1>2, <2>1, ToolsAlone DEF TranscriptEnds
  <2>2. CASE o # "unsaved"
    <3>1. /\ run'.calls = run.calls + 1 /\ ran' = ran /\ executing' = executing
          /\ \A c \in Turns : \/ tool'[c] = tool[c]
                              \/ c = run.calls + 1 /\ tool'[c] = "ready"
      BY <1>0, <1>2, <2>2 DEF TranscriptEnds, Run
    <3>2. \A c \in Turns : c = run.calls + 1 => tool[c] = "none" /\ ran[c] = 0
      BY <1>0 DEF ToolInv, Turns
    <3>3. \A c \in Turns : c > run'.calls => c > run.calls /\ c # run.calls + 1
      BY <1>0, <3>1 DEF Turns
    <3>4. \A c \in executing : tool'[c] = "claimed"
      BY <1>0, <3>1, <3>2 DEF ToolInv
    <3>5. \A c \in Turns : c > run'.calls => tool'[c] = "none"
      BY <3>1, <3>3 DEF ToolInv
    <3>6. \A c \in Turns : tool'[c] \in {"none", "ready"} => ran'[c] = 0
      BY <3>1, <3>2 DEF ToolInv
    <3> QED
      BY <3>1, <3>4, <3>5, <3>6 DEF ToolInv, ToolRunsOnce
  <2> QED
    BY <2>1, <2>2
<1>3. ASSUME NEW c \in {"none", "timeout", "cancelled"}, ReleaseModelAttempt(h, c)
      PROVE  ToolInv'
  <2>1. /\ tool' = tool /\ ran' = ran /\ executing' = executing /\ run'.calls = run.calls
    BY <1>0, <1>3 DEF ReleaseModelAttempt, Run
  <2> QED
    BY <2>1, ToolsAlone
<1>4. CASE StreamFinishesRun(h)
  <2>1. /\ tool' = tool /\ ran' = ran /\ executing' = executing /\ run'.calls = run.calls
    BY <1>4, FinishRunKeeps DEF StreamFinishesRun
  <2> QED
    BY <2>1, ToolsAlone
<1> QED
  BY <1>1, <1>2, <1>3, <1>4 DEF Proxy

\* Every step keeps the invariant on tool calls.
LEMMA StepTools ==
    ASSUME TypeOK, ToolInv, [Next]_vars
    PROVE  ToolInv'
<1>0. run \in Run
  BY DEF TypeOK
<1>1. CASE TokenStep
  <2>1. tool' = tool /\ ran' = ran /\ executing' = executing /\ run'.calls = run.calls
    BY <1>0, <1>1 DEF TokenStep, IssueRunGrant, RenewToken, BeatHarnessToken, HostDies, Silence,
                      Expire, PruneHarnessToken, Run
  <2> QED
    BY <2>1, ToolsAlone
<1>2. CASE EndStep
  <2>1. tool' = tool /\ ran' = ran /\ executing' = executing /\ run'.calls = run.calls
    BY <1>0, <1>2, FinishRunKeeps
       DEF EndStep, CompleteRun, DriveFails, CompletionFinishesRun, RequestRunCancellation,
           LookForHost, UserFinishesRun, WorkerStarts, Run
  <2> QED
    BY <2>1, ToolsAlone
<1>3. CASE Reap \/ ReaperCut
  <2>1. tool' = tool /\ ran' = ran /\ executing' = executing /\ run'.calls = run.calls
    BY <1>3, FinishRunKeeps
       DEF ReaperCut, Reap, ReapBegin, ReapApprovals, ReapStale, ReapCancelling, ReaperFinishesRun
  <2> QED
    BY <2>1, ToolsAlone
<1>4. CASE APICrash
  <2>1. tool' = tool /\ ran' = ran /\ executing' = {} /\ run' = run
    BY <1>4 DEF APICrash
  <2> QED
    BY <2>1, ToolsAlone
<1>5. CASE UNCHANGED vars
  BY <1>5, ToolsAlone DEF vars
<1> QED
  BY <1>1, <1>2, <1>3, <1>4, <1>5, ToolStepTools, ProxyTools DEF Next

\* No tool call is executed twice, over retries of its host, a change of host
\* and restarts of the API (ClaimToolCall).
THEOREM ToolsRunOnce == Spec => []ToolRunsOnce
<1>1. Init => ToolInv
  BY DEF Init, ToolInv, ToolRunsOnce
<1>2. TypeOK /\ ToolInv /\ [Next]_vars => ToolInv'
  BY StepTools
<1>3. ToolInv => ToolRunsOnce
  BY DEF ToolInv
<1> QED
  BY <1>1, <1>2, <1>3, TypeCorrect, PTL DEF Spec

-----------------------------------------------------------------------------
(* Success.                                                                 *)

\* Steps that change nothing a verdict of success depends on.
LEMMA SuccessAlone ==
    ASSUME SuccessInv, answered' = answered, run'.verified \in {run.verified, FALSE},
           run'.status = "succeeded" => answered,
           \A h \in Hosts : completing'[h] = "succeeded" => completing[h] = "succeeded"
    PROVE  SuccessInv'
BY DEF SuccessInv, SuccessNeedsModelStop

\* finishRun reports success only when its caller asked for it.
LEMMA FinishRunSuccess ==
    ASSUME TypeOK, SuccessInv, NEW s, FinishRun(s), s = "succeeded" => answered
    PROVE  run'.status = "succeeded" => answered
<1>1. CASE run.status \in Terminal
  BY <1>1 DEF FinishRun, SuccessInv, SuccessNeedsModelStop
<1>2. CASE run.status \notin Terminal
  <2>1. run'.status = EndStatus(s)
    BY <1>2 DEF FinishRun, TypeOK, Run
  <2> QED
    BY <2>1 DEF EndStatus
<1> QED
  BY <1>1, <1>2

\* Every step keeps the invariant on success.
LEMMA StepSuccess ==
    ASSUME TypeOK, EndingsAreTerminal, SuccessInv, [Next]_vars
    PROVE  SuccessInv'
<1>0. run \in Run /\ (run.status = "succeeded" => answered)
  BY DEF TypeOK, SuccessInv, SuccessNeedsModelStop
<1>1. CASE TokenStep
  <2>1. answered' = answered /\ completing' = completing /\ run'.verified = run.verified
    BY <1>0, <1>1 DEF TokenStep, IssueRunGrant, RenewToken, BeatHarnessToken, HostDies, Silence,
                      Expire, PruneHarnessToken, Run
  <2>2. run'.status = "succeeded" => run.status = "succeeded"
    BY <1>0, <1>1 DEF TokenStep, IssueRunGrant, RenewToken, BeatHarnessToken, HostDies, Silence,
                      Expire, PruneHarnessToken, Run
  <2> QED
    BY <1>0, <2>1, <2>2, SuccessAlone
<1>2. CASE ToolStep
  <2>1. answered' = answered /\ completing' = completing /\ run'.verified = run.verified
    BY <1>0, <1>2 DEF ToolStep, ClaimToolCall, RecordToolResult, CommitPendingApproval,
                      ToolResultLost, DetachBrowser, DecideApproval, ContinueHarnessRun,
                      ReceiptCut, Run
  <2>2. run'.status = "succeeded" => run.status = "succeeded"
    BY <1>0, <1>2 DEF ToolStep, ClaimToolCall, RecordToolResult, CommitPendingApproval,
                      ToolResultLost, DetachBrowser, DecideApproval, ContinueHarnessRun,
                      ReceiptCut, Run
  <2> QED
    BY <1>0, <2>1, <2>2, SuccessAlone
<1>3. ASSUME NEW h \in Hosts, OpenRefused(h) \/ AcquireModelAttempt(h) \/ Proxy(h)
      PROVE  SuccessInv'
  <2>1. CASE OpenRefused(h) \/ AcquireModelAttempt(h) \/ ProviderAnswers(h)
    <3>1. /\ answered' = answered /\ completing' = completing
          /\ run'.status = run.status /\ run'.verified \in {run.verified, FALSE}
      BY <1>0, <2>1 DEF OpenRefused, AcquireModelAttempt, ProviderAnswers, Run
    <3> QED
      BY <1>0, <3>1, SuccessAlone
  <2>2. ASSUME NEW o \in {"stop", "tool_calls", "broken", "unsaved"}, TranscriptEnds(h, o)
        PROVE  SuccessInv'
    <3>1. CASE o = "unsaved"
      BY <1>0, <2>2, <3>1, SuccessAlone DEF TranscriptEnds
    <3>2. CASE o # "unsaved"
      <4>1. /\ completing' = completing /\ run'.status = run.status
            /\ run'.verified = (o = "stop") /\ answered' = (answered \/ o = "stop")
        BY <1>0, <2>2, <3>2 DEF TranscriptEnds, Run
      <4> QED
        BY <1>0, <4>1 DEF SuccessInv, SuccessNeedsModelStop
    <3> QED
      BY <3>1, <3>2
  <2>3. ASSUME NEW c \in {"none", "timeout", "cancelled"}, ReleaseModelAttempt(h, c)
        PROVE  SuccessInv'
    <3>1. /\ answered' = answered /\ completing' = completing
          /\ run'.status = run.status /\ run'.verified = run.verified
      BY <1>0, <2>3 DEF ReleaseModelAttempt, Run
    <3> QED
      BY <1>0, <3>1, SuccessAlone
  <2>4. CASE StreamFinishesRun(h)
    <3>1. run'.status = "succeeded" => answered
      BY <2>4, FinishRunSuccess DEF StreamFinishesRun, EndingsAreTerminal
    <3>2. answered' = answered /\ completing' = completing /\ run'.verified = run.verified
      BY <2>4, FinishRunKeeps DEF StreamFinishesRun
    <3> QED
      BY <3>1, <3>2, SuccessAlone
  <2> QED
    BY <1>3, <2>1, <2>2, <2>3, <2>4 DEF Proxy
<1>4. CASE EndStep
  <2>1. ASSUME NEW h \in Hosts, NEW r \in {"stop", "error", "cancelled"}, CompleteRun(h, r)
        PROVE  SuccessInv'
    <3>1. Verdict(r) = "succeeded" => answered
      BY DEF Verdict, SuccessInv
    <3>2. /\ answered' = answered /\ run' = run
          /\ \A g \in Hosts : completing'[g] = "succeeded" => answered
      BY <2>1, <3>1 DEF CompleteRun, TypeOK, SuccessInv
    <3> QED
      BY <3>2 DEF SuccessInv, SuccessNeedsModelStop
  <2>2. ASSUME NEW h \in Hosts, DriveFails(h) PROVE SuccessInv'
    <3>1. /\ answered' = answered /\ run' = run
          /\ \A g \in Hosts : completing'[g] = "succeeded" => completing[g] = "succeeded"
      BY <2>2 DEF DriveFails, TypeOK
    <3> QED
      BY <1>0, <3>1, SuccessAlone
  <2>3. ASSUME NEW h \in Hosts, CompletionFinishesRun(h) PROVE SuccessInv'
    <3>1. run'.status = "succeeded" => answered
      BY <2>3, FinishRunSuccess DEF CompletionFinishesRun, SuccessInv
    <3>2. answered' = answered /\ run'.verified = run.verified
      BY <2>3, FinishRunKeeps DEF CompletionFinishesRun
    <3>3. \A g \in Hosts : completing'[g] = "succeeded" => completing[g] = "succeeded"
      BY <2>3 DEF CompletionFinishesRun, TypeOK
    <3> QED
      BY <3>1, <3>2, <3>3, SuccessAlone
  <2>4. CASE UserFinishesRun
    <3>1. run'.status = "succeeded" => answered
      BY <2>4, FinishRunSuccess DEF UserFinishesRun
    <3>2. answered' = answered /\ completing' = completing /\ run'.verified = run.verified
      BY <2>4, FinishRunKeeps DEF UserFinishesRun
    <3> QED
      BY <3>1, <3>2, SuccessAlone
  <2>5. CASE RequestRunCancellation \/ LookForHost \/ WorkerStarts
    <3>1. /\ answered' = answered /\ completing' = completing /\ run'.verified = run.verified
          /\ run'.status = "succeeded" => run.status = "succeeded"
      BY <1>0, <2>5 DEF RequestRunCancellation, LookForHost, WorkerStarts, Run
    <3> QED
      BY <1>0, <3>1, SuccessAlone
  <2> QED
    BY <1>4, <2>1, <2>2, <2>3, <2>4, <2>5 DEF EndStep
<1>5. CASE ReaperFinishesRun
  <2>1. run'.status = "succeeded" => answered
    BY <1>5, FinishRunSuccess DEF ReaperFinishesRun, EndingsAreTerminal
  <2>2. answered' = answered /\ completing' = completing /\ run'.verified = run.verified
    BY <1>5, FinishRunKeeps DEF ReaperFinishesRun
  <2> QED
    BY <2>1, <2>2, SuccessAlone
<1>6. CASE Reap \/ ReaperCut
  <2>1. ReaperFinishesRun \/ (answered' = answered /\ completing' = completing /\ run' = run)
    BY <1>6 DEF Reap, ReaperCut, ReapBegin, ReapApprovals, ReapStale, ReapCancelling
  <2> QED
    BY <1>0, <1>5, <2>1, SuccessAlone
<1>7. CASE APICrash
  <2>1. answered' = answered /\ run' = run /\ \A h \in Hosts : completing'[h] = "none"
    BY <1>7 DEF APICrash
  <2> QED
    BY <1>0, <2>1, SuccessAlone
<1>8. CASE UNCHANGED vars
  BY <1>0, <1>8, SuccessAlone DEF vars
<1> QED
  BY <1>1, <1>2, <1>3, <1>4, <1>6, <1>7, <1>8 DEF Next

\* A run is never reported as succeeded unless the model itself ended a
\* response with a stop, whatever its hosts claim (CompleteRun).
THEOREM HonestSuccess == Spec => []SuccessNeedsModelStop
<1>1. Init => SuccessInv
  <2> SUFFICES ASSUME Init PROVE SuccessInv
    OBVIOUS
  <2>1. run.verified = FALSE /\ run.status = "queued" /\ \A h \in Hosts : completing[h] = "none"
    BY DEF Init
  <2> QED
    BY <2>1 DEF SuccessInv, SuccessNeedsModelStop
<1>2. TypeOK /\ EndingsAreTerminal /\ SuccessInv /\ [Next]_vars => SuccessInv'
  BY StepSuccess
<1>3. SuccessInv => SuccessNeedsModelStop
  BY DEF SuccessInv
<1> QED
  BY <1>1, <1>2, <1>3, InitType, StepType, PTL DEF Spec

-----------------------------------------------------------------------------
(* The ledger of the run.                                                   *)

\* A run that works, or has yet to start, has no proposal that waits.
WorkingMeansDecided ==
    run.status \in {"queued", "running"} => \A c \in Turns : tool[c] # "pending"

LedgerInv == TypeOK /\ EndingsAreTerminal /\ CancelWins /\ ToolInv /\ WorkingMeansDecided

LedgerStep == [Ledger!LedgerNext]_(Ledger!ledger)

\* The proposals that wait for the user.
Waiting == {c \in Turns : tool[c] = "pending"}

\* A step that writes neither the status nor a proposal is none of the ledger's.
LEMMA LedgerRests ==
    ASSUME run'.status = run.status, run'.cancel = run.cancel,
           \A c \in Turns : tool'[c] = "pending" <=> tool[c] = "pending"
    PROVE  LedgerStep
BY DEF LedgerStep, Ledger!ledger

\* finishRun ends the run of the ledger, or finds it ended.
LEMMA LedgerFinishes ==
    ASSUME TypeOK, NEW s \in Terminal, FinishRun(s), tool' = tool
    PROVE  LedgerStep
<1>1. CASE run.status \in Terminal
  BY <1>1, LedgerRests DEF FinishRun
<1>2. CASE run.status \notin Terminal
  <2>1. /\ run'.status = IF run.cancel THEN "cancelled" ELSE s
        /\ run'.cancel = run.cancel
    BY <1>2 DEF FinishRun, EndStatus, TypeOK, Run
  <2>2. Ledger!Ends(s)
    BY <1>2, <2>1 DEF Ledger!Ends, Ledger!Ended, Terminal
  <2> QED
    BY <2>2 DEF LedgerStep, Ledger!LedgerNext, Ledger!Ended, Terminal
<1> QED
  BY <1>1, <1>2

\* A step of the ledger keeps what the steps below need of it.
LEMMA LedgerKeeps ==
    ASSUME WorkingMeansDecided, LedgerStep
    PROVE  WorkingMeansDecided'
<1>1. CASE UNCHANGED Ledger!ledger
  <2>1. run'.status = run.status /\ Waiting' = Waiting
    BY <1>1 DEF Ledger!ledger, Waiting
  <2> QED
    BY <2>1 DEF WorkingMeansDecided, Waiting
<1>2. CASE Ledger!PickedUp \/ Ledger!Resumes
  <2>1. Waiting = {} /\ Waiting' = Waiting
    BY <1>2 DEF Ledger!PickedUp, Ledger!Resumes, WorkingMeansDecided, Waiting
  <2> QED
    BY <2>1 DEF WorkingMeansDecided, Waiting
<1>3. CASE Ledger!CancelAsked
  BY <1>3 DEF Ledger!CancelAsked, WorkingMeansDecided
<1>4. ASSUME NEW c \in Turns, Ledger!ParksFor(c)
      PROVE  WorkingMeansDecided'
  BY <1>4 DEF Ledger!ParksFor, WorkingMeansDecided
<1>5. ASSUME NEW c \in Turns, Ledger!Decided(c)
      PROVE  WorkingMeansDecided'
  <2>1. run'.status = run.status /\ Waiting' = Waiting \ {c}
    BY <1>5 DEF Ledger!Decided, Waiting
  <2> QED
    BY <2>1 DEF WorkingMeansDecided, Waiting
<1>6. ASSUME NEW s \in Ledger!Ended, Ledger!Ends(s)
      PROVE  WorkingMeansDecided'
  BY <1>6 DEF Ledger!Ends, Ledger!Ended, WorkingMeansDecided
<1> QED
  BY <1>1, <1>2, <1>3, <1>4, <1>5, <1>6 DEF LedgerStep, Ledger!LedgerNext

\* Tokens pick the run up; nothing else about them concerns the ledger.
LEMMA TokenLedger ==
    ASSUME LedgerInv, TokenStep
    PROVE  LedgerStep
<1>1. ASSUME NEW h \in Hosts, NEW t \in Tokens, IssueRunGrant(h, t)
      PROVE  LedgerStep
  <2>1. /\ run'.status = IF run.status = "queued" THEN "running" ELSE run.status
        /\ run'.cancel = run.cancel /\ tool' = tool
    BY <1>1 DEF IssueRunGrant, LedgerInv, TypeOK, Run
  <2>2. CASE run.status = "queued"
    BY <2>1, <2>2 DEF LedgerStep, Ledger!LedgerNext, Ledger!PickedUp
  <2> QED
    BY <2>1, <2>2, LedgerRests
<1>2. ASSUME NEW h \in Hosts, NEW t \in Tokens, RenewToken(h, t)
      PROVE  run' = run /\ tool' = tool
  BY <1>2 DEF RenewToken
<1>3. ASSUME NEW h \in Hosts, BeatHarnessToken(h) \/ HostDies(h)
      PROVE  run' = run /\ tool' = tool
  BY <1>3 DEF BeatHarnessToken, HostDies
<1>4. ASSUME NEW t \in Tokens, Silence(t) \/ Expire(t) \/ PruneHarnessToken(t)
      PROVE  run' = run /\ tool' = tool
  BY <1>4 DEF Silence, Expire, PruneHarnessToken
<1> QED
  BY <1>1, <1>2, <1>3, <1>4, LedgerRests DEF TokenStep

\* The model proxy starts and counts responses, and may end the run.
LEMMA ProxyLedger ==
    ASSUME LedgerInv, NEW h \in Hosts, OpenRefused(h) \/ AcquireModelAttempt(h) \/ Proxy(h)
    PROVE  LedgerStep
<1>0. TypeOK /\ run \in Run
  BY DEF LedgerInv, TypeOK
<1>1. CASE OpenRefused(h) \/ AcquireModelAttempt(h) \/ ProviderAnswers(h)
  <2>1. run'.status = run.status /\ run'.cancel = run.cancel /\ tool' = tool
    BY <1>0, <1>1 DEF OpenRefused, AcquireModelAttempt, ProviderAnswers, Run
  <2> QED
    BY <2>1, LedgerRests
<1>2. ASSUME NEW o \in {"stop", "tool_calls", "broken", "unsaved"}, TranscriptEnds(h, o)
      PROVE  LedgerStep
  <2>1. run'.status = run.status /\ run'.cancel = run.cancel
    BY <1>0, <1>2 DEF TranscriptEnds, Run
  <2>2. \A c \in Turns : tool'[c] = tool[c] \/ (c = run.calls + 1 /\ tool'[c] = "ready")
    BY <1>2 DEF TranscriptEnds
  <2>3. \A c \in Turns : c = run.calls + 1 => tool[c] = "none"
    BY <1>0 DEF LedgerInv, ToolInv, Turns, Run
  <2> QED
    BY <2>1, <2>2, <2>3, LedgerRests
<1>3. ASSUME NEW c \in {"none", "timeout", "cancelled"}, ReleaseModelAttempt(h, c)
      PROVE  LedgerStep
  <2>1. run'.status = run.status /\ run'.cancel = run.cancel /\ tool' = tool
    BY <1>0, <1>3 DEF ReleaseModelAttempt, Run
  <2> QED
    BY <2>1, LedgerRests
<1>4. CASE StreamFinishesRun(h)
  <2>1. stream[h].ending \in Terminal /\ FinishRun(stream[h].ending) /\ tool' = tool
    BY <1>4 DEF StreamFinishesRun, LedgerInv, EndingsAreTerminal, TypeOK, Stream, Ending
  <2> QED
    BY <1>0, <2>1, LedgerFinishes
<1> QED
  BY <1>1, <1>2, <1>3, <1>4 DEF Proxy

\* Proposals park the run; decisions, and the release after the last one, are
\* steps of their own.
LEMMA ToolLedger ==
    ASSUME LedgerInv, ToolStep
    PROVE  LedgerStep
<1>0. /\ TypeOK /\ run \in Run
      /\ tool \in [Turns -> {"none", "ready", "claimed", "done", "pending", "decided"}]
      /\ \A c \in executing : c \in Turns /\ tool[c] = "claimed"
  BY DEF LedgerInv, ToolInv, TypeOK
<1>1. ASSUME NEW h \in Hosts, NEW c \in Turns, ClaimToolCall(h, c)
      PROVE  LedgerStep
  BY <1>0, <1>1, LedgerRests DEF ClaimToolCall, Claimable
<1>2. ASSUME NEW c \in Turns, RecordToolResult(c) \/ ToolResultLost(c)
      PROVE  LedgerStep
  BY <1>0, <1>2, LedgerRests DEF RecordToolResult, ToolResultLost
<1>3. ASSUME NEW c \in Turns, CommitPendingApproval(c)
      PROVE  LedgerStep
  <2>1. /\ run.status \in {"running", "awaiting_approval"} /\ ~run.cancel
        /\ run'.status = "awaiting_approval" /\ run'.cancel = run.cancel
        /\ Waiting' = Waiting \cup {c}
    BY <1>0, <1>3 DEF CommitPendingApproval, MayPark, Run, Waiting
  <2>2. Ledger!ParksFor(c)
    BY <2>1 DEF Ledger!ParksFor, Waiting
  <2> QED
    BY <2>2 DEF LedgerStep, Ledger!LedgerNext
<1>4. ASSUME NEW c \in Turns, DecideApproval(c)
      PROVE  LedgerStep
  <2>1. /\ c \in Waiting /\ Waiting' = Waiting \ {c}
        /\ run' = run
    BY <1>0, <1>4 DEF DecideApproval, Waiting
  <2>2. Ledger!Decided(c)
    BY <2>1 DEF Ledger!Decided, Waiting
  <2> QED
    BY <2>2 DEF LedgerStep, Ledger!LedgerNext
<1>5. CASE DetachBrowser
  <2>1. /\ run.status = "awaiting_approval" /\ ~run.cancel
        /\ run'.status = "interrupted" /\ run'.cancel = run.cancel /\ tool' = tool
    BY <1>0, <1>5 DEF DetachBrowser, Run
  <2>2. Ledger!Ends("interrupted")
    BY <2>1 DEF Ledger!Ends, Ledger!Ended
  <2> QED
    BY <2>2 DEF LedgerStep, Ledger!LedgerNext, Ledger!Ended
<1>6. CASE ContinueHarnessRun
  <2>0. run'.cancel = run.cancel /\ tool' = tool
    BY <1>0, <1>6 DEF ContinueHarnessRun, Run
  <2>1. CASE ~MayContinue
    <3>1. run'.status = run.status
      BY <1>0, <1>6, <2>1 DEF ContinueHarnessRun, Run
    <3> QED
      BY <2>0, <3>1, LedgerRests
  <2>2. CASE MayContinue /\ \E c \in Turns : tool[c] = "pending"
    <3>1. run'.status = "awaiting_approval"
      BY <1>0, <1>6, <2>2 DEF ContinueHarnessRun, Run
    <3>2. run.status = "awaiting_approval"
      BY <1>0, <2>2 DEF MayContinue, Active, LedgerInv, CancelWins, WorkingMeansDecided
    <3> QED
      BY <2>0, <3>1, <3>2, LedgerRests
  <2>3. CASE MayContinue /\ \A c \in Turns : tool[c] # "pending"
    <3>1. run'.status = "running" /\ Waiting = {} /\ Waiting' = Waiting
      BY <1>0, <1>6, <2>0, <2>3 DEF ContinueHarnessRun, Run, Waiting
    <3>2. run.status \in {"queued", "running", "awaiting_approval"} /\ ~run.cancel
      BY <2>3 DEF MayContinue, Active, LedgerInv, CancelWins
    <3>3. CASE run.status = "queued"
      <4>1. Ledger!PickedUp
        BY <2>0, <3>1, <3>3 DEF Ledger!PickedUp
      <4> QED
        BY <4>1 DEF LedgerStep, Ledger!LedgerNext
    <3>4. CASE run.status = "running"
      BY <2>0, <3>1, <3>4, LedgerRests
    <3>5. CASE run.status = "awaiting_approval"
      <4>1. Ledger!Resumes
        BY <2>0, <3>1, <3>2, <3>5 DEF Ledger!Resumes, Waiting
      <4> QED
        BY <4>1 DEF LedgerStep, Ledger!LedgerNext
    <3> QED
      BY <3>2, <3>3, <3>4, <3>5
  <2> QED
    BY <2>1, <2>2, <2>3
<1>7. CASE ReceiptCut
  BY <1>7, LedgerRests DEF ReceiptCut
<1> QED
  BY <1>1, <1>2, <1>3, <1>4, <1>5, <1>6, <1>7 DEF ToolStep

\* Completions, cancellations and restarts.
LEMMA EndLedger ==
    ASSUME LedgerInv, EndStep
    PROVE  LedgerStep
<1>0. TypeOK /\ run \in Run
  BY DEF LedgerInv, TypeOK
<1>1. ASSUME NEW h \in Hosts, NEW r \in {"stop", "error", "cancelled"}, CompleteRun(h, r)
      PROVE  LedgerStep
  BY <1>1, LedgerRests DEF CompleteRun
<1>2. ASSUME NEW h \in Hosts, DriveFails(h)
      PROVE  LedgerStep
  BY <1>2, LedgerRests DEF DriveFails
<1>3. ASSUME NEW h \in Hosts, CompletionFinishesRun(h)
      PROVE  LedgerStep
  <2>1. completing[h] \in Terminal /\ FinishRun(completing[h]) /\ tool' = tool
    BY <1>0, <1>3 DEF CompletionFinishesRun, TypeOK, Ending
  <2> QED
    BY <1>0, <2>1, LedgerFinishes
<1>4. CASE RequestRunCancellation
  <2>1. /\ run.status \in {"queued", "running", "awaiting_approval"}
        /\ run'.status = "cancelling" /\ run'.cancel = TRUE /\ tool' = tool
    BY <1>0, <1>4 DEF RequestRunCancellation, Active, Run
  <2>2. Ledger!CancelAsked
    BY <2>1 DEF Ledger!CancelAsked
  <2> QED
    BY <2>2 DEF LedgerStep, Ledger!LedgerNext
<1>5. CASE LookForHost
  BY <1>5, LedgerRests DEF LookForHost
<1>6. CASE UserFinishesRun
  <2>1. "cancelled" \in Terminal /\ FinishRun("cancelled") /\ tool' = tool
    BY <1>6 DEF UserFinishesRun, Terminal
  <2> QED
    BY <1>0, <2>1, LedgerFinishes
<1>7. CASE WorkerStarts
  <2>1. /\ run.status \in {"queued", "running"} /\ ~run.cancel
        /\ run'.status = "interrupted" /\ run'.cancel = run.cancel /\ tool' = tool
    BY <1>0, <1>7 DEF WorkerStarts, LedgerInv, CancelWins, Run
  <2>2. Ledger!Ends("interrupted")
    BY <2>1 DEF Ledger!Ends, Ledger!Ended
  <2> QED
    BY <2>2 DEF LedgerStep, Ledger!LedgerNext, Ledger!Ended
<1> QED
  BY <1>1, <1>2, <1>3, <1>4, <1>5, <1>6, <1>7 DEF EndStep

\* Every step is a step of the ledger, or none.
LEMMA NextLedger ==
    ASSUME LedgerInv, [Next]_vars
    PROVE  LedgerStep
<1>1. CASE ReaperFinishesRun
  <2>1. reaper.ending \in Terminal /\ FinishRun(reaper.ending) /\ tool' = tool
    BY <1>1 DEF ReaperFinishesRun, LedgerInv, TypeOK, Ending
  <2> QED
    BY <2>1, LedgerFinishes DEF LedgerInv
<1>2. CASE Reap \/ ReaperCut
  <2>1. ReaperFinishesRun \/ (run' = run /\ tool' = tool)
    BY <1>2 DEF Reap, ReaperCut, ReapBegin, ReapApprovals, ReapStale, ReapCancelling
  <2> QED
    BY <1>1, <2>1, LedgerRests
<1>3. CASE APICrash \/ UNCHANGED vars
  <2>1. run' = run /\ tool' = tool
    BY <1>3 DEF APICrash, vars
  <2> QED
    BY <2>1, LedgerRests
<1> QED
  BY <1>2, <1>3, TokenLedger, ProxyLedger, ToolLedger, EndLedger DEF Next

\* However hosts, streams, windows, deadlines, the reaper and restarts
\* interleave, the run works, waits for the user and ends as the ledger says
\* (finishRun, setApprovalRunStatus, issueRunGrant, commitPendingApproval).
THEOREM RunRefinement == Spec => ImplementsRunLedger
<1>1. Init => LedgerInv /\ Ledger!LedgerInit
  <2> SUFFICES ASSUME Init PROVE LedgerInv /\ Ledger!LedgerInit
    OBVIOUS
  <2>1. run.cancel = FALSE /\ run.status = "queued" /\ \A c \in Turns : tool[c] = "none"
    BY DEF Init
  <2>2. CancelWins /\ WorkingMeansDecided
    BY <2>1 DEF CancelWins, WorkingMeansDecided
  <2>3. ToolInv
    BY DEF Init, ToolInv, ToolRunsOnce
  <2>4. Ledger!LedgerInit
    BY <2>1 DEF Ledger!LedgerInit
  <2> QED
    BY <2>2, <2>3, <2>4, InitType DEF LedgerInv
<1>2. LedgerInv /\ [Next]_vars => LedgerInv'
  BY StepType, StepEnds, StepTools, NextLedger, LedgerKeeps DEF LedgerInv
<1>3. LedgerInv /\ [Next]_vars => [Ledger!LedgerNext]_(Ledger!ledger)
  BY NextLedger DEF LedgerStep
<1> QED
  BY <1>1, <1>2, <1>3, PTL DEF Spec, ImplementsRunLedger, Ledger!LedgerSpec
=============================================================================
