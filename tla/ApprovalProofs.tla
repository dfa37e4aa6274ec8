--------------------------- MODULE ApprovalProofs ---------------------------
(***************************************************************************)
(* Proofs about module Approval, for any number of proposal calls, windows *)
(* and server processes.                                                   *)
(***************************************************************************)
EXTENDS Approval, TLAPS

(* Each step's part of the state stays well typed.                          *)
LEMMA TypeInit == Init => TypeOK
<1>1. NoReceipt \in Receipt /\ "none" \in Answers
  BY DEF Receipt, Answers
<1>2. Init => receipt \in [Windows -> Receipt] /\ told \in [Calls -> Answers]
  BY <1>1 DEF Init
<1>3. Init => run \in Run /\ part \in [Calls -> Part]
  BY DEF Init, Run, Part
<1>4. Init => lost \in BOOLEAN
  BY DEF Init
<1>5. Init => changes \in [Calls -> Nat] /\ moved \in SUBSET Calls
  BY DEF Init
<1>6. Init => /\ proposal \in [Calls -> {"none", "pending", "applied", "rejected", "conflict"}]
              /\ waiter \in [Calls -> {"idle", "polling", "undecided", "expired", "resulted",
                                      "marked"}]
  BY DEF Init
<1> QED
  BY <1>2, <1>3, <1>4, <1>5, <1>6 DEF TypeOK

LEMMA LeavesType ==
    ASSUME receipt \in [Windows -> Receipt], NEW w \in Windows, Leaves(w)
    PROVE  receipt' \in [Windows -> Receipt]
BY DEF Leaves, Receipt, NoReceipt

LEMMA MovesType ==
    ASSUME receipt \in [Windows -> Receipt], NEW w \in Windows,
           NEW at \in {"received", "checked", "failed", "applied", "release"},
           receipt[w].at # "idle", Moves(w, at)
    PROVE  receipt' \in [Windows -> Receipt]
<1>1. receipt[w] \in [at: {"received", "checked", "failed", "applied", "release"},
                      call: Calls, approve: BOOLEAN]
  BY DEF Receipt, NoReceipt
<1>2. [receipt[w] EXCEPT !.at = at] \in Receipt
  BY <1>1 DEF Receipt
<1> QED
  BY <1>2 DEF Moves

LEMMA CallOf ==
    ASSUME receipt \in [Windows -> Receipt], NEW w \in Windows, receipt[w].at # "idle"
    PROVE  receipt[w].call \in Calls
BY DEF Receipt, NoReceipt

LEMMA FinishRunType ==
    ASSUME run \in Run, NEW s \in Terminal, FinishRun(s)
    PROVE  run' \in Run
BY DEF Run, FinishRun, Terminal

LEMMA ApplyChangesType ==
    ASSUME TypeOK, NEW c \in Calls, ApplyChanges(c)
    PROVE  /\ proposal' \in [Calls -> {"none", "pending", "applied", "rejected", "conflict"}]
           /\ moved' \in SUBSET Calls
           /\ changes' \in [Calls -> Nat]
<1>1. changes[c] + 1 \in Nat
  BY DEF TypeOK
<1> QED
  BY <1>1 DEF TypeOK, ApplyChanges

(* A request that is cut off leaves a receipt or a long poll, and nothing   *)
(* else.                                                                    *)
LEMMA CutLeaves ==
    ASSUME TypeOK, Cut
    PROVE  /\ UNCHANGED <<run, part, proposal, moved, changes, told>>
           /\ receipt' \in [Windows -> Receipt]
           /\ \A w \in Windows : receipt'[w] \in {receipt[w], NoReceipt}
           /\ waiter' \in [Calls -> {"idle", "polling", "undecided", "expired", "resulted",
                                     "marked"}]
           /\ \A c \in Calls : waiter'[c] \in {waiter[c], "idle"}
           /\ lost' \in BOOLEAN
<1>1. CASE \E w \in Windows : RequestCut(w)
  <2>1. PICK w \in Windows : RequestCut(w)
    BY <1>1
  <2> QED
    BY <2>1, LeavesType DEF RequestCut, Leaves, TypeOK
<1>2. CASE \E c \in Calls : WaitCut(c)
  BY <1>2 DEF WaitCut, TypeOK
<1> QED
  BY <1>1, <1>2 DEF Cut

(* Only a call with an approval status is waited for.                       *)
Waited == \A c \in Calls : waiter[c] # "idle" =>
                            part[c].approval \notin {"none", "staging", "lost"}

LEMMA TypeStep == TypeOK /\ Waited /\ [Next]_vars => TypeOK'
<1> SUFFICES ASSUME TypeOK, Waited, [Next]_vars
             PROVE  TypeOK'
  OBVIOUS
<1>1. ASSUME NEW c \in Calls, ToolStep(c)
      PROVE  TypeOK'
  <2>1. CASE StageProposal(c)
    BY <2>1 DEF TypeOK, Part, StageProposal
  <2>2. CASE CommitPendingApproval(c)
    BY <2>2 DEF TypeOK, Run, Part, CommitPendingApproval
  <2>3. CASE ParkRefused(c)
    BY <2>3 DEF TypeOK, Part, ParkRefused
  <2> QED
    BY <1>1, <2>1, <2>2, <2>3 DEF ToolStep
<1>2. ASSUME NEW c \in Calls, WaitStep(c)
      PROVE  TypeOK'
  <2>1. CASE StartWait(c)
    BY <2>1 DEF TypeOK, StartWait
  <2>4. CASE ReadApprovalDecision(c)
    <3>1. ~Pending(c) => part[c].approval \in {"approved", "rejected", "conflict", "timeout"}
      BY <2>4 DEF TypeOK, Waited, Part, Pending, ReadApprovalDecision
    <3>2. CASE Pending(c) /\ proposal[c] # "conflict"
      BY <2>4, <3>2 DEF TypeOK, ReadApprovalDecision
    <3>3. CASE ~(Pending(c) /\ proposal[c] # "conflict")
      BY <2>4, <3>1, <3>3 DEF TypeOK, ReadApprovalDecision, Tell, Answers
    <3> QED
      BY <3>2, <3>3
  <2>5. ASSUME NEW late \in BOOLEAN, ReadRun(c, late)
        PROVE  TypeOK'
    BY <2>5 DEF TypeOK, ReadRun, Tell, Answers
  <2>2. CASE TimeoutResult(c) \/ TimeoutApproval(c)
    <3>1. part' \in [Calls -> Part]
      BY <2>2 DEF TypeOK, Part, TimeoutResult, TimeoutApproval
    <3> QED
      BY <2>2, <3>1 DEF TypeOK, TimeoutResult, TimeoutApproval
  <2>3. CASE TimeoutFinishesRun(c)
    <3>1. run' \in Run
      BY <2>3, FinishRunType DEF TypeOK, TimeoutFinishesRun, Terminal
    <3> QED
      BY <2>3, <3>1 DEF TypeOK, TimeoutFinishesRun, Tell, Answers
  <2> QED
    BY <1>2, <2>1, <2>2, <2>3, <2>4, <2>5 DEF WaitStep, TimeoutStep
<1>3. ASSUME NEW w \in Windows, NEW c \in Calls, NEW approve \in BOOLEAN,
             NEW detach \in BOOLEAN, ReceiveReceipt(w, c, approve, detach)
      PROVE  TypeOK'
  BY <1>3 DEF TypeOK, Receipt, ReceiveReceipt
<1>4. ASSUME NEW w \in Windows, ResolveStep(w)
      PROVE  TypeOK'
  <2>1. receipt[w].call \in Calls
    BY <1>4, CallOf DEF TypeOK, ResolveStep, Detach, ApplyProposal, ReceiptRefused, ApplyFails,
                        RecordConflict, RejectProposal, RecordApproval, ReleaseRun
  <2>2. receipt' \in [Windows -> Receipt]
    BY <1>4, LeavesType, MovesType
       DEF TypeOK, ResolveStep, Detach, ApplyProposal, ReceiptRefused, ApplyFails,
           RecordConflict, RejectProposal, RecordApproval, ReleaseRun
  <2>3. CASE Detach(w) \/ ReceiptRefused(w) \/ ApplyFails(w)
    BY <2>2, <2>3 DEF TypeOK, Run, Terminal, Detach, ReceiptRefused, ApplyFails
  <2>4. CASE ApplyProposal(w)
    <3>1. part' \in [Calls -> Part]
      BY <2>1, <2>4 DEF TypeOK, ApplyProposal, Part
    <3> QED
      BY <2>1, <2>2, <2>4, <3>1, ApplyChangesType DEF TypeOK, ApplyProposal
  <2>5. CASE RecordConflict(w) \/ RejectProposal(w) \/ RecordApproval(w)
    <3>1. part' \in [Calls -> Part]
      BY <2>1, <2>5 DEF TypeOK, Part, RecordConflict, RejectProposal, RecordApproval
    <3>2. proposal' \in [Calls -> {"none", "pending", "applied", "rejected", "conflict"}]
      BY <2>1, <2>5 DEF TypeOK, RecordConflict, RejectProposal, RecordApproval
    <3> QED
      BY <2>2, <2>5, <3>1, <3>2 DEF TypeOK, RecordConflict, RejectProposal, RecordApproval
  <2>6. CASE ReleaseRun(w)
    BY <2>2, <2>6 DEF TypeOK, Run, ReleaseRun, StatusAfter
  <2> QED
    BY <1>4, <2>3, <2>4, <2>5, <2>6 DEF ResolveStep
<1>5. ASSUME NEW c \in Calls, PageStep(c)
      PROVE  TypeOK'
  <2>1. CASE PageApplies(c)
    BY <2>1, ApplyChangesType DEF TypeOK, PageApplies
  <2>2. CASE PageRejects(c)
    BY <2>2 DEF TypeOK, PageRejects
  <2> QED
    BY <1>5, <2>1, <2>2 DEF PageStep
<1>6. CASE TreeEdited \/ RequestCancellation
  <2>1. CASE TreeEdited
    BY <2>1 DEF TypeOK, TreeEdited
  <2>2. CASE RequestCancellation
    BY <2>2 DEF TypeOK, Run, RequestCancellation
  <2> QED
    BY <1>6, <2>1, <2>2
<1>7. ASSUME NEW s \in Terminal, RunEnds(s)
      PROVE  TypeOK'
  BY <1>7, FinishRunType DEF TypeOK, RunEnds
<1>8. CASE APICrash
  BY <1>8 DEF TypeOK, Receipt, Part, APICrash
<1>9. CASE UNCHANGED vars
  BY <1>9 DEF TypeOK, vars
<1>10. CASE Cut
  BY <1>10, CutLeaves DEF TypeOK
<1> QED
  BY <1>1, <1>2, <1>3, <1>4, <1>5, <1>6, <1>7, <1>8, <1>9, <1>10 DEF Next, NextUp, Core

LEMMA WaitedStep == TypeOK /\ Waited /\ [Next]_vars => Waited'
<1> SUFFICES ASSUME TypeOK, Waited, [Next]_vars, NEW c \in Calls, waiter'[c] # "idle"
             PROVE  part'[c].approval \notin {"none", "staging", "lost"}
  BY DEF Waited
<1> USE DEF TypeOK, Part
<1>1. ASSUME NEW d \in Calls, ToolStep(d)
      PROVE  part'[c].approval \notin {"none", "staging", "lost"}
  BY <1>1 DEF Waited, ToolStep, StageProposal, CommitPendingApproval, ParkRefused
<1>2. ASSUME NEW d \in Calls, WaitStep(d)
      PROVE  part'[c].approval \notin {"none", "staging", "lost"}
  BY <1>2 DEF Waited, WaitStep, TimeoutStep, StartWait, ReadApprovalDecision, ReadRun, Tell,
              TimeoutResult, TimeoutApproval, TimeoutFinishesRun
<1>3. ASSUME NEW w \in Windows, ResolveStep(w)
      PROVE  part'[c].approval \notin {"none", "staging", "lost"}
  BY <1>3 DEF Waited, ResolveStep, Detach, ApplyProposal, ReceiptRefused, ApplyFails,
              RecordConflict, RejectProposal, RecordApproval, ReleaseRun
<1>4. CASE APICrash
  BY <1>4 DEF APICrash
<1>5. CASE UNCHANGED <<part, waiter>>
  BY <1>5 DEF Waited
<1>6. (\E w \in Windows, d \in Calls, approve, detach \in BOOLEAN :
          ReceiveReceipt(w, d, approve, detach))
      \/ TreeEdited \/ RequestCancellation \/ (\E d \in Calls : PageStep(d))
      \/ (\E s \in Terminal : RunEnds(s)) \/ UNCHANGED vars
      => UNCHANGED <<part, waiter>>
  BY DEF ReceiveReceipt, TreeEdited, RequestCancellation, PageStep, PageApplies, PageRejects,
         RunEnds, vars
<1>7. CASE Cut
  BY <1>7, CutLeaves DEF Waited
<1> QED
  BY <1>1, <1>2, <1>3, <1>4, <1>5, <1>6, <1>7 DEF Next, NextUp, Core

(* Every reachable state is well typed.                                     *)
THEOREM TypeCorrect == Spec => []TypeOK
<1>1. Init => TypeOK /\ Waited
  BY TypeInit DEF Init, Waited
<1> QED
  BY <1>1, TypeStep, WaitedStep, PTL DEF Spec

-----------------------------------------------------------------------------
(* Decisions.                                                               *)

(* A call that has not been claimed has no proposal.                        *)
Unstaged == \A c \in Calls : part[c].approval = "none" => proposal[c] = "none"

(* A handler past its applying transaction, a part and a host that say      *)
(* "approved" all stand for a proposal that is applied, and "rejected" for  *)
(* one that is rejected.                                                    *)
Faithful ==
    /\ \A w \in Windows :
          receipt[w].at = "applied" => proposal[receipt[w].call] = "applied"
    /\ \A c \in Calls :
          /\ "approved" \in {part[c].approval, told[c]} => proposal[c] = "applied"
          /\ "rejected" \in {part[c].approval, told[c]} => proposal[c] = "rejected"

(* What is decided stays decided.                                           *)
DecidedStays ==
    \A c \in Calls : proposal[c] \in {"applied", "rejected"} => proposal'[c] = proposal[c]

LEMMA UnstagedStep == TypeOK /\ Unstaged /\ [Next]_vars => Unstaged'
<1> SUFFICES ASSUME TypeOK, Unstaged, [Next]_vars, NEW c \in Calls, part'[c].approval = "none"
             PROVE  proposal'[c] = "none"
  BY DEF Unstaged
<1> USE DEF TypeOK, Part
<1>1. ASSUME NEW d \in Calls, ToolStep(d)
      PROVE  proposal'[c] = "none"
  BY <1>1 DEF Unstaged, ToolStep, StageProposal, CommitPendingApproval, ParkRefused
<1>2. ASSUME NEW d \in Calls, WaitStep(d)
      PROVE  proposal'[c] = "none"
  BY <1>2 DEF Unstaged, WaitStep, TimeoutStep, StartWait, ReadApprovalDecision, ReadRun,
              TimeoutResult, TimeoutApproval, TimeoutFinishesRun
<1>3. ASSUME NEW w \in Windows, ResolveStep(w)
      PROVE  proposal'[c] = "none"
  <2>1. receipt[w].call \in Calls
    BY <1>3, CallOf DEF ResolveStep, Detach, ApplyProposal, ReceiptRefused, ApplyFails,
                        RecordConflict, RejectProposal, RecordApproval, ReleaseRun
  <2>2. CASE ApplyProposal(w)
    BY <2>1, <2>2 DEF Unstaged, ApplyProposal, ApplyChanges
  <2>3. CASE RecordConflict(w) \/ RejectProposal(w)
    BY <2>1, <2>3 DEF Unstaged, RecordConflict, RejectProposal
  <2>4. CASE RecordApproval(w)
    BY <2>1, <2>4 DEF Unstaged, RecordApproval
  <2>5. CASE UNCHANGED <<part, proposal>>
    BY <2>5 DEF Unstaged
  <2> QED
    BY <1>3, <2>2, <2>3, <2>4, <2>5
       DEF ResolveStep, Detach, ReceiptRefused, ApplyFails, ReleaseRun
<1>4. ASSUME NEW d \in Calls, PageStep(d)
      PROVE  proposal'[c] = "none"
  BY <1>4 DEF Unstaged, PageStep, PageApplies, PageRejects, ApplyChanges
<1>5. CASE APICrash
  BY <1>5 DEF Unstaged, APICrash
<1>6. (\E w \in Windows, d \in Calls, approve, detach \in BOOLEAN :
          ReceiveReceipt(w, d, approve, detach))
      \/ TreeEdited \/ RequestCancellation
      \/ (\E s \in Terminal : RunEnds(s)) \/ UNCHANGED vars
      => UNCHANGED <<part, proposal>>
  BY DEF ReceiveReceipt, TreeEdited, RequestCancellation, RunEnds, vars
<1>7. CASE UNCHANGED <<part, proposal>>
  BY <1>7 DEF Unstaged
<1>8. Cut => UNCHANGED <<part, proposal>>
  BY CutLeaves
<1> QED
  BY <1>1, <1>2, <1>3, <1>4, <1>5, <1>6, <1>7, <1>8 DEF Next, NextUp, Core

(* The effect of a step on the proposals and their changes, whoever takes   *)
(* it: at most one pending proposal is applied, and counted once.           *)
LEMMA ApplyOnce ==
    ASSUME TypeOK, DecidedOnce, NEW d \in Calls, Undecided(d), ApplyChanges(d)
    PROVE  DecidedOnce' /\ DecidedStays
BY DEF TypeOK, DecidedOnce, DecidedStays, Undecided, ApplyChanges

LEMMA DecisionStep ==
    TypeOK /\ Unstaged /\ DecidedOnce /\ [Next]_vars => DecidedOnce' /\ DecidedStays
<1> SUFFICES ASSUME TypeOK, Unstaged, DecidedOnce, [Next]_vars
             PROVE  DecidedOnce' /\ DecidedStays
  OBVIOUS
<1>1. ASSUME NEW d \in Calls, ToolStep(d)
      PROVE  DecidedOnce' /\ DecidedStays
  BY <1>1 DEF TypeOK, Unstaged, DecidedOnce, DecidedStays, ToolStep, StageProposal,
              CommitPendingApproval, ParkRefused
<1>2. ASSUME NEW w \in Windows, ResolveStep(w)
      PROVE  DecidedOnce' /\ DecidedStays
  <2>1. receipt[w].call \in Calls
    BY <1>2, CallOf DEF TypeOK, ResolveStep, Detach, ApplyProposal, ReceiptRefused, ApplyFails,
                        RecordConflict, RejectProposal, RecordApproval, ReleaseRun
  <2>2. CASE ApplyProposal(w)
    BY <2>1, <2>2, ApplyOnce DEF ApplyProposal
  <2>3. CASE RecordConflict(w)
    BY <2>1, <2>3 DEF TypeOK, DecidedOnce, DecidedStays, RecordConflict
  <2>4. CASE RejectProposal(w)
    BY <2>1, <2>4 DEF TypeOK, DecidedOnce, DecidedStays, RejectProposal
  <2>5. CASE UNCHANGED <<proposal, changes>>
    BY <2>5 DEF DecidedOnce, DecidedStays
  <2> QED
    BY <1>2, <2>2, <2>3, <2>4, <2>5
       DEF ResolveStep, Detach, ReceiptRefused, ApplyFails, RecordApproval, ReleaseRun
<1>3. ASSUME NEW d \in Calls, PageStep(d)
      PROVE  DecidedOnce' /\ DecidedStays
  <2>1. CASE PageApplies(d)
    BY <2>1, ApplyOnce DEF PageApplies, Undecided
  <2>2. CASE PageRejects(d)
    BY <2>2 DEF TypeOK, DecidedOnce, DecidedStays, PageRejects
  <2> QED
    BY <1>3, <2>1, <2>2 DEF PageStep
<1>4. (\E d \in Calls : WaitStep(d))
      \/ (\E w \in Windows, d \in Calls, approve, detach \in BOOLEAN :
            ReceiveReceipt(w, d, approve, detach))
      \/ TreeEdited \/ RequestCancellation \/ APICrash
      \/ (\E s \in Terminal : RunEnds(s)) \/ UNCHANGED vars
      => UNCHANGED <<proposal, changes>>
  BY DEF WaitStep, StartWait, ReadApprovalDecision, ReadRun, TimeoutStep, TimeoutResult,
         TimeoutApproval, TimeoutFinishesRun, ReceiveReceipt, TreeEdited, RequestCancellation,
         APICrash, RunEnds, vars
<1>5. CASE UNCHANGED <<proposal, changes>>
  BY <1>5 DEF DecidedOnce, DecidedStays
<1>6. Cut => UNCHANGED <<proposal, changes>>
  BY CutLeaves
<1> QED
  BY <1>1, <1>2, <1>3, <1>4, <1>5, <1>6 DEF Next, NextUp, Core

LEMMA FaithfulStep ==
    TypeOK /\ Unstaged /\ DecidedOnce /\ Faithful /\ [Next]_vars => Faithful'
<1> SUFFICES ASSUME TypeOK, Unstaged, DecidedOnce, Faithful, [Next]_vars
             PROVE  Faithful'
  OBVIOUS
<1>0. DecidedStays
  BY DecisionStep
<1>1. ASSUME NEW d \in Calls, ToolStep(d)
      PROVE  Faithful'
  <2>1. UNCHANGED <<receipt, told>>
    BY <1>1 DEF ToolStep, StageProposal, CommitPendingApproval, ParkRefused
  <2>2. \A c \in Calls : part'[c].approval \in {part[c].approval, "staging", "pending", "lost"}
    BY <1>1 DEF TypeOK, Part, ToolStep, StageProposal, CommitPendingApproval, ParkRefused
  <2>3. \A w \in Windows : receipt[w].at = "applied" => receipt[w].call \in Calls
    BY CallOf DEF TypeOK
  <2> QED
    BY <1>0, <2>1, <2>2, <2>3 DEF Faithful, DecidedStays
<1>2. ASSUME NEW d \in Calls, WaitStep(d)
      PROVE  Faithful'
  <2>1. UNCHANGED <<receipt, proposal>>
    BY <1>2 DEF WaitStep, StartWait, ReadApprovalDecision, ReadRun, TimeoutStep, TimeoutResult,
                TimeoutApproval, TimeoutFinishesRun
  <2>2. \A c \in Calls : part'[c].approval \in {part[c].approval, "timeout"}
    BY <1>2 DEF TypeOK, Part, WaitStep, StartWait, ReadApprovalDecision, ReadRun, TimeoutStep,
                TimeoutResult, TimeoutApproval, TimeoutFinishesRun
  <2>3. \A c \in Calls : told'[c] \in {told[c], part[c].approval, "conflict", "cancelled",
                                       "ended", "timeout"}
    BY <1>2 DEF TypeOK, WaitStep, StartWait, ReadApprovalDecision, ReadRun, Tell, TimeoutStep,
                TimeoutResult, TimeoutApproval, TimeoutFinishesRun
  <2> QED
    BY <2>1, <2>2, <2>3 DEF Faithful
<1>3. ASSUME NEW w \in Windows, NEW c \in Calls, NEW approve \in BOOLEAN,
             NEW detach \in BOOLEAN, ReceiveReceipt(w, c, approve, detach)
      PROVE  Faithful'
  BY <1>3 DEF TypeOK, Faithful, ReceiveReceipt
<1>4. ASSUME NEW w \in Windows, ResolveStep(w)
      PROVE  Faithful'
  <2> DEFINE d == receipt[w].call
  <2>1. d \in Calls
    BY <1>4, CallOf DEF TypeOK, ResolveStep, Detach, ApplyProposal, ReceiptRefused, ApplyFails,
                        RecordConflict, RejectProposal, RecordApproval, ReleaseRun
  <2>2. told' = told
    BY <1>4 DEF ResolveStep, Detach, ApplyProposal, ReceiptRefused, ApplyFails,
                RecordConflict, RejectProposal, RecordApproval, ReleaseRun
  <2>3. ASSUME NEW v \in Windows, receipt'[v].at = "applied"
        PROVE  proposal'[receipt'[v].call] = "applied"
    <3>1. CASE ApplyProposal(w) /\ v = w
      <4>1. receipt'[w].call = d /\ proposal'[d] = "applied"
        BY <2>1, <3>1 DEF TypeOK, Receipt, NoReceipt, ApplyProposal, ApplyChanges, Moves
      <4> QED
        BY <3>1, <4>1
    <3>2. CASE ~(ApplyProposal(w) /\ v = w)
      <4>1. receipt'[v] = receipt[v]
        BY <1>4, <2>3, <3>2
           DEF TypeOK, Receipt, NoReceipt, Moves, Leaves, ResolveStep, Detach, ApplyProposal,
               ReceiptRefused, ApplyFails, RecordConflict, RejectProposal, RecordApproval,
               ReleaseRun
      <4>2. receipt[v].call \in Calls
        BY <2>3, <4>1, CallOf DEF TypeOK
      <4> QED
        BY <1>0, <2>3, <4>1, <4>2 DEF Faithful, DecidedStays
    <3> QED
      BY <3>1, <3>2
  <2>4. ASSUME NEW c \in Calls
        PROVE  /\ part'[c].approval = "approved" => proposal'[c] = "applied"
               /\ part'[c].approval = "rejected" => proposal'[c] = "rejected"
    <3>1. CASE part'[c] = part[c]
      BY <1>0, <3>1 DEF Faithful, DecidedStays
    <3>2. CASE ApplyProposal(w) /\ c = d
      BY <2>1, <3>2 DEF TypeOK, ApplyProposal, ApplyChanges
    <3>3. CASE RecordConflict(w) /\ c = d /\ part'[c] # part[c]
      BY <2>1, <3>3 DEF TypeOK, RecordConflict
    <3>4. CASE RejectProposal(w) /\ c = d
      BY <2>1, <3>4 DEF TypeOK, RejectProposal, RejectionHolds
    <3>5. CASE RecordApproval(w) /\ c = d /\ part'[c] # part[c]
      BY <2>1, <3>5 DEF TypeOK, RecordApproval, Faithful
    <3> QED
      BY <1>4, <2>1, <3>1, <3>2, <3>3, <3>4, <3>5
         DEF TypeOK, ResolveStep, Detach, ApplyProposal, ReceiptRefused, ApplyFails,
             RecordConflict, RejectProposal, RecordApproval, ReleaseRun
  <2>5. ASSUME NEW c \in Calls
        PROVE  /\ told'[c] = "approved" => proposal'[c] = "applied"
               /\ told'[c] = "rejected" => proposal'[c] = "rejected"
    BY <1>0, <2>2 DEF Faithful, DecidedStays
  <2> QED
    BY <2>3, <2>4, <2>5 DEF Faithful
<1>5. ASSUME NEW d \in Calls, PageStep(d)
      PROVE  Faithful'
  <2>1. UNCHANGED <<part, receipt, told>>
    BY <1>5 DEF PageStep, PageApplies, PageRejects
  <2> QED
    BY <1>0, <2>1, CallOf DEF TypeOK, Faithful, DecidedStays
<1>6. CASE APICrash
  <2>1. \A w \in Windows : receipt'[w].at = "idle"
    BY <1>6 DEF APICrash, NoReceipt
  <2>2. \A c \in Calls : part'[c].approval \in {part[c].approval, "lost"}
    BY <1>6 DEF TypeOK, Part, APICrash
  <2> QED
    BY <1>6, <2>1, <2>2 DEF Faithful, APICrash
<1>7. TreeEdited \/ RequestCancellation \/ (\E s \in Terminal : RunEnds(s)) \/ UNCHANGED vars
      => UNCHANGED <<part, proposal, receipt, told>>
  BY DEF TreeEdited, RequestCancellation, RunEnds, vars
<1>8. CASE UNCHANGED <<part, proposal, receipt, told>>
  BY <1>8 DEF Faithful
<1>9. CASE Cut
  BY <1>9, CutLeaves DEF Faithful, NoReceipt
<1> QED
  BY <1>1, <1>2, <1>3, <1>4, <1>5, <1>6, <1>7, <1>8, <1>9 DEF Next, NextUp, Core

DecisionInv == TypeOK /\ Waited /\ Unstaged /\ DecidedOnce /\ Faithful

LEMMA DecisionInvariant == Spec => []DecisionInv
<1>1. Init => DecisionInv
  BY TypeInit DEF Init, DecisionInv, Waited, Unstaged, DecidedOnce, Faithful, NoReceipt
<1>2. DecisionInv /\ [Next]_vars => DecisionInv'
  BY TypeStep, WaitedStep, UnstagedStep, DecisionStep, FaithfulStep DEF DecisionInv
<1> QED
  BY <1>1, <1>2, PTL DEF Spec

(* A proposal changes the business tables exactly once if it ends applied   *)
(* and never otherwise, whoever decides it (applyProposalTx).               *)
THEOREM Decisions == Spec => []DecidedOnce
<1>1. DecisionInv => DecidedOnce
  BY DEF DecisionInv
<1> QED
  BY <1>1, DecisionInvariant, PTL

(* No part and no host reports a decision that did not happen               *)
(* (recordAppliedApprovalTx, readApprovalDecision).                         *)
THEOREM Truth == Spec => []ReceiptTellsTruth
<1>1. DecisionInv => ReceiptTellsTruth
  BY DEF DecisionInv, DecidedOnce, Faithful, ReceiptTellsTruth
<1> QED
  BY <1>1, DecisionInvariant, PTL

-----------------------------------------------------------------------------
(* The parked run.                                                          *)

LEMMA RunningStep ==
    TypeOK /\ RunningMeansDecided /\ [Next]_vars => RunningMeansDecided'
<1> SUFFICES ASSUME TypeOK, RunningMeansDecided, [Next]_vars,
                    run'.status = "running", NEW c \in Calls, Pending(c)'
             PROVE  FALSE
  BY DEF RunningMeansDecided
<1>1. ASSUME Pending(c), run.status = "running"
      PROVE  FALSE
  BY <1>1 DEF RunningMeansDecided
<1>2. ASSUME NEW d \in Calls, ToolStep(d)
      PROVE  FALSE
  BY <1>1, <1>2 DEF TypeOK, Run, Part, Pending, ToolStep, StageProposal, CommitPendingApproval,
                    ParkRefused
<1>3. ASSUME NEW d \in Calls, WaitStep(d)
      PROVE  FALSE
  <2>1. Pending(c)
    <3>1. CASE TimeoutResult(d)
      BY <3>1 DEF TypeOK, Part, Pending, TimeoutResult
    <3>2. CASE TimeoutApproval(d)
      BY <3>2 DEF TypeOK, Part, Pending, TimeoutApproval
    <3>3. CASE part' = part
      BY <3>3 DEF Pending
    <3> QED
      BY <1>3, <3>1, <3>2, <3>3 DEF WaitStep, StartWait, ReadApprovalDecision, ReadRun,
                                    TimeoutStep, TimeoutFinishesRun
  <2>2. run.status = "running"
    BY <1>3 DEF TypeOK, Run, WaitStep, StartWait, ReadApprovalDecision, ReadRun,
                TimeoutStep, TimeoutResult, TimeoutApproval, TimeoutFinishesRun, FinishRun,
                Terminal
  <2> QED
    BY <1>1, <2>1, <2>2
<1>4. ASSUME NEW w \in Windows, ResolveStep(w)
      PROVE  FALSE
  <2>1. CASE ReleaseRun(w)
    <3>1. Pending(c)
      BY <2>1 DEF ReleaseRun, Pending
    <3>2. run'.status # "running" \/ run.status = "running"
      BY <2>1, <3>1 DEF TypeOK, Run, ReleaseRun, StatusAfter
    <3> QED
      BY <1>1, <3>1, <3>2
  <2>2. CASE Detach(w)
    BY <1>1, <2>2 DEF TypeOK, Run, Detach, Pending
  <2>3. CASE ApplyProposal(w) \/ ReceiptRefused(w) \/ ApplyFails(w) \/ RecordConflict(w)
             \/ RejectProposal(w) \/ RecordApproval(w)
    <3>1. run' = run
      BY <2>3 DEF ApplyProposal, ReceiptRefused, ApplyFails, RecordConflict, RejectProposal,
                  RecordApproval
    <3>2. part'[c].approval \in {part[c].approval, "approved", "conflict", "rejected"}
      <4>1. CASE ApplyProposal(w) \/ RecordApproval(w)
        BY <4>1 DEF TypeOK, ApplyProposal, RecordApproval
      <4>2. CASE RecordConflict(w) \/ RejectProposal(w)
        BY <4>2 DEF TypeOK, RecordConflict, RejectProposal
      <4> QED
        BY <2>3, <4>1, <4>2 DEF ReceiptRefused, ApplyFails
    <3> QED
      BY <1>1, <3>1, <3>2 DEF Pending
  <2> QED
    BY <1>4, <2>1, <2>2, <2>3 DEF ResolveStep
<1>5. CASE APICrash
  BY <1>1, <1>5 DEF TypeOK, Part, Pending, APICrash
<1>6. CASE RequestCancellation
  BY <1>6 DEF RequestCancellation
<1>7. ASSUME NEW s \in Terminal, RunEnds(s)
      PROVE  FALSE
  BY <1>1, <1>7 DEF TypeOK, Run, RunEnds, FinishRun, Terminal, Pending
<1>8. (\E w \in Windows, d \in Calls, approve, detach \in BOOLEAN :
          ReceiveReceipt(w, d, approve, detach))
      \/ TreeEdited \/ (\E d \in Calls : PageStep(d)) \/ UNCHANGED vars
      => UNCHANGED <<run, part>>
  BY DEF ReceiveReceipt, TreeEdited, PageStep, PageApplies, PageRejects, vars
<1>9. CASE UNCHANGED <<run, part>>
  BY <1>1, <1>9 DEF Pending
<1>10. Cut => UNCHANGED <<run, part>>
  BY CutLeaves
<1> QED
  BY <1>2, <1>3, <1>4, <1>5, <1>6, <1>7, <1>8, <1>9, <1>10 DEF Next, NextUp, Core

(* The run is not released while any of its calls waits for the user        *)
(* (setApprovalRunStatus).                                                  *)
THEOREM ParkedUntilDecided == Spec => []RunningMeansDecided
<1>1. Init => RunningMeansDecided
  BY DEF Init, RunningMeansDecided, Pending
<1> QED
  BY <1>1, TypeCorrect, RunningStep, PTL DEF Spec

(* No receipt is applied once the run's cancellation is recorded            *)
(* (guardApprovalTx).                                                       *)
THEOREM CancelledReceipts == Spec => CancelBlocksReceipt
<1>1. [Next]_vars =>
        [\A w \in Windows :
            receipt'[w].at # receipt[w].at /\ changes' # changes => ~run.cancel]_vars
  <2> SUFFICES ASSUME [Next]_vars, NEW w \in Windows,
                      receipt'[w].at # receipt[w].at, changes' # changes
               PROVE  ~run.cancel
    OBVIOUS
  <2>1. ASSUME NEW v \in Windows, ResolveStep(v)
        PROVE  ~run.cancel
    BY <2>1 DEF ResolveStep, Detach, ApplyProposal, GuardApprovalTx, ReceiptRefused, ApplyFails,
                RecordConflict, RejectProposal, RecordApproval, ReleaseRun
  <2>2. (\E d \in Calls : PageStep(d) \/ PageApplies(d)) => receipt' = receipt
    BY DEF PageStep, PageApplies, PageRejects
  <2>3. (\E d \in Calls : ToolStep(d) \/ WaitStep(d))
        \/ (\E v \in Windows, d \in Calls, approve, detach \in BOOLEAN :
              ReceiveReceipt(v, d, approve, detach))
        \/ TreeEdited \/ RequestCancellation \/ APICrash
        \/ (\E s \in Terminal : RunEnds(s)) \/ UNCHANGED vars
        => changes' = changes
    BY DEF ToolStep, StageProposal, CommitPendingApproval, ParkRefused, WaitStep, StartWait,
           ReadApprovalDecision, ReadRun, TimeoutStep, TimeoutResult, TimeoutApproval,
           TimeoutFinishesRun, ReceiveReceipt, TreeEdited, RequestCancellation, APICrash,
           RunEnds, vars
  <2>4. Cut => changes' = changes
    BY DEF Cut, RequestCut, WaitCut
  <2> QED
    BY <2>1, <2>2, <2>3, <2>4 DEF Next, NextUp, Core
<1> QED
  BY <1>1, PTL DEF Spec, CancelBlocksReceipt

-----------------------------------------------------------------------------
(* The ledger of the run.                                                   *)

(* A run that winds down has its cancellation recorded.                     *)
CancellingIsRecorded == run.status = "cancelling" => run.cancel

LedgerInv == TypeOK /\ RunningMeansDecided /\ CancellingIsRecorded

LedgerStep == [Ledger!LedgerNext]_(Ledger!ledger)

(* The proposals that wait for the user.                                    *)
Waiting == {c \in Calls : Pending(c)}

(* A step that writes neither the run nor whether a call waits.             *)
LEMMA LedgerRests ==
    ASSUME run' = run, \A c \in Calls : Pending(c)' <=> Pending(c)
    PROVE  LedgerStep
BY DEF LedgerStep, Ledger!ledger

(* A step that gives one call another approval status decides it, if it     *)
(* waited for the user.                                                     *)
LEMMA LedgerDecides ==
    ASSUME run' = run, NEW c \in Calls, ~Pending(c)',
           \A d \in Calls : d # c => part'[d] = part[d]
    PROVE  LedgerStep
<1>1. CASE Pending(c)
  <2>1. c \in Waiting /\ Waiting' = Waiting \ {c}
    BY <1>1 DEF Waiting, Pending
  <2>2. Ledger!Decided(c)
    BY <2>1 DEF Ledger!Decided, Waiting
  <2> QED
    BY <2>2 DEF LedgerStep, Ledger!LedgerNext
<1>2. CASE ~Pending(c)
  <2>1. \A d \in Calls : Pending(d)' <=> Pending(d)
    BY <1>2 DEF Pending
  <2> QED
    BY <2>1, LedgerRests
<1> QED
  BY <1>1, <1>2

(* finishRun ends the run of the ledger, or finds it ended.                 *)
LEMMA LedgerFinishes ==
    ASSUME TypeOK, NEW s \in Terminal, FinishRun(s), part' = part
    PROVE  LedgerStep
<1>1. CASE run.status \in Terminal
  <2>1. run' = run
    BY <1>1 DEF FinishRun, TypeOK, Run
  <2> QED
    BY <2>1, LedgerRests DEF Pending
<1>2. CASE run.status \notin Terminal
  <2>1. /\ run'.status = IF run.cancel THEN "cancelled" ELSE s
        /\ run'.cancel = run.cancel
    BY <1>2 DEF FinishRun, TypeOK, Run
  <2>2. Ledger!Ends(s)
    BY <1>2, <2>1 DEF Ledger!Ends, Ledger!Ended, Terminal, Pending
  <2> QED
    BY <2>2 DEF LedgerStep, Ledger!LedgerNext, Ledger!Ended, Terminal
<1> QED
  BY <1>1, <1>2

(* Staging and parking.                                                     *)
LEMMA ToolLedger ==
    ASSUME LedgerInv, NEW c \in Calls, ToolStep(c)
    PROVE  LedgerStep
<1>0. TypeOK /\ run \in Run /\ part \in [Calls -> Part]
  BY DEF LedgerInv, TypeOK
<1>1. CASE CommitPendingApproval(c)
  <2>1. /\ run.status \in {"running", "awaiting_approval"} /\ ~run.cancel
        /\ run'.status = "awaiting_approval" /\ run'.cancel = run.cancel
        /\ Waiting' = Waiting \cup {c}
    BY <1>0, <1>1 DEF CommitPendingApproval, MayPark, Run, Waiting, Pending
  <2>2. Ledger!ParksFor(c)
    BY <2>1 DEF Ledger!ParksFor, Waiting
  <2> QED
    BY <2>2 DEF LedgerStep, Ledger!LedgerNext
<1>2. CASE StageProposal(c) \/ ParkRefused(c)
  <2>1. run' = run /\ ~Pending(c)' /\ \A d \in Calls : d # c => part'[d] = part[d]
    BY <1>0, <1>2 DEF StageProposal, ParkRefused, Pending, Part
  <2> QED
    BY <2>1, LedgerDecides
<1> QED
  BY <1>1, <1>2 DEF ToolStep

(* The long poll decides by its timeout only.                               *)
LEMMA WaitLedger ==
    ASSUME LedgerInv, NEW c \in Calls, WaitStep(c)
    PROVE  LedgerStep
<1>0. TypeOK /\ part \in [Calls -> Part]
  BY DEF LedgerInv, TypeOK
<1>1. CASE TimeoutResult(c)
  <2>1. run' = run /\ \A d \in Calls : Pending(d)' <=> Pending(d)
    BY <1>0, <1>1 DEF TimeoutResult, Pending, Part
  <2> QED
    BY <2>1, LedgerRests
<1>2. CASE TimeoutApproval(c)
  <2>1. run' = run /\ ~Pending(c)' /\ \A d \in Calls : d # c => part'[d] = part[d]
    BY <1>0, <1>2 DEF TimeoutApproval, Pending, Part
  <2> QED
    BY <2>1, LedgerDecides
<1>3. CASE TimeoutFinishesRun(c)
  <2>1. "failed" \in Terminal /\ FinishRun("failed") /\ part' = part
    BY <1>3 DEF TimeoutFinishesRun, Terminal
  <2> QED
    BY <1>0, <2>1, LedgerFinishes
<1>4. CASE StartWait(c) \/ ReadApprovalDecision(c) \/ \E late \in BOOLEAN : ReadRun(c, late)
  <2>1. run' = run /\ part' = part
    BY <1>4 DEF StartWait, ReadApprovalDecision, ReadRun
  <2> QED
    BY <2>1, LedgerRests DEF Pending
<1> QED
  BY <1>1, <1>2, <1>3, <1>4 DEF WaitStep, TimeoutStep

(* setApprovalRunStatus releases the run after the last decision.           *)
LEMMA ReleaseLedger ==
    ASSUME LedgerInv, NEW w \in Windows, ReleaseRun(w)
    PROVE  LedgerStep
<1>0. run \in Run /\ part' = part /\ Waiting' = Waiting
  BY DEF LedgerInv, TypeOK, ReleaseRun, Waiting, Pending
<1>1. run' = [run EXCEPT !.status = IF MayContinue THEN StatusAfter ELSE @]
  BY DEF ReleaseRun
<1>2. CASE ~MayContinue
  <2>1. run' = run
    BY <1>0, <1>1, <1>2 DEF Run
  <2> QED
    BY <1>0, <2>1, LedgerRests DEF Pending
<1>3. CASE MayContinue
  <2>1. run.status \in {"running", "awaiting_approval"} /\ ~run.cancel
    BY <1>0, <1>3 DEF MayContinue, LedgerInv, CancellingIsRecorded, Run
  <2>2. CASE \E c \in Calls : Pending(c)
    <3>1. run.status = "awaiting_approval"
      BY <2>1, <2>2 DEF LedgerInv, RunningMeansDecided
    <3>2. run' = run
      BY <1>0, <1>1, <1>3, <2>2, <3>1 DEF StatusAfter, Run
    <3> QED
      BY <1>0, <3>2, LedgerRests DEF Pending
  <2>3. CASE ~\E c \in Calls : Pending(c)
    <3>1. run'.status = "running" /\ run'.cancel = run.cancel /\ Waiting = {}
      BY <1>0, <1>1, <1>3, <2>3 DEF StatusAfter, Run, Waiting
    <3>2. CASE run.status = "running"
      <4>1. run' = run
        BY <1>0, <1>1, <1>3, <2>3, <3>2 DEF StatusAfter, Run
      <4> QED
        BY <1>0, <4>1, LedgerRests DEF Pending
    <3>3. CASE run.status = "awaiting_approval"
      <4>1. Ledger!Resumes
        BY <1>0, <2>1, <3>1, <3>3 DEF Ledger!Resumes, Waiting
      <4> QED
        BY <4>1 DEF LedgerStep, Ledger!LedgerNext
    <3> QED
      BY <2>1, <3>2, <3>3
  <2> QED
    BY <2>2, <2>3
<1> QED
  BY <1>2, <1>3

(* A receipt takes the run from its host, decides its call or releases the  *)
(* run.                                                                     *)
LEMMA ResolveLedger ==
    ASSUME LedgerInv, NEW w \in Windows, ResolveStep(w)
    PROVE  LedgerStep
<1>0. TypeOK /\ run \in Run /\ part \in [Calls -> Part] /\ receipt \in [Windows -> Receipt]
  BY DEF LedgerInv, TypeOK
<1>1. CASE Detach(w)
  <2>1. CASE MayDetach(receipt[w].call)
    <3>1. /\ run.status = "awaiting_approval" /\ ~run.cancel
          /\ run'.status = "interrupted" /\ run'.cancel = run.cancel /\ part' = part
      BY <1>0, <1>1, <2>1 DEF Detach, MayDetach, Run
    <3>2. Ledger!Ends("interrupted")
      BY <3>1 DEF Ledger!Ends, Ledger!Ended, Pending
    <3> QED
      BY <3>2 DEF LedgerStep, Ledger!LedgerNext, Ledger!Ended
  <2>2. CASE ~MayDetach(receipt[w].call)
    BY <1>1, <2>2, LedgerRests DEF Detach, Pending
  <2> QED
    BY <2>1, <2>2
<1>2. CASE ApplyProposal(w) \/ RejectProposal(w)
  <2>1. PICK c \in Calls : c = receipt[w].call
    BY <1>0, <1>2, CallOf DEF ApplyProposal, RejectProposal
  <2>2. run' = run /\ ~Pending(c)' /\ \A d \in Calls : d # c => part'[d] = part[d]
    BY <1>0, <1>2, <2>1 DEF ApplyProposal, RejectProposal, Pending
  <2> QED
    BY <2>2, LedgerDecides
<1>3. CASE RecordConflict(w) \/ RecordApproval(w)
  <2>1. PICK c \in Calls : c = receipt[w].call
    BY <1>0, <1>3, CallOf DEF RecordConflict, RecordApproval
  <2>2. run' = run /\ \A d \in Calls : d # c => part'[d] = part[d]
    BY <1>0, <1>3, <2>1 DEF RecordConflict, RecordApproval
  <2>3. part' = part \/ ~Pending(c)'
    BY <1>0, <1>3, <2>1 DEF RecordConflict, RecordApproval, Pending
  <2> QED
    BY <2>2, <2>3, LedgerDecides, LedgerRests DEF Pending
<1>4. CASE ReceiptRefused(w) \/ ApplyFails(w)
  BY <1>4, LedgerRests DEF ReceiptRefused, ApplyFails, Pending
<1>5. CASE ReleaseRun(w)
  BY <1>5, ReleaseLedger
<1> QED
  BY <1>1, <1>2, <1>3, <1>4, <1>5 DEF ResolveStep

(* Every step is a step of the ledger, or none.                             *)
LEMMA NextLedger ==
    ASSUME LedgerInv, [Next]_vars
    PROVE  LedgerStep
<1>1. CASE RequestCancellation
  <2>1. Ledger!CancelAsked
    BY <1>1 DEF RequestCancellation, Ledger!CancelAsked, Pending
  <2> QED
    BY <2>1 DEF LedgerStep, Ledger!LedgerNext
<1>2. ASSUME NEW s \in Terminal, RunEnds(s)
      PROVE  LedgerStep
  BY <1>2, LedgerFinishes DEF RunEnds, LedgerInv
<1>3. CASE APICrash
  <2>1. run' = run /\ \A d \in Calls : Pending(d)' <=> Pending(d)
    BY <1>3 DEF APICrash, Pending, LedgerInv, TypeOK, Part
  <2> QED
    BY <2>1, LedgerRests
<1>4. (\E w \in Windows, d \in Calls, approve, detach \in BOOLEAN :
          ReceiveReceipt(w, d, approve, detach))
      \/ TreeEdited \/ (\E d \in Calls : PageStep(d)) \/ UNCHANGED vars
      => UNCHANGED <<run, part>>
  BY DEF ReceiveReceipt, TreeEdited, PageStep, PageApplies, PageRejects, vars
<1>5. CASE UNCHANGED <<run, part>>
  BY <1>5, LedgerRests DEF Pending
<1>6. Cut => UNCHANGED <<run, part>>
  BY CutLeaves DEF LedgerInv
<1> QED
  BY <1>1, <1>2, <1>3, <1>4, <1>5, <1>6, ToolLedger, WaitLedger, ResolveLedger DEF Next, NextUp, Core

(* A step of the ledger records the cancellation with the status.           *)
LEMMA LedgerRecords ==
    ASSUME CancellingIsRecorded, LedgerStep
    PROVE  CancellingIsRecorded'
<1>1. CASE UNCHANGED Ledger!ledger
  BY <1>1 DEF Ledger!ledger, CancellingIsRecorded
<1>2. CASE Ledger!LedgerNext
  BY <1>2 DEF Ledger!LedgerNext, Ledger!PickedUp, Ledger!Resumes, Ledger!CancelAsked,
              Ledger!ParksFor, Ledger!Decided, Ledger!Ends, Ledger!Ended, CancellingIsRecorded
<1> QED
  BY <1>1, <1>2 DEF LedgerStep

(* Whatever windows, servers, timeouts and pages decide, and wherever the   *)
(* process dies, the run is parked, released and ended as the ledger says   *)
(* (commitPendingApproval, setApprovalRunStatus, finishRun).                *)
THEOREM RunRefinement == Spec => ImplementsRunLedger
<1>1. Init => LedgerInv /\ Ledger!LedgerInit
  <2>1. Init => RunningMeansDecided /\ CancellingIsRecorded /\ Ledger!LedgerInit
    BY DEF Init, RunningMeansDecided, CancellingIsRecorded, Ledger!LedgerInit, Pending
  <2> QED
    BY <2>1, TypeInit DEF LedgerInv
<1>2. LedgerInv /\ TypeOK' /\ [Next]_vars => LedgerInv'
  BY RunningStep, NextLedger, LedgerRecords DEF LedgerInv
<1>3. LedgerInv /\ [Next]_vars => [Ledger!LedgerNext]_(Ledger!ledger)
  BY NextLedger DEF LedgerStep
<1> QED
  BY <1>1, <1>2, <1>3, TypeCorrect, PTL DEF Spec, ImplementsRunLedger, Ledger!LedgerSpec

-----------------------------------------------------------------------------
(* The parked run is not forgotten.                                         *)

(* A run is not parked once its cancellation is recorded.                   *)
ParkedUncancelled == run.status = "awaiting_approval" => ~run.cancel

StrandInv == LedgerInv /\ ParkedUncancelled

LEMMA LedgerParks ==
    ASSUME ParkedUncancelled, LedgerStep
    PROVE  ParkedUncancelled'
<1>1. CASE UNCHANGED Ledger!ledger
  BY <1>1 DEF Ledger!ledger, ParkedUncancelled
<1>2. CASE Ledger!LedgerNext
  BY <1>2 DEF Ledger!LedgerNext, Ledger!PickedUp, Ledger!Resumes, Ledger!CancelAsked,
              Ledger!ParksFor, Ledger!Decided, Ledger!Ends, Ledger!Ended, ParkedUncancelled
<1> QED
  BY <1>1, <1>2 DEF LedgerStep

(* Who is left to move the run.                                             *)
Moved == (\E c \in Calls : Pending(c) \/ TimingOut(c)) \/ \E w \in Windows : Releasing(w)

LEMMA StrandedIsUnmoved == Stranded <=> run.status = "awaiting_approval" /\ ~Moved
BY DEF Stranded, Moved

(* A step that leaves the receipts, the long polls and the calls that wait  *)
(* for the user, or have been approved, leaves whoever moves the run.       *)
LEMMA MovedRests ==
    ASSUME TypeOK, Moved, UNCHANGED <<receipt, waiter>>,
           \A c \in Calls : part[c].approval \in {"pending", "approved"}
                                => part'[c].approval = part[c].approval
    PROVE  Moved'
<1>1. ASSUME NEW w \in Windows, Releasing(w)
      PROVE  Releasing(w)'
  <2>1. PICK c \in Calls : c = receipt[w].call
    BY <1>1, CallOf DEF TypeOK, Releasing
  <2> QED
    BY <1>1, <2>1 DEF Releasing
<1> QED
  BY <1>1 DEF Moved, Pending, TimingOut

LEMMA ToolMoves ==
    ASSUME StrandInv, NEW c \in Calls, ToolStep(c), Moved \/ run.status # "awaiting_approval"
    PROVE  Moved' \/ run'.status # "awaiting_approval"
<1>0. TypeOK /\ part \in [Calls -> Part]
  BY DEF StrandInv, LedgerInv, TypeOK
<1>1. CASE CommitPendingApproval(c)
  <2>1. Pending(c)'
    BY <1>0, <1>1 DEF CommitPendingApproval, Pending
  <2> QED
    BY <2>1 DEF Moved
<1>2. CASE StageProposal(c) \/ ParkRefused(c)
  <2>1. /\ UNCHANGED <<run, receipt, waiter>>
        /\ \A d \in Calls : part[d].approval \in {"pending", "approved"}
                                => part'[d].approval = part[d].approval
    BY <1>0, <1>2 DEF StageProposal, ParkRefused
  <2> QED
    BY <1>0, <2>1, MovedRests
<1> QED
  BY <1>1, <1>2 DEF ToolStep

LEMMA WaitMoves ==
    ASSUME StrandInv, NEW c \in Calls, WaitStep(c), Moved \/ run.status # "awaiting_approval"
    PROVE  Moved' \/ run'.status # "awaiting_approval"
<1>0. /\ TypeOK /\ run \in Run /\ part \in [Calls -> Part]
      /\ waiter \in [Calls -> {"idle", "polling", "undecided", "expired", "resulted", "marked"}]
  BY DEF StrandInv, LedgerInv, TypeOK
<1>1. CASE TimeoutResult(c) \/ TimeoutApproval(c)
  <2>1. TimingOut(c)'
    BY <1>0, <1>1 DEF TimeoutResult, TimeoutApproval, TimingOut
  <2> QED
    BY <2>1 DEF Moved
<1>2. CASE TimeoutFinishesRun(c)
  <2>1. run'.status # "awaiting_approval"
    BY <1>0, <1>2 DEF TimeoutFinishesRun, FinishRun, Run, Terminal
  <2> QED
    BY <2>1
<1>3. CASE StartWait(c) \/ ReadApprovalDecision(c) \/ \E late \in BOOLEAN : ReadRun(c, late)
  <2>1. /\ UNCHANGED <<run, part, receipt>>
        /\ ~TimingOut(c)
        /\ \A d \in Calls : d # c => waiter'[d] = waiter[d]
    BY <1>0, <1>3 DEF StartWait, ReadApprovalDecision, ReadRun, Tell, TimingOut
  <2>2. \A d \in Calls : TimingOut(d) => TimingOut(d)'
    BY <2>1 DEF TimingOut
  <2> QED
    BY <2>1, <2>2 DEF Moved, Pending, Releasing
<1> QED
  BY <1>1, <1>2, <1>3 DEF WaitStep, TimeoutStep

(* A receipt hands the run on to itself, until it has released it.          *)
LEMMA ResolveMoves ==
    ASSUME StrandInv, NEW w \in Windows, ResolveStep(w), Moved \/ run.status # "awaiting_approval"
    PROVE  Moved' \/ run'.status # "awaiting_approval"
<1>0. /\ TypeOK /\ run \in Run /\ part \in [Calls -> Part] /\ receipt \in [Windows -> Receipt]
  BY DEF StrandInv, LedgerInv, TypeOK
<1>1. CASE ApplyProposal(w)
  <2>1. PICK c \in Calls : c = receipt[w].call
    BY <1>0, <1>1, CallOf DEF ApplyProposal
  <2>2. receipt'[w].at = "applied" /\ receipt'[w].call = c
    BY <1>0, <1>1, <2>1 DEF ApplyProposal, Moves, Receipt, NoReceipt
  <2>3. part'[c].approval = "approved"
    BY <1>0, <1>1, <2>1 DEF ApplyProposal
  <2>4. Releasing(w)'
    BY <2>2, <2>3 DEF Releasing
  <2> QED
    BY <2>4 DEF Moved
<1>2. CASE ApplyFails(w) \/ RecordConflict(w) \/ RejectProposal(w)
  <2>1. receipt'[w].at \in {"failed", "release"}
    BY <1>0, <1>2 DEF ApplyFails, RecordConflict, RejectProposal, Moves, Receipt, NoReceipt
  <2> QED
    BY <2>1 DEF Moved, Releasing
<1>3. CASE RecordApproval(w)
  <2>1. CASE part[receipt[w].call].approval \in {"pending", "approved"}
    <3>1. receipt'[w].at = "release"
      BY <1>0, <1>3, <2>1 DEF RecordApproval, Moves, Receipt, NoReceipt
    <3> QED
      BY <3>1 DEF Moved, Releasing
  <2>2. CASE part[receipt[w].call].approval \notin {"pending", "approved"}
    <3>1. /\ UNCHANGED <<run, part, waiter>>
          /\ ~Releasing(w)
          /\ \A v \in Windows : v # w => receipt'[v] = receipt[v]
      BY <1>0, <1>3, <2>2 DEF RecordApproval, Leaves, Releasing
    <3>2. \A v \in Windows : Releasing(v) => Releasing(v)'
      BY <3>1 DEF Releasing
    <3> QED
      BY <3>1, <3>2 DEF Moved, Pending, TimingOut
  <2> QED
    BY <2>1, <2>2
<1>4. CASE Detach(w) \/ ReceiptRefused(w)
  <2>1. /\ UNCHANGED <<part, waiter>>
        /\ ~Releasing(w)
        /\ \A v \in Windows : v # w => receipt'[v] = receipt[v]
        /\ run'.status = run.status \/ run'.status # "awaiting_approval"
    BY <1>0, <1>4 DEF Detach, ReceiptRefused, Leaves, Moves, Releasing, Run
  <2>2. \A v \in Windows : Releasing(v) => Releasing(v)'
    BY <2>1 DEF Releasing
  <2> QED
    BY <2>1, <2>2 DEF Moved, Pending, TimingOut
<1>5. CASE ReleaseRun(w)
  <2>1. CASE \E c \in Calls : Pending(c)
    BY <1>5, <2>1 DEF ReleaseRun, Moved, Pending
  <2>2. CASE ~\E c \in Calls : Pending(c)
    <3>1. StatusAfter = "running"
      BY <2>2 DEF StatusAfter
    <3>2. run'.status = IF MayContinue THEN "running" ELSE run.status
      BY <1>0, <1>5, <3>1 DEF ReleaseRun, Run
    <3>3. run.status = "awaiting_approval" => MayContinue
      BY DEF StrandInv, ParkedUncancelled, MayContinue, Terminal
    <3> QED
      BY <3>2, <3>3
  <2> QED
    BY <2>1, <2>2
<1> QED
  BY <1>1, <1>2, <1>3, <1>4, <1>5 DEF ResolveStep

(* A request that is cut off, with nothing lost: it was not to move the run. *)
LEMMA CutMoves ==
    ASSUME StrandInv, Cut \/ APICrash, ~lost', Moved
    PROVE  Moved'
<1>0. TypeOK /\ part \in [Calls -> Part]
  BY DEF StrandInv, LedgerInv, TypeOK
<1>1. ASSUME NEW w \in Windows, RequestCut(w)
      PROVE  Moved'
  <2>1. /\ UNCHANGED <<part, waiter>>
        /\ ~Releasing(w)
        /\ \A v \in Windows : v # w => receipt'[v] = receipt[v]
    BY <1>0, <1>1 DEF RequestCut, Leaves, TypeOK
  <2>2. \A v \in Windows : Releasing(v) => Releasing(v)'
    BY <2>1 DEF Releasing
  <2> QED
    BY <2>1, <2>2 DEF Moved, Pending, TimingOut
<1>2. ASSUME NEW c \in Calls, WaitCut(c)
      PROVE  Moved'
  <2>1. /\ UNCHANGED <<part, receipt>>
        /\ ~TimingOut(c)
        /\ \A d \in Calls : d # c => waiter'[d] = waiter[d]
    BY <1>0, <1>2 DEF WaitCut, TypeOK
  <2>2. \A d \in Calls : TimingOut(d) => TimingOut(d)'
    BY <2>1 DEF TimingOut
  <2> QED
    BY <2>1, <2>2 DEF Moved, Pending, Releasing
<1>3. CASE APICrash
  <2>1. PICK c \in Calls : Pending(c)
    BY <1>3 DEF APICrash, Moved
  <2>2. Pending(c)'
    BY <1>0, <1>3, <2>1 DEF APICrash, Pending
  <2> QED
    BY <2>2 DEF Moved
<1> QED
  BY <1>1, <1>2, <1>3 DEF Cut

LEMMA NextMoves ==
    ASSUME StrandInv, [Next]_vars, OnlyALossStrands
    PROVE  OnlyALossStrands'
<1>0. /\ TypeOK /\ run \in Run /\ receipt \in [Windows -> Receipt]
      /\ Moved \/ run.status # "awaiting_approval" \/ lost
  BY StrandedIsUnmoved DEF StrandInv, LedgerInv, TypeOK, OnlyALossStrands
<1>1. lost => lost'
  BY DEF Next, NextUp, Core, ToolStep, StageProposal, CommitPendingApproval, ParkRefused,
         WaitStep, StartWait, ReadApprovalDecision, ReadRun, TimeoutStep, TimeoutResult,
         TimeoutApproval, TimeoutFinishesRun, ReceiveReceipt, ResolveStep, Detach,
         ApplyProposal, ReceiptRefused, ApplyFails, RecordConflict, RejectProposal,
         RecordApproval, ReleaseRun, TreeEdited, RequestCancellation, PageStep, PageApplies,
         PageRejects, RunEnds, APICrash, Cut, RequestCut, WaitCut, vars
<1> SUFFICES ASSUME ~lost'
             PROVE  Moved' \/ run'.status # "awaiting_approval"
  BY DEF OnlyALossStrands, Stranded, Moved
<1>2. ASSUME NEW w \in Windows, NEW c \in Calls, NEW approve \in BOOLEAN,
             NEW detach \in BOOLEAN, ReceiveReceipt(w, c, approve, detach)
      PROVE  Moved'
  BY <1>2 DEF ReceiveReceipt, Moved, Pending
<1>3. CASE TreeEdited \/ (\E c \in Calls : PageStep(c)) \/ UNCHANGED vars
  <2>1. UNCHANGED <<run, part, receipt, waiter>>
    BY <1>3 DEF TreeEdited, PageStep, PageApplies, PageRejects, vars
  <2> QED
    BY <1>0, <1>1, <2>1, MovedRests
<1>4. CASE RequestCancellation \/ \E s \in Terminal : RunEnds(s)
  BY <1>0, <1>4 DEF RequestCancellation, RunEnds, FinishRun, Run, Terminal
<1>5. CASE Cut \/ APICrash
  <2>1. run' = run
    BY <1>5 DEF Cut, RequestCut, WaitCut, APICrash
  <2> QED
    BY <1>0, <1>1, <1>5, <2>1, CutMoves
<1> QED
  BY <1>0, <1>1, <1>2, <1>3, <1>4, <1>5, ToolMoves, WaitMoves, ResolveMoves
     DEF Next, NextUp, Core

(* However receipts, timeouts and pages decide the calls of a parked run,   *)
(* some request is left to release or end it; only a request that is cut    *)
(* off, or the server's death, loses it (ResolveApproval, timeoutApproval). *)
THEOREM NoRunIsForgotten == Spec => []OnlyALossStrands
<1>1. Init => LedgerInv /\ ParkedUncancelled /\ OnlyALossStrands
  <2>1. Init => RunningMeansDecided /\ CancellingIsRecorded /\ ParkedUncancelled
                  /\ OnlyALossStrands
    BY DEF Init, RunningMeansDecided, CancellingIsRecorded, ParkedUncancelled, Pending,
           OnlyALossStrands, Stranded
  <2> QED
    BY <2>1, TypeInit DEF LedgerInv
<1>2. StrandInv /\ TypeOK' /\ [Next]_vars => StrandInv'
  BY RunningStep, NextLedger, LedgerRecords, LedgerParks DEF LedgerInv, StrandInv
<1>3. StrandInv /\ OnlyALossStrands /\ [Next]_vars => OnlyALossStrands'
  BY NextMoves
<1> QED
  BY <1>1, <1>2, <1>3, TypeCorrect, PTL DEF Spec, StrandInv

=============================================================================
