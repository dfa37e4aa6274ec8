------------------------------ MODULE RunLedger ------------------------------
(***************************************************************************)
(* What an agent run promises to the user, without hosts, tokens, streams, *)
(* receipts or a reaper: it works, waits for the user exactly while        *)
(* proposals of it are open, and ends once; a cancellation that was        *)
(* recorded decides the end whoever brings it about, and what is decided   *)
(* about an ended run does not wake it.                                    *)
(*                                                                         *)
(* HarnessRun and Approval describe the same row in different depth; each  *)
(* implements this ledger.                                                 *)
(***************************************************************************)
CONSTANT Proposals

VARIABLES
    status,     \* of the run
    cancelled,  \* whether a cancellation has been recorded
    open        \* the proposals that wait for the user

ledger == <<status, cancelled, open>>

Ended == {"succeeded", "failed", "cancelled", "interrupted"}

LedgerInit ==
    /\ status \in {"queued", "running"}
    /\ cancelled = FALSE
    /\ open = {}

PickedUp ==
    /\ status = "queued"
    /\ status' = "running"
    /\ UNCHANGED <<cancelled, open>>

ParksFor(p) ==
    /\ status \in {"running", "awaiting_approval"} /\ ~cancelled
    /\ status' = "awaiting_approval"
    /\ open' = open \cup {p}
    /\ UNCHANGED cancelled

\* A decision may come at any time, by the user or by a deadline.
Decided(p) ==
    /\ p \in open
    /\ open' = open \ {p}
    /\ UNCHANGED <<status, cancelled>>

Resumes ==
    /\ status = "awaiting_approval" /\ ~cancelled
    /\ open = {}
    /\ status' = "running"
    /\ UNCHANGED <<cancelled, open>>

CancelAsked ==
    /\ status \in {"queued", "running", "awaiting_approval"}
    /\ status' = "cancelling"
    /\ cancelled' = TRUE
    /\ UNCHANGED open

Ends(s) ==
    /\ status \notin Ended
    /\ status' = IF cancelled THEN "cancelled" ELSE s
    /\ UNCHANGED <<cancelled, open>>

LedgerNext ==
    \/ PickedUp \/ Resumes \/ CancelAsked
    \/ \E p \in Proposals : ParksFor(p) \/ Decided(p)
    \/ \E s \in Ended : Ends(s)

LedgerSpec == LedgerInit /\ [][LedgerNext]_ledger

=============================================================================
