------------------------------ MODULE JobRows ------------------------------
(***************************************************************************)
(* One row of the jobs table together with the job_events rows that belong *)
(* to it, and the row transformations of src/repositories/                 *)
(* job_repository.py.  Every operator below is one repository method: it   *)
(* contains the method's early returns (the row is then returned as it     *)
(* was) and both the column updates and the event the method commits with  *)
(* them, because the method does so inside one db_session transaction that *)
(* holds the row lock.                                                     *)
(*                                                                         *)
(* Of job_events the number of "started", of "approval_required" and of    *)
(* positive "approval_resolved" events is kept.  Payload, progress,        *)
(* result, error text and time stamps are left out; available_at is kept   *)
(* as the single bit "available_at <= now".                                *)
(***************************************************************************)
EXTENDS Integers

CONSTANTS
    Scopes,     \* the (job_type, owner_id, agent_id) triples callers use
    Keys,       \* idempotency keys
    NoKey       \* what a caller passes that has no idempotency key

Terminal == {"succeeded", "failed", "cancelled"}

Status == {"queued", "running", "waiting_approval"} \cup Terminal

Approval == {"none", "granted", "denied"}

Row == [status   : Status,
        scope    : Scopes,
        key      : Keys \cup {NoKey},
        attempts : Nat,               \* attempt_count
        max      : Nat \ {0},         \* max_attempts
        cancel   : BOOLEAN,           \* cancel_requested
        approval : Approval,          \* approval_granted: None, True, False
        due      : BOOLEAN,           \* available_at <= now
        starts   : Nat,               \* number of "started" events
        pauses   : Nat,               \* number of "approval_required" events
        grants   : Nat]               \* "approval_resolved" with approved

\* A job id that has no row yet.
Absent == [status |-> "absent"]

Exists(r) == r.status # "absent"

-----------------------------------------------------------------------------

\* The row enqueue inserts.
NewRow(scope, key, max, due) ==
    [status |-> "queued", scope |-> scope, key |-> key, attempts |-> 0,
     max |-> max, cancel |-> FALSE, approval |-> "none", due |-> due,
     starts |-> 0, pauses |-> 0, grants |-> 0]

\* The WHERE clause of claim_next, except the registered types.
Claimable(r) ==
    /\ r.status = "queued"
    /\ r.due
    /\ ~r.cancel
    /\ r.attempts < r.max

Claim(r) ==
    [r EXCEPT !.status = "running", !.attempts = @ + 1, !.starts = @ + 1]

\* _mark_cancelled, the helper every cancelling path goes through.
Cancelled(r) == [r EXCEPT !.status = "cancelled", !.cancel = TRUE]

Failed(r) == [r EXCEPT !.status = "failed"]

\* Mutant: a worker that lost the job still records its result.
CompleteAnyway(r) ==
    IF r.cancel THEN Cancelled(r) ELSE [r EXCEPT !.status = "succeeded"]

Complete(r) ==
    IF r.status # "running" THEN r
    ELSE IF r.cancel THEN Cancelled(r)
    ELSE [r EXCEPT !.status = "succeeded"]

MarkCancelled(r) ==
    IF ~Exists(r) \/ r.status \in Terminal THEN r ELSE Cancelled(r)

\* Mutant: a failing job is retried although its cancellation was requested.
FailIgnoringCancel(r, retryable) ==
    IF r.status # "running" THEN r
    ELSE IF retryable /\ r.attempts < r.max
    THEN [r EXCEPT !.status = "queued", !.due = FALSE]
    ELSE Failed(r)

\* A retry is delayed by the exponential back-off, so the row is not due.
Fail(r, retryable) ==
    IF r.status # "running" THEN r
    ELSE IF r.cancel THEN Cancelled(r)
    ELSE IF retryable /\ r.attempts < r.max
    THEN [r EXCEPT !.status = "queued", !.due = FALSE]
    ELSE Failed(r)

RequestCancel(r) ==
    IF ~Exists(r) \/ r.status \in Terminal \/ r.cancel THEN r
    ELSE IF r.status \in {"queued", "waiting_approval"} THEN Cancelled(r)
    ELSE [r EXCEPT !.cancel = TRUE]

IsCancelRequested(r) ==
    \/ ~Exists(r)
    \/ r.cancel
    \/ r.status = "cancelled"

\* Mutant: the attempt a pause interrupts is not given back.
WaitKeepingAttempt(r) ==
    IF r.status # "running" THEN r
    ELSE IF r.cancel THEN Cancelled(r)
    ELSE [r EXCEPT !.status = "waiting_approval", !.approval = "none",
                   !.pauses = @ + 1]

\* Mutant: a pause gives the whole attempt budget back, without a floor.
WaitRefundingAll(r) ==
    IF r.status # "running" THEN r
    ELSE IF r.cancel THEN Cancelled(r)
    ELSE [r EXCEPT !.status = "waiting_approval",
                   !.attempts = @ - r.max,
                   !.approval = "none",
                   !.pauses = @ + 1]

\* The attempt the claim counted is given back: a pause is not an attempt.
WaitForApproval(r) ==
    IF r.status # "running" THEN r
    ELSE IF r.cancel THEN Cancelled(r)
    ELSE [r EXCEPT !.status = "waiting_approval",
                   !.attempts = IF @ > 0 THEN @ - 1 ELSE 0,
                   !.approval = "none",
                   !.pauses = @ + 1]

ResolveApproval(r, approved) ==
    LET answered == [r EXCEPT !.approval = IF approved THEN "granted"
                                                       ELSE "denied",
                              !.grants = IF approved THEN @ + 1 ELSE @]
    IN IF r.status # "waiting_approval" THEN r
       ELSE IF ~approved THEN Cancelled(answered)
       ELSE IF r.attempts < r.max
       THEN [answered EXCEPT !.status = "queued", !.due = TRUE]
       ELSE Failed(answered)

\* Mutant: an interrupted last attempt is requeued like any other.
RecoverPastLimit(r, retrySafe) ==
    IF r.status # "running" THEN r
    ELSE IF r.cancel THEN Cancelled(r)
    ELSE IF retrySafe
    THEN [r EXCEPT !.status = "queued", !.due = TRUE]
    ELSE [r EXCEPT !.status = "waiting_approval", !.approval = "none"]

\* Mutant: the cancellation of an interrupted job is forgotten.
RecoverIgnoringCancel(r, retrySafe) ==
    IF r.status # "running" THEN r
    ELSE IF r.attempts >= r.max THEN Failed(r)
    ELSE IF retrySafe
    THEN [r EXCEPT !.status = "queued", !.due = TRUE]
    ELSE [r EXCEPT !.status = "waiting_approval", !.approval = "none"]

\* The body of the loop of recover_interrupted, for one selected row.
Recover(r, retrySafe) ==
    IF r.status # "running" THEN r
    ELSE IF r.cancel THEN Cancelled(r)
    ELSE IF r.attempts >= r.max THEN Failed(r)
    ELSE IF retrySafe
    THEN [r EXCEPT !.status = "queued", !.due = TRUE]
    ELSE [r EXCEPT !.status = "waiting_approval", !.approval = "none"]
=============================================================================
