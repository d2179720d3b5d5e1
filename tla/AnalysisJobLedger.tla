------------------------- MODULE AnalysisJobLedger -------------------------
(***************************************************************************)
(* The row of table analysis_jobs and the conditional updates the code     *)
(* issues against it.  Every operator below is one WHERE clause or one SET *)
(* clause of AnalysisJobRepository or AnalysisWorkerRepository; the        *)
(* processes that issue them are in module AnalysisWorker.                 *)
(*                                                                         *)
(* Time is abstracted to what the code compares:                           *)
(*   expired  leaseExpiresAt <= now (for a QUEUED sync job: createdAt is   *)
(*            older than ANALYSIS_JOB_STALE_TIMEOUT_MS);                   *)
(*   waiting  nextPublishAt > now.                                         *)
(* promptTokens, completionTokens and totalTokens are null together or     *)
(* known together, so total stands for the three.  cursor and cutoff are   *)
(* sourceCursor and collectionCutoff, the window of pull requests the job  *)
(* collects; a null sourceCursor is 0.                                     *)
(***************************************************************************)
EXTENDS Integers, FiniteSets

CONSTANTS
    Workers,      \* lease tokens: one randomUUID per invocation
    MaxAttempts,  \* maxAttempts of a job
    NULL

ASSUME MaxAttemptsAssumption == MaxAttempts \in Nat \ {0}

Active   == {"QUEUED", "RUNNING"}
Terminal == {"SUCCEEDED", "FAILED"}
Status   == {"ABSENT"} \cup Active \cup Terminal

FailureCode ==
    {"ANALYSIS_FAILED", "INSUFFICIENT_TOKENS", "INPUT_LIMIT_EXCEEDED",
     "NO_ANALYZABLE_DATA", "TOKEN_BUDGET_EXCEEDED", "MAX_ATTEMPTS_EXCEEDED",
     "UNSUPPORTED_ANALYSIS_VERSION", "PROVIDER_RECONCILIATION_REQUIRED",
     "INVALID_MESSAGE", "TEMPORARY_FAILURE"}

ASSUME NullAssumption ==
    NULL \notin Nat /\ NULL \notin Workers /\ NULL \notin FailureCode

Row ==
    [status: Status, lease: Workers \cup {NULL}, expired: BOOLEAN,
     waiting: BOOLEAN, attempts: Nat, reserved: Nat \cup {NULL},
     total: Nat \cup {NULL}, billed: BOOLEAN, settled: BOOLEAN,
     error: FailureCode \cup {NULL}, retryable: BOOLEAN, cursor: Nat,
     cutoff: Nat]

NoRow ==
    [status |-> "ABSENT", lease |-> NULL, expired |-> FALSE,
     waiting |-> FALSE, attempts |-> 0, reserved |-> NULL, total |-> NULL,
     billed |-> FALSE, settled |-> FALSE, error |-> NULL,
     retryable |-> FALSE, cursor |-> 0, cutoff |-> 0]

(* A fresh row: status QUEUED, the collection window, every other column   *)
(* at its default.                                                         *)
CreatedRow(cursor, cutoff) ==
    [NoRow EXCEPT !.status = "QUEUED", !.cursor = cursor, !.cutoff = cutoff]

-----------------------------------------------------------------------------
(* Guards. *)

HasProviderBillingEvidence(r) == r.billed \/ r.total # NULL

(* The lease fence every RUNNING update carries: id + status + leaseToken. *)
Holds(r, token) == r.status = "RUNNING" /\ r.lease = token

(* Mutant: the transition is fenced by the row's reservation alone.        *)
TransitionFenceWithoutLease(r, token, reserved) ==
    r.status \in {"RUNNING", "FAILED"} /\ r.reserved = reserved /\ ~r.settled

(* WHERE of transitionStatus for a terminal status from RUNNING.           *)
TransitionFence(r, token, reserved) ==
    Holds(r, token) /\ r.reserved = reserved /\ ~r.settled

(* Mutant: the reservation is fenced by id and status alone.               *)
ReserveFenceById(r, token) == r.status = "RUNNING" /\ ~r.settled

(* WHERE of reserveTokens.                                                 *)
ReserveFence(r, token) ==
    Holds(r, token) /\ r.reserved = NULL /\ ~r.settled

(* WHERE of recordProviderCharge.                                          *)
ChargeFence(r, token, reserved) ==
    /\ Holds(r, token) /\ r.reserved = reserved /\ ~r.settled
    /\ ~HasProviderBillingEvidence(r)

(* WHERE of releaseForRetry.                                               *)
ReleaseFence(r, token) ==
    Holds(r, token) /\ ~r.settled /\ ~HasProviderBillingEvidence(r)

(* The SELECT ... FOR UPDATE test of settleFailure.                        *)
SettleFence(r, status, token) ==
    /\ r.status = status
    /\ ~r.settled
    /\ status = "RUNNING" => r.lease = token

(* WHERE of claimQueued and of the two take-overs.  A caller whose clock   *)
(* reading is older than the row's last deadline is "behind": it still     *)
(* sees that deadline in its future.                                       *)
ClaimQueuedFence(r, behind) ==
    /\ r.status = "QUEUED"
    /\ r.attempts < MaxAttempts
    /\ ~r.waiting /\ ~behind
    /\ ~r.settled

TakeOverFence(r, token, attempts, behind) ==
    /\ Holds(r, token)
    /\ r.expired /\ ~behind
    /\ r.attempts = attempts
    /\ r.attempts < MaxAttempts
    /\ ~r.settled

TakeOverBilledFence(r, token, attempts, behind) ==
    /\ Holds(r, token)
    /\ r.expired /\ ~behind
    /\ r.attempts = attempts
    /\ HasProviderBillingEvidence(r)
    /\ ~r.settled

-----------------------------------------------------------------------------
(* Updates. *)

ClaimedRow(r, token) ==
    [r EXCEPT !.status = "RUNNING", !.attempts = @ + 1, !.lease = token,
              !.expired = FALSE, !.waiting = FALSE, !.error = NULL,
              !.retryable = FALSE]

(* Mutant: a take-over is not counted as an attempt.                       *)
TakenOverRowUncounted(r, token) ==
    [r EXCEPT !.lease = token, !.expired = FALSE,
              !.error = NULL, !.retryable = FALSE]

(* Mutant: a take-over keeps the expired deadline.                         *)
TakenOverRowUnrenewed(r, token) ==
    [r EXCEPT !.attempts = @ + 1, !.lease = token,
              !.error = NULL, !.retryable = FALSE]

TakenOverRow(r, token) ==
    [r EXCEPT !.attempts = @ + 1, !.lease = token, !.expired = FALSE,
              !.error = NULL, !.retryable = FALSE]

TakenOverBilledRow(r, token) ==
    [r EXCEPT !.lease = token, !.expired = FALSE]

(* transition QUEUED -> RUNNING of the synchronous path: no attempt is     *)
(* counted.                                                                *)
StartedRow(r, token) ==
    [r EXCEPT !.status = "RUNNING", !.lease = token, !.expired = FALSE]

(* updateProgress: the new leaseExpiresAt lies in the future again.        *)
RefreshedRow(r) == [r EXCEPT !.expired = FALSE]

(* Mutant: the released row keeps its lease.                               *)
ReleasedRowKeepingLease(r) ==
    [r EXCEPT !.status = "QUEUED", !.waiting = TRUE,
              !.error = "TEMPORARY_FAILURE", !.retryable = TRUE]

ReleasedRow(r) ==
    [r EXCEPT !.status = "QUEUED", !.waiting = TRUE, !.lease = NULL,
              !.expired = FALSE, !.error = "TEMPORARY_FAILURE",
              !.retryable = TRUE]

ReservedRow(r, tokens) == [r EXCEPT !.reserved = tokens]

ChargedRow(r, total) == [r EXCEPT !.total = total, !.billed = TRUE]

SucceededRow(r, total) ==
    [r EXCEPT !.status = "SUCCEEDED", !.total = total, !.billed = TRUE,
              !.settled = TRUE, !.lease = NULL, !.expired = FALSE]

(* terminateWorkerJob: the FAILED transition of the runner.                *)
TerminatedRow(r, code, total, billed, settled) ==
    [r EXCEPT !.status = "FAILED", !.total = total, !.billed = billed,
              !.settled = settled, !.lease = NULL, !.expired = FALSE,
              !.error = code, !.retryable = FALSE]

(* settleFailure: nothing was billed, so the usage is zero and the         *)
(* reservation is given back.                                              *)
SettledFailureRow(r, code, retryable) ==
    [r EXCEPT !.status = "FAILED", !.total = 0, !.settled = TRUE,
              !.lease = NULL, !.expired = FALSE, !.waiting = FALSE,
              !.error = code, !.retryable = retryable]

(* recoverStaleActiveJobs: the two updateMany of the acceptance            *)
(* transaction.  Without a reservation the job is closed at zero; with one *)
(* it is quarantined, its usage columns untouched.                         *)
IsStale(r, sync) ==
    /\ r.expired /\ ~r.settled
    /\ \/ r.status = "RUNNING"
       \/ r.status = "QUEUED" /\ sync /\ r.reserved = NULL /\ r.attempts = 0

(* Mutant: recovery closes a reserved job at zero without a refund.        *)
RecoveredRowAtZero(r) ==
    [r EXCEPT !.status = "FAILED", !.total = 0, !.settled = TRUE,
              !.lease = NULL, !.expired = FALSE,
              !.error = "ANALYSIS_FAILED", !.retryable = TRUE]

RecoveredRow(r) ==
    IF r.reserved = NULL
    THEN [r EXCEPT !.status = "FAILED", !.total = 0, !.settled = TRUE,
                   !.lease = NULL, !.expired = FALSE,
                   !.error = "ANALYSIS_FAILED", !.retryable = TRUE]
    ELSE [r EXCEPT !.status = "FAILED", !.lease = NULL, !.expired = FALSE,
                   !.error = "PROVIDER_RECONCILIATION_REQUIRED",
                   !.retryable = FALSE]
=============================================================================
