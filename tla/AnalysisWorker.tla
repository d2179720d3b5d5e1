--------------------------- MODULE AnalysisWorker ---------------------------
(***************************************************************************)
(* The execution of analysis jobs: the Lambda worker (AnalysisWorker-      *)
(* Service), the runner it calls (AnalysisService.runAnalysisJob), the     *)
(* synchronous path that calls the same runner (runAnalysis) and the       *)
(* acceptance transaction that creates jobs and recovers stale ones, all   *)
(* over the analysis_jobs, users, analysis_reports, user_stats and         *)
(* repositories tables.                                                    *)
(*                                                                         *)
(* An invocation w is one processRecord call or one synchronous request.   *)
(* Each database statement or transaction is one action; invocations       *)
(* interleave between them, crash anywhere, and outlive their lease.       *)
(***************************************************************************)
EXTENDS AnalysisJobLedger

CONSTANTS
    Jobs, Users, Repos,
    OwnerOf, RepoOf,        \* job -> its user and repository
    SyncJobs,               \* jobs created by POST sync ("sync:" keys)
    RetiredJobs,            \* jobs whose prompt version was retired
    InitialTokens,          \* availableTokens of every user at the start
    ReserveSizes,           \* reservations estimateTokenReservation may ask
    UsageSizes,             \* totals the provider may report
    MaxInstant,             \* bound on collectionCutoff instants
    MaxFaults,              \* bound on crashes and database failures
    LeaseOutlivesWorker     \* lease seconds exceed the Lambda timeout

ASSUME JobAssumption ==
    /\ OwnerOf \in [Jobs -> Users] /\ RepoOf \in [Jobs -> Repos]
    /\ SyncJobs \subseteq Jobs /\ RetiredJobs \subseteq Jobs \ SyncJobs
    /\ NULL \notin Jobs
ASSUME TokenAssumption ==
    /\ InitialTokens \in Nat /\ MaxInstant \in Nat /\ MaxFaults \in Nat
    /\ ReserveSizes \subseteq Nat /\ UsageSizes \subseteq Nat
ASSUME LeaseAssumption == LeaseOutlivesWorker \in BOOLEAN

VARIABLES
    job,              \* analysis_jobs
    inv,              \* the invocations and their local state
    availableTokens,  \* users.availableTokens
    held,             \* net tokens taken from the user for a job (auxiliary)
    reports,          \* jobs that have an analysis_reports row
    analysisCount,    \* user_stats: reports folded into the averages
    lastSyncTime,     \* repositories.lastSyncTime, 0 for null
    analysed,         \* instants a finished job has covered (auxiliary)
    providerCalls,    \* OpenAI requests sent for a job (auxiliary)
    answered,         \* jobs with a billed answer received (auxiliary)
    faults            \* crashes and database failures so far

vars == <<job, inv, availableTokens, held, reports, analysisCount,
          lastSyncTime, analysed, providerCalls, answered, faults>>
ledger == <<availableTokens, held>>
results == <<reports, analysisCount, lastSyncTime, analysed>>
provider == <<providerCalls, answered>>

ClaimSteps == {"claimQueued", "takeOver", "takeOverBilled", "limit"}
RunSteps ==
    {"recover", "collect", "resolve", "reserve", "reserved", "llm", "reply",
     "charge", "saving", "save", "reconcile", "fail"}
Pc == {"idle", "syncCreate", "syncStart"} \cup ClaimSteps \cup RunSteps

(* Local state of an invocation: the row snapshot of claim (snap, was,     *)
(* attempts), the job context of the runner (reserved, cutoff), the        *)
(* provider's answer (id, usage, ok) and the class of the pending error.   *)
Invocation ==
    [pc: Pc, job: Jobs \cup {NULL}, last: BOOLEAN, behind: BOOLEAN,
     snap: Workers \cup {NULL}, was: Status, attempts: Nat,
     reserved: Nat \cup {NULL}, need: Nat, id: BOOLEAN,
     usage: Nat \cup {NULL}, ok: BOOLEAN, retry: BOOLEAN,
     cursor: Nat, cutoff: Nat]

Idle ==
    [pc |-> "idle", job |-> NULL, last |-> FALSE, behind |-> FALSE,
     snap |-> NULL, was |-> "ABSENT", attempts |-> 0, reserved |-> NULL,
     need |-> 0, id |-> FALSE, usage |-> NULL, ok |-> FALSE,
     retry |-> FALSE, cursor |-> 0, cutoff |-> 0]

TypeOK ==
    /\ job \in [Jobs -> Row]
    /\ inv \in [Workers -> Invocation]
    /\ availableTokens \in [Users -> Nat]
    /\ held \in [Jobs -> Int]
    /\ reports \subseteq Jobs
    /\ analysisCount \in [Users -> Nat]
    /\ lastSyncTime \in [Repos -> Nat]
    /\ analysed \in [Repos -> SUBSET Nat]
    /\ providerCalls \in [Jobs -> Nat]
    /\ answered \subseteq Jobs
    /\ faults \in Nat
    /\ \A w \in Workers : inv[w].pc # "idle" => inv[w].job \in Jobs

Init ==
    /\ job = [j \in Jobs |-> NoRow]
    /\ inv = [w \in Workers |-> Idle]
    /\ availableTokens = [u \in Users |-> InitialTokens]
    /\ held = [j \in Jobs |-> 0]
    /\ reports = {}
    /\ analysisCount = [u \in Users |-> 0]
    /\ lastSyncTime = [r \in Repos |-> 0]
    /\ analysed = [r \in Repos |-> {}]
    /\ providerCalls = [j \in Jobs |-> 0]
    /\ answered = {}
    /\ faults = 0

-----------------------------------------------------------------------------
(* Building blocks. *)

J(w) == inv[w].job
MyRow(w) == job[J(w)]
IsSync(w) == J(w) \in SyncJobs

(* A new invocation draws a randomUUID: a token no row and no snapshot     *)
(* mentions.                                                               *)
FreshToken(w) ==
    /\ inv[w].pc = "idle"
    /\ \A j \in Jobs : job[j].lease # w
    /\ \A v \in Workers : inv[v].snap # w

Write(j, r) == job' = [job EXCEPT ![j] = r]
Goto(w, p)  == inv' = [inv EXCEPT ![w].pc = p]
Return(w)   == inv' = [inv EXCEPT ![w] = Idle]

(* An exception that reaches executeClaimedJob's catch; the synchronous    *)
(* caller has no such handler and the request ends.                        *)
Throw(w, retry) ==
    inv' = [inv EXCEPT ![w] =
              IF @.job \in SyncJobs THEN Idle
              ELSE [@ EXCEPT !.pc = "fail", !.retry = retry]]

(* Take n tokens (give back when n < 0) from the owner of j.               *)
Debit(j, n) ==
    /\ availableTokens' = [availableTokens EXCEPT ![OwnerOf[j]] = @ - n]
    /\ held' = [held EXCEPT ![j] = @ + n]

OrZero(n) == IF n = NULL THEN 0 ELSE n

(* Mutant: the checkpoint is overwritten whatever it was.                  *)
AdvanceRepositoryCheckpointAlways(w) ==
    /\ lastSyncTime' = [lastSyncTime EXCEPT ![RepoOf[J(w)]] = inv[w].cutoff]
    /\ analysed' = [analysed EXCEPT ![RepoOf[J(w)]] =
                       @ \cup (inv[w].cursor + 1)..inv[w].cutoff]

(* The completionAction of a run that has covered its collection window:   *)
(* lastSyncTime only moves forward.                                        *)
AdvanceRepositoryCheckpoint(w) ==
    LET cutoff == inv[w].cutoff IN
    /\ lastSyncTime' = [lastSyncTime EXCEPT ![RepoOf[J(w)]] =
                           IF @ < cutoff THEN cutoff ELSE @]
    /\ analysed' = [analysed EXCEPT ![RepoOf[J(w)]] =
                       @ \cup (inv[w].cursor + 1)..cutoff]

Fault == faults < MaxFaults /\ faults' = faults + 1

(* new Date(): later than every instant recorded so far.                   *)
IsNow(c) ==
    /\ \A j \in Jobs : job[j].cutoff < c
    /\ \A w \in Workers : inv[w].cutoff < c
    /\ \/ c = 1
       \/ \E j \in Jobs : job[j].cutoff = c - 1
       \/ \E w \in Workers : inv[w].cutoff = c - 1

-----------------------------------------------------------------------------
(* Acceptance. *)

(* createExclusiveInTransaction: recover stale jobs of the repository,     *)
(* refuse while one is active, insert.                                     *)
Recovered(j) ==
    [k \in Jobs |->
        IF RepoOf[k] = RepoOf[j] /\ IsStale(job[k], k \in SyncJobs)
        THEN RecoveredRow(job[k]) ELSE job[k]]

(* Mutant: only a RUNNING job counts as active.                            *)
CanCreateBesideQueued(j) ==
    \A k \in Jobs : RepoOf[k] = RepoOf[j] => Recovered(j)[k].status # "RUNNING"

CanCreate(j) ==
    \A k \in Jobs : RepoOf[k] = RepoOf[j] => Recovered(j)[k].status \notin Active

CreateExclusive(j, cursor, cutoff) ==
    /\ CanCreate(j)
    /\ job' = [Recovered(j) EXCEPT ![j] = CreatedRow(cursor, cutoff)]

Window(cursor, cutoff) == [cursor |-> cursor, cutoff |-> cutoff]

(* Mutant: a new job collects from the cutoff of the last accepted one.    *)
CollectionWindowsSinceLastJob(j) ==
    {Window(c - 1, c) : c \in {i \in 1..MaxInstant : IsNow(i)}}

(* A new job collects from the repository's checkpoint to now; a retried   *)
(* one takes the window of its failed source.                              *)
CollectionWindows(j) ==
    {Window(lastSyncTime[RepoOf[j]], c) : c \in {i \in 1..MaxInstant : IsNow(i)}}
    \cup
    {Window(job[k].cursor, job[k].cutoff) :
        k \in {i \in Jobs : /\ RepoOf[i] = RepoOf[j] /\ OwnerOf[i] = OwnerOf[j]
                            /\ job[i].status = "FAILED" /\ job[i].retryable}}

AcceptJob(j) ==
    /\ j \notin SyncJobs /\ job[j].status = "ABSENT"
    /\ availableTokens[OwnerOf[j]] > 0
    /\ \E win \in CollectionWindows(j) :
          CreateExclusive(j, win.cursor, win.cutoff)
    /\ UNCHANGED <<inv, ledger, results, provider, faults>>

(* syncRepository: collect first, create the job afterwards.               *)
SyncCollect(w, j) ==
    /\ FreshToken(w) /\ j \in SyncJobs /\ job[j].status = "ABSENT"
    /\ \A v \in Workers : inv[v].job # j
    /\ \E c \in 1..MaxInstant :
          /\ IsNow(c)
          /\ inv' = [inv EXCEPT ![w] =
                [Idle EXCEPT !.pc = "syncCreate", !.job = j, !.cutoff = c,
                             !.cursor = lastSyncTime[RepoOf[j]]]]
    /\ UNCHANGED <<job, ledger, results, provider, faults>>

SyncCreate(w) ==
    /\ inv[w].pc = "syncCreate" /\ MyRow(w).status = "ABSENT"
    /\ \/ /\ \E c \in 1..MaxInstant : IsNow(c) /\ CreateExclusive(J(w), 0, c)
          /\ Goto(w, "syncStart")
       \/ /\ ~CanCreate(J(w))
          /\ Return(w)
          /\ UNCHANGED job
    /\ UNCHANGED <<ledger, results, provider, faults>>

(* transition QUEUED -> RUNNING; it fails when recovery was faster.        *)
SyncStart(w) ==
    /\ inv[w].pc = "syncStart"
    /\ \/ /\ MyRow(w).status = "QUEUED"
          /\ Write(J(w), StartedRow(MyRow(w), w))
          /\ Goto(w, "resolve")
       \/ /\ MyRow(w).status # "QUEUED"
          /\ Return(w)
          /\ UNCHANGED job
    /\ UNCHANGED <<ledger, results, provider, faults>>

-----------------------------------------------------------------------------
(* Claiming a delivered record. *)

(* Mutant: an expired lease is treated alike with and without a charge.    *)
ClaimKindIgnoringBilling(r) ==
    CASE r.status = "QUEUED" /\ ~r.waiting ->
            IF r.attempts >= MaxAttempts THEN "limit" ELSE "claimQueued"
      [] r.status = "RUNNING" /\ r.expired ->
            IF r.attempts >= MaxAttempts THEN "limit" ELSE "takeOver"
      [] OTHER -> "idle"

(* What claim decides from the row it reads: "idle" stands for an ACK or   *)
(* RETRY that changes nothing (terminal, not due, active lease).           *)
ClaimKind(r) ==
    CASE r.status = "QUEUED" /\ r.attempts >= MaxAttempts -> "limit"
      [] r.status = "QUEUED" /\ r.attempts < MaxAttempts /\ ~r.waiting
            -> "claimQueued"
      [] r.status = "RUNNING" /\ r.expired /\ HasProviderBillingEvidence(r)
            -> "takeOverBilled"
      [] r.status = "RUNNING" /\ r.expired /\ ~HasProviderBillingEvidence(r)
            -> IF r.attempts >= MaxAttempts THEN "limit" ELSE "takeOver"
      [] OTHER -> "idle"

(* resolveClaimRace: the re-read after a lost conditional update.          *)
RaceKind(r, behind) ==
    IF /\ r.status \in Active /\ ~r.waiting
       /\ r.status = "RUNNING" => r.expired /\ ~behind
       /\ r.attempts >= MaxAttempts
    THEN "limit" ELSE "idle"

Snapshot(w, j, kind, last, behind) ==
    inv' = [inv EXCEPT ![w] =
              IF kind = "idle" THEN Idle
              ELSE [Idle EXCEPT !.pc = kind, !.job = j, !.last = last,
                       !.behind = behind, !.snap = job[j].lease,
                       !.was = job[j].status, !.attempts = job[j].attempts]]

(* SQS hands the message of j to w; last says that the receive count has   *)
(* reached the limit.                                                      *)
Deliver(w, j, last) ==
    /\ FreshToken(w) /\ j \notin SyncJobs
    /\ ClaimKind(job[j]) # "idle"
    /\ Snapshot(w, j, ClaimKind(job[j]), last, FALSE)
    /\ UNCHANGED <<job, ledger, results, provider, faults>>

Claimed(w, r) ==
    /\ Write(J(w), r)
    /\ inv' = [inv EXCEPT ![w] =
                 [Idle EXCEPT !.pc = "recover", !.job = J(w), !.last = inv[w].last,
                              !.attempts = r.attempts, !.cursor = r.cursor,
                              !.cutoff = r.cutoff]]

LostClaim(w) ==
    /\ Snapshot(w, J(w), RaceKind(MyRow(w), inv[w].behind), inv[w].last,
                inv[w].behind)
    /\ UNCHANGED job

ClaimQueued(w) ==
    /\ inv[w].pc = "claimQueued"
    /\ IF ClaimQueuedFence(MyRow(w), inv[w].behind)
       THEN Claimed(w, ClaimedRow(MyRow(w), w))
       ELSE LostClaim(w)
    /\ UNCHANGED <<ledger, results, provider, faults>>

TakeOverExpiredLease(w) ==
    /\ inv[w].pc = "takeOver"
    /\ IF TakeOverFence(MyRow(w), inv[w].snap, inv[w].attempts, inv[w].behind)
       THEN Claimed(w, TakenOverRow(MyRow(w), w))
       ELSE LostClaim(w)
    /\ UNCHANGED <<ledger, results, provider, faults>>

TakeOverExpiredBilledLease(w) ==
    /\ inv[w].pc = "takeOverBilled"
    /\ IF TakeOverBilledFence(MyRow(w), inv[w].snap, inv[w].attempts,
                              inv[w].behind)
       THEN Claimed(w, TakenOverBilledRow(MyRow(w), w))
       ELSE LostClaim(w)
    /\ UNCHANGED <<ledger, results, provider, faults>>

(* settleFailure, whoever calls it; on a lost fence or on billing evidence *)
(* nothing is written.                                                     *)
SettleFailure(j, status, token, code, retryable) ==
    IF SettleFence(job[j], status, token) /\ ~HasProviderBillingEvidence(job[j])
    THEN /\ Write(j, SettledFailureRow(job[j], code, retryable))
         /\ Debit(j, 0 - OrZero(job[j].reserved))
    ELSE UNCHANGED <<job, ledger>>

(* finalizeClaimLimit: settle under the token found in the snapshot.       *)
FinalizeClaimLimit(w) ==
    /\ inv[w].pc = "limit"
    /\ SettleFailure(J(w), inv[w].was, inv[w].snap,
                     "MAX_ATTEMPTS_EXCEEDED", TRUE)
    /\ Return(w)
    /\ UNCHANGED <<results, provider, faults>>

(* A record whose body names j but does not parse.                         *)
FailQueuedInvalidMessage(j) ==
    /\ job[j].status = "QUEUED"
    /\ SettleFailure(j, "QUEUED", NULL, "INVALID_MESSAGE", FALSE)
    /\ UNCHANGED <<inv, results, provider, faults>>

-----------------------------------------------------------------------------
(* Executing a claimed job up to the provider call. *)

(* A fenced statement that matches no row before anything was billed:      *)
(* StaleAnalysisWorkerLeaseError or StaleAnalysisJobTransitionError.       *)
LostLease(w) ==
    /\ inv[w].pc \in {"recover", "collect", "resolve", "reserve", "reserved"}
    /\ ~Holds(MyRow(w), w)
    /\ Throw(w, TRUE)
    /\ UNCHANGED <<job, ledger, results, provider, faults>>

(* terminateWorkerJob with zero usage: the whole reservation goes back.    *)
TerminateUnbilled(w, code) ==
    /\ Write(J(w), TerminatedRow(MyRow(w), code, 0, FALSE, TRUE))
    /\ Debit(J(w), 0 - OrZero(MyRow(w).reserved))

(* Mutant: usage beyond the reservation is debited unconditionally.        *)
TerminateProviderReconciliationOverdrawing(w, reserved, id, usage) ==
    IF usage # NULL /\ reserved # NULL
    THEN /\ Debit(J(w), usage - reserved)
         /\ Write(J(w), TerminatedRow(MyRow(w), "TOKEN_BUDGET_EXCEEDED",
                                      usage, id, TRUE))
    ELSE /\ UNCHANGED ledger
         /\ Write(J(w), TerminatedRow(MyRow(w),
                         "PROVIDER_RECONCILIATION_REQUIRED", usage, id, FALSE))

(* terminateProviderReconciliation: settle what is known, debiting usage   *)
(* beyond the reservation if the user can pay; quarantine the rest.        *)
TerminateProviderReconciliation(w, reserved, id, usage) ==
    LET settles == /\ usage # NULL /\ reserved # NULL
                   /\ \/ usage <= reserved
                      \/ availableTokens[OwnerOf[J(w)]] >= usage - reserved
    IN IF settles
       THEN /\ Debit(J(w), usage - reserved)
            /\ Write(J(w), TerminatedRow(MyRow(w),
                         IF usage > reserved THEN "TOKEN_BUDGET_EXCEEDED"
                         ELSE "PROVIDER_RECONCILIATION_REQUIRED",
                         usage, id, TRUE))
       ELSE /\ UNCHANGED ledger
            /\ Write(J(w), TerminatedRow(MyRow(w),
                         "PROVIDER_RECONCILIATION_REQUIRED", usage, id, FALSE))

(* recoverProviderCheckpoint: a durable charge is reconciled and a retired *)
(* version closed before anything is collected.                            *)
RecoverProviderCheckpoint(w) ==
    /\ inv[w].pc = "recover" /\ Holds(MyRow(w), w)
    /\ \/ /\ HasProviderBillingEvidence(MyRow(w))
          /\ TerminateProviderReconciliation(w, MyRow(w).reserved,
                                             MyRow(w).billed, MyRow(w).total)
          /\ Return(w)
       \/ /\ ~HasProviderBillingEvidence(MyRow(w)) /\ J(w) \in RetiredJobs
          /\ TerminateUnbilled(w, "UNSUPPORTED_ANALYSIS_VERSION")
          /\ Return(w)
       \/ /\ ~HasProviderBillingEvidence(MyRow(w)) /\ J(w) \notin RetiredJobs
          /\ Goto(w, "collect")
          /\ UNCHANGED <<job, ledger>>
    /\ UNCHANGED <<results, provider, faults>>

(* updateProgress: refresh the lease and go on.                            *)
UpdateProgress(w, next) ==
    /\ Holds(MyRow(w), w)
    /\ Write(J(w), RefreshedRow(MyRow(w)))
    /\ Goto(w, next)
    /\ UNCHANGED <<ledger, results, provider, faults>>

CollectionHeartbeat(w) ==
    inv[w].pc = "collect" /\ UpdateProgress(w, "collect")

CollectionDone(w) ==
    inv[w].pc = "collect" /\ UpdateProgress(w, "resolve")

OnTokensReserved(w) ==
    inv[w].pc = "reserved" /\ UpdateProgress(w, "llm")

OnSaving(w) ==
    inv[w].pc = "saving" /\ UpdateProgress(w, "save")

(* GitHub errors, and exceptions of the runner before the reservation      *)
(* (refiner, preprocessor, unsupported version), which are permanent.      *)
RunFails(w, retry) ==
    /\ inv[w].pc = "collect" \/ (inv[w].pc = "resolve" /\ ~retry)
    /\ Throw(w, retry)
    /\ UNCHANGED <<job, ledger, results, provider, faults>>

AfterReservation(w) == IF IsSync(w) THEN "llm" ELSE "reserved"

(* No pull request survives the refiner: close the job, move the           *)
(* checkpoint.                                                             *)
NoAnalyzableData(w) ==
    /\ inv[w].pc = "resolve" /\ Holds(MyRow(w), w)
    /\ TerminateUnbilled(w, "NO_ANALYZABLE_DATA")
    /\ AdvanceRepositoryCheckpoint(w)
    /\ Return(w)
    /\ UNCHANGED <<reports, analysisCount, provider, faults>>

InputLimitExceeded(w) ==
    /\ inv[w].pc = "resolve" /\ Holds(MyRow(w), w)
    /\ TerminateUnbilled(w, "INPUT_LIMIT_EXCEEDED")
    /\ Return(w)
    /\ UNCHANGED <<results, provider, faults>>

(* resolveRunningExecution and the first half of                           *)
(* ensureWorkerTokenReservation: an earlier reservation is reused when it  *)
(* is large enough.                                                        *)
EnsureReservation(w, n) ==
    /\ inv[w].pc = "resolve" /\ Holds(MyRow(w), w)
    /\ \/ /\ MyRow(w).reserved = NULL
          /\ inv' = [inv EXCEPT ![w].pc = "reserve", ![w].need = n]
          /\ UNCHANGED <<job, ledger>>
       \/ /\ MyRow(w).reserved # NULL /\ MyRow(w).reserved >= n
          /\ inv' = [inv EXCEPT ![w].pc = AfterReservation(w),
                                ![w].reserved = MyRow(w).reserved]
          /\ UNCHANGED <<job, ledger>>
       \/ /\ MyRow(w).reserved # NULL /\ MyRow(w).reserved < n
          /\ TerminateUnbilled(w, "TOKEN_BUDGET_EXCEEDED")
          /\ Return(w)
    /\ UNCHANGED <<results, provider, faults>>

(* The reservation transaction; seen is FALSE when it commits and the      *)
(* reply is lost.                                                          *)
ReserveTokens(w, seen) ==
    /\ inv[w].pc = "reserve" /\ ReserveFence(MyRow(w), w)
    /\ availableTokens[OwnerOf[J(w)]] >= inv[w].need
    /\ Debit(J(w), inv[w].need)
    /\ Write(J(w), ReservedRow(MyRow(w), inv[w].need))
    /\ IF seen
       THEN /\ inv' = [inv EXCEPT ![w].pc = AfterReservation(w),
                                  ![w].reserved = inv[w].need]
            /\ UNCHANGED faults
       ELSE Throw(w, TRUE) /\ Fault
    /\ UNCHANGED <<results, provider>>

InsufficientTokens(w) ==
    /\ inv[w].pc = "reserve" /\ Holds(MyRow(w), w)
    /\ availableTokens[OwnerOf[J(w)]] < inv[w].need
    /\ TerminateUnbilled(w, "INSUFFICIENT_TOKENS")
    /\ Return(w)
    /\ UNCHANGED <<results, provider, faults>>

-----------------------------------------------------------------------------
(* The provider call, the charge and the result. *)

CallProvider(w) ==
    /\ inv[w].pc = "llm"
    /\ Goto(w, "reply")
    /\ providerCalls' = [providerCalls EXCEPT ![J(w)] = @ + 1]
    /\ UNCHANGED <<job, ledger, results, answered, faults>>

(* A billed answer: ok when it can be saved; otherwise a                   *)
(* LlmProviderReconciliationError (or a metric the calculator rejects),    *)
(* with or without request id and usage.                                   *)
ProviderAnswers(w, id, usage, ok) ==
    /\ inv[w].pc = "reply"
    /\ ok => id /\ usage # NULL
    /\ inv' = [inv EXCEPT ![w].pc = IF id THEN "charge" ELSE "reconcile",
                          ![w].id = id, ![w].usage = usage, ![w].ok = ok]
    /\ answered' = answered \cup {J(w)}
    /\ UNCHANGED <<job, ledger, results, providerCalls, faults>>

(* A provider error without a response: the worker defers it to its retry  *)
(* policy, the synchronous path closes the job at once.                    *)
ProviderFails(w, retry) ==
    /\ inv[w].pc = "reply"
    /\ Throw(w, retry)
    /\ IF IsSync(w) /\ TransitionFence(MyRow(w), w, inv[w].reserved)
       THEN TerminateUnbilled(w, "ANALYSIS_FAILED")
       ELSE UNCHANGED <<job, ledger>>
    /\ UNCHANGED <<results, provider, faults>>

(* recordProviderCharge.  Only a usable result within the reservation goes *)
(* on to be saved; a failed record is a post-billing failure.              *)
RecordProviderCharge(w, seen) ==
    /\ inv[w].pc = "charge"
    /\ IF ChargeFence(MyRow(w), w, inv[w].reserved)
       THEN /\ Write(J(w), ChargedRow(MyRow(w), inv[w].usage))
            /\ IF seen THEN UNCHANGED faults ELSE Fault
            /\ Goto(w, IF seen /\ inv[w].ok /\ inv[w].usage <= inv[w].reserved
                       THEN IF IsSync(w) THEN "save" ELSE "saving"
                       ELSE "reconcile")
       ELSE seen /\ Goto(w, "reconcile") /\ UNCHANGED <<job, faults>>
    /\ UNCHANGED <<ledger, results, provider>>

LostLeaseWhileSaving(w) ==
    /\ inv[w].pc = "saving" /\ ~Holds(MyRow(w), w)
    /\ Goto(w, "reconcile")
    /\ UNCHANGED <<job, ledger, results, provider, faults>>

(* Mutant: report and statistics are written outside the transaction.      *)
SaveResultPiecemeal(w, seen) ==
    /\ inv[w].pc = "save" /\ seen /\ J(w) \notin reports
    /\ reports' = reports \cup {J(w)}
    /\ analysisCount' = [analysisCount EXCEPT ![OwnerOf[J(w)]] = @ + 1]
    /\ IF TransitionFence(MyRow(w), w, inv[w].reserved)
       THEN /\ Debit(J(w), inv[w].usage - inv[w].reserved)
            /\ Write(J(w), SucceededRow(MyRow(w), inv[w].usage))
            /\ AdvanceRepositoryCheckpoint(w)
            /\ Return(w)
       ELSE /\ Goto(w, "reconcile")
            /\ UNCHANGED <<job, ledger, lastSyncTime, analysed>>
    /\ UNCHANGED <<provider, faults>>

(* The result transaction: report (unique per job), statistics, refund,    *)
(* SUCCEEDED and the repository checkpoint, all or nothing.                *)
SaveResult(w, seen) ==
    /\ inv[w].pc = "save"
    /\ IF TransitionFence(MyRow(w), w, inv[w].reserved) /\ J(w) \notin reports
       THEN /\ reports' = reports \cup {J(w)}
            /\ analysisCount' = [analysisCount EXCEPT ![OwnerOf[J(w)]] = @ + 1]
            /\ Debit(J(w), inv[w].usage - inv[w].reserved)
            /\ Write(J(w), SucceededRow(MyRow(w), inv[w].usage))
            /\ AdvanceRepositoryCheckpoint(w)
            /\ IF seen THEN Return(w) /\ UNCHANGED faults
               ELSE Goto(w, "reconcile") /\ Fault
       ELSE /\ seen /\ Goto(w, "reconcile")
            /\ UNCHANGED <<job, ledger, results, faults>>
    /\ UNCHANGED provider

(* handlePostBillingPersistenceFailure and                                 *)
(* checkpointAndTerminateProviderReconciliation: when the fence is lost a  *)
(* PostBillingAnalysisPersistenceError returns the record unreleased.      *)
Reconcile(w) ==
    /\ inv[w].pc = "reconcile"
    /\ IF TransitionFence(MyRow(w), w, inv[w].reserved)
       THEN TerminateProviderReconciliation(w, inv[w].reserved, inv[w].id,
                                            inv[w].usage)
       ELSE UNCHANGED <<job, ledger>>
    /\ Return(w)
    /\ UNCHANGED <<results, provider, faults>>

(* handleClaimedFailure. *)
HandleClaimedFailure(w) ==
    /\ inv[w].pc = "fail"
    /\ IF inv[w].retry /\ inv[w].attempts < MaxAttempts /\ ~inv[w].last
       THEN /\ IF ReleaseFence(MyRow(w), w)
               THEN Write(J(w), ReleasedRow(MyRow(w)))
               ELSE UNCHANGED job
            /\ UNCHANGED ledger
       ELSE SettleFailure(J(w), "RUNNING", w,
                          IF inv[w].retry THEN "MAX_ATTEMPTS_EXCEEDED"
                          ELSE "ANALYSIS_FAILED", inv[w].retry)
    /\ Return(w)
    /\ UNCHANGED <<results, provider, faults>>

-----------------------------------------------------------------------------
(* Failures and time. *)

(* The invocation dies: Lambda timeout, process crash, or an exception     *)
(* nobody handles.                                                         *)
Crash(w) ==
    /\ inv[w].pc # "idle"
    /\ Fault /\ Return(w)
    /\ UNCHANGED <<job, ledger, results, provider>>

(* A statement fails without effect where the code catches the error.      *)
DatabaseFails(w, retry) ==
    /\ Fault
    /\ \/ /\ inv[w].pc \in {"recover", "collect", "resolve", "reserve",
                            "reserved"}
          /\ Throw(w, retry)
       \/ /\ inv[w].pc \in {"charge", "saving", "save"} /\ retry
          /\ Goto(w, "reconcile")
    /\ UNCHANGED <<job, ledger, results, provider>>

(* A deadline of j passes: claims that read the clock earlier fall behind. *)
FallBehind(j) ==
    inv' = [w \in Workers |->
              IF inv[w].job = j /\ inv[w].pc \in ClaimSteps
              THEN [inv[w] EXCEPT !.behind = TRUE] ELSE inv[w]]

LeaseExpires(j) ==
    /\ \/ /\ job[j].status = "RUNNING"
          /\ LeaseOutlivesWorker => inv[job[j].lease].pc = "idle"
       \/ /\ job[j].status = "QUEUED" /\ j \in SyncJobs
          /\ LeaseOutlivesWorker => \A w \in Workers : inv[w].job # j
    /\ ~job[j].expired
    /\ Write(j, [job[j] EXCEPT !.expired = TRUE])
    /\ FallBehind(j)
    /\ UNCHANGED <<ledger, results, provider, faults>>

RetryFallsDue(j) ==
    /\ job[j].status = "QUEUED" /\ job[j].waiting
    /\ Write(j, [job[j] EXCEPT !.waiting = FALSE])
    /\ FallBehind(j)
    /\ UNCHANGED <<ledger, results, provider, faults>>

-----------------------------------------------------------------------------
Step(w) ==
    \/ SyncCreate(w) \/ SyncStart(w)
    \/ ClaimQueued(w) \/ TakeOverExpiredLease(w)
    \/ TakeOverExpiredBilledLease(w) \/ FinalizeClaimLimit(w)
    \/ LostLease(w) \/ RecoverProviderCheckpoint(w) \/ CollectionDone(w)
    \/ NoAnalyzableData(w) \/ InputLimitExceeded(w)
    \/ \E n \in ReserveSizes : EnsureReservation(w, n)
    \/ ReserveTokens(w, TRUE) \/ InsufficientTokens(w) \/ OnTokensReserved(w)
    \/ CallProvider(w)
    \/ \E id, ok \in BOOLEAN, u \in UsageSizes \cup {NULL} :
          ProviderAnswers(w, id, u, ok)
    \/ \E retry \in BOOLEAN : RunFails(w, retry) \/ ProviderFails(w, retry)
    \/ RecordProviderCharge(w, TRUE) \/ OnSaving(w) \/ LostLeaseWhileSaving(w)
    \/ SaveResult(w, TRUE) \/ Reconcile(w) \/ HandleClaimedFailure(w)

Environment(w) ==
    \/ \E j \in Jobs : SyncCollect(w, j)
    \/ CollectionHeartbeat(w) \/ Crash(w)
    \/ ReserveTokens(w, FALSE) \/ RecordProviderCharge(w, FALSE)
    \/ SaveResult(w, FALSE)
    \/ \E retry \in BOOLEAN : DatabaseFails(w, retry)

Next ==
    \/ \E w \in Workers : Step(w) \/ Environment(w)
    \/ \E w \in Workers, j \in Jobs, last \in BOOLEAN : Deliver(w, j, last)
    \/ \E j \in Jobs : \/ AcceptJob(j) \/ FailQueuedInvalidMessage(j)
                       \/ LeaseExpires(j) \/ RetryFallsDue(j)

Spec == Init /\ [][Next]_vars

-----------------------------------------------------------------------------
(* Properties. *)

(* What the ledger row says a user has paid for a job: the recorded usage  *)
(* once settled, the reservation before that.                              *)
LedgerCharge(r) == IF r.settled THEN r.total ELSE OrZero(r.reserved)

(* Every debit and refund is matched by the row: no crash, lost reply,     *)
(* take-over or late transaction charges a user twice, refunds twice, or   *)
(* leaves tokens taken that no row accounts for (ADR 9.3 and 10).          *)
HeldMatchesLedger == \A j \in Jobs : held[j] = LedgerCharge(job[j])

(* The account a row stands for.                                           *)
AccountOf(r) ==
    CASE r.status = "ABSENT" -> "none"
      [] r.status \in Active -> IF r.reserved = NULL THEN "open" ELSE "reserved"
      [] r.status \in Terminal -> IF r.settled THEN "settled" ELSE "quarantined"

AccountState == [j \in Jobs |-> AccountOf(job[j])]

Account == INSTANCE TokenAccount
               WITH balance <- availableTokens, state <- AccountState,
                    paid <- held, answers <- answered

(* Leases, attempts, redelivery, crashes and lost replies are invisible to *)
(* the user's balance: the worker implements TokenAccount, in which a job  *)
(* reserves once, is closed once, and is charged only for an answer.       *)
ImplementsAccount == Account!Spec

(* A terminal row and the money behind it are final: a late worker, a      *)
(* redelivered message or stale recovery never reopens, re-settles or      *)
(* overwrites it (ALLOWED_TRANSITIONS, ADR 11).                            *)
TerminalIsFinal ==
    [][\A j \in Jobs : job[j].status \in Terminal
          => job'[j] = job[j] /\ held'[j] = held[j]]_vars

(* A report exists for exactly the succeeded jobs and the user statistics  *)
(* have folded in each of them once.                                       *)
ReportIffSucceeded ==
    /\ reports = {j \in Jobs : job[j].status = "SUCCEEDED"}
    /\ \A u \in Users :
          analysisCount[u] = Cardinality({j \in reports : OwnerOf[j] = u})

(* The CHECK constraints of migration 20260722080000.                      *)
RowCheck(r) ==
    /\ r.status = "RUNNING" <=> r.lease # NULL
    /\ r.status = "SUCCEEDED" => r.settled
    /\ r.status = "FAILED" =>
          /\ r.error # NULL
          /\ ~r.settled => r.error = "PROVIDER_RECONCILIATION_REQUIRED"
    /\ r.settled => r.status \in Terminal /\ r.total # NULL

(* No write trips a CHECK constraint of table analysis_jobs: a RUNNING row *)
(* has a lease, a terminal row is settled or a quarantined provider        *)
(* charge, a FAILED row has a code.                                        *)
RowChecks == \A j \in Jobs : RowCheck(job[j])

(* One attempt sends at most one provider request, so that a job costs at  *)
(* most maxAttempts requests however often its message is redelivered.     *)
CallsWithinAttempts ==
    \A j \in Jobs \ SyncJobs :
       providerCalls[j] <= job[j].attempts /\ job[j].attempts <= MaxAttempts

(* At most one active job per repository, through releases, take-overs and *)
(* stale recovery (createExclusive).                                       *)
OneActiveJobPerRepository ==
    \A j, k \in Jobs : /\ RepoOf[j] = RepoOf[k]
                       /\ job[j].status \in Active /\ job[k].status \in Active
                       => j = k

(* The checkpoint of a repository leaves no gap: every instant up to it    *)
(* lies in the collection window of a job that finished, although windows  *)
(* are fixed long before they are analysed, may fail, and are retried or   *)
(* overtaken in any order.                                                 *)
CheckpointCovered ==
    \A r \in Repos : 1..lastSyncTime[r] \subseteq analysed[r]

(* An old job that finishes late, or a retry of an old window, never moves *)
(* the checkpoint back.                                                    *)
CheckpointMonotone ==
    [][\A r \in Repos : lastSyncTime'[r] >= lastSyncTime[r]]_vars

(* With a lease longer than the Lambda timeout, whoever talks to the       *)
(* provider holds the lease and the reservation of a job without a         *)
(* recorded charge: no two invocations pay for the same job at once and    *)
(* none calls again once a charge is durable.                              *)
ProviderCallIsExclusive ==
    \A w \in Workers : inv[w].pc \in {"llm", "reply"} =>
       /\ Holds(MyRow(w), w) /\ MyRow(w).reserved = inv[w].reserved
       /\ ~HasProviderBillingEvidence(MyRow(w))

(* ADR 10: after an answer whose recording is in doubt the job is not run  *)
(* again automatically.                                                    *)
NoRecallAfterAnswer ==
    [][\A j \in answered : providerCalls'[j] = providerCalls[j]]_vars
=============================================================================
