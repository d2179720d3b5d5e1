# A TLA+ verification of the Git-Mate backend

Git-Mate collects a developer's pull requests from GitHub, has a language model
analyse them and stores a report. Analyses cost tokens of a user's balance and
money at the provider, and run asynchronously: an API Lambda accepts a job, an
outbox publishes it to an SQS FIFO queue, a worker Lambda executes it. GitHub is
reached through a GitHub App whose installations users connect; users sign in
with GitHub. This directory models the parts of the system that keep state and
where concurrent requests, failures or the outside world can make it wrong.

A run of `PROJECT.json` names a module and a configuration: check it with
`tlc -config <cfg> <module>` (the modules `MC*`). Check the proofs with `tlapm`
on the modules `*Proofs.tla`. Paths below are relative to the repository's
`src/` unless they start with `docs/`, `infra/` or `prisma/`.

## 1. Inventory

| Component | State | Operations | What makes it correct |
| --- | --- | --- | --- |
| Job ledger (`analysis-job/analysis-job.{repository,service}.ts`, `prisma/schema.prisma`) | table `analysis_jobs` | createExclusive, transition, reserveTokens, recordProviderCharge, recoverStaleActiveJobs | one active job per repository; terminal is final; columns satisfy the CHECKs |
| Acceptance API (`analysis-job/analysis-job-api.*`) | the same table, advisory locks on the key, the user's rate limit and the repository | create, retry, list | a key creates one job and leads to that job only; the limit holds in every window; a listing misses nothing; no two transactions wait for each other |
| Publish outbox and reconciler (`analysis-job-publish*`, `analysis-job-reconciler*`) | publish columns of the job | publishAcceptedJob, runOnce | every accepted job is published or closed |
| Worker (`analysis-worker/*`) | lease, attempts and retry columns; an invocation's local state | claim, take over, heartbeat, release, finalize | an execution is fenced by its lease; attempts bound provider calls; every job ends |
| Runner (`analysis/analysis.service.ts`) | `users.availableTokens`, `analysis_reports`, `user_stats`, `repositories.lastSyncTime` | runAnalysis (synchronous), runAnalysisJob, recoverProviderCheckpoint | a user pays once, at most for what was answered; report, statistics, refund and status are one transaction |
| Provider client (`analysis/llm-provider.service.ts`) | none | analyze | what was billed is reported, or flagged for reconciliation |
| Statistics (`analysis/stat.service.ts`) | `user_stats` | updateStats | each report is folded in once |
| Collection (`collection/repository-collection.service.ts`, `collection.service.ts`) | the CollectionState of one collection: cursors, seen ids, node counts | collect, syncRepository, getRepositories | nothing in a window is missed, counted twice or read half old and half new; a collection ends whatever GitHub answers |
| GitHub App (`github-app/github-app{,-webhook}.service.ts`) | GithubInstallation rows, UserGithubInstallation links, install states | createInstallUrl, completeInstallation, listing with synchronisation, webhooks | a link was true at GitHub; a synchronisation repairs what webhooks left behind |
| Installation tokens (`github-app/github-installation-token.service.ts`) | an in-memory token cache shared by all requests | executeForRepository, getAvailableRepos | a refused token is not used again by the call; a dead cached token costs a retry, never a request |
| Sessions (`auth/*`, `user/user.service.ts`) | user status, refresh token hash, GitHub token; signed tokens and reauthorisation states outside | login, reauthorize, refresh, deactivate | deactivation is final; a GitHub token is its user's own |
| Preprocessing, metrics, evidence (`analysis/refiner*`, `preprocessor*`, `metric-calculator*`, `evidence-validator.ts`) | none | pure functions of text and scores | - |
| HTTP layer, encryption, evaluations, CDK stack | none at run time | - | - |

How they interact: the API and the worker never call each other; they meet in
the `analysis_jobs` row. Acceptance inserts it (and, in the same transaction,
closes abandoned jobs of the repository); the outbox copies its id to SQS; SQS
hands it to worker invocations, at least once, possibly to two at a time; the
worker and the runner it calls advance it by conditional updates. The deprecated
synchronous endpoint calls the same runner from an HTTP request. Both collect with
the installation token of one of the user's installations, found through the
links. A repository row has one owner, and listing repositories changes it.

What is hard: invocations die anywhere (Lambda timeout); a commit's reply may be
lost; a lease expires while its holder is alive; two deliveries race for one
expired lease; a claim decides from a row it read earlier; acceptance of one job
recovers another whose worker still runs; collection windows fixed at different
times finish in any order; the provider bills outside any transaction; a send to
SQS may have succeeded although it failed; several publishers and the worker
share one deadline column; a message has a limited number of receives; a
repository changes while it is paged through, by two nested cursors and under
limits; a cached token dies while several calls hold it; webhooks arrive late,
twice, out of order or never, and race callbacks and synchronisations; sign-ins
write a row they read before it was deactivated. The
`hazards` of `PROJECT.json` list these at their lines.

## 2. Modules

| Module | Role |
| --- | --- |
| `AnalysisJobLedger` | The row and every WHERE and SET clause issued against it, as pure operators. |
| `AnalysisWorker` | The processes: worker invocations, the runner, the synchronous path, acceptance with stale recovery, faults and time. Properties. |
| `WorkerRedelivery` | `AnalysisWorker` with the bounded receives of its queue. Liveness. |
| `TokenAccount` | Abstract specification: what a job may do to a user's balance. |
| `JobDelivery` | How one job gets to a worker: the outbox and its concurrent publishers, the queue with its copies, receive counts and dead letters, and the worker as the outbox sees it. Properties. |
| `JobAcceptance` | create, retry and list of the acceptance API, lock by lock. Properties. |
| `RepositoryCollection` | One collection after the other over a repository that changes, with the callers that choose the window and move lastSyncTime. Properties. |
| `RepositoryOwnership` | Who owns a repository while jobs run on it. |
| `InstallationToken` | The token cache and the calls that share it. Properties. |
| `GithubApp` | Installations, links and install states with their three writers. Properties. |
| `Sessions` | The user row under concurrent sign-in, refresh, reauthorisation and deactivation. Properties. |
| `MC...` | One per module with runs: constants and symmetries for TLC. |
| `AnalysisWorkerProofs` | The inductive invariant, the theorems about rows and money, the refinement of `TokenAccount`. |
| `AnalysisWorkerRunProofs` | What invocations do to each other: exclusiveness, checkpoint, reports, provider calls. |
| `JobDeliveryProofs`, `JobAcceptanceProofs`, `RepositoryCollectionProofs`, `InstallationTokenProofs`, `GithubAppProofs`, `SessionsProofs` | The inductive invariant of the module and its theorems. |

`AnalysisWorker` composes acceptance, worker, runner and statistics on one row and
refines `TokenAccount`; `JobDelivery` puts the same row between outbox, queue and
worker. The other modules stand beside them: what they share with them is one
fact each (an exclusive active job, a window, an owner, a link), stated where it
is used.

### State

`job[j]` is the row (`status`, `lease` = leaseToken, `attempts`, `reserved`,
`total` = the three usage columns, `billed` = a provider request id is recorded,
`settled` = tokensSettledAt is set, `error`, `retryable`, `cursor`, `cutoff`).
`inv[w]` is the local state of an invocation: its place `pc` and everything the
code keeps in variables across an `await`. A lease token is the invocation that
drew it; `FreshToken` is what makes a randomUUID unique. `availableTokens`,
`reports`, `analysisCount`, `lastSyncTime` are the other tables. `held`,
`providerCalls`, `answered` and `analysed` are auxiliary: no guard reads them.
`faults` only bounds failures.

Time is abstracted to what the code compares. A row carries `expired`
(leaseExpiresAt <= now) and `waiting` (nextPublishAt > now); `LeaseExpires` and
`RetryFallsDue` flip them at any moment. `claim` reads the clock once, before
its conditional update: an invocation that read it before a deadline passed is
`behind` and its update still sees that deadline ahead (`FallBehind`). For a
QUEUED synchronous job `expired` means older than ANALYSIS_JOB_STALE_TIMEOUT_MS.
Instants of collection are natural numbers; `IsNow` gives the next one.

### Actions

One database statement or transaction is one action, because PostgreSQL makes it
atomic and everything else can happen between two of them.

| Code | Actions |
| --- | --- |
| `AnalysisJobApiService.acceptJob`, `retry`, `createExclusive`, `recoverStaleActiveJobs` | `AcceptJob` |
| `CollectionService.syncRepository`, `AnalysisService.runAnalysis` | `SyncCollect`, `SyncCreate`, `SyncStart`, then the runner |
| `processRecord`, `claim`, `claimQueued`, `takeOver...`, `resolveClaimRace` | `Deliver`, `ClaimQueued`, `TakeOverExpiredLease`, `TakeOverExpiredBilledLease` |
| `finalizeClaimLimit`, `failQueuedInvalidMessage`, `settleFailure` | `FinalizeClaimLimit`, `FailQueuedInvalidMessage` |
| `recoverProviderCheckpoint`, `retireLegacyExecution` | `RecoverProviderCheckpoint` |
| `updateProgress` from the heartbeat, after collection, after the reservation, before saving | `CollectionHeartbeat`, `CollectionDone`, `OnTokensReserved`, `OnSaving` |
| `executeAnalysis` | `NoAnalyzableData`, `InputLimitExceeded`, `EnsureReservation`, `ReserveTokens`, `InsufficientTokens`, `CallProvider`, `ProviderAnswers`, `ProviderFails`, `RecordProviderCharge`, `SaveResult` |
| `handlePostBillingPersistenceFailure`, `checkpointAndTerminate...` | `Reconcile` |
| `handleClaimedFailure` | `HandleClaimedFailure` |
| a fenced statement that matches no row | `LostLease`, `LostLeaseWhileSaving` |
| failures | `Crash`, `DatabaseFails`, and `seen = FALSE` in `ReserveTokens`, `RecordProviderCharge`, `SaveResult`: the commit happens, its reply is lost |

A transaction that fails without committing is `DatabaseFails` where the code
catches the error and `Crash` where nobody does. An ACK or RETRY that changes no
row is not a step: SQS may deliver again at any time anyway. `WorkerRedelivery`
counts such a receive.

Left out of the row: stage and progress columns, timestamps that nothing
compares, estimated tokens. Repositories do not change owner here (see
`RepositoryOwnership`). Paths the code
guards against and no state reaches are folded into the operator that would
handle them (a QUEUED row at the attempt limit; the second reconciliation inside
`runAnalysisJob`).

### WorkerRedelivery

`AnalysisWorker` lets a message be delivered any number of times, which is more
than SQS does and right for safety. For liveness `receives[j]` counts the receives
of the message of a job, at most `MaxReceives` (maxReceiveCount), and `abandoned`
(auxiliary) names the jobs whose invocation gave up on the last one.

| Code | Actions |
| --- | --- |
| a receive that claims, takes over or meets the limit | `Receive`: `Deliver`, told by the count whether the attempts are used up |
| `processRecord` on NOT_DUE and ACTIVE_LEASE | `ReceiveInVain` |
| `runOnce` publishes a queued job again: a new message | `Republish` |
| everything else an invocation does | `Work` |

A message does not come back between the death of a holder and the end of its
lease: the visibility timeout is longer (`LeaseWithinVisibility` below).

### JobDelivery

`row` is the job's row again, with the publish columns in full and the rest
reduced to what the publisher or the claim reads: `publishAttempts`, `published`
(messagePublishedAt), `next` (nextPublishAt), `code` (lastErrorCode), `attempts`,
`reserved`, `billed`. `pub[p]` is one call of `publish` with the record it has
read and its belief about the delivery; `msg` the copies SQS holds; `worker` the
invocation that has received one. The conditional updates compare instants for
equality, so `next` says who set the deadline and for which attempt, and
`published` the attempt that set it.

| Code | Actions |
| --- | --- |
| `runOnce`, `findDue`, `publishAcceptedJob`, `isDue` | `ReadDue` |
| `publish`: `claimAttempt`, the send, `markPublished` | `ClaimAttempt`, `SendAccepted`, `SendRejected`, `SendUncertain`, `MarkPublished` |
| `handlePublishFailure`, `recordFailure` | `RecordFailure` |
| a failed statement or a dead process in `publish` | `PublisherCrash` |
| SQS (external): delivery, redrive, visibility | `Receive`, `DeadLetter`, `VisibilityTimeout` |
| `processRecord`, `claim`, `finalizeClaimLimit` | `RejectClaim`, `Claim`, `FinalizeClaimLimit` |
| `executeClaimedJob`, `handleClaimedFailure` | `Reserve`, `RecordCharge`, `Finish`, `FailRetryably` |
| `recoverStaleActiveJobs` | `RecoverStale` |

The worker here is a summary of `AnalysisWorker`: one invocation at a time (one
message group delivers one message at a time, and a lease outlives an
invocation), every terminal outcome one `Finish`. What `AnalysisWorker` says
about money and leases is not repeated. Rows of different jobs do not meet in
this code, so one job is enough; a reconciler batch is a set of calls that read
early and write late. Deduplication is a choice: a send for a job whose message
SQS already has adds a copy or does not, as the five-minute window may be open
or over.

### JobAcceptance

`jobs` are the rows a client can see, `request[q]` a create or retry in its
transaction with the locks it holds, `listing[l]` a client that pages through its
jobs, `now` the clock, read once by the transaction that counts and once by the
insert.

| Code | Actions |
| --- | --- |
| `create`, `retry` | `Create`, `Retry` |
| `acceptJob`: key lock and search, rate lock and count, repository lookup, `createExclusive` with its lock and search, insert | `LockKey`, `LockRate`, `FindRepository`, `LockRepository`, `Insert` |
| an error or a lost connection: the transaction rolls back and its locks go | `Unavailable` |
| `list`, `decodeCursor` | `ListPage`, `ListEnds` |
| the synchronous endpoint; the worker (external here) | `CreateSync`, `JobEnds` |

A waiting lock is a disabled action. Owner and balance are changed by others at any
time, so `FindRepository` goes either way. A refused request and a lost answer leave
a client that remembers nothing. The unique index on the key and the recovery
from its violation are left out: `OneJobPerKey` shows the locks suffice.

### RepositoryCollection

`changed[p]` is the true instant of a pull request's last change; GitHub reports
it cut to a second (`Seconds`, `Grain` instants), while cutoffs are finer. A page
is a set of rows with `hasNext` and `endCursor`: what GitHub lists at that moment
when it is `honest`, anything at all when it is not. Versions are instants, so
reading a review returns the version of its pull request at that moment.

| Code | Actions |
| --- | --- |
| `acceptJob` or `syncRepository` fix the window; a retried job reuses it | `Begin`, `RetryWindow`, `GiveUp` |
| `collect`, the pull request pages | `ListPage` |
| `collectReviews`, `collectComments`, the check of updatedAt before a pull request is delivered | `NextPullRequest`, `Skip`, `ReviewPage`, `NextReview`, `CommentPage`, `ReviewsDone` |
| a 401 restarts the collection once with a new token; other errors | `Unauthorized`, `RequestFails` |
| the analysis succeeds or fails; `estimateCost` collects without analysing | `Analyse`, `AnalysisFails`, `EstimateCost` |

### InstallationToken

`tokenCache` and `age` are the cache and what GitHub thinks of each token;
`call[q][i]` is one run of `executeWithRetry` of request `q` for installation `i`.
Between two awaits a call is one action: `Obtain` looks into the cache, `CheckRow`
reads the row, `Mint` asks GitHub, `Store` fills the cache, `Succeed`, `Refused`,
`MintUnauthorized` and `RequestFails` are GitHub's answers. `Expire`, `Revoke` and
`Switch` (suspend and back) happen at any time.

### GithubApp

| Code | Actions |
| --- | --- |
| GitHub (external) | `GithubInstalls`, `GithubSuspends`, `GithubUnsuspends`, `GithubTouches`, `GithubDeletes`, `MembershipChanges` |
| `GithubAppWebhookService.handle` | `Deliver`: any webhook ever sent, any number of times |
| `createInstallUrl`, the TTL of the state | `CreateInstallUrl`, `StateExpires` |
| `completeInstallation`, `completeInstallationUpdate`, `fetchInstallation`, `verifyUserAccess` | `CallbackStart`, `CallbackFetch`, `CallbackVerify`, `CallbackRejected`, `CallbackSave`, `UpdateSave` |
| `syncUserInstallations` | `SyncStart` (organisations), `SyncList` (installations), then `SyncRow` and `SyncLink` for each, `SyncDrop`; `SyncDies` |

`everMember` and `quiet` are auxiliary: what was once true at GitHub, and whether
anything out of date was written during a synchronisation.

### Sessions

`row` holds status, whether a refresh hash is stored, and whose GitHub token;
`request[r]` a request between its statements, `late` if it began when its user
was deactivated already. `Guard` is JwtStrategy, `ReadFor...` the read each
service starts with, `StoreGithubToken`, `Deactivate` and `Grant` the writes. A
wrong or expired token denies a request; the model lets it be denied anywhere the
code can deny it (`Leave`), so that nothing rests on a token being refused.

### RepositoryOwnership

`TakeRepository` is the upsert of `getRepositories`, `Accept`/`Claim` the worker's
path, `SyncRead`/`SyncJob` the synchronous one. It exists for one question: whose
activity a report describes.

## 3. Runs

All instances of `AnalysisWorker` have one user and one repository, the hardest
case: everything is contended. Deadlock is not checked, as every job of an instance may be closed
and then nothing is left to do. Reservations of 1 and 3 against a balance of 2
make one affordable and one not; usages of 0, 2 and 3 lie below, above and far
above the reservation of 1, so that the balance pays the excess in one case and
not in the other.

| Run | Instance | Shows |
| --- | --- | --- |
| `worker_repo` | 3 jobs (one retired version, one synchronous), 2 invocations, 1 attempt, 5 instants, no faults but leases that expire under a live holder (one attempt: releases and take-overs without a charge are left to the theorem `OneActiveJob`) | `OneActiveJobPerRepository`, `CheckpointCovered`, `CheckpointMonotone`. Five instants let a failed window be retried after a later one finished. |
| `worker_account` | a worker job and a synchronous job on one balance, 2 invocations, 2 attempts, 1 fault, short leases | `TypeOK` (no balance below zero), `HeldMatchesLedger`, `RowChecks`, `CallsWithinAttempts`, `ReportIffSucceeded`, `TerminalIsFinal`, `ImplementsAccount`: refinement of `TokenAccount`. Take-over of a live holder, a lost reply of the result transaction and stale recovery by the other job all happen. |
| `worker_deployed` | `WorkerRedelivery`: 1 job, 2 invocations, 3 attempts and 3 receives (5 and 5 in the code), 3 faults, `LeaseOutlivesWorker` | `ProviderCallIsExclusive`; `AcceptedJobEnds` under fairness: the job ends within its receives, unless it is queued when they are used up or given up on the last one. |
| `recall_after_answer` | 1 job, 2 invocations, 2 attempts, deployed lease | Violated: the ADR says a job whose charge is in doubt is not re-run; the code re-runs it. |
| `delivery` | 2 publishers, 2 copies, publish limit 2, 2 attempts, 2 receives, 1 fault, visibility not tied to the lease | `TypeOK`, `NeverForgotten`, `SendsAreCounted`, `UnpublishableWasNotDelivered`, `RetryDeadlineKept`, and `EndsOrDeadLettered` under fairness. |
| `dead_letter` | 1 publisher, 2 copies, publish limit 3, 2 attempts, 2 receives, 2 faults, deployed visibility | Violated: the ADR has a DLQ reconciler close such jobs; no code does. |
| `accept` | 2 users, 2 keys, 1 repository, 2 requests, 1 listing of 1 job a page, 3 job ids, limit 1 in a window of 2, 3 instants | `TypeOK`, `OneJobPerKey`, `AnswerIsItsJob`, `RateLimitRespected`, `ActiveJobIsExclusive`, `ListingIsComplete`, `SomeTransactionProceeds`. |
| `collection` | 3 pull requests (two pages of reviews; none; two pages of comments), pages of 2, an overlap of 1, limits of 2 and 7, 7 instants in grains of 2, 1 fault; a second initial state in which GitHub answers nonsense, for 3 instants | `TypeOK`, `NothingMissed`, `CollectedIsOneVersion`, `CollectionIsComplete`, and `CollectionEnds` under fairness. |
| `token` | 2 requests, 1 installation whose repository fills a page, 5 token identities | `TypeOK`, `RetryUsesAnotherToken`, `UndisturbedRequestSucceeds`, `RequestProgresses`. |
| `app` | 2 users, 1 installation both may see, 1 callback, 2 synchronisations, 1 state | `TypeOK`, `LinkWasVerified`, `QuietSyncIsExact`. |
| `sign_in` | 2 accounts, 3 requests | `TypeOK`, `NoGrantAfterDeactivation`, `GithubTokenIsOwn`. |
| `ownership_report` | 2 users, 1 repository, 1 job | Violated: the document says an analysis is of its user; a report may be about another owner. |

`LeaseOutlivesWorker` is the deployment's configuration: the lease is 900 s and
is renewed along the way, the worker's timeout is 300 s
(`infra/lib/async-analysis-stack.ts`), so a lease expires only after its holder
is gone. `worker_deployed` and `recall_after_answer` assume it, and the theorem
`ExclusiveProviderCall` has it as a hypothesis; the other runs and theorems do
without it.

`LeaseWithinVisibility` is the other deployed relation: the visibility timeout is
1800 s, a lease ends within 1200 s of the receive, so a message comes back only
after the lease has. `dead_letter` assumes it, so that its counterexample does
not rest on a bad configuration; no property that holds needs it.

Bounds: `MaxPublishes` caps publishAttempts and exceeds `MaxFaults`, so that at
least one send of every behaviour is accepted, and exceeds `PublishMax`, so that
publishing beyond the limit happens. Two copies let an acknowledged message be
followed by a late one. `MaxFaults` bounds crashes and failures, `MaxInstant` the clock readings
used as collection cut-offs, `MaxAttempts` is the code's own limit.

`accept`: two requests are enough for every race the locks are there for: one key
with the same body or another (a retry), two keys of one user under one rate lock,
two users under one repository lock. A second repository would add only
transactions that do not meet. Three job ids: a listing is between its pages once
two jobs of its user exist, and the third id is for a job that is created then,
at the cursor's own instant and with a smaller or a larger id, or later. Deadlock is
not checked because the clock stops at `MaxTime`; `SomeTransactionProceeds` is the
absence of a deadlock between transactions.

`collection`: three pull requests and pages of two make a second page, on which a
change moves a row forward past the cursor; seven instants are two windows with
changes before, within and after the first. The limits are reached and exceeded
(three changed pull requests, eight nodes). Clock and changes stop at `MaxTime`,
so it may end in a deadlock. `honest` is chosen at the start; a dishonest GitHub
only has to let the collection end, for which a short clock is enough.

`token`: a token identity returns to the pool when nobody holds it, so five serve
any number of mintings: each request holds at most a current and a refused one,
the cache one more.

`app`: rows and links of different installations never meet in the code except in
the synchronisation's loop, and the properties speak of one installation at a
time; two synchronisations and a callback of two users write the same row.
`GithubAppProofs` covers more. `sign_in`: a deactivation between the read and the
write of two others.

`worker_deployed`: as many receives as attempts, as deployed, and as many faults as
either, so that every receive may end in a crash. Failures the provider or GitHub
answer with are not bounded.

### Fairness

`WorkerRedelivery!FairSpec` assumes weak fairness of each invocation's steps (Lambda
runs what it started, or the invocation crashes, at most `MaxFaults` times), of the
two clock actions, and of a receive of a message that can be claimed *while it has
receives left* (SQS hands out again what was not acknowledged). Nothing is assumed
of the reconciler, of heartbeats, faults or new requests. After the last receive
nothing need happen, and `AcceptedJobEnds` names what is then left: a queued job, for
which the reconciler is responsible (`EndsOrDeadLettered` follows it there), and a job
that was RUNNING when its invocation died, or could not close a recorded charge, on
the last receive. The second is the job of the run `dead_letter`.

`JobDelivery!FairSpec` assumes weak fairness of each started publish call, of the
reconciler (EventBridge starts it every minute; a call it makes reads the row),
of SQS for each copy, of the worker's steps and of time. Failing sends and
crashes are bounded by `MaxFaults` and never assumed.

`RepositoryCollection!FairSpec` assumes weak fairness of the collector alone: a
request that was sent is answered or times out in the HTTP client. Nothing is
assumed of callers, of changes or of GitHub's answers, so `CollectionEnds` rests on
the code's refusal to follow a cursor twice. Requests of `InstallationToken`
progress without fairness: `RequestProgresses` is a step property with a
decreasing measure. The other modules state safety only.

### What the violations mean

`recall_after_answer`: w1 reserves, calls the provider, receives the answer and
dies before `recordProviderCharge`; the lease expires; w2 takes over, finds no
billing evidence and calls again. The ledger stays balanced (the user pays at
most once, `HeldMatchesLedger`), the provider is paid twice. The ADR's rule would
need a durable mark before the call.

`dead_letter`: maxReceiveCount equals maxAttempts (5 and 5). Each delivery ends
in a Lambda timeout; the last one leaves the row RUNNING with its reservation,
the delivery that would have settled it with MAX_ATTEMPTS never comes because the
message has moved to the dead letters, and `findDue` selects QUEUED rows only.
Nothing but another request of the user for the same repository
(`recoverStaleActiveJobs`) ends the job. A QUEUED row is left behind likewise when
`markPublished` of the last publish attempt has cleared the uncertain code.
`docs/ASYNC_ANALYSIS_OPERATIONS.md` leaves the dead-letter queue to an operator;
the ADR's reconciler does not exist.

`ownership_report`: u1's job is accepted; u2, who can see the repository too, lists
repositories and `getRepositories` makes u2 its owner; the worker claims the job
and collects for the owner's name. u1 pays for, and reads, a report about u2, and
u2 cannot start one while it runs.

### Other divergences met while modelling

The models follow the code in each case and the properties are weakened to what
holds; none of these is kept as a run.

* A live lease can be disturbed although `docs/SQS_ANALYSIS_JOBS.md:92-93` says a
  valid lease is not: at the last attempt an invocation reads an expired lease,
  the holder renews it, and `settleFailure`
  (`analysis-worker/analysis-worker.repository.ts:480`) compares status and token
  only. The holder's later statements are fenced off, so money and report stay
  consistent (`HeldMatchesLedger`, `ReportIffSucceeded`).
* A job whose message is queued can be closed as PUBLISH_FAILED although
  `analysis-job/analysis-job-publisher.service.spec.ts:269` says an uncertain
  delivery is not terminated: a worker's claim and release clear the uncertain
  code (`analysis-job-publisher.service.ts:156`).
  `UnpublishableWasNotDelivered` is what holds: before the first claim the
  publisher never errs.
* `docs/GITHUB_INCREMENTAL_COLLECTION.md:72` says a pull request that changes
  after the cutoff is left to the next window. GitHub's updatedAt has seconds and
  the cutoff milliseconds (`collection/repository-collection.service.ts:186`): a
  change in the cutoff's own second is neither left out nor seen again.
  `NothingMissed` and `CollectedIsOneVersion` except exactly these (`Blurred`).
* An install state can be consumed by two overlapping callbacks
  (`github-app/github-app.service.ts:120`), against
  `github-app.service.spec.ts:162`, and a membership that ends between
  `verifyUserAccess` and the save still becomes a link. `LinkWasVerified` is
  what holds: whoever is linked was a member once.
* A sign-in under way during a deactivation stores a refresh hash afterwards
  (`auth/auth.service.ts:63`), against `user/user.service.spec.ts:21`. The status
  stays DEACTIVATED and every guard reads it: `NoGrantAfterDeactivation` holds.

## 4. Proofs

Every safety property of a passing run is also proved, for every value of the
constants: each module below EXTENDS the model it is about and proves theorems
`Spec => []P`, or `Spec => P` for an action property. The assumptions are the
named ASSUMEs of the models and nothing else. They say that limits and sizes are
numbers in their range, that the values that stand for NULL are distinct, that
`RepoOf` and its like are functions of the right type, and that a repository has
finitely many pull requests. TLC evaluates them on the runs.

### AnalysisWorkerProofs

| Theorem | States |
| --- | --- |
| `TypeCorrect` | `TypeOK`; no balance is ever negative |
| `LedgerBalanced` | `HeldMatchesLedger` |
| `ChecksHold` | `RowChecks` |
| `FinishedIsFinal` | `TerminalIsFinal` |
| `AccountImplemented` | `ImplementsAccount`: the refinement of `TokenAccount` |

None of the properties is inductive. The invariant `IInv` adds

* `RowInv`: besides the CHECKs, an absent row has no reservation, and a durable
  charge on an active row implies that it is RUNNING and reserved. Without the
  last part `settleFailure` and stale recovery could not be shown to give back
  the right amount;
* `Evidence`: a RUNNING row with a charge belongs to a job the provider has
  answered;
* `InvocationInv`: what an invocation holds at each `pc` - a reservation from
  the moment it is made, an answer from `charge` on, a usage within the
  reservation while it saves.

The argument never says that an invocation owns its job: its statements carry
the fence, and the fence is what each step uses. Actions change one row and one
invocation, so `WriteRow`, `WriteRowOnly` and `WriteInvocation` reduce each of
them to a fact about one record; `CreateExclusiveOK` treats stale recovery,
which changes several rows. The refinement goes through the actions once
more and shows, from `IInv` alone, that each is one step of `TokenAccount` or
invisible: a settlement is a `Settle` because `InvocationInv` and `Evidence` say
that the provider has answered, a recovery is an `Open` that closes abandoned
accounts.

### AnalysisWorkerRunProofs

| Theorem | States |
| --- | --- |
| `OneActiveJob` | `OneActiveJobPerRepository` |
| `CheckpointNeverBack` | `CheckpointMonotone` |
| `CheckpointHasNoGap` | `CheckpointCovered` |
| `ReportPerSuccess` | `ReportIffSucceeded` |
| `OneCallPerAttempt` | `CallsWithinAttempts` |
| `ExclusiveProviderCall` | `LeaseOutlivesWorker => (Spec => []ProviderCallIsExclusive)` |
| `RedeliveryImplementsWorker` | `RedeliverySpec => Spec`: `WorkerRedelivery` takes only steps of `AnalysisWorker`, so all of these hold of it |

`Kinds` reduces every action to three kinds: a step of one invocation with its own
row (`Shape`, whose `Serves` lists what a write may make of a row), the insertion
of a job with stale recovery (`Creates`), or what happens to a row from outside: a
deadline that passes, an invalid message (`Passes`). The properties are then
proved from the kinds. `CursorInv`: no window starts beyond its repository's
checkpoint, which makes the checkpoint leave no gap. `ReportInv`: finitely many
reports exist, so that a count grows by one with each. `CallsInv`: the requests
sent, plus the one an invocation may still send under the attempt it has recorded,
stay within the attempts of the row. `DeployedInv`: if no lease expires under a
live invocation, whoever works on a job holds its lease, and an expired lease, in
a row or in what a claim has read, belongs to an invocation that is gone. The
hypothesis `LeaseOutlivesWorker` is the deployment's, as in the run
`worker_deployed`.

### JobDeliveryProofs

For any sets of publish calls and message copies and any limits:

| Theorem | States |
| --- | --- |
| `DeliveryTypeCorrect` | `TypeOK` |
| `NothingForgotten` | `NeverForgotten` |
| `UnpublishableIsUndelivered` | `UnpublishableWasNotDelivered` |
| `RetryDeadlineIsKept` | `RetryDeadlineKept` |
| `EverySendIsCounted` | `SendsAreCounted` |

Its invariant has to say why comparing three columns is enough. `ReadInv`: what a
call has read is older than the row, and a call past its claim has a smaller
attempt number. `ClaimInv`: if the compared columns still agree with what was
read, then so do those that are not compared - in particular no delivery in doubt
was overlooked, and a retry deadline that was read had passed when it was read;
this rests on retry deadlines being numbered by the worker's attempt, so that a
later release is never mistaken for an earlier one (`UpToDate`). `OutboxInv`: a
row out of the reconciler's reach has been delivered, and before the first claim
whatever is or may soon be in the queue is in doubt in the row. `CertainInv`: a
call certain of its failure is the only sender. `QueueInv`: an acknowledged
message means a closed job. `NothingForgotten` follows from `OutboxInv` and
`QueueInv`, the second theorem from `ClosedInv`, which `CertainInv` establishes
when `RecordFailure` terminates. `EverySendIsCounted` needs `SendsInv`: the sends
made plus the calls that have claimed and not yet sent stay within
`publishAttempts`, and no two calls past their claim have the same attempt.

### JobAcceptanceProofs

For any users, keys, repositories, requests and listings:

| Theorem | States |
| --- | --- |
| `AcceptanceTypeCorrect` | `TypeOK` |
| `KeyNamesOneJob` | `OneJobPerKey` |
| `AnswerNamesItsJob` | `AnswerIsItsJob` |
| `ActiveJobIsAlone` | `ActiveJobIsExclusive` |
| `LimitIsRespected` | `RateLimitRespected` |
| `LocksAreOrdered` | `SomeTransactionProceeds` |
| `ListingsAreComplete` | `ListingIsComplete` |

The invariant says what a lock is worth: no two open transactions hold one lock; a
request past its key lock holds it and no job has its key; a request about to
insert holds the repository's lock and no active job exists there. The id of a new
job is unused, so an answer keeps naming the same job. `LimitInv` adds that a
transaction holds no lock but those of the stages behind it (`Staged`) and that
from the count to the insert it holds the user's rate lock, with the counted jobs
still below the limit (`RateGuarded`); any window that ends at or after the insert
holds no more than was counted. `Staged` also gives freedom from deadlock: of the
open transactions, those at the latest stage find their lock free. `ListInv`: the
cursor separates the jobs a listing has shown from those it still owes
(`Separated`), and a job that arrives meanwhile has an id no listing remembers.

### RepositoryCollectionProofs

For any repository with finitely many pull requests, any page sizes, limits and
grain of GitHub's clock, any changes, faults and retried windows:

| Theorem | States |
| --- | --- |
| `CollectionTypeCorrect` | `TypeOK`; no window is inverted |
| `NothingIsMissed` | `NothingMissed` |
| `DeliversOneVersion` | `CollectedIsOneVersion` |
| `CollectionsAreComplete` | `CollectionIsComplete` |

`TimeInv`: a window starts at or below lastSyncTime and everything recorded lies
in the past. `VersionInv`: a listed row is the present version of its pull
request, or the pull request has changed after the cutoff. `CoverInv`: an unchanged
pull request of the window is collected or still behind the cursor while pages are
read, and later queued, being read or delivered. `NodesInv` says the same one level
down of the reviews and comments of the pull request being read; `UniqueInv` and
`CountInv` that nothing is collected or counted twice. The actions are
reduced to what they do to a collection (`Reads`, `Delivers`, `Closes` and so on). That a
page has a lowest row, from which its end cursor is taken, follows from the
well-foundedness of strict inclusion between finite sets.

### InstallationTokenProofs

For any requests, installations, tokens, repositories and page size:

| Theorem | States |
| --- | --- |
| `TokenTypeCorrect` | `TypeOK` |
| `RetriesUseAnotherToken` | `RetryUsesAnotherToken` |
| `UndisturbedRequestsSucceed` | `UndisturbedRequestSucceeds` |
| `RequestsProgress` | `RequestProgresses` |

`CallOK`: a call holds a token exactly when it has one to store or present, not
the one it was refused with, and asks for a page that exists. `FreshInv`: a token
in no cache and no call is fresh, so a token got for a second try is a live one.
`CalmInv`: a request nothing disturbed calls only installations that are active
and served, and on its second try holds a token that is not dead; the request can
then only fail by a disturbance. `RequestsProgress` compares the measure `Left`
before and after each step.

### GithubAppProofs

For any users, installations, callbacks, synchronisations and states:

| Theorem | States |
| --- | --- |
| `AppTypeCorrect` | `TypeOK`; a link's installation has a row |
| `LinksWereVerified` | `LinkWasVerified` |
| `QuietSyncsAreExact` | `QuietSyncIsExact` |

A link is written long after GitHub was asked. The invariant carries the answer
along: a callback about to save was verified (`CallbackGood`), a synchronisation
lists and works off only what its user could see, and has stored the row when the
link is next (`SyncGood`). Both survive every other step because rows do not
vanish and the past does not change (`Forward`). `ExactInv` follows a quiet
synchronisation: its listing is GitHub's, what it has worked off has its row and
link, and after the last statement there is no other link; every step that leaves
a synchronisation quiet writes nothing out of date (`Harmless`).

### SessionsProofs

For any accounts and requests:

| Theorem | States |
| --- | --- |
| `SessionsTypeCorrect` | `TypeOK` |
| `DeactivationIsFinal` | `NoGrantAfterDeactivation` |
| `StoredTokenIsOwn` | `GithubTokenIsOwn` |

Rows move only from absent to ACTIVE to DEACTIVATED; a late request's user is
DEACTIVATED from its start, so it never gets past the read that checks the status;
every other request carries the account it will store, which is the user's own
from that read on.

### Only model-checked

The liveness properties `WorkerRedelivery!AcceptedJobEnds`, `EndsOrDeadLettered` and
`CollectionEnds`: liveness under fairness is out of the prover's reach, and they
hold on the instances of their runs. The three properties of the violation runs
are refuted, not proved.

## 5. Plan

All components that keep state are modelled, and every safety property of a
passing run is a theorem. What could follow:

1. The steps the liveness properties rest on, as action properties with a measure,
   as `RequestProgresses` is one: that a collection only goes forward, that each
   claim of a job uses up an attempt.
2. A refinement from `JobDelivery`'s row to the row of `AnalysisWorker`, which share
   the worker's claim, release and close.

## 6. Not modelled

* Preprocessing, metrics and evidence checks: text processing and floating-point
  arithmetic, without state. The averages of the statistics likewise; that each
  report is folded in once is modelled.
* Prompts, estimates and response schemas of the provider client: data. What a call
  can return or throw is modelled.
* Reading and sharing reports: one statement on one row each, which nothing else
  reads.
* Encryption (the Node crypto library), controllers, DTOs and wiring.
* The evaluation harness: offline, not part of the running system.
* The CDK stack: declarations. The timeouts and limits it sets appear as
  `LeaseOutlivesWorker`, `LeaseWithinVisibility`, `MaxReceives` and in the fairness.
