---------------------------- MODULE JobDelivery ----------------------------
(***************************************************************************)
(* How an accepted job reaches a worker: the publish columns of its row    *)
(* used as an outbox (AnalysisJobPublisherService, called by the API and   *)
(* by every item of a reconciler batch), the SQS FIFO queue with its       *)
(* dead-letter queue, and the worker reduced to what it does to the        *)
(* columns the publisher reads.  The module follows one job: rows and      *)
(* messages of different jobs never meet.                                  *)
(*                                                                         *)
(* Time is abstracted to what the code compares:                           *)
(*   waiting  nextPublishAt > now;                                         *)
(*   aged     messagePublishedAt is republishAfterSeconds old;             *)
(*   expired  leaseExpiresAt <= now.                                       *)
(* The fences compare instants for equality, so an instant is named by     *)
(* who set it and when: nextPublishAt by the kind of writer and its        *)
(* attempt number, messagePublishedAt by the attempt (0 for null).         *)
(***************************************************************************)
EXTENDS Integers, FiniteSets

CONSTANTS
    Publishers,        \* publish calls: API requests and batch items
    Messages,          \* copies of the job's message the queue may hold
    PublishMax,        \* ANALYSIS_JOB_PUBLISH_MAX_ATTEMPTS
    MaxAttempts,       \* maxAttempts of the job
    MaxReceives,       \* maxReceiveCount of the redrive policy
    MaxPublishes,      \* bound on publishAttempts
    MaxFaults,         \* bound on crashes, failed sends and failed writes
    LeaseWithinVisibility, \* the visibility timeout outlasts a lease
    NULL

ASSUME LimitAssumption ==
    /\ PublishMax \in Nat \ {0} /\ MaxAttempts \in Nat \ {0}
    /\ MaxReceives \in Nat \ {0} /\ MaxPublishes \in Nat /\ MaxFaults \in Nat
    /\ LeaseWithinVisibility \in BOOLEAN
VARIABLES
    row,       \* the analysis_jobs row, as far as delivery is concerned
    pub,       \* the publish calls and the record each one read
    msg,       \* the copies of the message and their receive counts
    worker,    \* the invocation that has received the message
    sends,     \* SendMessage calls made (auxiliary)
    faults

vars == <<row, pub, msg, worker, sends, faults>>

Active   == {"QUEUED", "RUNNING"}
Terminal == {"SUCCEEDED", "FAILED"}

UncertainCode == {"PUBLISH_IN_PROGRESS", "PUBLISH_DELIVERY_UNCERTAIN"}
Code == UncertainCode \cup
        {"PUBLISH_ATTEMPT_FAILED", "PUBLISH_FAILED", "WORKER_FAILURE"}

ASSUME NullAssumption == NULL \notin Messages /\ NULL \notin Code

Deadline == [by: {"none", "claim", "backoff", "retry"}, n: Nat]
NoDeadline == [by |-> "none", n |-> 0]

Row ==
    [status: Active \cup Terminal, publishAttempts: Nat, published: Nat,
     aged: BOOLEAN, next: Deadline, waiting: BOOLEAN,
     code: Code \cup {NULL}, attempts: Nat, reserved: BOOLEAN, billed: BOOLEAN,
     expired: BOOLEAN]

(* The publish columns of AnalysisJobPublishRecord as a call has read      *)
(* them, and what it knows of the delivery.                                *)
Publisher ==
    [pc: {"idle", "claim", "send", "mark", "failed"}, seen: Nat,
     published: Nat, next: Deadline, reserved: BOOLEAN, uncertain: BOOLEAN]

IdlePublisher ==
    [pc |-> "idle", seen |-> 0, published |-> 0, next |-> NoDeadline,
     reserved |-> FALSE, uncertain |-> FALSE]

Message ==
    [state: {"unsent", "ready", "inflight", "acked", "dead"}, receives: Nat]

(* Types; a deadline in the future is a deadline, and a running job has    *)
(* none.                                                                   *)
TypeOK ==
    /\ row \in Row
    /\ row.waiting => row.next # NoDeadline
    /\ row.status = "RUNNING" => row.next = NoDeadline
    /\ pub \in [Publishers -> Publisher]
    /\ msg \in [Messages -> Message]
    /\ worker \in [pc: {"idle", "claim", "run"}, m: Messages \cup {NULL}]
    /\ worker.pc # "idle" => worker.m \in Messages
    /\ sends \in Nat /\ faults \in Nat

Init ==
    /\ row = [status |-> "QUEUED", publishAttempts |-> 0, published |-> 0,
              aged |-> FALSE, next |-> NoDeadline, waiting |-> FALSE,
              code |-> NULL, attempts |-> 0, reserved |-> FALSE,
              billed |-> FALSE, expired |-> FALSE]
    /\ pub = [p \in Publishers |-> IdlePublisher]
    /\ msg = [m \in Messages |-> [state |-> "unsent", receives |-> 0]]
    /\ worker = [pc |-> "idle", m |-> NULL]
    /\ sends = 0 /\ faults = 0

Fault == faults < MaxFaults /\ faults' = faults + 1

-----------------------------------------------------------------------------
(* The publisher. *)

(* Mutant: a delivery in doubt is not recovered beyond the limit.          *)
RequiresPublishRecoveryIfReserved(r) == r.reserved

(* requiresPublishRecovery: beyond the limit only a reservation or a       *)
(* delivery in doubt is published again.                                   *)
RequiresPublishRecovery(r) == r.reserved \/ r.code \in UncertainCode

(* What makes findDue select a row and publish go on with it, once its     *)
(* deadlines have passed.                                                  *)
Recoverable(r) ==
    /\ r.status = "QUEUED"
    /\ r.publishAttempts < PublishMax \/ RequiresPublishRecovery(r)

(* isDue; an API request does not publish again what is published.         *)
IsDue(r, allowRepublish) ==
    /\ Recoverable(r)
    /\ ~r.waiting
    /\ r.published # 0 => allowRepublish /\ r.aged

(* Mutant: only an acknowledged message makes the delivery uncertain.      *)
DeliveryUncertainIfPublished(r) == r.published # 0

DeliveryUncertain(r) == r.published # 0 \/ r.code \in UncertainCode

(* A call reads the row: findDue of a reconciler run, or the record that   *)
(* accepting or replaying a request returns.                               *)
ReadDue(p, allowRepublish) ==
    /\ pub[p].pc = "idle"
    /\ row.publishAttempts < MaxPublishes
    /\ IsDue(row, allowRepublish)
    /\ pub' = [pub EXCEPT ![p] =
                 [pc |-> "claim", seen |-> row.publishAttempts,
                  published |-> row.published, next |-> row.next,
                  reserved |-> row.reserved,
                  uncertain |-> DeliveryUncertain(row)]]
    /\ UNCHANGED <<row, msg, worker, sends, faults>>

(* Mutant: the claim is not conditional on the columns read.               *)
SnapshotWhereQueued(r, p) == r.status = "QUEUED"

(* snapshotWhere. *)
SnapshotWhere(r, p) ==
    /\ r.status = "QUEUED"
    /\ r.publishAttempts = p.seen
    /\ r.published = p.published
    /\ r.next = p.next

(* Mutant: the outcome of an attempt is recorded whatever happened to the  *)
(* deadline that claimed it.                                               *)
ClaimedWhereAttempt(r, p) ==
    r.status = "QUEUED" /\ r.publishAttempts = p.seen + 1

(* claimedWhere. *)
ClaimedWhere(r, p) ==
    /\ r.status = "QUEUED"
    /\ r.publishAttempts = p.seen + 1
    /\ r.published = p.published
    /\ r.next = [by |-> "claim", n |-> p.seen + 1]

ReturnPublisher(p) == pub' = [pub EXCEPT ![p] = IdlePublisher]

(* claimAttempt: counted, and marked as in doubt, before the send.         *)
AttemptRow(r, p) ==
    [r EXCEPT !.publishAttempts = @ + 1, !.waiting = TRUE,
              !.next = [by |-> "claim", n |-> r.publishAttempts + 1],
              !.code = IF p.uncertain THEN "PUBLISH_DELIVERY_UNCERTAIN"
                       ELSE "PUBLISH_IN_PROGRESS"]

ClaimAttempt(p) ==
    /\ pub[p].pc = "claim"
    /\ IF SnapshotWhere(row, pub[p])
       THEN /\ row' = AttemptRow(row, pub[p])
            /\ pub' = [pub EXCEPT ![p].pc = "send"]
       ELSE ReturnPublisher(p) /\ UNCHANGED row
    /\ UNCHANGED <<msg, worker, sends, faults>>

(* SQS takes the message: a new copy, or none when the deduplication id    *)
(* is known from an earlier send.                                          *)
Enqueue ==
    \/ \E m \in Messages :
          /\ msg[m].state = "unsent"
          /\ msg' = [msg EXCEPT ![m].state = "ready"]
    \/ /\ \E m \in Messages : msg[m].state # "unsent"
       /\ UNCHANGED msg

SendAccepted(p) ==
    /\ pub[p].pc = "send"
    /\ Enqueue
    /\ pub' = [pub EXCEPT ![p].pc = "mark"]
    /\ sends' = sends + 1
    /\ UNCHANGED <<row, worker, faults>>

(* A client fault on the only attempt: AnalysisJobQueueRejectedError.      *)
SendRejected(p) ==
    /\ pub[p].pc = "send" /\ Fault
    /\ pub' = [pub EXCEPT ![p].pc = "failed"]
    /\ sends' = sends + 1
    /\ UNCHANGED <<row, msg, worker>>

(* A timeout, a server fault or a retried send: SQS may have the message.  *)
SendUncertain(p) ==
    /\ pub[p].pc = "send" /\ Fault
    /\ Enqueue \/ UNCHANGED msg
    /\ pub' = [pub EXCEPT ![p].pc = "failed", ![p].uncertain = TRUE]
    /\ sends' = sends + 1
    /\ UNCHANGED <<row, worker>>

MarkPublished(p) ==
    /\ pub[p].pc = "mark"
    /\ IF ClaimedWhere(row, pub[p])
       THEN row' = [row EXCEPT !.published = pub[p].seen + 1, !.aged = FALSE,
                               !.next = NoDeadline, !.waiting = FALSE,
                               !.code = NULL]
       ELSE UNCHANGED row
    /\ ReturnPublisher(p)
    /\ UNCHANGED <<msg, worker, sends, faults>>

(* handlePublishFailure: at the limit, and certain that nothing was sent.  *)
Terminates(p) ==
    /\ p.seen + 1 >= PublishMax
    /\ ~p.uncertain /\ p.published = 0 /\ ~p.reserved

(* recordFailure. *)
FailedRow(r, p) ==
    IF Terminates(p)
    THEN [r EXCEPT !.status = "FAILED", !.next = NoDeadline,
                   !.waiting = FALSE, !.code = "PUBLISH_FAILED"]
    ELSE [r EXCEPT !.next = [by |-> "backoff", n |-> p.seen + 1],
                   !.waiting = TRUE,
                   !.code = IF p.uncertain THEN "PUBLISH_DELIVERY_UNCERTAIN"
                            ELSE "PUBLISH_ATTEMPT_FAILED"]

RecordFailure(p) ==
    /\ pub[p].pc = "failed"
    /\ IF ClaimedWhere(row, pub[p]) /\ (Terminates(pub[p]) => ~row.reserved)
       THEN row' = FailedRow(row, pub[p])
       ELSE UNCHANGED row
    /\ ReturnPublisher(p)
    /\ UNCHANGED <<msg, worker, sends, faults>>

(* The process dies or a statement fails: publish defers.                  *)
PublisherCrash(p) ==
    /\ pub[p].pc # "idle" /\ Fault
    /\ ReturnPublisher(p)
    /\ UNCHANGED <<row, msg, worker, sends>>

-----------------------------------------------------------------------------
(* The queue.  All copies are in one message group: while one is in        *)
(* flight no other is delivered.                                           *)

Waiting(m) ==
    /\ msg[m].state = "ready" /\ worker.pc = "idle"
    /\ \A k \in Messages : msg[k].state # "inflight"

Receive(m) ==
    /\ Waiting(m) /\ msg[m].receives < MaxReceives
    /\ msg' = [msg EXCEPT ![m] = [state |-> "inflight", receives |-> @.receives + 1]]
    /\ worker' = [pc |-> "claim", m |-> m]
    /\ UNCHANGED <<row, pub, sends, faults>>

(* The redrive policy. *)
DeadLetter(m) ==
    /\ Waiting(m) /\ msg[m].receives >= MaxReceives
    /\ msg' = [msg EXCEPT ![m].state = "dead"]
    /\ UNCHANGED <<row, pub, worker, sends, faults>>

(* A record reported as failed, or never reported, becomes visible again.  *)
VisibilityTimeout(m) ==
    /\ msg[m].state = "inflight" /\ worker.pc = "idle"
    /\ LeaseWithinVisibility /\ row.status = "RUNNING" => row.expired
    /\ msg' = [msg EXCEPT ![m].state = "ready"]
    /\ UNCHANGED <<row, pub, worker, sends, faults>>

-----------------------------------------------------------------------------
(* The worker. *)

Retry == worker' = [pc |-> "idle", m |-> NULL] /\ UNCHANGED msg

Ack ==
    /\ worker' = [pc |-> "idle", m |-> NULL]
    /\ msg' = [msg EXCEPT ![worker.m].state = "acked"]

Closed(r, status, code) ==
    [r EXCEPT !.status = status, !.next = NoDeadline, !.waiting = FALSE,
              !.expired = FALSE, !.code = code]

(* What claim decides from the row: TERMINAL, MAX_ATTEMPTS, NOT_DUE or     *)
(* ACTIVE_LEASE, otherwise a conditional update that another writer may    *)
(* beat (the record is then retried, like NOT_DUE).                        *)
ClaimKind(r) ==
    CASE r.status \in Terminal -> "TERMINAL"
      [] r.status = "QUEUED" /\ r.attempts >= MaxAttempts -> "MAX_ATTEMPTS"
      [] r.status = "QUEUED" /\ r.attempts < MaxAttempts
            -> IF r.waiting THEN "NOT_NOW" ELSE "CLAIM"
      [] r.status = "RUNNING" /\ ~r.expired -> "NOT_NOW"
      [] r.status = "RUNNING" /\ r.expired
            -> IF r.billed \/ r.attempts < MaxAttempts THEN "CLAIM"
               ELSE "MAX_ATTEMPTS"

(* Mutant: a record that cannot be claimed yet is acknowledged.            *)
RejectClaimAcked ==
    /\ worker.pc = "claim" /\ ClaimKind(row) \in {"TERMINAL", "NOT_NOW"}
    /\ Ack
    /\ UNCHANGED <<row, pub, sends, faults>>

RejectClaim ==
    /\ worker.pc = "claim"
    /\ \/ ClaimKind(row) = "TERMINAL" /\ Ack
       \/ ClaimKind(row) = "NOT_NOW" /\ Retry
    /\ UNCHANGED <<row, pub, sends, faults>>

(* Mutant: the claim leaves nextPublishAt alone.                           *)
RunningRowKeepingDeadline(r) ==
    IF r.billed THEN [r EXCEPT !.expired = FALSE]
    ELSE [r EXCEPT !.status = "RUNNING", !.attempts = @ + 1, !.code = NULL,
                   !.expired = FALSE]

(* claimQueued and the two take-overs. *)
RunningRow(r) ==
    IF r.billed THEN [r EXCEPT !.expired = FALSE]
    ELSE [r EXCEPT !.status = "RUNNING", !.attempts = @ + 1, !.code = NULL,
                   !.next = NoDeadline, !.expired = FALSE]

Claim ==
    /\ worker.pc = "claim" /\ ClaimKind(row) = "CLAIM"
    /\ row' = RunningRow(row)
    /\ worker' = [worker EXCEPT !.pc = "run"]
    /\ UNCHANGED <<pub, msg, sends, faults>>

(* finalizeClaimLimit: the record is retried and goes to the dead letters. *)
FinalizeClaimLimit ==
    /\ worker.pc = "claim" /\ ClaimKind(row) = "MAX_ATTEMPTS"
    /\ row' = Closed(row, "FAILED", "WORKER_FAILURE")
    /\ Retry
    /\ UNCHANGED <<pub, sends, faults>>

Reserve ==
    /\ worker.pc = "run" /\ ~row.reserved
    /\ row' = [row EXCEPT !.reserved = TRUE]
    /\ UNCHANGED <<pub, msg, worker, sends, faults>>

RecordCharge ==
    /\ worker.pc = "run" /\ row.reserved /\ ~row.billed
    /\ row' = [row EXCEPT !.billed = TRUE]
    /\ UNCHANGED <<pub, msg, worker, sends, faults>>

(* A terminal outcome of the run, whatever it is.                          *)
Finish ==
    /\ worker.pc = "run"
    /\ \/ row' = Closed(row, "SUCCEEDED", NULL)
       \/ row' = Closed(row, "FAILED", "WORKER_FAILURE")
    /\ Ack
    /\ UNCHANGED <<pub, sends, faults>>

ReleasedRow(r) ==
    [r EXCEPT !.status = "QUEUED", !.code = "WORKER_FAILURE",
              !.next = [by |-> "retry", n |-> r.attempts], !.waiting = TRUE]

(* handleClaimedFailure for a retryable error. *)
FailRetryably ==
    /\ worker.pc = "run" /\ ~row.billed
    /\ row' = IF \/ row.attempts >= MaxAttempts
                 \/ msg[worker.m].receives >= MaxAttempts
              THEN Closed(row, "FAILED", "WORKER_FAILURE")
              ELSE ReleasedRow(row)
    /\ Retry
    /\ UNCHANGED <<pub, sends, faults>>

(* The invocation dies, or its last write fails and the record is retried. *)
WorkerCrash ==
    /\ worker.pc # "idle" /\ Fault
    /\ Retry
    /\ UNCHANGED <<row, pub, sends>>

(* recoverStaleActiveJobs, when the user asks for another analysis.        *)
RecoverStale ==
    /\ row.status = "RUNNING" /\ row.expired
    /\ row' = Closed(row, "FAILED", "WORKER_FAILURE")
    /\ UNCHANGED <<pub, msg, worker, sends, faults>>

-----------------------------------------------------------------------------
(* Time. *)

DeadlinePasses ==
    /\ row.waiting
    /\ row' = [row EXCEPT !.waiting = FALSE]
    /\ UNCHANGED <<pub, msg, worker, sends, faults>>

PublicationAges ==
    /\ row.published # 0 /\ ~row.aged
    /\ row' = [row EXCEPT !.aged = TRUE]
    /\ UNCHANGED <<pub, msg, worker, sends, faults>>

(* The lease outlives the invocation that renews it (900 s against 300 s). *)
LeaseExpires ==
    /\ row.status = "RUNNING" /\ ~row.expired /\ worker.pc # "run"
    /\ row' = [row EXCEPT !.expired = TRUE]
    /\ UNCHANGED <<pub, msg, worker, sends, faults>>

-----------------------------------------------------------------------------
PublishStep(p) ==
    \/ ClaimAttempt(p) \/ SendAccepted(p) \/ MarkPublished(p)
    \/ RecordFailure(p)

WorkStep ==
    \/ RejectClaim \/ Claim \/ FinalizeClaimLimit \/ Finish \/ FailRetryably

Clock == DeadlinePasses \/ PublicationAges \/ LeaseExpires

QueueStep(m) == Receive(m) \/ DeadLetter(m) \/ VisibilityTimeout(m)

Next ==
    \/ \E p \in Publishers :
          \/ \E republish \in BOOLEAN : ReadDue(p, republish)
          \/ PublishStep(p)
          \/ SendRejected(p) \/ SendUncertain(p) \/ PublisherCrash(p)
    \/ \E m \in Messages : QueueStep(m)
    \/ WorkStep \/ Reserve \/ RecordCharge \/ WorkerCrash \/ RecoverStale
    \/ Clock

Spec == Init /\ [][Next]_vars

-----------------------------------------------------------------------------
(* Properties. *)

Delivered == \E m \in Messages : msg[m].state # "unsent"

(* A queued job is never forgotten: whatever crashes or overtakes what,    *)
(* either the reconciler still selects its row once the deadlines pass, or *)
(* a message for it is in the queue or among the dead letters (findDue,    *)
(* requiresPublishRecovery, and every ACK of the worker).                  *)
NeverForgotten ==
    row.status = "QUEUED" =>
       \/ Recoverable(row)
       \/ \E m \in Messages : msg[m].state \in {"ready", "inflight", "dead"}

(* Each SendMessage was counted in publishAttempts before it was made, by  *)
(* one call alone: concurrent publishers that read the same row, crashes   *)
(* and replays never send uncounted (claimAttempt).                        *)
SendsAreCounted ==
    /\ sends <= row.publishAttempts
    /\ \A p, q \in Publishers :
          /\ pub[p].pc \in {"send", "mark", "failed"}
          /\ pub[q].pc \in {"send", "mark", "failed"}
          /\ pub[p].seen = pub[q].seen
          => p = q

(* A job that no worker has taken yet is closed as unpublishable only if   *)
(* the queue never took its message, although a failed send may have       *)
(* delivered it and a crash may have hidden the result (handlePublish-     *)
(* Failure).                                                               *)
UnpublishableWasNotDelivered ==
    row.code = "PUBLISH_FAILED" /\ row.attempts = 0 => ~Delivered

(* The backoff a worker set when it released the job is kept until it has  *)
(* passed: a publish call that claimed its attempt before the worker ran   *)
(* does not clear or shorten it when it ends (markPublished,               *)
(* recordFailure).                                                         *)
RetryDeadlineKept ==
    [][row.next.by = "retry" /\ row.waiting /\ row'.status = "QUEUED"
          => row'.next = row.next]_vars

-----------------------------------------------------------------------------
(* Liveness.  EventBridge starts the reconciler every minute, started      *)
(* calls and invocations run on or crash, time passes, and SQS delivers    *)
(* what is visible.                                                        *)
Fairness ==
    /\ \A p \in Publishers : WF_vars(PublishStep(p))
    /\ WF_vars(\E p \in Publishers : ReadDue(p, TRUE))
    /\ \A m \in Messages : WF_vars(QueueStep(m))
    /\ WF_vars(WorkStep)
    /\ WF_vars(DeadlinePasses) /\ WF_vars(PublicationAges)
    /\ WF_vars(LeaseExpires)

FairSpec == Spec /\ Fairness

AllDead ==
    Delivered /\ \A m \in Messages : msg[m].state \in {"unsent", "dead"}

(* Every accepted job is closed, through failed sends, crashes on both     *)
(* sides and retries, unless every message sent for it has run out of      *)
(* receives (publisher, reconciler and worker together).                   *)
EndsOrDeadLettered ==
    row.status \in Active ~> row.status \in Terminal \/ AllDead

(* ADR 12: a job whose message went to the dead-letter queue is closed.    *)
DeadLetteredJobEnds == AllDead ~> row.status \in Terminal
=============================================================================
