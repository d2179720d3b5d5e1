------------------------- MODULE JobDeliveryProofs -------------------------
(***************************************************************************)
(* The safety properties of JobDelivery, for any number of publish calls   *)
(* and message copies and any limits.                                      *)
(***************************************************************************)
EXTENDS JobDelivery, FiniteSetTheorems, TLAPS

(* The row by itself, and against the running invocation.                  *)
RowInv ==
    /\ worker.pc = "run" => row.status = "RUNNING" /\ ~row.expired
    /\ row.status = "QUEUED" => ~row.billed
    /\ row.status = "RUNNING" => row.attempts > 0
    /\ row.code = "PUBLISH_FAILED" => row.status = "FAILED"
    /\ row.published <= row.publishAttempts
    /\ row.next.by = "retry" => row.status = "QUEUED" /\ row.next.n = row.attempts

(* A message is acknowledged only once its job is closed.                  *)
QueueInv ==
    /\ \A m \in Messages : msg[m].state = "acked" => row.status \in Terminal
    /\ worker.pc # "idle" => msg[worker.m].state = "inflight"

(* What a call has read is older than the row.                             *)
ReadInv ==
    \A p \in Publishers : pub[p].pc # "idle" =>
       /\ pub[p].seen <= row.publishAttempts
       /\ pub[p].published <= pub[p].seen
       /\ pub[p].published <= row.published
       /\ pub[p].reserved => row.reserved
       /\ pub[p].published # 0 => pub[p].uncertain
       /\ pub[p].pc # "claim" => pub[p].seen < row.publishAttempts
       /\ pub[p].pc = "mark" => Delivered

(* A call that has yet to claim: if the columns it compares are unchanged  *)
(* then so is what it does not compare.                                    *)
UpToDate(r, c) ==
    /\ c.seen = r.publishAttempts /\ r.next.by = "claim" => c.next.by = "claim"
    /\ SnapshotWhere(r, c) /\ r.attempts = 0 /\ DeliveryUncertain(r) => c.uncertain
    /\ c.next.by = "retry" =>
          /\ c.next.n <= r.attempts
          /\ r.status = "RUNNING" => c.next.n < r.attempts
          /\ r.next = c.next => ~r.waiting

ClaimInv == \A p \in Publishers : pub[p].pc = "claim" => UpToDate(row, pub[p])

(* A job beyond the reach of the reconciler has been delivered; one that   *)
(* was, or is about to be, delivered and was never claimed is in doubt.    *)
OutboxInv ==
    /\ row.status = "QUEUED" => Recoverable(row) \/ Delivered
    /\ row.status = "QUEUED" /\ row.attempts = 0
       /\ (Delivered \/ \E q \in Publishers : pub[q].pc = "send")
          => DeliveryUncertain(row)

(* A call that is certain of its failure is alone, and nothing was sent.   *)
CertainInv ==
    \A p \in Publishers :
       /\ pub[p].pc \in {"send", "failed"} /\ ~pub[p].uncertain
       /\ row.attempts = 0 /\ ClaimedWhere(row, pub[p])
       => /\ ~Delivered
          /\ \A q \in Publishers : pub[q].pc = "send" => q = p

ClosedInv ==
    row.code = "PUBLISH_FAILED" /\ row.attempts = 0 =>
       ~Delivered /\ \A q \in Publishers : pub[q].pc # "send"

IInv ==
    /\ TypeOK /\ RowInv /\ QueueInv /\ ReadInv /\ ClaimInv /\ OutboxInv
    /\ CertainInv /\ ClosedInv

-----------------------------------------------------------------------------
(* A call that ends without writing the row disturbs nothing.              *)
LEMMA PublisherReturns ==
    ASSUME IInv, NEW p \in Publishers, ReturnPublisher(p),
           UNCHANGED <<row, msg, worker, sends>>, faults' \in Nat
    PROVE  IInv'
<1>1. /\ pub' \in [Publishers -> Publisher]
      /\ pub'[p].pc = "idle"
      /\ \A r \in Publishers : r # p => pub'[r] = pub[r]
  BY DEF IInv, TypeOK, ReturnPublisher, IdlePublisher, Publisher, Deadline,
         NoDeadline
<1>2. TypeOK' /\ RowInv' /\ QueueInv'
  BY <1>1 DEF IInv, TypeOK, RowInv, QueueInv
<1>3. ReadInv' /\ ClaimInv'
  BY <1>1
     DEF IInv, ReadInv, ClaimInv, Delivered, SnapshotWhere, DeliveryUncertain
<1>4. OutboxInv' /\ CertainInv' /\ ClosedInv'
  BY <1>1
     DEF IInv, OutboxInv, CertainInv, ClosedInv, Delivered, Recoverable,
         RequiresPublishRecovery, DeliveryUncertain, ClaimedWhere
<1>5. QED
  BY <1>2, <1>3, <1>4 DEF IInv

(* What a call reads is up to date when it is read, and a deadline it      *)
(* reads has passed.                                                       *)
LEMMA ReadDueOK ==
    ASSUME IInv, NEW p \in Publishers, NEW b \in BOOLEAN, ReadDue(p, b)
    PROVE  IInv'
<1> DEFINE q == [pc |-> "claim", seen |-> row.publishAttempts,
                 published |-> row.published, next |-> row.next,
                 reserved |-> row.reserved, uncertain |-> DeliveryUncertain(row)]
<1>1. q \in Publisher
  BY DEF IInv, TypeOK, Row, Publisher, DeliveryUncertain
<1>2. /\ pub' \in [Publishers -> Publisher]
      /\ pub'[p] = q
      /\ \A r \in Publishers : r # p => pub'[r] = pub[r]
      /\ UNCHANGED <<row, msg, worker, sends, faults>>
      /\ IsDue(row, b)
  BY <1>1 DEF IInv, TypeOK, ReadDue
<1>3. /\ q.pc = "claim" /\ q.seen = row.publishAttempts
      /\ q.published = row.published /\ q.next = row.next
      /\ q.reserved = row.reserved
      /\ q.uncertain <=> DeliveryUncertain(row)
  BY Zenon
<1> HIDE DEF q
<1>4. TypeOK'
  BY <1>2 DEF IInv, TypeOK
<1>5. RowInv' /\ QueueInv'
  BY <1>2 DEF IInv, RowInv, QueueInv
<1>6. ReadInv'
  <2> SUFFICES ASSUME NEW r \in Publishers, pub'[r].pc # "idle"
               PROVE  /\ pub'[r].seen <= row.publishAttempts
                      /\ pub'[r].published <= pub'[r].seen
                      /\ pub'[r].published <= row.published
                      /\ pub'[r].reserved => row.reserved
                      /\ pub'[r].published # 0 => pub'[r].uncertain
                      /\ pub'[r].pc # "claim" => pub'[r].seen < row.publishAttempts
                      /\ pub'[r].pc = "mark" => Delivered
    BY <1>2 DEF ReadInv, Delivered
  <2>1. CASE r # p
    BY <1>2, <2>1 DEF IInv, ReadInv
  <2>2. CASE r = p
    BY <1>2, <1>3, <2>2 DEF IInv, TypeOK, Row, RowInv, DeliveryUncertain
  <2>3. QED
    BY <2>1, <2>2
<1>7. ClaimInv'
  <2> SUFFICES ASSUME NEW r \in Publishers, pub'[r].pc = "claim"
               PROVE  UpToDate(row, pub'[r])
    BY <1>2 DEF ClaimInv, UpToDate, SnapshotWhere, DeliveryUncertain
  <2>1. CASE r # p
    BY <1>2, <2>1 DEF IInv, ClaimInv
  <2>2. CASE r = p
    <3>1. /\ row.status = "QUEUED" /\ ~row.waiting
          /\ row.next.by = "retry" => row.next.n = row.attempts
          /\ row.attempts \in Nat
      BY <1>2 DEF IInv, TypeOK, Row, RowInv, IsDue, Recoverable
    <3>2. UpToDate(row, q)
      <4>1. q.next.by = "retry" =>
               /\ q.next.n <= row.attempts
               /\ row.status = "RUNNING" => q.next.n < row.attempts
               /\ row.next = q.next => ~row.waiting
        BY <1>3, <3>1
      <4>2. row.next.by = "claim" => q.next.by = "claim"
        BY <1>3
      <4>3. DeliveryUncertain(row) => q.uncertain
        BY <1>3
      <4>4. QED
        BY <4>1, <4>2, <4>3, Zenon DEF UpToDate
    <3>3. QED
      BY <1>2, <2>2, <3>2
  <2>3. QED
    BY <2>1, <2>2
<1>8. OutboxInv' /\ CertainInv' /\ ClosedInv'
  BY <1>2, <1>3
     DEF IInv, OutboxInv, CertainInv, ClosedInv, Delivered, Recoverable,
         RequiresPublishRecovery, DeliveryUncertain, ClaimedWhere
<1>9. QED
  BY <1>4, <1>5, <1>6, <1>7, <1>8 DEF IInv

(* The claim makes the delivery doubtful, and the columns it compares show *)
(* that nobody else was certain of a failure.                              *)
LEMMA ClaimAttemptOK ==
    ASSUME IInv, NEW p \in Publishers, ClaimAttempt(p)
    PROVE  IInv'
<1>1. CASE ~SnapshotWhere(row, pub[p])
  BY <1>1, PublisherReturns DEF IInv, TypeOK, ClaimAttempt
<1>2. CASE SnapshotWhere(row, pub[p])
  <2>1. /\ row' \in Row
        /\ row'.status = "QUEUED" /\ row.status = "QUEUED"
        /\ row.publishAttempts = pub[p].seen
        /\ row'.publishAttempts = row.publishAttempts + 1
        /\ row'.published = row.published
        /\ row'.next = [by |-> "claim", n |-> row.publishAttempts + 1]
        /\ row'.attempts = row.attempts /\ row'.reserved = row.reserved
        /\ row'.billed = row.billed /\ row'.expired = row.expired
        /\ row'.code \in UncertainCode
    <3> DEFINE c == IF pub[p].uncertain THEN "PUBLISH_DELIVERY_UNCERTAIN"
                    ELSE "PUBLISH_IN_PROGRESS"
               n == row.publishAttempts + 1
               d == [by |-> "claim", n |-> n]
    <3>1. c \in UncertainCode /\ c \in Code \cup {NULL}
      BY DEF UncertainCode, Code
    <3>2. n \in Nat /\ d \in Deadline
      BY DEF IInv, TypeOK, Row, Deadline
    <3>3. row' = [row EXCEPT !.publishAttempts = n, !.waiting = TRUE,
                             !.next = d, !.code = c]
      BY <1>2 DEF ClaimAttempt, AttemptRow
    <3>4. row.status = "QUEUED" /\ row.publishAttempts = pub[p].seen
      BY <1>2 DEF SnapshotWhere
    <3>5. d = [by |-> "claim", n |-> row.publishAttempts + 1] /\ n = row.publishAttempts + 1
      OBVIOUS
    <3> HIDE DEF c, d, n
    <3>6. row \in Row
      BY DEF IInv, TypeOK
    <3>7. row' \in Row
      BY <3>1, <3>2, <3>3, <3>6 DEF Row
    <3>8. /\ row'.status = row.status /\ row'.next = d /\ row'.code = c
          /\ row'.publishAttempts = n
          /\ row'.published = row.published
          /\ row'.attempts = row.attempts /\ row'.reserved = row.reserved
          /\ row'.billed = row.billed /\ row'.expired = row.expired
      BY <3>3, <3>6 DEF Row
    <3>9. QED
      BY <3>1, <3>4, <3>5, <3>7, <3>8
  <2>2. /\ pub' \in [Publishers -> Publisher]
        /\ pub[p].pc = "claim" /\ pub'[p].pc = "send"
        /\ pub'[p].seen = pub[p].seen /\ pub'[p].published = pub[p].published
        /\ pub'[p].reserved = pub[p].reserved
        /\ pub'[p].uncertain = pub[p].uncertain
        /\ \A r \in Publishers : r # p => pub'[r] = pub[r]
        /\ UNCHANGED <<msg, worker, sends, faults>>
    BY <1>2 DEF IInv, TypeOK, Publisher, ClaimAttempt
  <2>3. row'.next \in Deadline /\ row'.next.by = "claim" /\ row'.next # NoDeadline
    BY <2>1 DEF IInv, TypeOK, Row, Deadline, NoDeadline
  <2>4. TypeOK'
    BY <2>1, <2>2, <2>3 DEF IInv, TypeOK
  <2>5. RowInv' /\ QueueInv'
    BY <2>1, <2>2, <2>3 DEF IInv, TypeOK, Row, RowInv, QueueInv, UncertainCode
  <2>6. ReadInv'
    BY <2>1, <2>2 DEF IInv, TypeOK, Row, Publisher, ReadInv, Delivered
  <2>7. ClaimInv'
    BY <2>1, <2>2, <2>3
       DEF IInv, TypeOK, Row, Publisher, ReadInv, ClaimInv, UpToDate,
           SnapshotWhere
  <2>8. OutboxInv'
    BY <2>1, <2>2
       DEF OutboxInv, Recoverable, RequiresPublishRecovery, DeliveryUncertain
  <2>9. CertainInv'
    <3> SUFFICES ASSUME NEW r \in Publishers,
                        pub'[r].pc \in {"send", "failed"}, ~pub'[r].uncertain,
                        row'.attempts = 0, ClaimedWhere(row', pub'[r])
                 PROVE  /\ ~Delivered'
                        /\ \A q \in Publishers : pub'[q].pc = "send" => q = r
      BY DEF CertainInv
    <3>1. r = p
      BY <2>1, <2>2 DEF IInv, TypeOK, Row, Publisher, ReadInv, ClaimedWhere
    <3>2. ~DeliveryUncertain(row)
      BY <1>2, <2>1, <2>2, <3>1 DEF IInv, ClaimInv, UpToDate
    <3>3. ~Delivered /\ \A q \in Publishers : pub[q].pc # "send"
      BY <2>1, <3>2 DEF IInv, OutboxInv
    <3>4. QED
      BY <2>2, <3>1, <3>3 DEF Delivered
  <2>10. ClosedInv'
    BY <2>1 DEF ClosedInv, UncertainCode
  <2>11. QED
    BY <2>4, <2>5, <2>6, <2>7, <2>8, <2>9, <2>10 DEF IInv
<1>3. QED
  BY <1>1, <1>2

(* SQS has the message afterwards, and no other copy has changed.          *)
LEMMA EnqueueFacts ==
    ASSUME TypeOK, Enqueue
    PROVE  /\ msg' \in [Messages -> Message]
           /\ \A m \in Messages : \/ msg'[m] = msg[m]
                                  \/ /\ msg[m].state = "unsent"
                                     /\ msg'[m].state = "ready"
           /\ Delivered'
<1>1. CASE UNCHANGED msg /\ \E m \in Messages : msg[m].state # "unsent"
  BY <1>1 DEF TypeOK, Delivered
<1>2. ASSUME NEW m \in Messages, msg[m].state = "unsent",
             msg' = [msg EXCEPT ![m].state = "ready"]
      PROVE  /\ msg' \in [Messages -> Message]
             /\ \A k \in Messages : \/ msg'[k] = msg[k]
                                    \/ /\ msg[k].state = "unsent"
                                       /\ msg'[k].state = "ready"
             /\ Delivered'
  <2>1. /\ msg' \in [Messages -> Message]
        /\ \A k \in Messages : k # m => msg'[k] = msg[k]
        /\ msg'[m].state = "ready"
    BY <1>2 DEF TypeOK, Message
  <2>2. QED
    BY <1>2, <2>1 DEF Delivered
<1>3. QED
  BY <1>1, <1>2 DEF Enqueue

(* Accepted by SQS: the row was in doubt before the send.                  *)
LEMMA SendAcceptedOK ==
    ASSUME IInv, NEW p \in Publishers, SendAccepted(p)
    PROVE  IInv'
<1>1. /\ pub' \in [Publishers -> Publisher]
      /\ pub[p].pc = "send" /\ pub'[p].pc = "mark"
      /\ pub'[p].seen = pub[p].seen /\ pub'[p].published = pub[p].published
      /\ pub'[p].reserved = pub[p].reserved
      /\ pub'[p].uncertain = pub[p].uncertain
      /\ \A r \in Publishers : r # p => pub'[r] = pub[r]
      /\ sends' \in Nat /\ UNCHANGED <<row, worker, faults>>
  BY DEF IInv, TypeOK, Publisher, SendAccepted
<1>2. /\ msg' \in [Messages -> Message]
      /\ \A m \in Messages : \/ msg'[m] = msg[m]
                             \/ /\ msg[m].state = "unsent"
                                /\ msg'[m].state = "ready"
      /\ Delivered'
  BY EnqueueFacts DEF IInv, SendAccepted
<1>3. TypeOK'
  BY <1>1, <1>2 DEF IInv, TypeOK
<1>4. RowInv' /\ QueueInv'
  BY <1>1, <1>2 DEF IInv, TypeOK, RowInv, QueueInv
<1>5. ReadInv' /\ ClaimInv'
  BY <1>1, <1>2
     DEF IInv, ReadInv, ClaimInv, UpToDate, SnapshotWhere, DeliveryUncertain
<1>6. OutboxInv'
  BY <1>1, <1>2
     DEF IInv, OutboxInv, Recoverable, RequiresPublishRecovery,
         DeliveryUncertain
<1>7. CertainInv' /\ ClosedInv'
  BY <1>1 DEF IInv, CertainInv, ClosedInv, ClaimedWhere
<1>8. QED
  BY <1>3, <1>4, <1>5, <1>6, <1>7 DEF IInv

(* Rejected by SQS: nothing was enqueued.                                  *)
LEMMA SendRejectedOK ==
    ASSUME IInv, NEW p \in Publishers, SendRejected(p)
    PROVE  IInv'
<1>1. TypeOK'
  BY DEF IInv, SendRejected, Fault, TypeOK, Publisher
<1>2. RowInv'
  BY DEF IInv, SendRejected, RowInv
<1>3. QueueInv'
  BY DEF IInv, SendRejected, QueueInv
<1>4. ReadInv'
  BY DEF IInv, SendRejected, ReadInv, Delivered
<1>5. ClaimInv'
  BY DEF IInv, SendRejected, ClaimInv
<1>6. OutboxInv'
  BY DEF IInv, SendRejected, OutboxInv, Delivered
<1>7. CertainInv'
  BY DEF IInv, SendRejected, CertainInv, Delivered, ClaimedWhere
<1>8. ClosedInv'
  BY DEF IInv, SendRejected, ClosedInv
<1>9. QED
  BY <1>1, <1>2, <1>3, <1>4, <1>5, <1>6, <1>7, <1>8 DEF IInv

(* A send in doubt makes the call uncertain, whatever SQS did.             *)
LEMMA SendUncertainOK ==
    ASSUME IInv, NEW p \in Publishers, SendUncertain(p)
    PROVE  IInv'
<1>1. /\ pub' \in [Publishers -> Publisher]
      /\ pub[p].pc = "send" /\ pub'[p].pc = "failed"
      /\ pub'[p].seen = pub[p].seen /\ pub'[p].published = pub[p].published
      /\ pub'[p].reserved = pub[p].reserved
      /\ pub'[p].uncertain
      /\ \A r \in Publishers : r # p => pub'[r] = pub[r]
      /\ sends' \in Nat /\ faults' \in Nat /\ UNCHANGED <<row, worker>>
  <2>1. pub' = [pub EXCEPT ![p] = [pub[p] EXCEPT !.pc = "failed", !.uncertain = TRUE]]
    BY DEF IInv, TypeOK, SendUncertain
  <2>2. [pub[p] EXCEPT !.pc = "failed", !.uncertain = TRUE] \in Publisher
    BY DEF IInv, TypeOK, Publisher
  <2>3. QED
    BY <2>1, <2>2 DEF IInv, TypeOK, Publisher, SendUncertain, Fault
<1>2. /\ msg' \in [Messages -> Message]
      /\ \A m \in Messages : \/ msg'[m] = msg[m]
                             \/ /\ msg[m].state = "unsent"
                                /\ msg'[m].state = "ready"
  BY EnqueueFacts DEF IInv, TypeOK, SendUncertain
<1>3. Delivered => Delivered'
  BY <1>2 DEF Delivered
<1>4. TypeOK'
  BY <1>1, <1>2 DEF IInv, TypeOK
<1>5. RowInv' /\ QueueInv'
  BY <1>1, <1>2 DEF IInv, TypeOK, RowInv, QueueInv
<1>6. ReadInv' /\ ClaimInv'
  BY <1>1, <1>3
     DEF IInv, ReadInv, ClaimInv, UpToDate, SnapshotWhere, DeliveryUncertain
<1>7. OutboxInv'
  BY <1>1, <1>3
     DEF IInv, OutboxInv, Recoverable, RequiresPublishRecovery,
         DeliveryUncertain
<1>8. CertainInv' /\ ClosedInv'
  BY <1>1 DEF IInv, CertainInv, ClosedInv, ClaimedWhere
<1>9. QED
  BY <1>4, <1>5, <1>6, <1>7, <1>8 DEF IInv

(* The acknowledgement replaces the doubt by messagePublishedAt.           *)
LEMMA MarkPublishedOK ==
    ASSUME IInv, NEW p \in Publishers, MarkPublished(p)
    PROVE  IInv'
<1>1. CASE ~ClaimedWhere(row, pub[p])
  BY <1>1, PublisherReturns DEF IInv, TypeOK, MarkPublished
<1>2. CASE ClaimedWhere(row, pub[p])
  <2>1. /\ row' \in Row
        /\ row'.status = "QUEUED" /\ row.status = "QUEUED"
        /\ row.publishAttempts = pub[p].seen + 1
        /\ row'.publishAttempts = row.publishAttempts
        /\ row.published = pub[p].published
        /\ row'.published = pub[p].seen + 1
        /\ row.next.by = "claim" /\ row'.next = NoDeadline /\ ~row'.waiting
        /\ row'.attempts = row.attempts /\ row'.reserved = row.reserved
        /\ row'.billed = row.billed /\ row'.expired = row.expired
        /\ row'.code = NULL
    <3>1. NoDeadline \in Deadline
      BY DEF Deadline, NoDeadline
    <3>2. /\ row.status = "QUEUED" /\ row.publishAttempts = pub[p].seen + 1
          /\ row.published = pub[p].published /\ row.next.by = "claim"
      BY <1>2 DEF ClaimedWhere
    <3>3. row' = [row EXCEPT !.published = pub[p].seen + 1, !.aged = FALSE,
                             !.next = NoDeadline, !.waiting = FALSE, !.code = NULL]
      BY <1>2 DEF MarkPublished
    <3>4. QED
      BY <3>1, <3>2, <3>3 DEF IInv, TypeOK, Row, Publisher
  <2>2. /\ pub' \in [Publishers -> Publisher]
        /\ pub[p].pc = "mark" /\ pub'[p].pc = "idle"
        /\ \A r \in Publishers : r # p => pub'[r] = pub[r]
        /\ UNCHANGED <<msg, worker, sends, faults>>
    BY DEF IInv, TypeOK, MarkPublished, ReturnPublisher, IdlePublisher,
           Publisher, Deadline, NoDeadline
  <2>3. NoDeadline.by = "none"
    BY DEF NoDeadline
  <2>4. TypeOK'
    BY <2>1, <2>2 DEF IInv, TypeOK
  <2>5. RowInv' /\ QueueInv'
    BY <2>1, <2>2, <2>3, NullAssumption
       DEF IInv, TypeOK, Publisher, Row, RowInv, QueueInv, Code
  <2>6. ReadInv'
    BY <2>1, <2>2 DEF IInv, TypeOK, Row, Publisher, ReadInv, Delivered
  <2>7. ClaimInv'
    BY <2>1, <2>2, <2>3
       DEF IInv, TypeOK, Row, Publisher, ReadInv, ClaimInv, UpToDate,
           SnapshotWhere
  <2>8. OutboxInv'
    BY <2>1, <2>2
       DEF IInv, TypeOK, Publisher, ReadInv, OutboxInv, Delivered,
           DeliveryUncertain
  <2>9. CertainInv' /\ ClosedInv'
    BY <2>1, <2>2, <2>3, NullAssumption
       DEF CertainInv, ClosedInv, ClaimedWhere, Code
  <2>10. QED
    BY <2>4, <2>5, <2>6, <2>7, <2>8, <2>9 DEF IInv
<1>3. QED
  BY <1>1, <1>2

(* A failure closes the job only when it is certain, and otherwise leaves  *)
(* it within reach of the reconciler.                                      *)
LEMMA RecordFailureOK ==
    ASSUME IInv, NEW p \in Publishers, RecordFailure(p)
    PROVE  IInv'
<1> DEFINE Fence == ClaimedWhere(row, pub[p]) /\ (Terminates(pub[p]) => ~row.reserved)
<1>1. CASE ~Fence
  BY <1>1, PublisherReturns DEF IInv, TypeOK, RecordFailure
<1>2. ASSUME Fence
      PROVE  /\ row.status = "QUEUED" /\ row.next.by = "claim"
             /\ row.publishAttempts = pub[p].seen + 1
             /\ row.published = pub[p].published
             /\ row' = FailedRow(row, pub[p])
             /\ pub' \in [Publishers -> Publisher]
             /\ pub[p].pc = "failed" /\ pub'[p].pc = "idle"
             /\ \A r \in Publishers : r # p => pub'[r] = pub[r]
             /\ UNCHANGED <<msg, worker, sends, faults>>
  BY <1>2
     DEF IInv, TypeOK, RecordFailure, ClaimedWhere, ReturnPublisher,
         IdlePublisher, Publisher, Deadline, NoDeadline
<1>3. CASE Fence /\ Terminates(pub[p])
  <2>1. /\ row' \in Row
        /\ row'.status = "FAILED" /\ row'.next = NoDeadline /\ ~row'.waiting
        /\ row'.publishAttempts = row.publishAttempts
        /\ row'.published = row.published
        /\ row'.attempts = row.attempts /\ row'.reserved = row.reserved
        /\ row'.billed = row.billed /\ row'.expired = row.expired
    <3>1. NoDeadline \in Deadline
      BY DEF Deadline, NoDeadline
    <3>2. row' = [row EXCEPT !.status = "FAILED", !.next = NoDeadline,
                             !.waiting = FALSE, !.code = "PUBLISH_FAILED"]
      BY <1>2, <1>3 DEF FailedRow
    <3>3. QED
      BY <3>1, <3>2 DEF IInv, TypeOK, Row, Code, Terminal
  <2>2. NoDeadline.by = "none"
    BY DEF NoDeadline
  <2>3. TypeOK'
    BY <1>2, <1>3, <2>1 DEF IInv, TypeOK
  <2>4. RowInv' /\ QueueInv'
    BY <1>2, <1>3, <2>1, <2>2 DEF IInv, TypeOK, Row, RowInv, QueueInv, Terminal
  <2>5. ReadInv'
    BY <1>2, <1>3, <2>1 DEF IInv, ReadInv, Delivered
  <2>6. ClaimInv'
    BY <1>2, <1>3, <2>1, <2>2
       DEF IInv, TypeOK, Row, Publisher, ClaimInv, UpToDate, SnapshotWhere
  <2>7. OutboxInv' /\ CertainInv'
    BY <2>1, <2>2 DEF OutboxInv, CertainInv, ClaimedWhere
  <2>8. ClosedInv'
    <3> SUFFICES ASSUME row'.attempts = 0
                 PROVE  ~Delivered' /\ \A q \in Publishers : pub'[q].pc # "send"
      BY DEF ClosedInv
    <3>1. ~Delivered /\ \A q \in Publishers : pub[q].pc = "send" => q = p
      BY <1>2, <1>3, <2>1 DEF IInv, CertainInv, Terminates
    <3>2. QED
      BY <1>2, <1>3, <3>1 DEF Delivered
  <2>9. QED
    BY <2>3, <2>4, <2>5, <2>6, <2>7, <2>8 DEF IInv
<1>4. CASE Fence /\ ~Terminates(pub[p])
  <2>1. /\ row' \in Row
        /\ row'.status = "QUEUED"
        /\ row'.next = [by |-> "backoff", n |-> pub[p].seen + 1]
        /\ row'.publishAttempts = row.publishAttempts
        /\ row'.published = row.published
        /\ row'.attempts = row.attempts /\ row'.reserved = row.reserved
        /\ row'.billed = row.billed /\ row'.expired = row.expired
        /\ row'.code # "PUBLISH_FAILED"
        /\ pub[p].uncertain => row'.code \in UncertainCode
    <3> DEFINE c == IF pub[p].uncertain THEN "PUBLISH_DELIVERY_UNCERTAIN"
                    ELSE "PUBLISH_ATTEMPT_FAILED"
               d == [by |-> "backoff", n |-> pub[p].seen + 1]
    <3>1. /\ c \in Code /\ c # "PUBLISH_FAILED"
          /\ pub[p].uncertain => c \in UncertainCode
      BY DEF UncertainCode, Code
    <3>2. d \in Deadline
      BY DEF IInv, TypeOK, Publisher, Deadline
    <3>3. row' = [row EXCEPT !.next = d, !.waiting = TRUE, !.code = c]
      BY <1>2, <1>4 DEF FailedRow
    <3>4. d = [by |-> "backoff", n |-> pub[p].seen + 1]
      OBVIOUS
    <3> HIDE DEF c, d
    <3>5. QED
      BY <1>2, <1>4, <3>1, <3>2, <3>3, <3>4 DEF IInv, TypeOK, Row
  <2>2. row'.next \in Deadline /\ row'.next.by = "backoff" /\ row'.next # NoDeadline
    BY <2>1 DEF IInv, TypeOK, Publisher, Deadline, NoDeadline
  <2>3. TypeOK'
    BY <1>2, <1>4, <2>1, <2>2 DEF IInv, TypeOK
  <2>4. RowInv' /\ QueueInv'
    BY <1>2, <1>4, <2>1, <2>2 DEF IInv, TypeOK, Row, RowInv, QueueInv
  <2>5. ReadInv'
    BY <1>2, <1>4, <2>1 DEF IInv, ReadInv, Delivered
  <2>6. ClaimInv'
    BY <1>2, <1>4, <2>1, <2>2
       DEF IInv, TypeOK, Row, Publisher, ClaimInv, UpToDate, SnapshotWhere
  <2>7. Recoverable(row')
    <3>1. CASE pub[p].uncertain
      BY <2>1, <3>1 DEF Recoverable, RequiresPublishRecovery
    <3>2. CASE ~pub[p].uncertain
      <4>1. pub[p].published = 0 /\ (pub[p].reserved => row.reserved)
        BY <1>2, <1>4, <3>2 DEF IInv, ReadInv
      <4>2. pub[p].seen + 1 < PublishMax \/ pub[p].reserved
        BY <1>4, <3>2, <4>1, LimitAssumption
           DEF IInv, TypeOK, Publisher, Terminates
      <4>3. QED
        BY <1>2, <1>4, <2>1, <4>1, <4>2
           DEF Recoverable, RequiresPublishRecovery
    <3>3. QED
      BY <3>1, <3>2
  <2>8. row'.attempts = 0 /\ (Delivered' \/ \E q \in Publishers : pub'[q].pc = "send")
           => DeliveryUncertain(row')
    BY <1>2, <1>4, <2>1 DEF IInv, CertainInv, Delivered, DeliveryUncertain
  <2>9. OutboxInv'
    BY <2>7, <2>8 DEF OutboxInv
  <2>10. CertainInv' /\ ClosedInv'
    BY <2>1, <2>2 DEF CertainInv, ClosedInv, ClaimedWhere
  <2>11. QED
    BY <2>3, <2>4, <2>5, <2>6, <2>9, <2>10 DEF IInv
<1>5. QED
  BY <1>1, <1>3, <1>4

(* A crash leaves the row as the claim of the attempt wrote it.            *)
LEMMA PublisherCrashOK ==
    ASSUME IInv, NEW p \in Publishers, PublisherCrash(p)
    PROVE  IInv'
<1>1. faults' \in Nat
  BY DEF IInv, TypeOK, PublisherCrash, Fault
<1>2. QED
  BY <1>1, PublisherReturns DEF PublisherCrash

(* The queue: messages change state, the row does not.                     *)
LEMMA ReceiveOK ==
    ASSUME IInv, NEW m \in Messages, Receive(m)
    PROVE  IInv'
<1>1. TypeOK'
  BY DEF IInv, Receive, TypeOK, Message
<1>2. RowInv'
  BY DEF IInv, Receive, RowInv
<1>3. QueueInv'
  BY DEF IInv, Receive, TypeOK, QueueInv
<1>4. ReadInv'
  BY DEF IInv, Receive, ReadInv, Delivered
<1>5. ClaimInv'
  BY DEF IInv, Receive, ClaimInv
<1>6. OutboxInv'
  BY DEF IInv, Receive, Waiting, OutboxInv, Delivered
<1>7. CertainInv'
  BY DEF IInv, Receive, Waiting, CertainInv, Delivered
<1>8. ClosedInv'
  BY DEF IInv, Receive, Waiting, ClosedInv, Delivered
<1>9. QED
  BY <1>1, <1>2, <1>3, <1>4, <1>5, <1>6, <1>7, <1>8 DEF IInv

(* A dead letter counts as delivered.                                      *)
LEMMA DeadLetterOK ==
    ASSUME IInv, NEW m \in Messages, DeadLetter(m)
    PROVE  IInv'
<1>1. TypeOK'
  BY DEF IInv, DeadLetter, TypeOK, Message
<1>2. RowInv'
  BY DEF IInv, DeadLetter, RowInv
<1>3. QueueInv'
  BY DEF IInv, DeadLetter, Waiting, QueueInv
<1>4. ReadInv'
  BY DEF IInv, DeadLetter, ReadInv, Delivered
<1>5. ClaimInv'
  BY DEF IInv, DeadLetter, ClaimInv
<1>6. OutboxInv'
  BY DEF IInv, DeadLetter, Waiting, OutboxInv, Delivered
<1>7. CertainInv'
  BY DEF IInv, DeadLetter, Waiting, CertainInv, Delivered
<1>8. ClosedInv'
  BY DEF IInv, DeadLetter, Waiting, ClosedInv, Delivered
<1>9. QED
  BY <1>1, <1>2, <1>3, <1>4, <1>5, <1>6, <1>7, <1>8 DEF IInv

(* A message that comes back was delivered before.                         *)
LEMMA VisibilityTimeoutOK ==
    ASSUME IInv, NEW m \in Messages, VisibilityTimeout(m)
    PROVE  IInv'
<1>1. TypeOK'
  BY DEF IInv, VisibilityTimeout, TypeOK, Message
<1>2. RowInv'
  BY DEF IInv, VisibilityTimeout, RowInv
<1>3. QueueInv'
  BY DEF IInv, VisibilityTimeout, QueueInv
<1>4. ReadInv'
  BY DEF IInv, VisibilityTimeout, ReadInv, Delivered
<1>5. ClaimInv'
  BY DEF IInv, VisibilityTimeout, ClaimInv
<1>6. OutboxInv'
  BY DEF IInv, VisibilityTimeout, OutboxInv, Delivered
<1>7. CertainInv'
  BY DEF IInv, VisibilityTimeout, CertainInv, Delivered
<1>8. ClosedInv'
  BY DEF IInv, VisibilityTimeout, ClosedInv, Delivered
<1>9. QED
  BY <1>1, <1>2, <1>3, <1>4, <1>5, <1>6, <1>7, <1>8 DEF IInv

(* Only the record of a closed job is acknowledged unclaimed.              *)
LEMMA RejectClaimOK ==
    ASSUME IInv, RejectClaim
    PROVE  IInv'
<1>1. TypeOK'
  BY DEF IInv, RejectClaim, Ack, Retry, TypeOK, Message
<1>2. RowInv'
  BY DEF IInv, RejectClaim, Ack, Retry, RowInv
<1>3. QueueInv'
  BY LimitAssumption
     DEF IInv, RejectClaim, Ack, Retry, ClaimKind, TypeOK, Row, Active,
         QueueInv
<1>4. ReadInv'
  BY DEF IInv, RejectClaim, Ack, Retry, TypeOK, Message, ReadInv, Delivered
<1>5. ClaimInv'
  BY DEF IInv, RejectClaim, ClaimInv
<1>6. OutboxInv'
  BY DEF IInv, RejectClaim, Ack, Retry, TypeOK, Message, QueueInv, OutboxInv,
         Delivered
<1>7. CertainInv'
  BY DEF IInv, RejectClaim, TypeOK, QueueInv, CertainInv, Delivered
<1>8. ClosedInv'
  BY DEF IInv, RejectClaim, TypeOK, QueueInv, ClosedInv, Delivered
<1>9. QED
  BY <1>1, <1>2, <1>3, <1>4, <1>5, <1>6, <1>7, <1>8 DEF IInv

(* A row whose deadline lies ahead is not claimed.                         *)
LEMMA WaitingIsNotClaimed ==
    ASSUME IInv, Claim
    PROVE  row.status \in Active /\ ~(row.status = "QUEUED" /\ row.waiting)
<1>1. row.status \in Active \cup Terminal /\ row.attempts \in Nat
  BY DEF IInv, TypeOK, Row
<1>2. CASE row.status \in Terminal
  BY <1>2 DEF Claim, ClaimKind, Terminal
<1>3. CASE row.status = "QUEUED" /\ row.attempts >= MaxAttempts
  <2>1. ClaimKind(row) = "MAX_ATTEMPTS"
    BY <1>1, <1>3, LimitAssumption DEF ClaimKind, Terminal
  <2>2. QED
    BY <2>1 DEF Claim
<1>4. CASE row.status = "QUEUED" /\ row.attempts < MaxAttempts
  <2>1. ClaimKind(row) = IF row.waiting THEN "NOT_NOW" ELSE "CLAIM"
    BY <1>1, <1>4, LimitAssumption DEF ClaimKind, Terminal
  <2>2. QED
    BY <1>4, <2>1 DEF Claim, Active
<1>5. CASE row.status = "RUNNING"
  BY <1>5 DEF Active
<1>6. QED
  BY <1>1, <1>2, <1>3, <1>4, <1>5, LimitAssumption DEF Active

(* A claim takes the job from the outbox: it is RUNNING, has no deadline,  *)
(* and has been attempted.                                                 *)
LEMMA ClaimOK ==
    ASSUME IInv, Claim
    PROVE  IInv'
<1>1. /\ row' \in Row
      /\ row'.status = "RUNNING" /\ row'.next = NoDeadline /\ ~row'.waiting
      /\ row.attempts <= row'.attempts /\ row'.attempts > 0
      /\ row.status \in Active
      /\ row.status = "QUEUED" => row.attempts < row'.attempts
      /\ row'.publishAttempts = row.publishAttempts
      /\ row'.published = row.published /\ row'.reserved = row.reserved
      /\ ~row'.expired /\ row'.code # "PUBLISH_FAILED"
  <2>1. row.billed => row.status = "RUNNING"
    BY DEF IInv, TypeOK, Row, RowInv, Claim, ClaimKind, Active, Terminal
  <2>2. row.status = "RUNNING" => row.next = NoDeadline /\ ~row.waiting
    BY DEF IInv, TypeOK
  <2>3. row.status \in Active /\ ~(row.status = "QUEUED" /\ row.waiting)
    BY WaitingIsNotClaimed
  <2>4. CASE row.billed
    <3>1. row' = [row EXCEPT !.expired = FALSE]
      BY <2>4 DEF Claim, RunningRow
    <3>2. /\ row \in Row /\ row.attempts > 0 /\ row.code # "PUBLISH_FAILED"
          /\ row.attempts \in Nat
      BY <2>1, <2>4 DEF IInv, TypeOK, RowInv, Row
    <3>3. row' \in Row /\ ~row'.expired
      BY <3>1, <3>2 DEF Row
    <3>4. /\ row'.status = row.status /\ row'.next = row.next
          /\ row'.waiting = row.waiting /\ row'.attempts = row.attempts
          /\ row'.publishAttempts = row.publishAttempts
          /\ row'.published = row.published /\ row'.reserved = row.reserved
          /\ row'.code = row.code
      BY <3>1, <3>2 DEF Row
    <3>5. QED
      BY <2>1, <2>2, <2>3, <2>4, <3>2, <3>3, <3>4
  <2>5. CASE ~row.billed
    <3> DEFINE n == row.attempts + 1
    <3>1. row' = [row EXCEPT !.status = "RUNNING", !.attempts = n,
                             !.code = NULL, !.next = NoDeadline, !.expired = FALSE]
      BY <2>5 DEF Claim, RunningRow
    <3>2. /\ NoDeadline \in Deadline /\ n \in Nat
          /\ "RUNNING" \in Active \cup Terminal /\ NULL \in Code \cup {NULL}
      BY DEF IInv, TypeOK, Row, Deadline, NoDeadline, Active
    <3>3. ~row.waiting
      BY <2>2, <2>3 DEF IInv, TypeOK, Active
    <3>4. row \in Row /\ row.attempts \in Nat
      BY DEF IInv, TypeOK, Row
    <3>8. n = row.attempts + 1
      OBVIOUS
    <3> HIDE DEF n
    <3>5. row' \in Row /\ ~row'.expired
      BY <3>1, <3>2, <3>4 DEF Row
    <3>6. /\ row'.status = "RUNNING" /\ row'.next = NoDeadline
          /\ row'.waiting = row.waiting /\ row'.attempts = n
          /\ row'.publishAttempts = row.publishAttempts
          /\ row'.published = row.published /\ row'.reserved = row.reserved
          /\ row'.code = NULL
      BY <3>1, <3>4 DEF Row
    <3>7. QED
      BY <2>3, <3>3, <3>4, <3>5, <3>6, <3>8, NullAssumption DEF Code
  <2>6. QED
    BY <2>3, <2>4, <2>5
<1>2. /\ worker.pc = "claim" /\ worker' = [worker EXCEPT !.pc = "run"]
      /\ UNCHANGED <<pub, msg, sends, faults>>
  BY DEF Claim
<1>3. NoDeadline.by = "none"
  BY DEF NoDeadline
<1>4. TypeOK'
  BY <1>1, <1>2 DEF IInv, TypeOK
<1>5. RowInv' /\ QueueInv'
  BY <1>1, <1>2, <1>3
     DEF IInv, TypeOK, RowInv, QueueInv, Claim, ClaimKind, Terminal
<1>6. ReadInv'
  BY <1>1, <1>2 DEF IInv, ReadInv, Delivered
<1>7. ClaimInv'
  <2> SUFFICES ASSUME NEW r \in Publishers, pub[r].pc = "claim",
                      pub[r].next.by = "retry"
               PROVE  pub[r].next.n < row'.attempts
    BY <1>1, <1>2, <1>3
       DEF IInv, TypeOK, Row, Publisher, Deadline, ClaimInv, UpToDate,
           SnapshotWhere
  <2>1. /\ pub[r].next.n <= row.attempts
        /\ row.status = "RUNNING" => pub[r].next.n < row.attempts
    BY DEF IInv, ClaimInv, UpToDate
  <2>2. row.status \in Active /\ row.attempts \in Nat /\ row'.attempts \in Nat
        /\ pub[r].next.n \in Nat
    BY <1>1 DEF IInv, TypeOK, Row, Publisher, Deadline
  <2>3. QED
    BY <1>1, <2>1, <2>2 DEF Active
<1>8. OutboxInv' /\ CertainInv' /\ ClosedInv'
  BY <1>1, <1>2, <1>3 DEF OutboxInv, CertainInv, ClosedInv, ClaimedWhere
<1>9. QED
  BY <1>4, <1>5, <1>6, <1>7, <1>8 DEF IInv

(* The job is closed, its record is not acknowledged.                      *)
LEMMA FinalizeClaimLimitOK ==
    ASSUME IInv, FinalizeClaimLimit
    PROVE  IInv'
<1>1. TypeOK'
  BY DEF IInv, FinalizeClaimLimit, Closed, Retry, TypeOK, Row, Code,
         UncertainCode, Deadline, NoDeadline, Publisher, Message, Active,
         Terminal
<1>2. RowInv'
  BY DEF IInv, FinalizeClaimLimit, Closed, Retry, NoDeadline, RowInv
<1>3. QueueInv'
  BY DEF IInv, FinalizeClaimLimit, Closed, Retry, Terminal, QueueInv
<1>4. ReadInv'
  BY DEF IInv, FinalizeClaimLimit, Closed, Retry, ReadInv, Delivered
<1>5. ClaimInv'
  BY DEF IInv, FinalizeClaimLimit, Closed, NoDeadline, ClaimInv, SnapshotWhere,
         UpToDate
<1>6. OutboxInv'
  BY DEF IInv, FinalizeClaimLimit, Closed, OutboxInv
<1>7. CertainInv'
  BY DEF IInv, FinalizeClaimLimit, Closed, CertainInv, ClaimedWhere
<1>8. ClosedInv'
  BY DEF IInv, FinalizeClaimLimit, Closed, ClosedInv
<1>9. QED
  BY <1>1, <1>2, <1>3, <1>4, <1>5, <1>6, <1>7, <1>8 DEF IInv

(* A reservation only widens what the reconciler selects.                  *)
LEMMA ReserveOK ==
    ASSUME IInv, Reserve
    PROVE  IInv'
<1>1. TypeOK'
  BY DEF IInv, Reserve, TypeOK, Row, Code, UncertainCode, Deadline, NoDeadline,
         Publisher, Message, Active, Terminal
<1>2. RowInv'
  BY DEF IInv, Reserve, RowInv
<1>3. QueueInv'
  BY DEF IInv, Reserve, QueueInv
<1>4. ReadInv'
  BY DEF IInv, Reserve, ReadInv, Delivered
<1>5. ClaimInv'
  BY DEF IInv, Reserve, ClaimInv, SnapshotWhere, DeliveryUncertain, UpToDate
<1>6. OutboxInv'
  BY DEF IInv, Reserve, OutboxInv, Delivered, Recoverable,
         RequiresPublishRecovery, DeliveryUncertain
<1>7. CertainInv'
  BY DEF IInv, Reserve, CertainInv, Delivered, ClaimedWhere
<1>8. ClosedInv'
  BY DEF IInv, Reserve, ClosedInv, Delivered
<1>9. QED
  BY <1>1, <1>2, <1>3, <1>4, <1>5, <1>6, <1>7, <1>8 DEF IInv

(* A charge is recorded on a RUNNING row.                                  *)
LEMMA RecordChargeOK ==
    ASSUME IInv, RecordCharge
    PROVE  IInv'
<1>1. TypeOK'
  BY DEF IInv, RecordCharge, TypeOK, Row, Code, UncertainCode, Deadline,
         NoDeadline, Publisher, Message, Active, Terminal
<1>2. RowInv'
  BY DEF IInv, RecordCharge, RowInv
<1>3. QueueInv'
  BY DEF IInv, RecordCharge, QueueInv
<1>4. ReadInv'
  BY DEF IInv, RecordCharge, ReadInv, Delivered
<1>5. ClaimInv'
  BY DEF IInv, RecordCharge, ClaimInv, SnapshotWhere, DeliveryUncertain,
         UpToDate
<1>6. OutboxInv'
  BY DEF IInv, RecordCharge, OutboxInv, Delivered, Recoverable,
         RequiresPublishRecovery, DeliveryUncertain
<1>7. CertainInv'
  BY DEF IInv, RecordCharge, CertainInv, Delivered, ClaimedWhere
<1>8. ClosedInv'
  BY DEF IInv, RecordCharge, ClosedInv, Delivered
<1>9. QED
  BY <1>1, <1>2, <1>3, <1>4, <1>5, <1>6, <1>7, <1>8 DEF IInv

(* The job is closed before its record is acknowledged.                    *)
LEMMA FinishOK ==
    ASSUME IInv, Finish
    PROVE  IInv'
<1>1. /\ row' \in Row
      /\ row'.status \in Terminal /\ row'.next = NoDeadline /\ ~row'.waiting
      /\ row'.attempts = row.attempts
      /\ row'.publishAttempts = row.publishAttempts
      /\ row'.published = row.published /\ row'.reserved = row.reserved
      /\ row'.code # "PUBLISH_FAILED"
  <2>1. CASE row' = Closed(row, "SUCCEEDED", NULL)
    BY <2>1, NullAssumption
       DEF IInv, TypeOK, Row, Code, Terminal, Deadline, NoDeadline, Closed
  <2>2. CASE row' = Closed(row, "FAILED", "WORKER_FAILURE")
    BY <2>2 DEF IInv, TypeOK, Row, Code, Terminal, Deadline, NoDeadline, Closed
  <2>3. QED
    BY <2>1, <2>2 DEF Finish
<1>2. /\ worker' = [pc |-> "idle", m |-> NULL] /\ UNCHANGED <<pub, sends, faults>>
      /\ msg' \in [Messages -> Message]
      /\ \A m \in Messages : msg[m].state # "unsent" => msg'[m].state # "unsent"
  BY DEF IInv, TypeOK, Message, Finish, Ack
<1>3. NoDeadline.by = "none"
  BY DEF NoDeadline
<1>4. TypeOK'
  BY <1>1, <1>2 DEF IInv, TypeOK, Terminal
<1>5. RowInv' /\ QueueInv'
  BY <1>1, <1>2, <1>3 DEF IInv, TypeOK, RowInv, QueueInv, Terminal
<1>6. ReadInv'
  BY <1>1, <1>2 DEF IInv, ReadInv, Delivered
<1>7. ClaimInv'
  BY <1>1, <1>2, <1>3
     DEF IInv, TypeOK, Row, Publisher, Deadline, ClaimInv, UpToDate,
         SnapshotWhere, Terminal
<1>8. OutboxInv' /\ CertainInv' /\ ClosedInv'
  BY <1>1, <1>2, <1>3
     DEF OutboxInv, CertainInv, ClosedInv, ClaimedWhere, Terminal
<1>9. QED
  BY <1>4, <1>5, <1>6, <1>7, <1>8 DEF IInv

(* A released job has been attempted, and its deadline is numbered by an   *)
(* attempt no call has read.                                               *)
LEMMA FailRetryablyOK ==
    ASSUME IInv, FailRetryably
    PROVE  IInv'
<1>1. TypeOK'
  BY DEF IInv, FailRetryably, Closed, ReleasedRow, Retry, TypeOK, Row, Code,
         UncertainCode, Deadline, NoDeadline, Publisher, Message, Active,
         Terminal
<1>2. RowInv'
  BY DEF IInv, FailRetryably, Closed, ReleasedRow, Retry, NoDeadline, RowInv
<1>3. QueueInv'
  BY DEF IInv, FailRetryably, Retry, Terminal, RowInv, QueueInv
<1>4. ReadInv'
  BY DEF IInv, FailRetryably, Closed, ReleasedRow, Retry, ReadInv, Delivered
<1>5. ClaimInv'
  BY DEF IInv, FailRetryably, Closed, ReleasedRow, TypeOK, Deadline, Publisher,
         RowInv, ClaimInv, UpToDate
<1>6. OutboxInv'
  BY DEF IInv, FailRetryably, Closed, ReleasedRow, Retry, TypeOK, RowInv,
         QueueInv, OutboxInv, Delivered
<1>7. CertainInv'
  BY DEF IInv, FailRetryably, Closed, ReleasedRow, CertainInv, ClaimedWhere
<1>8. ClosedInv'
  BY DEF IInv, FailRetryably, Closed, ReleasedRow, ClosedInv
<1>9. QED
  BY <1>1, <1>2, <1>3, <1>4, <1>5, <1>6, <1>7, <1>8 DEF IInv

(* The message stays in flight.                                            *)
LEMMA WorkerCrashOK ==
    ASSUME IInv, WorkerCrash
    PROVE  IInv'
<1>1. TypeOK'
  BY DEF IInv, WorkerCrash, Retry, Fault, TypeOK
<1>2. RowInv'
  BY DEF IInv, WorkerCrash, Retry, RowInv
<1>3. QueueInv'
  BY DEF IInv, WorkerCrash, Retry, QueueInv
<1>4. ReadInv'
  BY DEF IInv, WorkerCrash, Retry, ReadInv, Delivered
<1>5. ClaimInv'
  BY DEF IInv, WorkerCrash, ClaimInv
<1>6. OutboxInv'
  BY DEF IInv, WorkerCrash, Retry, OutboxInv, Delivered
<1>7. CertainInv'
  BY DEF IInv, WorkerCrash, Retry, CertainInv, Delivered
<1>8. ClosedInv'
  BY DEF IInv, WorkerCrash, Retry, ClosedInv, Delivered
<1>9. QED
  BY <1>1, <1>2, <1>3, <1>4, <1>5, <1>6, <1>7, <1>8 DEF IInv

(* The job is closed by the API.                                           *)
LEMMA RecoverStaleOK ==
    ASSUME IInv, RecoverStale
    PROVE  IInv'
<1>1. TypeOK'
  BY DEF IInv, RecoverStale, Closed, TypeOK, Row, Code, UncertainCode,
         Deadline, NoDeadline, Publisher, Message, Active, Terminal
<1>2. RowInv'
  BY DEF IInv, RecoverStale, Closed, NoDeadline, RowInv
<1>3. QueueInv'
  BY DEF IInv, RecoverStale, Terminal, QueueInv
<1>4. ReadInv'
  BY DEF IInv, RecoverStale, Closed, ReadInv, Delivered
<1>5. ClaimInv'
  BY DEF IInv, RecoverStale, Closed, NoDeadline, ClaimInv, SnapshotWhere,
         UpToDate
<1>6. OutboxInv'
  BY DEF IInv, RecoverStale, Closed, OutboxInv
<1>7. CertainInv'
  BY DEF IInv, RecoverStale, Closed, CertainInv, ClaimedWhere
<1>8. ClosedInv'
  BY DEF IInv, RecoverStale, Closed, ClosedInv
<1>9. QED
  BY <1>1, <1>2, <1>3, <1>4, <1>5, <1>6, <1>7, <1>8 DEF IInv

(* Time moves no column that is compared for equality.                     *)
LEMMA DeadlinePassesOK ==
    ASSUME IInv, DeadlinePasses
    PROVE  IInv'
<1>1. TypeOK'
  BY DEF IInv, DeadlinePasses, TypeOK, Row, Code, UncertainCode, Deadline,
         NoDeadline, Publisher, Message, Active, Terminal
<1>2. RowInv'
  BY DEF IInv, DeadlinePasses, RowInv
<1>3. QueueInv'
  BY DEF IInv, DeadlinePasses, QueueInv
<1>4. ReadInv'
  BY DEF IInv, DeadlinePasses, ReadInv, Delivered
<1>5. ClaimInv'
  BY DEF IInv, DeadlinePasses, ClaimInv, SnapshotWhere, DeliveryUncertain,
         UpToDate
<1>6. OutboxInv'
  BY DEF IInv, DeadlinePasses, OutboxInv, Delivered, Recoverable,
         RequiresPublishRecovery, DeliveryUncertain
<1>7. CertainInv'
  BY DEF IInv, DeadlinePasses, CertainInv, Delivered, ClaimedWhere
<1>8. ClosedInv'
  BY DEF IInv, DeadlinePasses, ClosedInv, Delivered
<1>9. QED
  BY <1>1, <1>2, <1>3, <1>4, <1>5, <1>6, <1>7, <1>8 DEF IInv

(* Time: the publication ages.                                             *)
LEMMA PublicationAgesOK ==
    ASSUME IInv, PublicationAges
    PROVE  IInv'
<1>1. TypeOK'
  BY DEF IInv, PublicationAges, TypeOK, Row, Code, UncertainCode, Deadline,
         NoDeadline, Publisher, Message, Active, Terminal
<1>2. RowInv'
  BY DEF IInv, PublicationAges, RowInv
<1>3. QueueInv'
  BY DEF IInv, PublicationAges, QueueInv
<1>4. ReadInv'
  BY DEF IInv, PublicationAges, ReadInv, Delivered
<1>5. ClaimInv'
  BY DEF IInv, PublicationAges, ClaimInv, SnapshotWhere, DeliveryUncertain,
         UpToDate
<1>6. OutboxInv'
  BY DEF IInv, PublicationAges, OutboxInv, Delivered, Recoverable,
         RequiresPublishRecovery, DeliveryUncertain
<1>7. CertainInv'
  BY DEF IInv, PublicationAges, CertainInv, Delivered, ClaimedWhere
<1>8. ClosedInv'
  BY DEF IInv, PublicationAges, ClosedInv, Delivered
<1>9. QED
  BY <1>1, <1>2, <1>3, <1>4, <1>5, <1>6, <1>7, <1>8 DEF IInv

(* Time: the lease of a dead invocation expires.                           *)
LEMMA LeaseExpiresOK ==
    ASSUME IInv, LeaseExpires
    PROVE  IInv'
<1>1. TypeOK'
  BY DEF IInv, LeaseExpires, TypeOK, Row, Code, UncertainCode, Deadline,
         NoDeadline, Publisher, Message, Active, Terminal
<1>2. RowInv'
  BY DEF IInv, LeaseExpires, RowInv
<1>3. QueueInv'
  BY DEF IInv, LeaseExpires, QueueInv
<1>4. ReadInv'
  BY DEF IInv, LeaseExpires, ReadInv, Delivered
<1>5. ClaimInv'
  BY DEF IInv, LeaseExpires, ClaimInv, SnapshotWhere, UpToDate
<1>6. OutboxInv'
  BY DEF IInv, LeaseExpires, OutboxInv
<1>7. CertainInv'
  BY DEF IInv, LeaseExpires, CertainInv, ClaimedWhere
<1>8. ClosedInv'
  BY DEF IInv, LeaseExpires, ClosedInv, Delivered
<1>9. QED
  BY <1>1, <1>2, <1>3, <1>4, <1>5, <1>6, <1>7, <1>8 DEF IInv

-----------------------------------------------------------------------------
(* The invariant holds initially ...                                       *)
LEMMA InitOK == Init => IInv
<1> SUFFICES ASSUME Init PROVE IInv
  OBVIOUS
<1>1. TypeOK
  BY DEF Init, TypeOK, Row, Active, Deadline, NoDeadline, Publisher,
         IdlePublisher, Message
<1>2. RowInv /\ QueueInv /\ ReadInv /\ ClaimInv
  BY NullAssumption DEF Init, RowInv, QueueInv, ReadInv, ClaimInv, Code,
                        IdlePublisher, NoDeadline
<1>3. OutboxInv /\ CertainInv /\ ClosedInv
  BY NullAssumption, LimitAssumption
     DEF Init, OutboxInv, CertainInv, ClosedInv, Recoverable, Delivered, Code,
         IdlePublisher
<1>4. QED
  BY <1>1, <1>2, <1>3 DEF IInv

(* ... depends on nothing but the variables ...                            *)
LEMMA StutterOK == IInv /\ UNCHANGED vars => IInv'
BY DEF vars, IInv, TypeOK, RowInv, QueueInv, ReadInv, ClaimInv, OutboxInv,
       CertainInv, ClosedInv, UpToDate, SnapshotWhere, DeliveryUncertain,
       ClaimedWhere, Recoverable, RequiresPublishRecovery, Delivered

(* ... and is preserved by every step.                                     *)
LEMMA NextOK == IInv /\ [Next]_vars => IInv'
<1> SUFFICES ASSUME IInv, [Next]_vars PROVE IInv'
  OBVIOUS
<1>1. CASE UNCHANGED vars
  BY <1>1, StutterOK
<1>2. ASSUME NEW p \in Publishers, NEW b \in BOOLEAN, ReadDue(p, b)
      PROVE  IInv'
  BY <1>2, ReadDueOK
<1>3. ASSUME NEW p \in Publishers,
             PublishStep(p) \/ SendRejected(p) \/ SendUncertain(p) \/ PublisherCrash(p)
      PROVE  IInv'
  BY <1>3, ClaimAttemptOK, SendAcceptedOK, MarkPublishedOK, RecordFailureOK,
     SendRejectedOK, SendUncertainOK, PublisherCrashOK DEF PublishStep
<1>4. ASSUME NEW m \in Messages, QueueStep(m)
      PROVE  IInv'
  BY <1>4, ReceiveOK, DeadLetterOK, VisibilityTimeoutOK DEF QueueStep
<1>5. CASE WorkStep
  BY <1>5, RejectClaimOK, ClaimOK, FinalizeClaimLimitOK, FinishOK,
     FailRetryablyOK DEF WorkStep
<1>6. CASE Reserve \/ RecordCharge \/ WorkerCrash \/ RecoverStale
  BY <1>6, ReserveOK, RecordChargeOK, WorkerCrashOK, RecoverStaleOK
<1>7. CASE Clock
  BY <1>7, DeadlinePassesOK, PublicationAgesOK, LeaseExpiresOK DEF Clock
<1>8. QED
  BY <1>1, <1>2, <1>3, <1>4, <1>5, <1>6, <1>7 DEF Next

(* The inductive invariant holds in every reachable state.                 *)
THEOREM Invariance == Spec => []IInv
BY InitOK, NextOK, PTL DEF Spec

(* Types, the deadline of a running job included: the worker's claim of a  *)
(* queued row clears nextPublishAt.                                        *)
THEOREM DeliveryTypeCorrect == Spec => []TypeOK
<1>1. IInv => TypeOK
  BY DEF IInv
<1>2. QED
  BY Invariance, <1>1, PTL

(* A queued job is within the reach of the reconciler, or a message for    *)
(* it exists, for any number of publish calls, crashes and message copies. *)
THEOREM NothingForgotten == Spec => []NeverForgotten
<1>1. IInv => NeverForgotten
  <2> SUFFICES ASSUME IInv, row.status = "QUEUED", ~Recoverable(row)
               PROVE  \E m \in Messages : msg[m].state \in {"ready", "inflight", "dead"}
    BY DEF NeverForgotten
  <2>1. PICK m \in Messages : msg[m].state # "unsent"
    BY DEF IInv, OutboxInv, Delivered
  <2>2. msg[m].state # "acked"
    BY DEF IInv, QueueInv, Terminal
  <2>3. msg[m].state \in {"ready", "inflight", "dead"}
    BY <2>1, <2>2 DEF IInv, TypeOK, Message
  <2>4. QED
    BY <2>3
<1>2. QED
  BY Invariance, <1>1, PTL

(* The publisher closes a job that no worker has taken only when the queue *)
(* never accepted a message for it.                                        *)
THEOREM UnpublishableIsUndelivered == Spec => []UnpublishableWasNotDelivered
<1>1. IInv => UnpublishableWasNotDelivered
  BY DEF IInv, ClosedInv, UnpublishableWasNotDelivered
<1>2. QED
  BY Invariance, <1>1, PTL

(* A waiting retry deadline survives every step of every other actor, as   *)
(* long as the job stays queued.                                           *)
THEOREM RetryDeadlineIsKept == Spec => RetryDeadlineKept
<1> DEFINE Kept == row.next.by = "retry" /\ row.waiting /\ row'.status = "QUEUED"
                      => row'.next = row.next
<1>1. IInv /\ [Next]_vars => Kept
  <2> SUFFICES ASSUME IInv, [Next]_vars, row.next.by = "retry", row.waiting,
                      row'.status = "QUEUED"
               PROVE  row'.next = row.next
    OBVIOUS
  <2>1. /\ row.status = "QUEUED" /\ worker.pc # "run"
    BY DEF IInv, RowInv
  <2>2. ASSUME NEW p \in Publishers, ClaimAttempt(p)
        PROVE  row' = row
    <3>1. ~SnapshotWhere(row, pub[p])
      BY <2>2 DEF IInv, ClaimInv, UpToDate, SnapshotWhere, ClaimAttempt
    <3>2. QED
      BY <2>2, <3>1 DEF ClaimAttempt
  <2>3. ASSUME NEW p \in Publishers, MarkPublished(p) \/ RecordFailure(p)
        PROVE  row' = row
    BY <2>3 DEF ClaimedWhere, MarkPublished, RecordFailure
  <2>4. ASSUME NEW p \in Publishers, NEW b \in BOOLEAN,
               \/ ReadDue(p, b) \/ SendAccepted(p) \/ SendRejected(p)
               \/ SendUncertain(p) \/ PublisherCrash(p)
        PROVE  row' = row
    BY <2>4
       DEF ReadDue, SendAccepted, SendRejected, SendUncertain, PublisherCrash
  <2>5. ASSUME NEW m \in Messages, QueueStep(m)
        PROVE  row' = row
    BY <2>5 DEF QueueStep, Receive, DeadLetter, VisibilityTimeout
  <2>6. CASE WorkStep \/ Reserve \/ RecordCharge \/ WorkerCrash \/ RecoverStale
    <3>1. ~Claim
      BY <2>1, WaitingIsNotClaimed
    <3>2. ~FinalizeClaimLimit
      <4> SUFFICES ASSUME FinalizeClaimLimit PROVE row'.status = "FAILED"
        OBVIOUS
      <4>1. row' = [row EXCEPT !.status = "FAILED", !.next = NoDeadline,
                               !.waiting = FALSE, !.expired = FALSE,
                               !.code = "WORKER_FAILURE"]
        BY DEF FinalizeClaimLimit, Closed
      <4>2. row \in Row
        BY DEF IInv, TypeOK
      <4>3. QED
        BY <4>1, <4>2 DEF Row
    <3>3. QED
      BY <2>1, <2>6, <3>1, <3>2
         DEF WorkStep, RejectClaim, Finish, FailRetryably,
         Reserve, RecordCharge, WorkerCrash, RecoverStale
  <2>7. CASE Clock
    BY <2>7
       DEF Clock, DeadlinePasses, PublicationAges, LeaseExpires, IInv, TypeOK,
           Row
  <2>8. CASE UNCHANGED vars
    BY <2>8 DEF vars
  <2>9. QED
    BY <2>2, <2>3, <2>4, <2>5, <2>6, <2>7, <2>8 DEF Next, PublishStep
<1>2. QED
  BY Invariance, <1>1, PTL DEF Spec, RetryDeadlineKept

-----------------------------------------------------------------------------
(* Counting. *)

Busy == {"send", "mark", "failed"}
Sending == {p \in Publishers : pub[p].pc = "send"}

(* A call between its claim and its send has an attempt of its own in      *)
(* publishAttempts that sends does not count yet; calls past their claim   *)
(* have claimed different attempts.                                        *)
SendsInv ==
    /\ IsFiniteSet(Sending)
    /\ sends + Cardinality(Sending) <= row.publishAttempts
    /\ \A p, q \in Publishers :
          pub[p].pc \in Busy /\ pub[q].pc \in Busy /\ pub[p].seen = pub[q].seen => p = q

(* A step that claims and sends nothing; calls may return.                 *)
QuietStep ==
    /\ sends' = sends /\ row'.publishAttempts = row.publishAttempts
    /\ \A q \in Publishers :
          \/ pub'[q].pc = pub[q].pc /\ pub'[q].seen = pub[q].seen
          \/ pub'[q].pc \notin Busy

LEMMA QuietKeepsCount ==
    ASSUME IInv, SendsInv, QuietStep
    PROVE  SendsInv'
<1>1. Sending' \in SUBSET Sending
  BY DEF QuietStep, Sending, Busy
<1>2. IsFiniteSet(Sending') /\ Cardinality(Sending') <= Cardinality(Sending)
  BY <1>1, FS_Subset DEF SendsInv
<1>3. Cardinality(Sending') \in Nat /\ Cardinality(Sending) \in Nat
  BY <1>2, FS_CardinalityType DEF SendsInv
<1>4. sends \in Nat /\ row.publishAttempts \in Nat
  BY DEF IInv, TypeOK, Row
<1>5. sends' + Cardinality(Sending') <= row'.publishAttempts
  BY <1>2, <1>3, <1>4 DEF SendsInv, QuietStep
<1>6. ASSUME NEW p \in Publishers, NEW q \in Publishers,
             pub'[p].pc \in Busy, pub'[q].pc \in Busy, pub'[p].seen = pub'[q].seen
      PROVE  p = q
  BY <1>6 DEF SendsInv, QuietStep
<1>7. QED
  BY <1>2, <1>5, <1>6 DEF SendsInv

(* A claim that succeeds: no other call has this attempt number.           *)
LEMMA ClaimKeepsCount ==
    ASSUME IInv, SendsInv, NEW p \in Publishers, ClaimAttempt(p)
    PROVE  SendsInv'
<1>1. CASE ~SnapshotWhere(row, pub[p])
  <2>1. QuietStep
    BY <1>1 DEF IInv, TypeOK, ClaimAttempt, ReturnPublisher, IdlePublisher, QuietStep, Busy
  <2>2. QED
    BY <2>1, QuietKeepsCount
<1>2. CASE SnapshotWhere(row, pub[p])
  <2>1. /\ row'.publishAttempts = row.publishAttempts + 1
        /\ row.publishAttempts = pub[p].seen /\ sends' = sends
    BY <1>2 DEF IInv, TypeOK, Row, ClaimAttempt, AttemptRow, SnapshotWhere
  <2>2. /\ pub[p].pc = "claim" /\ pub'[p].pc = "send" /\ pub'[p].seen = pub[p].seen
        /\ \A r \in Publishers : r # p => pub'[r] = pub[r]
    BY <1>2 DEF IInv, TypeOK, Publisher, ClaimAttempt
  <2>3. Sending' = Sending \cup {p} /\ p \notin Sending
    BY <2>2 DEF Sending
  <2>4. IsFiniteSet(Sending') /\ Cardinality(Sending') = Cardinality(Sending) + 1
    BY <2>3, FS_AddElement DEF SendsInv
  <2>5. Cardinality(Sending) \in Nat /\ sends \in Nat /\ row.publishAttempts \in Nat
    BY FS_CardinalityType DEF SendsInv, IInv, TypeOK, Row
  <2>6. sends' + Cardinality(Sending') <= row'.publishAttempts
    BY <2>1, <2>4, <2>5 DEF SendsInv
  <2>7. \A q \in Publishers : pub[q].pc \in Busy => pub[q].seen # row.publishAttempts
    BY DEF IInv, TypeOK, Row, Publisher, ReadInv, Busy
  <2>8. ASSUME NEW r \in Publishers, NEW q \in Publishers,
               pub'[r].pc \in Busy, pub'[q].pc \in Busy, pub'[r].seen = pub'[q].seen
        PROVE  r = q
    BY <2>1, <2>2, <2>7, <2>8 DEF SendsInv
  <2>9. QED
    BY <2>4, <2>6, <2>8 DEF SendsInv
<1>3. QED
  BY <1>1, <1>2

(* A send uses up the attempt its call has claimed.                        *)
LEMMA SendKeepsCount ==
    ASSUME IInv, SendsInv, NEW p \in Publishers,
           SendAccepted(p) \/ SendRejected(p) \/ SendUncertain(p)
    PROVE  SendsInv'
<1>1. /\ pub[p].pc = "send" /\ pub'[p].pc \in {"mark", "failed"}
      /\ pub'[p].seen = pub[p].seen
      /\ \A r \in Publishers : r # p => pub'[r] = pub[r]
      /\ sends' = sends + 1 /\ row' = row
  BY DEF IInv, TypeOK, Publisher, SendAccepted, SendRejected, SendUncertain
<1>2. Sending' = Sending \ {p} /\ p \in Sending
  BY <1>1 DEF Sending
<1>3. IsFiniteSet(Sending') /\ Cardinality(Sending') = Cardinality(Sending) - 1
  BY <1>2, FS_RemoveElement DEF SendsInv
<1>4. Cardinality(Sending) \in Nat /\ sends \in Nat /\ row.publishAttempts \in Nat
  BY FS_CardinalityType DEF SendsInv, IInv, TypeOK, Row
<1>5. sends' + Cardinality(Sending') <= row'.publishAttempts
  BY <1>1, <1>3, <1>4 DEF SendsInv
<1>6. ASSUME NEW r \in Publishers, NEW q \in Publishers,
             pub'[r].pc \in Busy, pub'[q].pc \in Busy, pub'[r].seen = pub'[q].seen
      PROVE  r = q
  BY <1>1, <1>6 DEF SendsInv, Busy
<1>7. QED
  BY <1>3, <1>5, <1>6 DEF SendsInv

(* Everybody else is quiet.                                                *)
LEMMA OthersAreQuiet ==
    ASSUME IInv,
           \/ \E p \in Publishers :
                 \/ \E b \in BOOLEAN : ReadDue(p, b)
                 \/ MarkPublished(p) \/ RecordFailure(p) \/ PublisherCrash(p)
           \/ \E m \in Messages : QueueStep(m)
           \/ WorkStep \/ Reserve \/ RecordCharge \/ WorkerCrash \/ RecoverStale \/ Clock
           \/ UNCHANGED vars
    PROVE  QuietStep
<1>1. row \in Row /\ pub \in [Publishers -> Publisher]
  BY DEF IInv, TypeOK
<1>2. CASE sends' = sends /\ pub' = pub /\ row'.publishAttempts = row.publishAttempts
  BY <1>2, Zenon DEF QuietStep
<1>3. ASSUME NEW p \in Publishers, NEW b \in BOOLEAN, ReadDue(p, b) PROVE QuietStep
  BY <1>1, <1>3 DEF ReadDue, QuietStep, Busy
<1>4. ASSUME NEW p \in Publishers, MarkPublished(p) \/ RecordFailure(p) \/ PublisherCrash(p)
      PROVE  QuietStep
  <2>1. \A q \in Publishers : pub'[q] = pub[q] \/ pub'[q].pc \notin Busy
    <3>1. ReturnPublisher(p)
      BY <1>4 DEF MarkPublished, RecordFailure, PublisherCrash
    <3>2. IdlePublisher.pc \notin Busy
      BY DEF IdlePublisher, Busy
    <3>3. QED
      BY <1>1, <3>1, <3>2 DEF ReturnPublisher
  <2>2. row'.publishAttempts = row.publishAttempts
    <3>1. FailedRow(row, pub[p]).publishAttempts = row.publishAttempts
      BY <1>1 DEF FailedRow, Row
    <3>2. CASE RecordFailure(p)
      BY <3>1, <3>2 DEF RecordFailure
    <3>3. CASE MarkPublished(p) \/ PublisherCrash(p)
      BY <1>1, <3>3 DEF MarkPublished, PublisherCrash, Row
    <3>4. QED
      BY <1>4, <3>2, <3>3
  <2>3. sends' = sends
    BY <1>4 DEF MarkPublished, RecordFailure, PublisherCrash
  <2>4. QED
    BY <2>1, <2>2, <2>3 DEF QuietStep
<1>5. ASSUME NEW m \in Messages, QueueStep(m) PROVE QuietStep
  BY <1>2, <1>5 DEF QueueStep, Receive, DeadLetter, VisibilityTimeout
<1>6. CASE WorkStep
  <2>1. sends' = sends /\ pub' = pub
    BY <1>6 DEF WorkStep, RejectClaim, Claim, FinalizeClaimLimit, Finish, FailRetryably
  <2>2. CASE RejectClaim
    BY <1>2, <2>1, <2>2 DEF RejectClaim
  <2>3. CASE Claim
    <3>1. row'.publishAttempts = row.publishAttempts
      BY <1>1, <2>3 DEF Claim, RunningRow, Row
    <3>2. QED
      BY <1>2, <2>1, <3>1
  <2>4. CASE FinalizeClaimLimit \/ Finish
    <3>1. row'.publishAttempts = row.publishAttempts
      BY <1>1, <2>4 DEF FinalizeClaimLimit, Finish, Closed, Row
    <3>2. QED
      BY <1>2, <2>1, <3>1
  <2>5. CASE FailRetryably
    <3>1. row'.publishAttempts = row.publishAttempts
      BY <1>1, <2>5 DEF FailRetryably, Closed, ReleasedRow, Row
    <3>2. QED
      BY <1>2, <2>1, <3>1
  <2>6. QED
    BY <1>6, <2>2, <2>3, <2>4, <2>5 DEF WorkStep
<1>7. CASE Reserve \/ RecordCharge \/ WorkerCrash \/ RecoverStale
  <2>1. row'.publishAttempts = row.publishAttempts
    BY <1>1, <1>7 DEF Reserve, RecordCharge, WorkerCrash, RecoverStale, Closed, Row
  <2>2. QED
    BY <1>2, <1>7, <2>1 DEF Reserve, RecordCharge, WorkerCrash, RecoverStale
<1>8. CASE Clock
  <2>1. row'.publishAttempts = row.publishAttempts
    BY <1>1, <1>8 DEF Clock, DeadlinePasses, PublicationAges, LeaseExpires, Row
  <2>2. QED
    BY <1>2, <1>8, <2>1 DEF Clock, DeadlinePasses, PublicationAges, LeaseExpires
<1>9. CASE UNCHANGED vars
  BY <1>2, <1>9 DEF vars
<1>10. QED
  BY <1>3, <1>4, <1>5, <1>6, <1>7, <1>8, <1>9

LEMMA SendsInit == Init => SendsInv
<1> SUFFICES ASSUME Init PROVE SendsInv
  OBVIOUS
<1>1. \A p \in Publishers : pub[p].pc = "idle"
  BY DEF Init, IdlePublisher
<1>2. Sending = {} /\ sends = 0 /\ row.publishAttempts = 0
  BY <1>1 DEF Sending, Init
<1>3. QED
  BY <1>1, <1>2, FS_EmptySet DEF SendsInv, Busy

LEMMA SendsNext == IInv /\ SendsInv /\ [Next]_vars => SendsInv'
<1> SUFFICES ASSUME IInv, SendsInv, [Next]_vars PROVE SendsInv'
  OBVIOUS
<1>1. ASSUME NEW p \in Publishers, ClaimAttempt(p) PROVE SendsInv'
  BY <1>1, ClaimKeepsCount
<1>2. ASSUME NEW p \in Publishers, SendAccepted(p) \/ SendRejected(p) \/ SendUncertain(p)
      PROVE  SendsInv'
  BY <1>2, SendKeepsCount
<1>3. CASE QuietStep
  BY <1>3, QuietKeepsCount
<1>4. QED
  BY <1>1, <1>2, <1>3, OthersAreQuiet DEF Next, PublishStep

(* Each SendMessage was counted in publishAttempts before it was made, by  *)
(* one call alone, for any number of concurrent publish calls: the claim   *)
(* compares the counter it has read (claimAttempt).                        *)
THEOREM EverySendIsCounted == Spec => []SendsAreCounted
<1>1. IInv /\ SendsInv => SendsAreCounted
  <2> SUFFICES ASSUME IInv, SendsInv PROVE SendsAreCounted
    OBVIOUS
  <2>1. Cardinality(Sending) \in Nat /\ sends \in Nat /\ row.publishAttempts \in Nat
    BY FS_CardinalityType DEF SendsInv, IInv, TypeOK, Row
  <2>2. sends <= row.publishAttempts
    BY <2>1 DEF SendsInv
  <2>3. QED
    BY <2>2 DEF SendsInv, SendsAreCounted, Busy
<1>2. Spec => []SendsInv
  BY SendsInit, SendsNext, Invariance, PTL DEF Spec
<1>3. QED
  BY <1>1, <1>2, Invariance, PTL
=============================================================================
