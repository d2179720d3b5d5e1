-------------------------- MODULE WorkerRedelivery --------------------------
(***************************************************************************)
(* AnalysisWorker with the deliveries SQS really makes: the message of a   *)
(* job is received at most maxReceiveCount times and then moves to the     *)
(* dead-letter queue, and the receive count tells an invocation which      *)
(* receive is its last.  How messages get into the queue, and how a job    *)
(* comes to have several, is the subject of JobDelivery.                   *)
(***************************************************************************)
EXTENDS AnalysisWorker

CONSTANT MaxReceives     \* maxReceiveCount of the redrive policy
ASSUME ReceivesAssumption == MaxReceives \in Nat \ {0}

VARIABLES
    receives,   \* ApproximateReceiveCount of a job's message
    abandoned   \* jobs given up when no receive was left (auxiliary)

queue == <<receives, abandoned>>
redeliveryVars == <<vars, queue>>

Exhausted(j) == receives[j] >= MaxReceives

RedeliveryInit ==
    /\ Init
    /\ receives = [j \in Jobs |-> 0]
    /\ abandoned = {}

Count(j) ==
    /\ ~Exhausted(j)
    /\ receives' = [receives EXCEPT ![j] = @ + 1]
    /\ UNCHANGED abandoned

(* A receive that leads to a claim, the limit or a billed take-over.       *)
Receive(w, j) ==
    /\ Count(j)
    /\ Deliver(w, j, receives[j] + 1 >= MaxAttempts)

(* A receive that finds the retry not due yet (NOT_DUE), or a live holder  *)
(* (ACTIVE_LEASE).  The visibility timeout outlasts a lease, so that the   *)
(* message does not come back between the death of a holder and the end of *)
(* its lease.                                                              *)
ReceiveInVain(j) ==
    /\ Count(j)
    /\ j \notin SyncJobs /\ ClaimKind(job[j]) = "idle"
    /\ \/ job[j].status = "QUEUED"
       \/ job[j].status = "RUNNING" /\ J(job[j].lease) = j
    /\ UNCHANGED vars

(* The reconciler publishes a queued job again; the new message starts     *)
(* with a count of its own.                                                *)
Republish(j) ==
    /\ job[j].status = "QUEUED" /\ ~job[j].waiting /\ receives[j] > 0
    /\ receives' = [receives EXCEPT ![j] = 0]
    /\ UNCHANGED <<vars, abandoned>>

(* An invocation dies, or fails while it holds a job with a recorded       *)
(* charge, which handleClaimedFailure leaves RUNNING for the next receive. *)
GivesUp(w) ==
    \/ Crash(w)
    \/ /\ HandleClaimedFailure(w) /\ Holds(MyRow(w), w)
       /\ HasProviderBillingEvidence(MyRow(w))

Work ==
    /\ \E w \in Workers : Step(w) \/ Environment(w)
    /\ abandoned' = abandoned \cup
          {j \in Jobs : Exhausted(j) /\ \E w \in Workers : J(w) = j /\ GivesUp(w)}
    /\ UNCHANGED receives

RedeliveryNext ==
    \/ Work
    \/ \E j \in Jobs :
          \/ \E w \in Workers : Receive(w, j)
          \/ ReceiveInVain(j) \/ Republish(j)
          \/ /\ \/ AcceptJob(j) \/ FailQueuedInvalidMessage(j)
                \/ LeaseExpires(j) \/ RetryFallsDue(j)
             /\ UNCHANGED queue

RedeliverySpec == RedeliveryInit /\ [][RedeliveryNext]_redeliveryVars

-----------------------------------------------------------------------------
(* Liveness.  Lambda runs an invocation it has started, time passes, and   *)
(* SQS hands out a message that can be claimed while it has receives left. *)
(* Nothing is assumed of the reconciler.                                   *)
Fairness ==
    /\ \A w \in Workers : WF_redeliveryVars(Step(w) /\ Work)
    /\ \A j \in Jobs :
          /\ WF_redeliveryVars(LeaseExpires(j) /\ UNCHANGED queue)
          /\ WF_redeliveryVars(RetryFallsDue(j) /\ UNCHANGED queue)
          /\ WF_redeliveryVars(\E w \in Workers : Receive(w, j))

FairSpec == RedeliverySpec /\ Fairness

(* Every accepted job ends within the receives of its message, whatever    *)
(* fails or crashes on the way (claimQueued, the take-overs,               *)
(* handleClaimedFailure and finalizeClaimLimit together), with two         *)
(* exceptions.  A queued job whose message was received too often before   *)
(* it was due waits for the reconciler.  A job given up on the last        *)
(* receive, because its invocation dies or cannot close a recorded charge, *)
(* stays RUNNING, and nothing takes it up.                                 *)
AcceptedJobEnds ==
    \A j \in Jobs \ SyncJobs :
       job[j].status \in Active ~>
          \/ job[j].status \in Terminal
          \/ job[j].status = "QUEUED" /\ Exhausted(j)
          \/ j \in abandoned
=============================================================================
