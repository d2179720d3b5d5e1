---------------------- MODULE AnalysisWorkerRunProofs ----------------------
(***************************************************************************)
(* What the invocations of AnalysisWorker do to each other: one active job *)
(* per repository, a checkpoint without gaps, a report per success, one    *)
(* provider call per attempt, and an exclusive provider call when leases   *)
(* outlive the worker.                                                     *)
(*                                                                         *)
(* The actions are first reduced to a common shape: a step of invocation w *)
(* changes the row of its own job and its own local state, and only in a   *)
(* few ways.  Each property is then proved from the shape.                 *)
(***************************************************************************)
EXTENDS AnalysisWorkerProofs, WorkerRedelivery, FiniteSetTheorems

CallSteps == {"collect", "resolve", "reserve", "reserved", "llm"}
Owning == CallSteps \cup {"recover", "reply"}
Billed(r) == HasProviderBillingEvidence(r)

(* The step of w stores a report for its job.                              *)
Reports(w) == J(w) \in reports'

(* What a write of invocation w may make of a row.                         *)
Serves(r, s, w) ==
    /\ s.cursor = r.cursor
    /\ \/ s.attempts = r.attempts
       \/ /\ s.attempts = r.attempts + 1 /\ r.attempts < MaxAttempts
          /\ s.status = "RUNNING"
    /\ s.status \in Active => r.status \in Active
    /\ s.status = "ABSENT" <=> r.status = "ABSENT"
    /\ s.status = "SUCCEEDED" => r.status = "SUCCEEDED" \/ Reports(w)
    /\ s.status = "RUNNING" =>
          s.lease = w \/ (Holds(r, s.lease) /\ (Billed(r) => Billed(s)))
    /\ s.status = "RUNNING" /\ s.expired => Holds(r, s.lease) /\ r.expired

(* When it may: it holds the lease, nobody does, the lease has expired, or *)
(* it had when w looked.                                                   *)
Licensed(r, i, w) ==
    \/ Holds(r, w) \/ r.status # "RUNNING" \/ r.expired
    \/ i.pc = "limit" /\ i.was = "RUNNING" /\ r.lease = i.snap

(* How the local state i goes on to k, in a step that turns the row of its *)
(* job from r to s.                                                        *)
Continues(i, k, r, s, w) ==
    /\ k.job = i.job /\ k.cursor = i.cursor
    /\ k.pc \notin ClaimSteps \cup {"recover", "idle", "syncCreate", "syncStart"}
    /\ i.pc \notin {"idle", "syncCreate"}
    /\ k.pc \in CallSteps =>
          \/ i.pc \in CallSteps \cup {"syncStart"}
          \/ i.pc = "recover" /\ Holds(r, w) /\ ~Billed(r)
    /\ k.pc \in Owning =>
          \/ i.pc = "syncStart" /\ r.status = "QUEUED" /\ s = StartedRow(r, w)
             /\ k.pc = "resolve"
          \/ /\ i.pc \in Owning /\ (i.pc = "recover" => ~Billed(r))
             /\ s.status = r.status /\ s.lease = r.lease
             /\ s.expired => r.expired
             /\ Billed(s) => Billed(r)
    /\ k.pc \in {"reserved", "llm", "reply"} =>
          \/ k.reserved = s.reserved
          \/ /\ i.pc \in {"reserved", "llm", "reply"}
             /\ k.reserved = i.reserved /\ s.reserved = r.reserved

(* A claim: a counted attempt, or one that only settles a recorded charge. *)
Claims(i, k, r, s, w) ==
    /\ i.pc \in ClaimSteps
    /\ k.pc = "recover" /\ k.job = i.job /\ k.cursor = r.cursor
    /\ s.status = "RUNNING" /\ s.lease = w /\ ~s.expired
    /\ s.attempts = r.attempts + 1 \/ Billed(s)

(* A look at a row before it is claimed.                                   *)
Looks(k) ==
    /\ k.pc \in ClaimSteps /\ k.cursor = 0 /\ k.job \in Jobs
    /\ k.snap = job[k.job].lease /\ k.was = job[k.job].status
    /\ k.was = "RUNNING" => job[k.job].expired

(* A synchronous request that starts to collect.                           *)
Collects(k) ==
    /\ k.pc = "syncCreate" /\ k.job \in SyncJobs
    /\ k.cursor = lastSyncTime[RepoOf[k.job]]

Local(i, k, r, s, w) ==
    \/ k = Idle \/ Continues(i, k, r, s, w) \/ Claims(i, k, r, s, w)
    \/ Looks(k) /\ s = r

(* A step of invocation w that creates no job.                             *)
Shape(w) ==
    /\ \A v \in Workers : v # w => inv'[v] = inv[v]
    /\ \/ /\ inv[w].pc # "idle"
          /\ \A k \in Jobs : k # J(w) => job'[k] = job[k]
          /\ Serves(job[J(w)], job'[J(w)], w)
          /\ job'[J(w)] # job[J(w)] => Licensed(job[J(w)], inv[w], w)
          /\ Local(inv[w], inv'[w], job[J(w)], job'[J(w)], w)
       \/ /\ FreshToken(w) /\ job' = job
          /\ Looks(inv'[w]) \/ Collects(inv'[w])

-----------------------------------------------------------------------------
(* The updates of AnalysisJobLedger serve the invocation that issues them. *)

LEMMA ServesSame == ASSUME NEW r, NEW w PROVE Serves(r, r, w)
BY DEF Serves, Holds

LEMMA ServesClaims ==
    ASSUME NEW r \in Row, NEW w \in Workers, r.attempts < MaxAttempts
    PROVE  /\ r.status = "QUEUED" => Serves(r, ClaimedRow(r, w), w)
           /\ r.status = "RUNNING" => Serves(r, TakenOverRow(r, w), w)
BY DEF Serves, ClaimedRow, TakenOverRow, Row, Active

LEMMA ServesTakeOverBilled ==
    ASSUME NEW r \in Row, NEW w \in Workers, r.status = "RUNNING"
    PROVE  Serves(r, TakenOverBilledRow(r, w), w)
BY DEF Serves, TakenOverBilledRow, Row, Active

LEMMA ServesStart ==
    ASSUME NEW r \in Row, NEW w \in Workers, r.status = "QUEUED"
    PROVE  Serves(r, StartedRow(r, w), w)
BY DEF Serves, StartedRow, Row, Active

LEMMA ServesHolder ==
    ASSUME NEW r \in Row, NEW w \in Workers, Holds(r, w), NEW n
    PROVE  /\ Serves(r, RefreshedRow(r), w) /\ Serves(r, ReleasedRow(r), w)
           /\ Serves(r, ReservedRow(r, n), w) /\ Serves(r, ChargedRow(r, n), w)
           /\ Reports(w) => Serves(r, SucceededRow(r, n), w)
<1>1. Serves(r, RefreshedRow(r), w)
  BY DEF Serves, RefreshedRow, Row, Active, Holds
<1>2. Serves(r, ReleasedRow(r), w)
  BY DEF Serves, ReleasedRow, Row, Active, Holds
<1>3. Serves(r, ReservedRow(r, n), w)
  BY DEF Serves, ReservedRow, Row, Active, Holds
<1>4. Serves(r, ChargedRow(r, n), w)
  BY DEF Serves, ChargedRow, Row, Active, Holds
<1>5. Reports(w) => Serves(r, SucceededRow(r, n), w)
  BY DEF Serves, SucceededRow, Row, Active, Holds
<1>6. QED
  BY <1>1, <1>2, <1>3, <1>4, <1>5

LEMMA ServesTermination ==
    ASSUME NEW r \in Row, r.status # "ABSENT", NEW c, NEW n, NEW b, NEW z, NEW w
    PROVE  /\ Serves(r, TerminatedRow(r, c, n, b, z), w)
           /\ Serves(r, SettledFailureRow(r, c, b), w)
<1>1. Serves(r, TerminatedRow(r, c, n, b, z), w)
  BY DEF Serves, TerminatedRow, Row, Active
<1>2. Serves(r, SettledFailureRow(r, c, b), w)
  BY DEF Serves, SettledFailureRow, Row, Active
<1>3. QED
  BY <1>1, <1>2

-----------------------------------------------------------------------------
(* From a write of one row and one local state to the shape of the step.   *)

LEMMA WriteShape ==
    ASSUME IInv, NEW w \in Workers, inv[w].pc # "idle", NEW s, NEW k,
           job' = [job EXCEPT ![J(w)] = s], inv' = [inv EXCEPT ![w] = k],
           Serves(MyRow(w), s, w), s # MyRow(w) => Licensed(MyRow(w), inv[w], w),
           Local(inv[w], k, MyRow(w), s, w)
    PROVE  Shape(w)
<1>1. J(w) \in Jobs /\ MyRow(w) = job[J(w)]
  BY Mine
<1>2. /\ job'[J(w)] = s /\ inv'[w] = k
      /\ \A j \in Jobs : j # J(w) => job'[j] = job[j]
      /\ \A v \in Workers : v # w => inv'[v] = inv[v]
  BY <1>1 DEF IInv, RowsOK, LocalOK
<1>3. QED
  BY <1>1, <1>2 DEF Shape

LEMMA KeepShape ==
    ASSUME IInv, NEW w \in Workers, inv[w].pc # "idle", NEW k,
           UNCHANGED job, inv' = [inv EXCEPT ![w] = k],
           Local(inv[w], k, MyRow(w), MyRow(w), w)
    PROVE  Shape(w)
<1>1. job' = [job EXCEPT ![J(w)] = MyRow(w)]
  BY Mine DEF IInv, RowsOK
<1>2. QED
  BY <1>1, ServesSame, WriteShape

LEMMA ReturnShape ==
    ASSUME IInv, NEW w \in Workers, inv[w].pc # "idle", Return(w),
           \/ UNCHANGED job
           \/ \E s : /\ Write(J(w), s) /\ Serves(MyRow(w), s, w)
                     /\ Licensed(MyRow(w), inv[w], w)
    PROVE  Shape(w)
<1>1. inv' = [inv EXCEPT ![w] = Idle]
  BY DEF Return
<1>2. CASE UNCHANGED job
  BY <1>1, <1>2, KeepShape DEF Local
<1>3. CASE \E s : /\ Write(J(w), s) /\ Serves(MyRow(w), s, w)
                  /\ Licensed(MyRow(w), inv[w], w)
  BY <1>1, <1>3, WriteShape DEF Local, Write
<1>4. QED
  BY <1>2, <1>3

-----------------------------------------------------------------------------
(* The shape of every action of an invocation.                             *)

(* A step after which w no longer works towards a provider call.           *)
LEMMA LeavesLocal ==
    ASSUME NEW i, NEW k, NEW r, NEW s, NEW w, i.pc \notin {"idle", "syncCreate"},
           k.pc \in {"fail", "charge", "saving", "save", "reconcile"},
           k.job = i.job, k.cursor = i.cursor
    PROVE  Local(i, k, r, s, w)
BY DEF Local, Continues, ClaimSteps, CallSteps, Owning

(* A step that only moves the program counter, or leaves it there, on the  *)
(* way to the provider.                                                    *)
LEMMA GoesOnLocal ==
    ASSUME NEW i, NEW k, NEW r, NEW s, NEW w,
           i.pc \in Owning, i.pc = "recover" => Holds(r, w) /\ ~Billed(r),
           i.pc # "reply", k.pc \in CallSteps \cup {"reply"},
           k.pc \in CallSteps => i.pc # "reply",
           k.job = i.job, k.cursor = i.cursor,
           s.status = r.status, s.lease = r.lease, s.expired => r.expired,
           Billed(s) => Billed(r),
           k.pc \in {"reserved", "llm", "reply"} =>
              \/ k.reserved = s.reserved
              \/ /\ i.pc \in {"reserved", "llm", "reply"}
                 /\ k.reserved = i.reserved /\ s.reserved = r.reserved
    PROVE  Local(i, k, r, s, w)
BY DEF Local, Continues, ClaimSteps, CallSteps, Owning

LEMMA ThrowShape ==
    ASSUME IInv, NEW w \in Workers, inv[w].pc \notin {"idle", "syncCreate"}, NEW y,
           Throw(w, y),
           \/ UNCHANGED job
           \/ \E s : /\ Write(J(w), s) /\ Serves(MyRow(w), s, w)
                     /\ Licensed(MyRow(w), inv[w], w)
    PROVE  Shape(w)
<1> DEFINE k == IF inv[w].job \in SyncJobs THEN Idle
                ELSE [inv[w] EXCEPT !.pc = "fail", !.retry = y]
<1>1. inv' = [inv EXCEPT ![w] = k]
  BY DEF Throw
<1>2. inv[w] \in Invocation
  BY Mine
<1>3. ASSUME NEW s PROVE Local(inv[w], k, MyRow(w), s, w)
  <2>1. CASE inv[w].job \in SyncJobs
    BY <2>1 DEF Local
  <2>2. CASE inv[w].job \notin SyncJobs
    <3>1. k.pc = "fail" /\ k.job = inv[w].job /\ k.cursor = inv[w].cursor
      BY <1>2, <2>2 DEF Invocation
    <3>2. QED
      BY <3>1, LeavesLocal
  <2>3. QED
    BY <2>1, <2>2
<1> HIDE DEF k
<1>4. QED
  BY <1>1, <1>3, KeepShape, WriteShape DEF Write

(* Goto after a billed answer.                                             *)
LEMMA LeaveShape ==
    ASSUME IInv, NEW w \in Workers, inv[w].pc \notin {"idle", "syncCreate"},
           NEW p \in {"fail", "charge", "saving", "save", "reconcile"}, Goto(w, p),
           \/ UNCHANGED job
           \/ \E s : /\ Write(J(w), s) /\ Serves(MyRow(w), s, w)
                     /\ Licensed(MyRow(w), inv[w], w)
    PROVE  Shape(w)
<1> DEFINE k == [inv[w] EXCEPT !.pc = p]
<1>1. inv' = [inv EXCEPT ![w] = k]
  BY DEF Goto
<1>2. inv[w] \in Invocation
  BY Mine
<1>3. k.pc = p /\ k.job = inv[w].job /\ k.cursor = inv[w].cursor
  BY <1>2 DEF Invocation
<1> HIDE DEF k
<1>4. \A s : Local(inv[w], k, MyRow(w), s, w)
  BY <1>3, LeavesLocal
<1>5. QED
  BY <1>1, <1>4, KeepShape, WriteShape DEF Write

LEMMA LookShape ==
    ASSUME IInv, NEW w \in Workers, NEW j \in Jobs, NEW kind \in ClaimSteps,
           NEW last, NEW behind,
           Snapshot(w, j, kind, last, behind),
           job[j].status = "RUNNING" => job[j].expired
    PROVE  \E k : inv' = [inv EXCEPT ![w] = k] /\ Looks(k)
<1> DEFINE k == [Idle EXCEPT !.pc = kind, !.job = j, !.last = last,
                    !.behind = behind, !.snap = job[j].lease,
                    !.was = job[j].status, !.attempts = job[j].attempts]
<1>1. kind # "idle"
  BY DEF ClaimSteps
<1>2. inv' = [inv EXCEPT ![w] = k]
  BY <1>1 DEF Snapshot
<1>3. /\ k.pc = kind /\ k.cursor = 0 /\ k.job = j /\ k.snap = job[j].lease
      /\ k.was = job[j].status
  BY DEF Idle
<1>4. Looks(k)
  BY <1>3 DEF Looks
<1>5. QED
  BY <1>2, <1>4

LEMMA DeliverShape ==
    ASSUME IInv, NEW w \in Workers, NEW j \in Jobs, NEW last \in BOOLEAN,
           Deliver(w, j, last)
    PROVE  Shape(w)
<1>1. job[j] \in Row
  BY DEF IInv, RowsOK
<1>2. /\ FreshToken(w) /\ UNCHANGED job
      /\ Snapshot(w, j, ClaimKind(job[j]), last, FALSE)
      /\ ClaimKind(job[j]) # "idle"
  BY DEF Deliver
<1>3. ClaimKind(job[j]) \in ClaimSteps
  BY <1>1, <1>2, KindOK
<1>4. job[j].status = "RUNNING" => job[j].expired
  BY <1>2 DEF ClaimKind
<1>5. PICK k : inv' = [inv EXCEPT ![w] = k] /\ Looks(k)
  BY <1>2, <1>3, <1>4, LookShape
<1>6. inv'[w] = k /\ \A v \in Workers : v # w => inv'[v] = inv[v]
  BY <1>5 DEF IInv, LocalOK
<1>7. QED
  BY <1>2, <1>5, <1>6 DEF Shape

LEMMA SyncCollectShape ==
    ASSUME IInv, NEW w \in Workers, NEW j \in Jobs, SyncCollect(w, j)
    PROVE  Shape(w)
<1>1. PICK c : inv' = [inv EXCEPT ![w] =
            [Idle EXCEPT !.pc = "syncCreate", !.job = j, !.cutoff = c,
                         !.cursor = lastSyncTime[RepoOf[j]]]]
  BY DEF SyncCollect
<1> DEFINE k == [Idle EXCEPT !.pc = "syncCreate", !.job = j, !.cutoff = c,
                             !.cursor = lastSyncTime[RepoOf[j]]]
<1>2. FreshToken(w) /\ UNCHANGED job /\ j \in SyncJobs
  BY DEF SyncCollect
<1>3. /\ k.pc = "syncCreate" /\ k.job = j
      /\ k.cursor = lastSyncTime[RepoOf[j]]
  BY DEF Idle
<1>4. Collects(k)
  BY <1>2, <1>3 DEF Collects
<1>5. inv'[w] = k /\ \A v \in Workers : v # w => inv'[v] = inv[v]
  BY <1>1 DEF IInv, LocalOK
<1>6. QED
  BY <1>2, <1>4, <1>5 DEF Shape

LEMMA SyncStartShape ==
    ASSUME IInv, NEW w \in Workers, SyncStart(w)
    PROVE  Shape(w)
<1>1. inv[w].pc = "syncStart" /\ inv[w] \in Invocation /\ MyRow(w) \in Row
  BY Mine DEF SyncStart
<1>2. CASE /\ MyRow(w).status = "QUEUED"
           /\ Write(J(w), StartedRow(MyRow(w), w))
           /\ Goto(w, "resolve")
  <2> DEFINE k == [inv[w] EXCEPT !.pc = "resolve"]
             s == StartedRow(MyRow(w), w)
  <2>1. k.pc = "resolve" /\ k.job = inv[w].job /\ k.cursor = inv[w].cursor
    BY <1>1 DEF Invocation
  <2>2. inv' = [inv EXCEPT ![w] = k] /\ job' = [job EXCEPT ![J(w)] = s]
    BY <1>2 DEF Goto, Write
  <2>3. Local(inv[w], k, MyRow(w), s, w)
    <3> HIDE DEF k, s
    <3>1. QED
      BY <1>1, <1>2, <2>1
      DEF Local, Continues, ClaimSteps, CallSteps, Owning, s
  <2>4. Serves(MyRow(w), s, w) /\ Licensed(MyRow(w), inv[w], w)
    BY <1>1, <1>2, ServesStart DEF Licensed
  <2> HIDE DEF k, s
  <2>5. QED
    BY <1>1, <2>2, <2>3, <2>4, WriteShape
<1>3. CASE Return(w) /\ UNCHANGED job
  BY <1>1, <1>3, ReturnShape
<1>4. QED
  BY <1>2, <1>3 DEF SyncStart

LEMMA ClaimedShape ==
    ASSUME IInv, NEW w \in Workers, inv[w].pc \in ClaimSteps, NEW s,
           Claimed(w, s), Serves(MyRow(w), s, w), Licensed(MyRow(w), inv[w], w),
           s.status = "RUNNING", s.lease = w, ~s.expired,
           s.attempts = MyRow(w).attempts + 1 \/ Billed(s)
    PROVE  Shape(w)
<1> DEFINE k == [Idle EXCEPT !.pc = "recover", !.job = J(w), !.last = inv[w].last,
                             !.attempts = s.attempts, !.cursor = s.cursor,
                             !.cutoff = s.cutoff]
<1>1. inv[w].pc # "idle"
  BY DEF ClaimSteps
<1>2. job' = [job EXCEPT ![J(w)] = s] /\ inv' = [inv EXCEPT ![w] = k]
  BY DEF Claimed, Write
<1>3. k.pc = "recover" /\ k.job = inv[w].job /\ k.cursor = s.cursor
  BY DEF Idle, J
<1>4. s.cursor = MyRow(w).cursor
  BY DEF Serves
<1> HIDE DEF k
<1>5. Local(inv[w], k, MyRow(w), s, w)
  BY <1>3, <1>4 DEF Local, Claims
<1>6. QED
  BY <1>1, <1>2, <1>5, WriteShape

LEMMA LostClaimShape ==
    ASSUME IInv, NEW w \in Workers, inv[w].pc \in ClaimSteps, LostClaim(w)
    PROVE  Shape(w)
<1> DEFINE kind == RaceKind(MyRow(w), inv[w].behind)
<1>1. inv[w].pc # "idle"
  BY DEF ClaimSteps
<1>2. /\ J(w) \in Jobs /\ MyRow(w) = job[J(w)] /\ MyRow(w) \in Row
      /\ inv[w].behind \in BOOLEAN
  BY <1>1, Mine DEF Invocation
<1>3. UNCHANGED job /\ Snapshot(w, J(w), kind, inv[w].last, inv[w].behind)
  BY DEF LostClaim
<1>4. kind \in ClaimSteps \cup {"idle"}
  BY <1>2, KindOK
<1>5. CASE kind = "idle"
  <2>1. inv' = [inv EXCEPT ![w] = Idle]
    BY <1>3, <1>5 DEF Snapshot
  <2>2. QED
    BY <1>1, <1>3, <2>1, KeepShape DEF Local
<1>6. CASE kind # "idle"
  <2>1. MyRow(w).status = "RUNNING" => MyRow(w).expired
    BY <1>6 DEF RaceKind
  <2> HIDE DEF kind
  <2>2. PICK k : inv' = [inv EXCEPT ![w] = k] /\ Looks(k)
    BY <1>2, <1>3, <1>4, <1>6, <2>1, LookShape
  <2>3. QED
    BY <1>1, <1>3, <2>2, KeepShape DEF Local
<1>7. QED
  BY <1>5, <1>6

LEMMA ClaimShapes ==
    ASSUME IInv, NEW w \in Workers,
           \/ ClaimQueued(w) \/ TakeOverExpiredLease(w)
           \/ TakeOverExpiredBilledLease(w)
    PROVE  Shape(w)
<1> DEFINE r == MyRow(w)
<1>1. inv[w].pc \in ClaimSteps /\ inv[w].pc # "idle"
  BY DEF ClaimQueued, TakeOverExpiredLease, TakeOverExpiredBilledLease, ClaimSteps
<1>2. MyRow(w) \in Row /\ RowInv(MyRow(w))
  BY <1>1, Mine
<1>3. CASE LostClaim(w)
  BY <1>1, <1>3, LostClaimShape
<1>4. CASE ClaimQueuedFence(r, inv[w].behind) /\ Claimed(w, ClaimedRow(r, w))
  <2>1. r.status = "QUEUED" /\ r.attempts < MaxAttempts
    BY <1>4 DEF ClaimQueuedFence
  <2>2. Serves(r, ClaimedRow(r, w), w) /\ Licensed(r, inv[w], w)
    BY <1>2, <2>1, ServesClaims DEF Licensed
  <2>3. LET s == ClaimedRow(r, w) IN
        /\ s.status = "RUNNING" /\ s.lease = w /\ ~s.expired
        /\ s.attempts = r.attempts + 1
    BY <1>2 DEF ClaimedRow, Row
  <2>4. QED
    BY <1>1, <1>4, <2>2, <2>3, ClaimedShape
<1>5. CASE /\ TakeOverFence(r, inv[w].snap, inv[w].attempts, inv[w].behind)
           /\ Claimed(w, TakenOverRow(r, w))
  <2>1. r.status = "RUNNING" /\ r.attempts < MaxAttempts /\ r.expired
    BY <1>5 DEF TakeOverFence, Holds
  <2>2. Serves(r, TakenOverRow(r, w), w) /\ Licensed(r, inv[w], w)
    BY <1>2, <2>1, ServesClaims DEF Licensed
  <2>3. LET s == TakenOverRow(r, w) IN
        /\ s.status = "RUNNING" /\ s.lease = w /\ ~s.expired
        /\ s.attempts = r.attempts + 1
    BY <1>2, <2>1 DEF TakenOverRow, Row
  <2>4. QED
    BY <1>1, <1>5, <2>2, <2>3, ClaimedShape
<1>6. CASE /\ TakeOverBilledFence(r, inv[w].snap, inv[w].attempts, inv[w].behind)
           /\ Claimed(w, TakenOverBilledRow(r, w))
  <2>1. r.status = "RUNNING" /\ r.expired /\ Billed(r)
    BY <1>6 DEF TakeOverBilledFence, Holds, Billed
  <2>2. Serves(r, TakenOverBilledRow(r, w), w) /\ Licensed(r, inv[w], w)
    BY <1>2, <2>1, ServesTakeOverBilled DEF Licensed
  <2>3. LET s == TakenOverBilledRow(r, w) IN
        /\ s.status = "RUNNING" /\ s.lease = w /\ ~s.expired
    BY <1>2, <2>1 DEF TakenOverBilledRow, Row
  <2>4. Billed(TakenOverBilledRow(r, w))
    BY <1>2, <2>1, TakenOverBilledRowOK DEF Billed
  <2>5. QED
    BY <1>1, <1>6, <2>2, <2>3, <2>4, ClaimedShape
<1>7. QED
  BY <1>3, <1>4, <1>5, <1>6
  DEF ClaimQueued, TakeOverExpiredLease, TakeOverExpiredBilledLease

LEMMA SettleFailureShape ==
    ASSUME IInv, NEW w \in Workers, inv[w].pc # "idle", NEW st \in Active, NEW t,
           NEW c, NEW y, SettleFailure(J(w), st, t, c, y), Return(w),
           st = "RUNNING" => t = w \/ (inv[w].pc = "limit" /\ inv[w].was = "RUNNING"
                                       /\ t = inv[w].snap)
    PROVE  Shape(w)
<1>1. MyRow(w) \in Row /\ MyRow(w) = job[J(w)]
  BY Mine
<1>2. CASE SettleFence(MyRow(w), st, t) /\ Write(J(w), SettledFailureRow(MyRow(w), c, y))
  <2>1. MyRow(w).status = st /\ (st = "RUNNING" => MyRow(w).lease = t)
    BY <1>2 DEF SettleFence
  <2>2. Licensed(MyRow(w), inv[w], w)
    BY <2>1 DEF Licensed, Holds
  <2>3. Serves(MyRow(w), SettledFailureRow(MyRow(w), c, y), w)
    BY <1>1, <2>1, ServesTermination DEF Active
  <2>4. QED
    BY <1>2, <2>2, <2>3, ReturnShape
<1>3. CASE UNCHANGED job
  BY <1>3, ReturnShape
<1>4. QED
  BY <1>1, <1>2, <1>3 DEF SettleFailure

LEMMA FinalizeClaimLimitShape ==
    ASSUME IInv, NEW w \in Workers, FinalizeClaimLimit(w)
    PROVE  Shape(w)
<1>1. inv[w].pc = "limit" /\ inv[w].was \in Active
  BY Mine DEF FinalizeClaimLimit, InvocationInv, ClaimSteps
<1>2. QED
  BY <1>1, SettleFailureShape DEF FinalizeClaimLimit

LEMMA HandleClaimedFailureShape ==
    ASSUME IInv, NEW w \in Workers, HandleClaimedFailure(w)
    PROVE  Shape(w)
<1>1. inv[w].pc = "fail" /\ Return(w) /\ MyRow(w) \in Row
  BY Mine DEF HandleClaimedFailure
<1>2. CASE UNCHANGED job
  BY <1>1, <1>2, ReturnShape
<1>3. CASE ReleaseFence(MyRow(w), w) /\ Write(J(w), ReleasedRow(MyRow(w)))
  <2>1. Holds(MyRow(w), w)
    BY <1>3 DEF ReleaseFence
  <2>2. Serves(MyRow(w), ReleasedRow(MyRow(w)), w) /\ Licensed(MyRow(w), inv[w], w)
    BY <1>1, <2>1, ServesHolder DEF Licensed
  <2>3. QED
    BY <1>1, <1>3, <2>2, ReturnShape
<1>4. CASE SettleFailure(J(w), "RUNNING", w,
                         IF inv[w].retry THEN "MAX_ATTEMPTS_EXCEEDED"
                         ELSE "ANALYSIS_FAILED", inv[w].retry)
  BY <1>1, <1>4, SettleFailureShape DEF Active
<1>5. QED
  BY <1>2, <1>3, <1>4 DEF HandleClaimedFailure

LEMMA ThrowShapes ==
    ASSUME IInv, NEW w \in Workers, NEW y, LostLease(w) \/ RunFails(w, y)
    PROVE  Shape(w)
BY ThrowShape DEF LostLease, RunFails

LEMMA CrashShape ==
    ASSUME IInv, NEW w \in Workers, Crash(w)
    PROVE  Shape(w)
BY ReturnShape DEF Crash

LEMMA DatabaseFailsShape ==
    ASSUME IInv, NEW w \in Workers, NEW y, DatabaseFails(w, y)
    PROVE  Shape(w)
BY ThrowShape, LeaveShape DEF DatabaseFails

LEMMA LostLeaseWhileSavingShape ==
    ASSUME IInv, NEW w \in Workers, LostLeaseWhileSaving(w)
    PROVE  Shape(w)
BY LeaveShape DEF LostLeaseWhileSaving

(* terminateWorkerJob by the holder of the lease.                          *)
LEMMA TerminationShape ==
    ASSUME IInv, NEW w \in Workers, inv[w].pc # "idle", Holds(MyRow(w), w),
           Return(w), NEW c, NEW n, NEW b, NEW z,
           Write(J(w), TerminatedRow(MyRow(w), c, n, b, z))
    PROVE  Shape(w)
<1>1. MyRow(w) \in Row /\ MyRow(w).status # "ABSENT"
  BY Mine DEF Holds
<1>2. Serves(MyRow(w), TerminatedRow(MyRow(w), c, n, b, z), w)
  BY <1>1, ServesTermination
<1>3. Licensed(MyRow(w), inv[w], w)
  BY DEF Licensed
<1>4. QED
  BY <1>2, <1>3, ReturnShape

LEMMA UnbilledShapes ==
    ASSUME IInv, NEW w \in Workers,
           \/ NoAnalyzableData(w) \/ InputLimitExceeded(w) \/ InsufficientTokens(w)
    PROVE  Shape(w)
<1>1. inv[w].pc # "idle" /\ Holds(MyRow(w), w) /\ Return(w)
      /\ \E c : Write(J(w), TerminatedRow(MyRow(w), c, 0, FALSE, TRUE))
  BY DEF NoAnalyzableData, InputLimitExceeded, InsufficientTokens, TerminateUnbilled
<1>2. QED
  BY <1>1, TerminationShape

LEMMA ReconciliationShape ==
    ASSUME IInv, NEW w \in Workers, inv[w].pc # "idle", Holds(MyRow(w), w),
           Return(w), NEW m, NEW b, NEW u,
           TerminateProviderReconciliation(w, m, b, u)
    PROVE  Shape(w)
<1>1. \E c, z : Write(J(w), TerminatedRow(MyRow(w), c, u, b, z))
  BY DEF TerminateProviderReconciliation
<1>2. QED
  BY <1>1, TerminationShape

LEMMA ReconcileShape ==
    ASSUME IInv, NEW w \in Workers, Reconcile(w)
    PROVE  Shape(w)
<1>1. inv[w].pc # "idle" /\ Return(w)
  BY DEF Reconcile
<1>2. CASE UNCHANGED job
  BY <1>1, <1>2, ReturnShape
<1>3. CASE /\ TransitionFence(MyRow(w), w, inv[w].reserved)
           /\ TerminateProviderReconciliation(w, inv[w].reserved, inv[w].id,
                                              inv[w].usage)
  BY <1>1, <1>3, ReconciliationShape DEF TransitionFence
<1>4. QED
  BY <1>2, <1>3 DEF Reconcile

LEMMA RecoverShape ==
    ASSUME IInv, NEW w \in Workers, RecoverProviderCheckpoint(w)
    PROVE  Shape(w)
<1>1. inv[w].pc = "recover" /\ Holds(MyRow(w), w) /\ inv[w] \in Invocation
  BY Mine DEF RecoverProviderCheckpoint
<1>2. CASE \/ /\ TerminateProviderReconciliation(w, MyRow(w).reserved,
                                                 MyRow(w).billed, MyRow(w).total)
              /\ Return(w)
           \/ /\ TerminateUnbilled(w, "UNSUPPORTED_ANALYSIS_VERSION")
              /\ Return(w)
  BY <1>1, <1>2, ReconciliationShape, TerminationShape DEF TerminateUnbilled
<1>3. CASE /\ ~HasProviderBillingEvidence(MyRow(w))
           /\ Goto(w, "collect") /\ UNCHANGED job
  <2> DEFINE k == [inv[w] EXCEPT !.pc = "collect"]
  <2>1. inv' = [inv EXCEPT ![w] = k]
    BY <1>3 DEF Goto
  <2>2. k.pc = "collect" /\ k.job = inv[w].job /\ k.cursor = inv[w].cursor
    BY <1>1 DEF Invocation
  <2> HIDE DEF k
  <2>3. Local(inv[w], k, MyRow(w), MyRow(w), w)
    BY <1>1, <1>3, <2>2 DEF Local, Continues, ClaimSteps, CallSteps, Owning, Billed
  <2>4. QED
    BY <1>1, <1>3, <2>1, <2>3, KeepShape
<1>4. QED
  BY <1>2, <1>3 DEF RecoverProviderCheckpoint

LEMMA ProgressShapes ==
    ASSUME IInv, NEW w \in Workers,
           \/ CollectionHeartbeat(w) \/ CollectionDone(w) \/ OnTokensReserved(w)
    PROVE  Shape(w)
<1>1. PICK p : /\ UpdateProgress(w, p)
               /\ \/ inv[w].pc = "collect" /\ p \in {"collect", "resolve"}
                  \/ inv[w].pc = "reserved" /\ p = "llm"
  BY DEF CollectionHeartbeat, CollectionDone, OnTokensReserved
<1> DEFINE k == [inv[w] EXCEPT !.pc = p]
           s == RefreshedRow(MyRow(w))
<1>2. MyRow(w) \in Row /\ inv[w] \in Invocation /\ Holds(MyRow(w), w)
  BY <1>1, Mine DEF UpdateProgress
<1>3. job' = [job EXCEPT ![J(w)] = s] /\ inv' = [inv EXCEPT ![w] = k]
  BY <1>1 DEF UpdateProgress, Write, Goto
<1>4. Serves(MyRow(w), s, w) /\ Licensed(MyRow(w), inv[w], w)
  BY <1>2, ServesHolder DEF Licensed
<1>5. /\ k.pc = p /\ k.job = inv[w].job /\ k.cursor = inv[w].cursor
      /\ k.reserved = inv[w].reserved
  BY <1>2 DEF Invocation
<1>6. /\ s.status = MyRow(w).status /\ s.lease = MyRow(w).lease /\ ~s.expired
      /\ s.reserved = MyRow(w).reserved
      /\ Billed(s) => Billed(MyRow(w))
  BY <1>2 DEF RefreshedRow, Row, Billed, HasProviderBillingEvidence
<1> HIDE DEF k, s
<1>7. Local(inv[w], k, MyRow(w), s, w)
  BY <1>1, <1>5, <1>6, GoesOnLocal DEF CallSteps, Owning
<1>8. QED
  BY <1>1, <1>3, <1>4, <1>7, WriteShape

LEMMA OnSavingShape ==
    ASSUME IInv, NEW w \in Workers, OnSaving(w)
    PROVE  Shape(w)
<1>1. MyRow(w) \in Row /\ Holds(MyRow(w), w)
  BY Mine DEF OnSaving, UpdateProgress
<1>2. Serves(MyRow(w), RefreshedRow(MyRow(w)), w) /\ Licensed(MyRow(w), inv[w], w)
  BY <1>1, ServesHolder DEF Licensed
<1>3. QED
  BY <1>2, LeaveShape DEF OnSaving, UpdateProgress

LEMMA EnsureReservationShape ==
    ASSUME IInv, NEW w \in Workers, NEW n, EnsureReservation(w, n)
    PROVE  Shape(w)
<1>1. inv[w].pc = "resolve" /\ Holds(MyRow(w), w) /\ inv[w] \in Invocation
  BY Mine DEF EnsureReservation
<1>2. CASE /\ inv' = [inv EXCEPT ![w].pc = "reserve", ![w].need = n]
           /\ UNCHANGED job
  <2> DEFINE k == [inv[w] EXCEPT !.pc = "reserve", !.need = n]
  <2>1. inv' = [inv EXCEPT ![w] = k]
    BY <1>2 DEF IInv, LocalOK
  <2>2. k.pc = "reserve" /\ k.job = inv[w].job /\ k.cursor = inv[w].cursor
    BY <1>1 DEF Invocation
  <2> HIDE DEF k
  <2>3. Local(inv[w], k, MyRow(w), MyRow(w), w)
    BY <1>1, <2>2, GoesOnLocal DEF CallSteps, Owning
  <2>4. QED
    BY <1>1, <1>2, <2>1, <2>3, KeepShape
<1>3. CASE /\ inv' = [inv EXCEPT ![w].pc = AfterReservation(w),
                                 ![w].reserved = MyRow(w).reserved]
           /\ UNCHANGED job
  <2> DEFINE k == [inv[w] EXCEPT !.pc = AfterReservation(w),
                                 !.reserved = MyRow(w).reserved]
  <2>1. inv' = [inv EXCEPT ![w] = k]
    BY <1>3 DEF IInv, LocalOK
  <2>2. /\ k.pc = AfterReservation(w) /\ k.job = inv[w].job
        /\ k.cursor = inv[w].cursor /\ k.reserved = MyRow(w).reserved
    BY <1>1 DEF Invocation
  <2>3. AfterReservation(w) \in {"llm", "reserved"}
    BY DEF AfterReservation
  <2> HIDE DEF k
  <2>4. Local(inv[w], k, MyRow(w), MyRow(w), w)
    BY <1>1, <2>2, <2>3, GoesOnLocal DEF CallSteps, Owning
  <2>5. QED
    BY <1>1, <1>3, <2>1, <2>4, KeepShape
<1>4. CASE TerminateUnbilled(w, "TOKEN_BUDGET_EXCEEDED") /\ Return(w)
  BY <1>1, <1>4, TerminationShape DEF TerminateUnbilled
<1>5. QED
  BY <1>2, <1>3, <1>4 DEF EnsureReservation

LEMMA ReserveTokensShape ==
    ASSUME IInv, NEW w \in Workers, NEW seen, ReserveTokens(w, seen)
    PROVE  Shape(w)
<1> DEFINE n == inv[w].need
           s == ReservedRow(MyRow(w), n)
<1>1. /\ inv[w].pc = "reserve" /\ Holds(MyRow(w), w) /\ inv[w] \in Invocation
      /\ MyRow(w) \in Row /\ Write(J(w), s)
  BY Mine DEF ReserveTokens, ReserveFence
<1>2. Serves(MyRow(w), s, w) /\ Licensed(MyRow(w), inv[w], w)
  BY <1>1, ServesHolder DEF Licensed
<1>3. CASE Throw(w, TRUE)
  <2> HIDE DEF s
  <2>1. QED
    BY <1>1, <1>2, <1>3, ThrowShape
<1>4. CASE inv' = [inv EXCEPT ![w].pc = AfterReservation(w), ![w].reserved = n]
  <2> DEFINE k == [inv[w] EXCEPT !.pc = AfterReservation(w), !.reserved = n]
  <2>1. inv' = [inv EXCEPT ![w] = k]
    BY <1>4 DEF IInv, LocalOK
  <2>2. /\ k.pc = AfterReservation(w) /\ k.job = inv[w].job
        /\ k.cursor = inv[w].cursor /\ k.reserved = n
    BY <1>1 DEF Invocation
  <2>3. AfterReservation(w) \in {"llm", "reserved"}
    BY DEF AfterReservation
  <2>4. /\ s.status = MyRow(w).status /\ s.lease = MyRow(w).lease
        /\ s.expired = MyRow(w).expired /\ s.reserved = n
        /\ Billed(s) => Billed(MyRow(w))
    BY <1>1 DEF ReservedRow, Row, Billed, HasProviderBillingEvidence
  <2> HIDE DEF k, s
  <2>5. Local(inv[w], k, MyRow(w), s, w)
    BY <1>1, <2>2, <2>3, <2>4, GoesOnLocal DEF CallSteps, Owning
  <2>6. QED
    BY <1>1, <1>2, <2>1, <2>5, WriteShape DEF Write
<1>5. QED
  BY <1>3, <1>4 DEF ReserveTokens

LEMMA CallProviderShape ==
    ASSUME IInv, NEW w \in Workers, CallProvider(w)
    PROVE  Shape(w)
<1> DEFINE k == [inv[w] EXCEPT !.pc = "reply"]
<1>1. /\ inv[w].pc = "llm" /\ inv' = [inv EXCEPT ![w] = k] /\ UNCHANGED job
      /\ inv[w] \in Invocation
  BY Mine DEF CallProvider, Goto
<1>2. /\ k.pc = "reply" /\ k.job = inv[w].job
      /\ k.cursor = inv[w].cursor /\ k.reserved = inv[w].reserved
  BY <1>1 DEF Invocation
<1> HIDE DEF k
<1>3. Local(inv[w], k, MyRow(w), MyRow(w), w)
  BY <1>1, <1>2, GoesOnLocal DEF CallSteps, Owning
<1>4. QED
  BY <1>1, <1>3, KeepShape

LEMMA ProviderAnswersShape ==
    ASSUME IInv, NEW w \in Workers, NEW id, NEW u, NEW ok,
           ProviderAnswers(w, id, u, ok)
    PROVE  Shape(w)
<1> DEFINE p == IF id THEN "charge" ELSE "reconcile"
           k == [inv[w] EXCEPT !.pc = p, !.id = id, !.usage = u, !.ok = ok]
<1>1. inv[w].pc = "reply" /\ UNCHANGED job /\ inv[w] \in Invocation
  BY Mine DEF ProviderAnswers
<1>2. inv' = [inv EXCEPT ![w] = k]
  BY DEF ProviderAnswers, IInv, LocalOK
<1>3. /\ k.pc = p /\ k.job = inv[w].job /\ k.cursor = inv[w].cursor
  BY <1>1 DEF Invocation
<1> HIDE DEF k
<1>4. Local(inv[w], k, MyRow(w), MyRow(w), w)
  BY <1>1, <1>3, LeavesLocal
<1>5. QED
  BY <1>1, <1>2, <1>4, KeepShape

LEMMA ProviderFailsShape ==
    ASSUME IInv, NEW w \in Workers, NEW y, ProviderFails(w, y)
    PROVE  Shape(w)
<1>1. inv[w].pc = "reply" /\ Throw(w, y) /\ MyRow(w) \in Row
  BY Mine DEF ProviderFails
<1>2. CASE UNCHANGED job
  BY <1>1, <1>2, ThrowShape
<1>3. CASE /\ TransitionFence(MyRow(w), w, inv[w].reserved)
           /\ TerminateUnbilled(w, "ANALYSIS_FAILED")
  <2> DEFINE s == TerminatedRow(MyRow(w), "ANALYSIS_FAILED", 0, FALSE, TRUE)
  <2>1. Holds(MyRow(w), w) /\ MyRow(w).status # "ABSENT" /\ Write(J(w), s)
    BY <1>3 DEF TransitionFence, TerminateUnbilled, Holds
  <2>2. Serves(MyRow(w), s, w) /\ Licensed(MyRow(w), inv[w], w)
    BY <1>1, <2>1, ServesTermination DEF Licensed
  <2> HIDE DEF s
  <2>3. QED
    BY <1>1, <2>1, <2>2, ThrowShape
<1>4. QED
  BY <1>2, <1>3 DEF ProviderFails

LEMMA RecordProviderChargeShape ==
    ASSUME IInv, NEW w \in Workers, NEW seen, RecordProviderCharge(w, seen)
    PROVE  Shape(w)
<1> DEFINE s == ChargedRow(MyRow(w), inv[w].usage)
<1>1. inv[w].pc = "charge" /\ MyRow(w) \in Row
  BY Mine DEF RecordProviderCharge
<1>2. \E p \in {"save", "saving", "reconcile"} : Goto(w, p)
  BY DEF RecordProviderCharge
<1>3. CASE UNCHANGED job
  BY <1>1, <1>2, <1>3, LeaveShape
<1>4. CASE ChargeFence(MyRow(w), w, inv[w].reserved) /\ Write(J(w), s)
  <2>1. Holds(MyRow(w), w)
    BY <1>4 DEF ChargeFence
  <2>2. Serves(MyRow(w), s, w) /\ Licensed(MyRow(w), inv[w], w)
    BY <1>1, <2>1, ServesHolder DEF Licensed
  <2> HIDE DEF s
  <2>3. QED
    BY <1>1, <1>2, <1>4, <2>2, LeaveShape
<1>5. QED
  BY <1>3, <1>4 DEF RecordProviderCharge

LEMMA SaveResultShape ==
    ASSUME IInv, NEW w \in Workers, NEW seen, SaveResult(w, seen)
    PROVE  Shape(w)
<1> DEFINE s == SucceededRow(MyRow(w), inv[w].usage)
<1>1. inv[w].pc = "save" /\ MyRow(w) \in Row
  BY Mine DEF SaveResult
<1>2. Return(w) \/ Goto(w, "reconcile")
  BY DEF SaveResult
<1>3. CASE UNCHANGED job
  BY <1>1, <1>2, <1>3, LeaveShape, ReturnShape
<1>4. CASE /\ TransitionFence(MyRow(w), w, inv[w].reserved) /\ Write(J(w), s)
           /\ reports' = reports \cup {J(w)}
  <2>1. Holds(MyRow(w), w)
    BY <1>4 DEF TransitionFence
  <2>2. Serves(MyRow(w), s, w) /\ Licensed(MyRow(w), inv[w], w)
    BY <1>1, <1>4, <2>1, ServesHolder DEF Licensed, Reports
  <2> HIDE DEF s
  <2>3. QED
    BY <1>1, <1>2, <1>4, <2>2, LeaveShape, ReturnShape
<1>5. QED
  BY <1>3, <1>4, <1>1 DEF SaveResult

LEMMA ShapeOfInvocation ==
    ASSUME IInv, NEW w \in Workers, Step(w) \/ Environment(w), ~SyncCreate(w)
    PROVE  Shape(w)
<1>1. CASE SyncStart(w) \/ FinalizeClaimLimit(w) \/ RecoverProviderCheckpoint(w)
  BY <1>1, SyncStartShape, FinalizeClaimLimitShape, RecoverShape
<1>2. CASE ClaimQueued(w) \/ TakeOverExpiredLease(w) \/ TakeOverExpiredBilledLease(w)
  BY <1>2, ClaimShapes
<1>3. CASE LostLease(w) \/ \E y \in BOOLEAN : RunFails(w, y)
  BY <1>3, ThrowShapes
<1>4. CASE CollectionDone(w) \/ OnTokensReserved(w) \/ CollectionHeartbeat(w)
  BY <1>4, ProgressShapes
<1>5. CASE NoAnalyzableData(w) \/ InputLimitExceeded(w) \/ InsufficientTokens(w)
  BY <1>5, UnbilledShapes
<1>6. CASE \E n \in ReserveSizes : EnsureReservation(w, n)
  BY <1>6, EnsureReservationShape
<1>7. CASE \E seen \in BOOLEAN : \/ ReserveTokens(w, seen) \/ SaveResult(w, seen)
                                 \/ RecordProviderCharge(w, seen)
  BY <1>7, ReserveTokensShape, SaveResultShape, RecordProviderChargeShape
<1>8. CASE CallProvider(w) \/ OnSaving(w) \/ LostLeaseWhileSaving(w)
  BY <1>8, CallProviderShape, OnSavingShape, LostLeaseWhileSavingShape
<1>9. CASE \E id, ok \in BOOLEAN, u \in UsageSizes \cup {NULL} :
              ProviderAnswers(w, id, u, ok)
  BY <1>9, ProviderAnswersShape
<1>10. CASE \E y \in BOOLEAN : ProviderFails(w, y) \/ DatabaseFails(w, y)
  BY <1>10, ProviderFailsShape, DatabaseFailsShape
<1>11. CASE Reconcile(w) \/ HandleClaimedFailure(w) \/ Crash(w)
  BY <1>11, ReconcileShape, HandleClaimedFailureShape, CrashShape
<1>12. CASE \E j \in Jobs : SyncCollect(w, j)
  BY <1>12, SyncCollectShape
<1>13. QED
  BY <1>1, <1>2, <1>3, <1>4, <1>5, <1>6, <1>7, <1>8, <1>9, <1>10, <1>11, <1>12
  DEF Step, Environment

-----------------------------------------------------------------------------
(* The steps that are not of this shape: a job is created, and the clock   *)
(* or an unreadable message changes a row.                                 *)

(* Where the window of a new job may start.                                *)
StartsAt(j, c) ==
    \/ c = 0 \/ c = lastSyncTime[RepoOf[j]]
    \/ \E k \in Jobs : RepoOf[k] = RepoOf[j] /\ c = job[k].cursor

(* Which jobs stale recovery closes when j is created.                     *)
Stale(k, j) == RepoOf[k] = RepoOf[j] /\ IsStale(job[k], k \in SyncJobs)

Starts(i, k) ==
    k = i \/ (i.pc = "syncCreate" /\ k.pc = "syncStart"
              /\ k.job = i.job /\ k.cursor = i.cursor)

Creates(j) ==
    /\ job[j].status = "ABSENT"
    /\ \E c, d \in Nat : StartsAt(j, c) /\ job'[j] = CreatedRow(c, d)
    /\ \A k \in Jobs : k # j =>
          job'[k] = IF Stale(k, j) THEN RecoveredRow(job[k]) ELSE job[k]
    /\ \A k \in Jobs : k # j /\ RepoOf[k] = RepoOf[j] => job'[k].status \notin Active
    /\ \A w \in Workers : Starts(inv[w], inv'[w])

(* Equal but for what a local state knows of the time.                     *)
Alike(i, k) ==
    /\ k.pc = i.pc /\ k.job = i.job /\ k.cursor = i.cursor /\ k.snap = i.snap
    /\ k.was = i.was /\ k.reserved = i.reserved

Passes(j) ==
    /\ job[j].status \in Active
    /\ \A k \in Jobs : k # j => job'[k] = job[k]
    /\ \A w \in Workers : Alike(inv[w], inv'[w])
    /\ job'[j].cursor = job[j].cursor /\ job'[j].attempts = job[j].attempts
    /\ \/ job'[j].status = "FAILED"
       \/ /\ job'[j].status = job[j].status /\ job'[j].lease = job[j].lease
          /\ Billed(job'[j]) <=> Billed(job[j])
    /\ job[j].status = "RUNNING" /\ LeaseOutlivesWorker
          => inv[job[j].lease].pc = "idle"

LEMMA CreatesKind ==
    ASSUME IInv, NEW j \in Jobs, NEW c \in Nat, NEW d \in Nat,
           job[j].status = "ABSENT", CreateExclusive(j, c, d), StartsAt(j, c),
           \A w \in Workers : Starts(inv[w], inv'[w])
    PROVE  Creates(j)
<1>1. job'[j] = CreatedRow(c, d)
  BY DEF CreateExclusive, Recovered
<1>2. \A k \in Jobs : k # j => job'[k] = Recovered(j)[k]
  BY DEF CreateExclusive, Recovered
<1>3. \A k \in Jobs : Recovered(j)[k] =
         IF Stale(k, j) THEN RecoveredRow(job[k]) ELSE job[k]
  BY DEF Recovered, Stale
<1>4. \A k \in Jobs : RepoOf[k] = RepoOf[j] => Recovered(j)[k].status \notin Active
  BY DEF CreateExclusive, CanCreate
<1>5. QED
  BY <1>1, <1>2, <1>3, <1>4 DEF Creates

LEMMA AcceptJobKind ==
    ASSUME IInv, NEW j \in Jobs, AcceptJob(j)
    PROVE  Creates(j)
<1>1. PICK win \in CollectionWindows(j) : CreateExclusive(j, win.cursor, win.cutoff)
  BY DEF AcceptJob
<1>2. job[j].status = "ABSENT" /\ \A w \in Workers : Starts(inv[w], inv'[w])
  BY DEF AcceptJob, Starts
<1>3. CASE win \in {Window(lastSyncTime[RepoOf[j]], c) :
                       c \in {i \in 1..MaxInstant : IsNow(i)}}
  <2>1. PICK c \in 1..MaxInstant : win = Window(lastSyncTime[RepoOf[j]], c)
    BY <1>3
  <2>2. /\ win.cursor = lastSyncTime[RepoOf[j]] /\ win.cutoff \in Nat
        /\ win.cursor \in Nat
    BY <2>1, TokenAssumption, JobAssumption DEF Window, IInv, RestOK
  <2>3. QED
    BY <1>1, <1>2, <2>2, CreatesKind DEF StartsAt
<1>4. CASE \E k \in Jobs : RepoOf[k] = RepoOf[j]
                           /\ win = Window(job[k].cursor, job[k].cutoff)
  <2>1. PICK k \in Jobs : RepoOf[k] = RepoOf[j]
                          /\ win = Window(job[k].cursor, job[k].cutoff)
    BY <1>4
  <2>2. win.cursor = job[k].cursor /\ win.cutoff \in Nat /\ win.cursor \in Nat
    BY <2>1 DEF Window, IInv, RowsOK, Row
  <2>3. QED
    BY <1>1, <1>2, <2>1, <2>2, CreatesKind DEF StartsAt
<1>5. QED
  BY <1>3, <1>4 DEF CollectionWindows

LEMMA SyncCreateKind ==
    ASSUME IInv, NEW w \in Workers, SyncCreate(w)
    PROVE  Shape(w) \/ \E j \in Jobs : Creates(j)
<1>1. /\ inv[w].pc = "syncCreate" /\ J(w) \in Jobs /\ job[J(w)].status = "ABSENT"
      /\ inv[w] \in Invocation
  BY Mine DEF SyncCreate
<1>2. CASE /\ \E c \in 1..MaxInstant : IsNow(c) /\ CreateExclusive(J(w), 0, c)
           /\ Goto(w, "syncStart")
  <2>1. PICK c \in 1..MaxInstant : CreateExclusive(J(w), 0, c)
    BY <1>2
  <2>2. c \in Nat
    BY TokenAssumption
  <2>3. \A v \in Workers : Starts(inv[v], inv'[v])
    <3> DEFINE k == [inv[w] EXCEPT !.pc = "syncStart"]
    <3>1. inv'[w] = k /\ \A v \in Workers : v # w => inv'[v] = inv[v]
      BY <1>2 DEF Goto, IInv, LocalOK
    <3>2. k.pc = "syncStart" /\ k.job = inv[w].job /\ k.cursor = inv[w].cursor
      BY <1>1 DEF Invocation
    <3> HIDE DEF k
    <3>3. QED
      BY <1>1, <3>1, <3>2 DEF Starts
  <2>4. StartsAt(J(w), 0)
    BY DEF StartsAt
  <2>5. QED
    BY <1>1, <2>1, <2>2, <2>3, <2>4, CreatesKind
<1>3. CASE Return(w) /\ UNCHANGED job
  BY <1>1, <1>3, ReturnShape
<1>4. QED
  BY <1>2, <1>3 DEF SyncCreate

LEMMA FallBehindAlike ==
    ASSUME IInv, NEW j, FallBehind(j), NEW w \in Workers
    PROVE  Alike(inv[w], inv'[w])
<1>1. inv[w] \in Invocation
  BY DEF IInv, LocalOK
<1>2. inv'[w] = inv[w] \/ inv'[w] = [inv[w] EXCEPT !.behind = TRUE]
  BY DEF FallBehind
<1>3. QED
  BY <1>1, <1>2 DEF Alike, Invocation

LEMMA DeadlineKind ==
    ASSUME IInv, NEW j \in Jobs, LeaseExpires(j) \/ RetryFallsDue(j)
    PROVE  Passes(j)
<1>1. job[j] \in Row /\ RowInv(job[j])
  BY DEF IInv, RowsOK
<1>2. PICK s \in {[job[j] EXCEPT !.expired = TRUE], [job[j] EXCEPT !.waiting = FALSE]} :
         Write(j, s)
  BY DEF LeaseExpires, RetryFallsDue
<1>3. job'[j] = s /\ \A k \in Jobs : k # j => job'[k] = job[k]
  BY <1>2 DEF Write, IInv, RowsOK
<1>4. /\ s.cursor = job[j].cursor /\ s.attempts = job[j].attempts
      /\ s.status = job[j].status /\ s.lease = job[j].lease
      /\ s.billed = job[j].billed /\ s.total = job[j].total
  BY <1>1 DEF Row
<1>5. Billed(s) <=> Billed(job[j])
  BY <1>4 DEF Billed, HasProviderBillingEvidence
<1>6. \A w \in Workers : Alike(inv[w], inv'[w])
  BY FallBehindAlike DEF LeaseExpires, RetryFallsDue
<1>7. job[j].status \in Active
  BY DEF LeaseExpires, RetryFallsDue, Active
<1>8. job[j].status = "RUNNING" /\ LeaseOutlivesWorker => inv[job[j].lease].pc = "idle"
  BY DEF LeaseExpires, RetryFallsDue
<1>9. QED
  BY <1>3, <1>4, <1>5, <1>6, <1>7, <1>8 DEF Passes

LEMMA InvalidMessageKind ==
    ASSUME IInv, NEW j \in Jobs, FailQueuedInvalidMessage(j)
    PROVE  Passes(j)
<1> DEFINE s == SettledFailureRow(job[j], "INVALID_MESSAGE", FALSE)
<1>1. job[j] \in Row /\ job[j].status = "QUEUED" /\ UNCHANGED inv
  BY DEF IInv, RowsOK, FailQueuedInvalidMessage
<1>2. CASE Write(j, s)
  <2>1. s.cursor = job[j].cursor /\ s.attempts = job[j].attempts /\ s.status = "FAILED"
    BY <1>1 DEF SettledFailureRow, Row
  <2>2. job'[j] = s /\ \A k \in Jobs : k # j => job'[k] = job[k]
    BY <1>2 DEF Write, IInv, RowsOK
  <2> HIDE DEF s
  <2>3. QED
    BY <1>1, <2>1, <2>2 DEF Passes, Alike, Active
<1>3. CASE UNCHANGED job
  BY <1>1, <1>3 DEF Passes, Alike, Active
<1>4. QED
  BY <1>2, <1>3 DEF FailQueuedInvalidMessage, SettleFailure

(* Every step of the system is of one of these kinds.                      *)
LEMMA Kinds ==
    ASSUME IInv, Next
    PROVE  \/ \E w \in Workers : Shape(w)
           \/ \E j \in Jobs : Creates(j) \/ Passes(j)
<1>1. CASE \E w \in Workers : Step(w) \/ Environment(w)
  BY <1>1, SyncCreateKind, ShapeOfInvocation
<1>2. CASE \E w \in Workers, j \in Jobs, last \in BOOLEAN : Deliver(w, j, last)
  BY <1>2, DeliverShape
<1>3. CASE \E j \in Jobs : \/ AcceptJob(j) \/ FailQueuedInvalidMessage(j)
                           \/ LeaseExpires(j) \/ RetryFallsDue(j)
  BY <1>3, AcceptJobKind, InvalidMessageKind, DeadlineKind
<1>4. QED
  BY <1>1, <1>2, <1>3 DEF Next

-----------------------------------------------------------------------------
(* One active job per repository. *)

LEMMA ShapeKeepsActive ==
    ASSUME NEW w \in Workers, Shape(w), IInv, NEW j \in Jobs, job'[j].status \in Active
    PROVE  job[j].status \in Active
<1>1. CASE inv[w].pc # "idle"
  BY <1>1 DEF Shape, Serves
<1>2. CASE job' = job
  BY <1>2
<1>3. QED
  BY <1>1, <1>2 DEF Shape

LEMMA OneActiveStep ==
    ASSUME IInv, OneActiveJobPerRepository, Next
    PROVE  OneActiveJobPerRepository'
<1> SUFFICES ASSUME NEW j \in Jobs, NEW k \in Jobs, RepoOf[j] = RepoOf[k],
                    job'[j].status \in Active, job'[k].status \in Active
             PROVE  j = k
  BY DEF OneActiveJobPerRepository
<1>1. CASE \A i \in Jobs : job'[i].status \in Active => job[i].status \in Active
  BY <1>1 DEF OneActiveJobPerRepository
<1>2. CASE \E w \in Workers : Shape(w)
  BY <1>1, <1>2, ShapeKeepsActive
<1>3. CASE \E i \in Jobs : Passes(i)
  BY <1>1, <1>3 DEF Passes, Active
<1>4. CASE \E i \in Jobs : Creates(i)
  <2>1. PICK i \in Jobs : Creates(i)
    BY <1>4
  <2>2. \A l \in Jobs : l # i /\ RepoOf[l] = RepoOf[i] => job'[l].status \notin Active
    BY <2>1 DEF Creates
  <2>3. \A l \in Jobs : RepoOf[l] # RepoOf[i] => job'[l] = job[l]
    BY <2>1 DEF Creates, Stale
  <2>4. QED
    BY <2>2, <2>3 DEF OneActiveJobPerRepository
<1>5. QED
  BY <1>2, <1>3, <1>4, Kinds

(* For any number of jobs and invocations a repository never has two       *)
(* active jobs: nothing but createExclusive makes a job active, and it     *)
(* refuses while one is.                                                   *)
THEOREM OneActiveJob == Spec => []OneActiveJobPerRepository
<1>1. Init => OneActiveJobPerRepository
  BY DEF Init, OneActiveJobPerRepository, NoRow, Active
<1>2. IInv /\ OneActiveJobPerRepository /\ [Next]_vars => OneActiveJobPerRepository'
  <2>1. CASE UNCHANGED vars
    BY <2>1 DEF vars, OneActiveJobPerRepository
  <2>2. QED
    BY <2>1, OneActiveStep
<1>3. QED
  BY <1>1, <1>2, Invariance, PTL DEF Spec

-----------------------------------------------------------------------------
(* The repository checkpoint. *)

(* Only two transactions move a checkpoint, each with the completion       *)
(* action of its run.                                                      *)
LEMMA CheckpointSteps ==
    ASSUME Next
    PROVE  \/ UNCHANGED <<lastSyncTime, analysed>>
           \/ \E w \in Workers : /\ inv[w].pc # "idle"
                                 /\ AdvanceRepositoryCheckpoint(w)
<1>1. CASE \E w \in Workers : Step(w) \/ Environment(w)
  <2> PICK w \in Workers : Step(w) \/ Environment(w)
    BY <1>1
  <2>1. CASE NoAnalyzableData(w)
    BY <2>1 DEF NoAnalyzableData
  <2>2. CASE \E seen \in BOOLEAN : SaveResult(w, seen)
    BY <2>2 DEF SaveResult, results
  <2>3. CASE UNCHANGED results
    BY <2>3 DEF results
  <2>4. QED
    BY <2>1, <2>2, <2>3
    DEF Step, Environment, SyncCreate, SyncStart, ClaimQueued, TakeOverExpiredLease,
        TakeOverExpiredBilledLease, FinalizeClaimLimit, LostLease,
        RecoverProviderCheckpoint, CollectionDone, UpdateProgress,
        InputLimitExceeded, EnsureReservation, ReserveTokens, InsufficientTokens,
        OnTokensReserved, CallProvider, ProviderAnswers, RunFails, ProviderFails,
        RecordProviderCharge, OnSaving, LostLeaseWhileSaving, Reconcile,
        HandleClaimedFailure, SyncCollect, CollectionHeartbeat, Crash, DatabaseFails
<1>2. CASE \E w \in Workers, j \in Jobs, last \in BOOLEAN : Deliver(w, j, last)
  BY <1>2 DEF Deliver, results
<1>3. CASE \E j \in Jobs : \/ AcceptJob(j) \/ FailQueuedInvalidMessage(j)
                           \/ LeaseExpires(j) \/ RetryFallsDue(j)
  BY <1>3 DEF AcceptJob, FailQueuedInvalidMessage, LeaseExpires, RetryFallsDue, results
<1>4. QED
  BY <1>1, <1>2, <1>3 DEF Next

LEMMA CheckpointForward ==
    ASSUME IInv, Next, NEW r \in Repos
    PROVE  lastSyncTime'[r] >= lastSyncTime[r]
<1>1. lastSyncTime[r] \in Nat
  BY DEF IInv, RestOK
<1>2. CASE UNCHANGED lastSyncTime
  BY <1>1, <1>2
<1>3. CASE \E w \in Workers : inv[w].pc # "idle" /\ AdvanceRepositoryCheckpoint(w)
  <2>1. PICK w \in Workers : inv[w].pc # "idle" /\ AdvanceRepositoryCheckpoint(w)
    BY <1>3
  <2>2. inv[w].cutoff \in Nat
    BY <2>1, Mine DEF Invocation
  <2>3. QED
    BY <1>1, <2>1, <2>2 DEF AdvanceRepositoryCheckpoint, IInv, RestOK
<1>4. QED
  BY <1>2, <1>3, CheckpointSteps

(* No step moves a checkpoint back, however late the job finishes.         *)
THEOREM CheckpointNeverBack == Spec => CheckpointMonotone
<1>1. IInv /\ [Next]_vars => [\A r \in Repos : lastSyncTime'[r] >= lastSyncTime[r]]_vars
  BY CheckpointForward
<1>2. QED
  BY <1>1, Invariance, PTL DEF Spec, CheckpointMonotone

(* The windows start in covered ground: neither a row nor an invocation    *)
(* has a cursor beyond its repository's checkpoint.                        *)
CursorInv ==
    /\ \A j \in Jobs : job[j].cursor <= lastSyncTime[RepoOf[j]]
    /\ \A w \in Workers : inv[w].pc # "idle" =>
          inv[w].cursor <= lastSyncTime[RepoOf[inv[w].job]]

LEMMA CursorShape ==
    ASSUME IInv, IInv', CursorInv, NEW w \in Workers, Shape(w),
           \A r \in Repos : lastSyncTime'[r] >= lastSyncTime[r]
    PROVE  CursorInv'
<1>1. /\ \A j \in Jobs : /\ RepoOf[j] \in Repos /\ job[j].cursor \in Nat
                         /\ lastSyncTime[RepoOf[j]] \in Nat
                         /\ lastSyncTime'[RepoOf[j]] \in Nat
      /\ \A v \in Workers : inv[v].cursor \in Nat
  BY JobAssumption DEF IInv, RowsOK, RestOK, LocalOK, Row, Invocation
<1>2. \A j \in Jobs : job'[j].cursor = job[j].cursor
  BY DEF Shape, Serves
<1>3. \A j \in Jobs : job[j].cursor <= lastSyncTime'[RepoOf[j]]
  BY <1>1 DEF CursorInv
<1>4. \A v \in Workers : inv[v].pc # "idle" =>
         inv[v].job \in Jobs /\ inv[v].cursor <= lastSyncTime'[RepoOf[inv[v].job]]
  BY <1>1 DEF CursorInv, IInv, LocalOK, InvocationInv
<1>5. ASSUME inv'[w].pc # "idle"
      PROVE  inv'[w].cursor <= lastSyncTime'[RepoOf[inv'[w].job]]
  <2> DEFINE i == inv[w]  k == inv'[w]
  <2>1. CASE Looks(k)
    BY <1>1, <2>1 DEF Looks
  <2>2. CASE Collects(k)
    BY <1>1, <2>2, JobAssumption DEF Collects
  <2>3. CASE i.pc # "idle" /\ k.job = i.job /\ k.cursor = i.cursor
    BY <1>4, <2>3
  <2>4. CASE i.pc # "idle" /\ k.job = i.job /\ k.cursor = job[J(w)].cursor
    BY <1>3, <1>4, <2>4 DEF J
  <2>5. CASE k = Idle
    BY <1>5, <2>5 DEF Idle
  <2>6. QED
    BY <2>1, <2>2, <2>3, <2>4, <2>5 DEF Shape, Local, Continues, Claims
<1>6. QED
  BY <1>2, <1>3, <1>4, <1>5 DEF CursorInv, Shape

LEMMA CursorStep ==
    ASSUME IInv, IInv', CursorInv, Next
    PROVE  CursorInv'
<1>0. \A r \in Repos : lastSyncTime'[r] >= lastSyncTime[r]
  BY CheckpointForward
<1>1. /\ \A j \in Jobs : /\ RepoOf[j] \in Repos /\ job[j].cursor \in Nat
                         /\ lastSyncTime[RepoOf[j]] \in Nat
                         /\ lastSyncTime'[RepoOf[j]] \in Nat
      /\ \A v \in Workers : inv[v].cursor \in Nat
  BY JobAssumption DEF IInv, RowsOK, RestOK, LocalOK, Row, Invocation
<1>2. \A j \in Jobs : job[j].cursor <= lastSyncTime'[RepoOf[j]]
  BY <1>0, <1>1 DEF CursorInv
<1>3. \A v \in Workers : inv[v].pc # "idle" =>
         inv[v].job \in Jobs /\ inv[v].cursor <= lastSyncTime'[RepoOf[inv[v].job]]
  BY <1>0, <1>1 DEF CursorInv, IInv, LocalOK, InvocationInv
<1>4. CASE \E w \in Workers : Shape(w)
  BY <1>0, <1>4, CursorShape
<1>5. CASE \E j \in Jobs : Passes(j)
  <2>1. PICK j \in Jobs : Passes(j)
    BY <1>5
  <2>2. \A k \in Jobs : job'[k].cursor = job[k].cursor
    BY <2>1 DEF Passes
  <2>3. \A w \in Workers : Alike(inv[w], inv'[w])
    BY <2>1 DEF Passes
  <2>4. QED
    BY <1>2, <1>3, <2>2, <2>3 DEF CursorInv, Alike
<1>6. CASE \E j \in Jobs : Creates(j)
  <2>1. PICK j \in Jobs : Creates(j)
    BY <1>6
  <2>2. job'[j].cursor <= lastSyncTime'[RepoOf[j]]
    <3>1. PICK c, d \in Nat : StartsAt(j, c) /\ job'[j] = CreatedRow(c, d)
      BY <2>1 DEF Creates
    <3>2. job'[j].cursor = c
      BY <3>1 DEF CreatedRow, NoRow
    <3>3. QED
      BY <1>0, <1>1, <1>2, <3>1, <3>2 DEF StartsAt
  <2>3. \A k \in Jobs : k # j => job'[k].cursor = job[k].cursor
    <3>1. \A k \in Jobs : RecoveredRow(job[k]).cursor = job[k].cursor
      BY DEF IInv, RowsOK, RecoveredRow, Row
    <3>2. QED
      BY <2>1, <3>1 DEF Creates
  <2>4. \A w \in Workers : Starts(inv[w], inv'[w])
    BY <2>1 DEF Creates
  <2>5. \A w \in Workers : inv'[w].pc # "idle" =>
           inv'[w].cursor <= lastSyncTime'[RepoOf[inv'[w].job]]
    BY <1>3, <2>4 DEF Starts
  <2>6. QED
    BY <1>2, <2>2, <2>3, <2>5 DEF CursorInv
<1>7. QED
  BY <1>4, <1>5, <1>6, Kinds

LEMMA CoveredStep ==
    ASSUME IInv, IInv', CursorInv, CheckpointCovered, Next
    PROVE  CheckpointCovered'
<1>1. CASE UNCHANGED <<lastSyncTime, analysed>>
  BY <1>1 DEF CheckpointCovered
<1>2. CASE \E w \in Workers : inv[w].pc # "idle" /\ AdvanceRepositoryCheckpoint(w)
  <2>1. PICK w \in Workers : inv[w].pc # "idle" /\ AdvanceRepositoryCheckpoint(w)
    BY <1>2
  <2> DEFINE r == RepoOf[J(w)]  b == inv[w].cursor  c == inv[w].cutoff
             l == lastSyncTime[r]
  <2>2. r \in Repos /\ b \in Nat /\ c \in Nat /\ l \in Nat /\ b <= l
    BY <2>1, Mine, JobAssumption DEF Invocation, IInv, RestOK, CursorInv, J
  <2>3. /\ lastSyncTime'[r] = IF l < c THEN c ELSE l
        /\ analysed'[r] = analysed[r] \cup (b + 1)..c
        /\ \A q \in Repos : q # r => /\ lastSyncTime'[q] = lastSyncTime[q]
                                     /\ analysed'[q] = analysed[q]
    BY <2>1, <2>2 DEF AdvanceRepositoryCheckpoint, IInv, RestOK
  <2>4. 1..l \subseteq analysed[r]
    BY <2>2 DEF CheckpointCovered
  <2> HIDE DEF l, b, c
  <2>5. 1..lastSyncTime'[r] \subseteq analysed'[r]
    BY <2>2, <2>3, <2>4
  <2>6. QED
    BY <2>3, <2>5 DEF CheckpointCovered
<1>3. QED
  BY <1>1, <1>2, CheckpointSteps

(* Every instant up to a repository's checkpoint lies in the window of a   *)
(* job that finished: windows may overlap, be retried, and finish in any   *)
(* order, but each starts at or below the checkpoint it moves.             *)
THEOREM CheckpointHasNoGap == Spec => []CheckpointCovered
<1>1. Init => CursorInv /\ CheckpointCovered
  <2> SUFFICES ASSUME Init PROVE CursorInv /\ CheckpointCovered
    OBVIOUS
  <2>1. CursorInv
    BY JobAssumption DEF Init, CursorInv, NoRow, Idle
  <2>2. CheckpointCovered
    BY DEF Init, CheckpointCovered
  <2>3. QED
    BY <2>1, <2>2
<1>2. IInv /\ IInv' /\ CursorInv /\ CheckpointCovered /\ [Next]_vars
         => CursorInv' /\ CheckpointCovered'
  <2>1. CASE UNCHANGED vars
    BY <2>1 DEF vars, CursorInv, CheckpointCovered
  <2>2. QED
    BY <2>1, CursorStep, CoveredStep
<1>3. QED
  BY <1>1, <1>2, Invariance, PTL DEF Spec

-----------------------------------------------------------------------------
(* Reports and statistics. *)

(* The result transaction when its fence holds.                            *)
Saves(w) ==
    /\ J(w) \in Jobs /\ J(w) \notin reports /\ job[J(w)].status = "RUNNING"
    /\ reports' = reports \cup {J(w)}
    /\ analysisCount' = [analysisCount EXCEPT ![OwnerOf[J(w)]] = @ + 1]
    /\ job'[J(w)].status = "SUCCEEDED"
    /\ \A k \in Jobs : k # J(w) => job'[k] = job[k]

LEMMA SavesOrNot ==
    ASSUME IInv, NEW w \in Workers, NEW seen, SaveResult(w, seen)
    PROVE  Saves(w) \/ UNCHANGED <<reports, analysisCount>>
<1>1. /\ inv[w].pc # "idle" /\ J(w) \in Jobs /\ MyRow(w) \in Row
      /\ MyRow(w) = job[J(w)]
  BY Mine DEF SaveResult
<1>2. CASE TransitionFence(MyRow(w), w, inv[w].reserved) /\ J(w) \notin reports
  <2> DEFINE s == SucceededRow(MyRow(w), inv[w].usage)
  <2>1. /\ Write(J(w), s) /\ reports' = reports \cup {J(w)}
        /\ analysisCount' = [analysisCount EXCEPT ![OwnerOf[J(w)]] = @ + 1]
    BY <1>2 DEF SaveResult
  <2>2. s.status = "SUCCEEDED"
    BY <1>1 DEF SucceededRow, Row
  <2>3. job'[J(w)] = s /\ \A k \in Jobs : k # J(w) => job'[k] = job[k]
    BY <1>1, <2>1 DEF Write, IInv, RowsOK
  <2> HIDE DEF s
  <2>4. QED
    BY <1>1, <1>2, <2>1, <2>2, <2>3 DEF Saves, TransitionFence, Holds
<1>3. CASE ~(TransitionFence(MyRow(w), w, inv[w].reserved) /\ J(w) \notin reports)
  BY <1>3 DEF SaveResult, results
<1>4. QED
  BY <1>2, <1>3

LEMMA ReportSteps ==
    ASSUME IInv, Next
    PROVE  \/ UNCHANGED <<reports, analysisCount>>
           \/ \E w \in Workers : Saves(w)
<1>1. CASE \E w \in Workers : Step(w) \/ Environment(w)
  <2> PICK w \in Workers : Step(w) \/ Environment(w)
    BY <1>1
  <2>1. CASE NoAnalyzableData(w)
    BY <2>1 DEF NoAnalyzableData
  <2>2. CASE SaveResult(w, TRUE) \/ SaveResult(w, FALSE)
    BY <2>2, SavesOrNot
  <2>3. CASE UNCHANGED results
    BY <2>3 DEF results
  <2>4. QED
    BY <2>1, <2>2, <2>3
    DEF Step, Environment, SyncCreate, SyncStart, ClaimQueued, TakeOverExpiredLease,
        TakeOverExpiredBilledLease, FinalizeClaimLimit, LostLease,
        RecoverProviderCheckpoint, CollectionDone, UpdateProgress,
        InputLimitExceeded, EnsureReservation, ReserveTokens, InsufficientTokens,
        OnTokensReserved, CallProvider, ProviderAnswers, RunFails, ProviderFails,
        RecordProviderCharge, OnSaving, LostLeaseWhileSaving, Reconcile,
        HandleClaimedFailure, SyncCollect, CollectionHeartbeat, Crash, DatabaseFails
<1>2. CASE \E w \in Workers, j \in Jobs, last \in BOOLEAN : Deliver(w, j, last)
  BY <1>2 DEF Deliver, results
<1>3. CASE \E j \in Jobs : \/ AcceptJob(j) \/ FailQueuedInvalidMessage(j)
                           \/ LeaseExpires(j) \/ RetryFallsDue(j)
  BY <1>3 DEF AcceptJob, FailQueuedInvalidMessage, LeaseExpires, RetryFallsDue, results
<1>4. QED
  BY <1>1, <1>2, <1>3 DEF Next

(* Nobody but the result transaction makes a job SUCCEEDED.                *)
LEMMA NoOtherSuccess ==
    ASSUME IInv, Next, NEW j \in Jobs, job'[j].status = "SUCCEEDED", j \notin reports'
    PROVE  job[j].status = "SUCCEEDED"
<1>1. CASE \E w \in Workers : Shape(w)
  BY <1>1 DEF Shape, Serves, Reports
<1>2. CASE \E k \in Jobs : Passes(k)
  BY <1>2 DEF Passes
<1>3. CASE \E k \in Jobs : Creates(k)
  <2>1. PICK k \in Jobs : Creates(k)
    BY <1>3
  <2>2. j # k
    BY <2>1 DEF Creates, CreatedRow, NoRow
  <2>3. RecoveredRow(job[j]).status = "FAILED"
    BY DEF IInv, RowsOK, RecoveredRow, Row
  <2>4. QED
    BY <2>1, <2>2, <2>3 DEF Creates
<1>4. QED
  BY <1>1, <1>2, <1>3, Kinds

LEMMA ReportStep ==
    ASSUME IInv, IInv', ReportIffSucceeded, IsFiniteSet(reports), Next
    PROVE  ReportIffSucceeded' /\ IsFiniteSet(reports')
<1>1. \A j \in Jobs : job[j].status = "SUCCEEDED" => job'[j].status = "SUCCEEDED"
  <2>1. Final \/ UNCHANGED job
    BY NextOK DEF vars
  <2>2. QED
    BY <2>1 DEF Final, Terminal
<1>2. CASE UNCHANGED <<reports, analysisCount>>
  <2>1. \A j \in Jobs : job'[j].status = "SUCCEEDED" => job[j].status = "SUCCEEDED"
    BY <1>2, NoOtherSuccess DEF ReportIffSucceeded
  <2>2. QED
    BY <1>1, <1>2, <2>1 DEF ReportIffSucceeded
<1>3. CASE \E w \in Workers : Saves(w)
  <2>1. PICK w \in Workers : Saves(w)
    BY <1>3
  <2> DEFINE j == J(w)
  <2>2. /\ j \in Jobs /\ j \notin reports /\ job'[j].status = "SUCCEEDED"
        /\ reports' = reports \cup {j} /\ OwnerOf[j] \in Users
        /\ \A k \in Jobs : k # j => job'[k] = job[k]
    BY <2>1, JobAssumption DEF Saves
  <2>3. /\ analysisCount'[OwnerOf[j]] = analysisCount[OwnerOf[j]] + 1
        /\ \A u \in Users : u # OwnerOf[j] => analysisCount'[u] = analysisCount[u]
    BY <2>1, <2>2 DEF Saves, IInv, RestOK
  <2> HIDE DEF j
  <2>4. reports' = {k \in Jobs : job'[k].status = "SUCCEEDED"}
    BY <1>1, <2>2 DEF ReportIffSucceeded
  <2>5. IsFiniteSet(reports')
    BY <2>2, FS_AddElement
  <2>6. ASSUME NEW u \in Users
        PROVE  analysisCount'[u] = Cardinality({k \in reports' : OwnerOf[k] = u})
    <3> DEFINE A == {k \in reports : OwnerOf[k] = u}
    <3>1. IsFiniteSet(A)
      BY FS_Subset
    <3>2. analysisCount[u] = Cardinality(A)
      BY DEF ReportIffSucceeded
    <3>3. CASE u = OwnerOf[j]
      <4>1. {k \in reports' : OwnerOf[k] = u} = A \cup {j} /\ j \notin A
        BY <2>2, <3>3
      <4>2. QED
        BY <2>3, <3>1, <3>2, <3>3, <4>1, FS_AddElement
    <3>4. CASE u # OwnerOf[j]
      <4>1. {k \in reports' : OwnerOf[k] = u} = A
        BY <2>2, <3>4
      <4>2. QED
        BY <2>3, <3>2, <3>4, <4>1
    <3>5. QED
      BY <3>3, <3>4
  <2>7. QED
    BY <2>4, <2>5, <2>6 DEF ReportIffSucceeded
<1>4. QED
  BY <1>2, <1>3, ReportSteps

(* Inductive: only finitely many reports have been stored.                 *)
ReportInv == ReportIffSucceeded /\ IsFiniteSet(reports)

(* A report exists for exactly the succeeded jobs, and the statistics of   *)
(* each user have folded in each of that user's reports once: a crash      *)
(* after the commit, a lost reply and a second worker add nothing.         *)
THEOREM ReportPerSuccess == Spec => []ReportIffSucceeded
<1>1. Init => ReportInv
  <2> SUFFICES ASSUME Init PROVE ReportInv
    OBVIOUS
  <2>1. reports = {} /\ \A j \in Jobs : job[j].status # "SUCCEEDED"
    BY DEF Init, NoRow
  <2>2. \A u \in Users : /\ analysisCount[u] = 0
                         /\ {j \in reports : OwnerOf[j] = u} = {}
    BY <2>1 DEF Init
  <2>3. QED
    BY <2>1, <2>2, FS_EmptySet DEF ReportIffSucceeded, ReportInv
<1>2. IInv /\ IInv' /\ ReportInv /\ [Next]_vars
         => ReportInv'
  <2>1. CASE UNCHANGED vars
    BY <2>1 DEF vars, ReportIffSucceeded, ReportInv
  <2>2. QED
    BY <2>1, ReportStep DEF ReportInv
<1>3. ReportInv => ReportIffSucceeded
  BY DEF ReportInv
<1>4. QED
  BY <1>1, <1>2, <1>3, Invariance, PTL DEF Spec

-----------------------------------------------------------------------------
(* Provider calls. *)

(* Invocation w may still call the provider in the attempt it has begun.   *)
Calling(w, j) ==
    /\ inv[w].job = j
    /\ \/ inv[w].pc \in CallSteps
       \/ inv[w].pc = "recover" /\ Holds(job[j], w) /\ ~Billed(job[j])

Callers(j) == {w \in Workers : Calling(w, j)}

(* Every attempt pays for one call, made or still to come.                 *)
Budget(j) ==
    /\ IsFiniteSet(Callers(j))
    /\ providerCalls[j] + Cardinality(Callers(j)) <= job[j].attempts
    /\ job[j].attempts <= MaxAttempts
    /\ job[j].status = "ABSENT" => job[j].attempts = 0

SyncOnly ==
    \A w \in Workers : inv[w].pc \in {"syncCreate", "syncStart"}
       => inv[w].job \in SyncJobs

CallsInv == SyncOnly /\ \A j \in Jobs \ SyncJobs : Budget(j)

LEMMA ProviderSteps ==
    ASSUME Next
    PROVE  UNCHANGED providerCalls \/ \E w \in Workers : CallProvider(w)
<1>1. CASE \E w \in Workers : Step(w) \/ Environment(w)
  <2> PICK w \in Workers : Step(w) \/ Environment(w)
    BY <1>1
  <2>1. CASE CallProvider(w)
    BY <2>1
  <2>2. CASE UNCHANGED provider \/ UNCHANGED providerCalls
    BY <2>2 DEF provider
  <2>3. QED
    BY <2>1, <2>2
    DEF Step, Environment, SyncCreate, SyncStart, ClaimQueued, TakeOverExpiredLease,
        TakeOverExpiredBilledLease, FinalizeClaimLimit, LostLease,
        RecoverProviderCheckpoint, CollectionDone, UpdateProgress, NoAnalyzableData,
        InputLimitExceeded, EnsureReservation, ReserveTokens, InsufficientTokens,
        OnTokensReserved, ProviderAnswers, RunFails, ProviderFails, SaveResult,
        RecordProviderCharge, OnSaving, LostLeaseWhileSaving, Reconcile,
        HandleClaimedFailure, SyncCollect, CollectionHeartbeat, Crash, DatabaseFails
<1>2. CASE \E w \in Workers, j \in Jobs, last \in BOOLEAN : Deliver(w, j, last)
  BY <1>2 DEF Deliver, provider
<1>3. CASE \E j \in Jobs : \/ AcceptJob(j) \/ FailQueuedInvalidMessage(j)
                           \/ LeaseExpires(j) \/ RetryFallsDue(j)
  BY <1>3 DEF AcceptJob, FailQueuedInvalidMessage, LeaseExpires, RetryFallsDue, provider
<1>4. QED
  BY <1>1, <1>2, <1>3 DEF Next

(* What each kind of step does to the budget of a job, ...                 *)
LEMMA BudgetKept ==
    ASSUME NEW j \in Jobs, Budget(j), IInv, IInv', UNCHANGED providerCalls,
           Callers(j)' \subseteq Callers(j), job'[j].attempts = job[j].attempts,
           job'[j].status = "ABSENT" => job[j].status = "ABSENT"
    PROVE  Budget(j)'
<1>1. IsFiniteSet(Callers(j)') /\ Cardinality(Callers(j)') <= Cardinality(Callers(j))
  BY FS_Subset DEF Budget
<1>2. /\ Cardinality(Callers(j)') \in Nat /\ Cardinality(Callers(j)) \in Nat
      /\ providerCalls[j] \in Nat /\ job[j].attempts \in Nat
  BY <1>1, FS_CardinalityType DEF Budget, IInv, RestOK, RowsOK, Row
<1>3. QED
  BY <1>1, <1>2 DEF Budget

LEMMA BudgetExtended ==
    ASSUME NEW j \in Jobs, Budget(j), IInv, IInv', UNCHANGED providerCalls, NEW w,
           Callers(j)' \subseteq Callers(j) \cup {w},
           job'[j].attempts = job[j].attempts + 1,
           job[j].attempts < MaxAttempts, job'[j].status # "ABSENT"
    PROVE  Budget(j)'
<1>0. IsFiniteSet(Callers(j)) /\ IsFiniteSet(Callers(j) \cup {w})
  BY FS_AddElement DEF Budget
<1>1. IsFiniteSet(Callers(j)') /\ Cardinality(Callers(j)') <= Cardinality(Callers(j) \cup {w})
  BY <1>0, FS_Subset
<1>2. /\ Cardinality(Callers(j)') \in Nat /\ Cardinality(Callers(j)) \in Nat
      /\ providerCalls[j] \in Nat /\ job[j].attempts \in Nat
      /\ Cardinality(Callers(j) \cup {w}) \in Nat
  BY <1>0, <1>1, FS_CardinalityType DEF IInv, RestOK, RowsOK, Row
<1>3. Cardinality(Callers(j) \cup {w}) <= Cardinality(Callers(j)) + 1
  BY <1>0, <1>2, FS_AddElement
<1>4. QED
  BY <1>1, <1>2, <1>3, MaxAttemptsAssumption DEF Budget

(* ... for a step of an invocation, ...                                    *)
LEMMA OthersStopCalling ==
    ASSUME NEW w \in Workers, Shape(w), NEW j \in Jobs,
           NEW v \in Workers, v # w, Calling(v, j)'
    PROVE  Calling(v, j)
<1>1. inv'[v] = inv[v] /\ inv[v].job = j
  BY DEF Shape, Calling
<1>2. CASE inv[v].pc \in CallSteps
  BY <1>1, <1>2 DEF Calling
<1>3. CASE inv[v].pc = "recover" /\ Holds(job'[j], v) /\ ~Billed(job'[j])
  <2>1. Holds(job[j], v) /\ ~Billed(job[j])
    BY <1>3 DEF Shape, Serves, Holds
  <2>2. QED
    BY <1>1, <1>3, <2>1 DEF Calling
<1>4. QED
  BY <1>1, <1>2, <1>3 DEF Calling

LEMMA WhoeverStartsCalling ==
    ASSUME IInv, SyncOnly, NEW w \in Workers, Shape(w), NEW j \in Jobs \ SyncJobs,
           Calling(w, j)', ~Calling(w, j)
    PROVE  J(w) = j /\ job'[j].attempts = job[j].attempts + 1
<1> DEFINE i == inv[w]  k == inv'[w]
<1>1. k.job = j /\ k.pc \in CallSteps \cup {"recover"}
  BY DEF Calling
<1>2. k # Idle /\ ~Looks(k) /\ ~Collects(k)
  BY <1>1 DEF Looks, Collects, Idle, ClaimSteps, CallSteps
<1>3. CASE Continues(i, k, job[J(w)], job'[J(w)], w)
  <2>1. i.job = j /\ k.pc \in CallSteps /\ J(w) = j
    BY <1>1, <1>3 DEF Continues, J
  <2>2. \/ i.pc \in CallSteps \/ i.pc = "syncStart"
        \/ i.pc = "recover" /\ Holds(job[j], w) /\ ~Billed(job[j])
    BY <1>3, <2>1 DEF Continues
  <2>3. QED
    BY <2>1, <2>2 DEF Calling, SyncOnly
<1>4. CASE Claims(i, k, job[J(w)], job'[J(w)], w)
  <2>1. i.job = j /\ J(w) = j /\ k.pc = "recover"
    BY <1>1, <1>4 DEF Claims, J
  <2>2. ~Billed(job'[j])
    BY <2>1 DEF Calling, CallSteps
  <2>3. QED
    BY <1>4, <2>1, <2>2 DEF Claims
<1>5. QED
  BY <1>2, <1>3, <1>4 DEF Shape, Local

LEMMA BudgetShape ==
    ASSUME IInv, IInv', CallsInv, NEW w \in Workers, Shape(w), UNCHANGED providerCalls,
           NEW j \in Jobs \ SyncJobs
    PROVE  Budget(j)'
<1>1. Budget(j) /\ SyncOnly
  BY DEF CallsInv
<1>2. \A v \in Workers : v # w /\ v \in Callers(j)' => v \in Callers(j)
  BY OthersStopCalling DEF Callers
<1>3. /\ job'[j].status = "ABSENT" => job[j].status = "ABSENT"
      /\ \/ job'[j].attempts = job[j].attempts
         \/ /\ job'[j].attempts = job[j].attempts + 1
            /\ job[j].attempts < MaxAttempts /\ job'[j].status # "ABSENT"
  <2>1. CASE job'[j] = job[j]
    BY <2>1
  <2>2. CASE Serves(job[j], job'[j], w)
    BY <2>2 DEF Serves
  <2>3. QED
    BY <2>1, <2>2 DEF Shape
<1>4. job[j].attempts \in Nat
  BY DEF IInv, RowsOK, Row
<1>5. CASE job'[j].attempts = job[j].attempts
  <2>1. w \in Callers(j)' => w \in Callers(j)
    BY <1>1, <1>4, <1>5, WhoeverStartsCalling DEF Callers
  <2>2. Callers(j)' \subseteq Callers(j)
    BY <1>2, <2>1 DEF Callers
  <2>3. QED
    BY <1>1, <1>3, <1>5, <2>2, BudgetKept
<1>6. CASE /\ job'[j].attempts = job[j].attempts + 1
           /\ job[j].attempts < MaxAttempts /\ job'[j].status # "ABSENT"
  <2>1. Callers(j)' \subseteq Callers(j) \cup {w}
    BY <1>2 DEF Callers
  <2>2. QED
    BY <1>1, <1>6, <2>1, BudgetExtended
<1>7. QED
  BY <1>3, <1>5, <1>6

(* ... for a call, ...                                                     *)
LEMMA BudgetSpent ==
    ASSUME IInv, IInv', CallsInv, NEW w \in Workers, CallProvider(w),
           NEW j \in Jobs \ SyncJobs
    PROVE  Budget(j)'
<1>1. Budget(j) /\ UNCHANGED job
  BY DEF CallsInv, CallProvider
<1>2. /\ inv[w].pc = "llm" /\ inv'[w].pc = "reply" /\ J(w) \in Jobs
      /\ \A v \in Workers : v # w => inv'[v] = inv[v]
  BY Mine DEF CallProvider, Goto, IInv, LocalOK, Invocation
<1>3. Callers(j)' = Callers(j) \ {w}
  BY <1>1, <1>2 DEF Callers, Calling, CallSteps
<1>4. CASE J(w) # j
  <2>1. UNCHANGED providerCalls[j]
    BY <1>2, <1>4 DEF CallProvider, IInv, RestOK
  <2>2. w \notin Callers(j)
    BY <1>4 DEF Callers, Calling, J
  <2>3. Callers(j)' = Callers(j)
    BY <1>3, <2>2
  <2>4. QED
    BY <1>1, <2>1, <2>3 DEF Budget
<1>5. CASE J(w) = j
  <2>1. w \in Callers(j)
    BY <1>2, <1>5 DEF Callers, Calling, CallSteps, J
  <2>2. providerCalls'[j] = providerCalls[j] + 1 /\ providerCalls[j] \in Nat
    BY <1>5 DEF CallProvider, IInv, RestOK
  <2>3. /\ IsFiniteSet(Callers(j)) /\ IsFiniteSet(Callers(j) \ {w})
        /\ Cardinality(Callers(j) \ {w}) = Cardinality(Callers(j)) - 1
        /\ Cardinality(Callers(j)) \in Nat
    BY <1>1, <2>1, FS_RemoveElement, FS_CardinalityType DEF Budget
  <2>4. QED
    BY <1>1, <1>3, <2>2, <2>3 DEF Budget
<1>6. QED
  BY <1>4, <1>5

(* ... and for the other steps.                                            *)
LEMMA BudgetPasses ==
    ASSUME IInv, IInv', CallsInv, NEW i \in Jobs, Passes(i), UNCHANGED providerCalls,
           NEW j \in Jobs \ SyncJobs
    PROVE  Budget(j)'
<1>1. /\ Budget(j) /\ \A w \in Workers : Alike(inv[w], inv'[w])
      /\ job'[j].attempts = job[j].attempts
  BY DEF CallsInv, Passes
<1>2. job'[j].status = "ABSENT" => job[j].status = "ABSENT"
  BY DEF Passes
<1>3. \A w \in Workers : Holds(job'[j], w) => Holds(job[j], w)
  BY DEF Passes, Holds
<1>4. job'[j].status = "RUNNING" => (Billed(job'[j]) <=> Billed(job[j]))
  BY DEF Passes
<1>5. \A w \in Workers : Calling(w, j)' => Calling(w, j)
  BY <1>1, <1>3, <1>4 DEF Calling, Alike, Holds
<1>6. Callers(j)' \subseteq Callers(j)
  BY <1>5 DEF Callers
<1>7. QED
  BY <1>1, <1>2, <1>6, BudgetKept

LEMMA BudgetCreates ==
    ASSUME IInv, IInv', CallsInv, NEW i \in Jobs, Creates(i), UNCHANGED providerCalls,
           NEW j \in Jobs \ SyncJobs
    PROVE  Budget(j)'
<1>1. Budget(j) /\ \A w \in Workers : Starts(inv[w], inv'[w])
  BY DEF CallsInv, Creates
<1>2. /\ job'[j].attempts = job[j].attempts
      /\ job'[j].status = "ABSENT" => job[j].status = "ABSENT"
      /\ job'[j].status = "RUNNING" => job'[j] = job[j]
  <2>1. CASE j = i
    <3>1. job'[j].attempts = 0 /\ job'[j].status = "QUEUED"
      BY <2>1 DEF Creates, CreatedRow, NoRow
    <3>2. job[j].attempts = 0
      BY <1>1, <2>1 DEF Budget, Creates
    <3>3. QED
      BY <3>1, <3>2
  <2>2. CASE j # i
    <3>1. RecoveredRow(job[j]).attempts = job[j].attempts
          /\ RecoveredRow(job[j]).status = "FAILED"
      BY DEF IInv, RowsOK, RecoveredRow, Row
    <3>2. QED
      BY <2>2, <3>1 DEF Creates
  <2>3. QED
    BY <2>1, <2>2
<1>3. \A w \in Workers : Calling(w, j)' => Calling(w, j)
  BY <1>1, <1>2 DEF Calling, Starts, Holds, CallSteps
<1>4. Callers(j)' \subseteq Callers(j)
  BY <1>3 DEF Callers
<1>5. QED
  BY <1>1, <1>2, <1>4, BudgetKept

LEMMA SyncOnlyStep ==
    ASSUME IInv, SyncOnly, Next
    PROVE  SyncOnly'
<1>1. CASE \E w \in Workers : Shape(w)
  <2>1. PICK w \in Workers : Shape(w)
    BY <1>1
  <2>2. ASSUME inv'[w].pc \in {"syncCreate", "syncStart"}
        PROVE  inv'[w].job \in SyncJobs
    <3>1. /\ ~Looks(inv'[w]) /\ inv'[w] # Idle
          /\ \A r, s : /\ ~Continues(inv[w], inv'[w], r, s, w)
                       /\ ~Claims(inv[w], inv'[w], r, s, w)
      BY <2>2 DEF Looks, Idle, Continues, Claims, ClaimSteps
    <3>2. Collects(inv'[w])
      BY <2>1, <3>1 DEF Shape, Local
    <3>3. QED
      BY <3>2 DEF Collects
  <2>3. QED
    BY <2>1, <2>2 DEF SyncOnly, Shape
<1>2. CASE \E j \in Jobs : Passes(j)
  BY <1>2 DEF Passes, Alike, SyncOnly
<1>3. CASE \E j \in Jobs : Creates(j)
  BY <1>3 DEF Creates, Starts, SyncOnly
<1>4. QED
  BY <1>1, <1>2, <1>3, Kinds

LEMMA CallsStep ==
    ASSUME IInv, IInv', CallsInv, Next
    PROVE  CallsInv'
<1>1. SyncOnly'
  BY SyncOnlyStep DEF CallsInv
<1>2. CASE UNCHANGED providerCalls
  BY <1>1, <1>2, Kinds, BudgetShape, BudgetPasses, BudgetCreates DEF CallsInv
<1>3. CASE \E w \in Workers : CallProvider(w)
  BY <1>1, <1>3, BudgetSpent DEF CallsInv
<1>4. QED
  BY <1>2, <1>3, ProviderSteps

(* A job costs at most one provider request per attempt and at most        *)
(* maxAttempts attempts, for any number of deliveries, take-overs and      *)
(* invocations that outlive their lease.                                   *)
THEOREM OneCallPerAttempt == Spec => []CallsWithinAttempts
<1>1. Init => CallsInv
  <2> SUFFICES ASSUME Init PROVE CallsInv
    OBVIOUS
  <2>1. SyncOnly /\ \A j \in Jobs : Callers(j) = {}
    BY DEF Init, SyncOnly, Callers, Calling, CallSteps, Idle
  <2>2. \A j \in Jobs : job[j].attempts = 0 /\ providerCalls[j] = 0
    BY DEF Init, NoRow
  <2>3. QED
    BY <2>1, <2>2, FS_EmptySet, MaxAttemptsAssumption DEF CallsInv, Budget
<1>2. IInv /\ IInv' /\ CallsInv /\ [Next]_vars => CallsInv'
  <2>1. CASE UNCHANGED vars
    BY <2>1 DEF vars, CallsInv, SyncOnly, Budget, Callers, Calling
  <2>2. QED
    BY <2>1, CallsStep
<1>3. IInv /\ CallsInv => CallsWithinAttempts
  <2> SUFFICES ASSUME IInv, CallsInv, NEW j \in Jobs \ SyncJobs
               PROVE  /\ providerCalls[j] <= job[j].attempts
                      /\ job[j].attempts <= MaxAttempts
    BY DEF CallsWithinAttempts
  <2>1. Budget(j) /\ Cardinality(Callers(j)) \in Nat
    BY FS_CardinalityType DEF CallsInv, Budget
  <2>2. providerCalls[j] \in Nat /\ job[j].attempts \in Nat
    BY DEF IInv, RestOK, RowsOK, Row
  <2>3. QED
    BY <2>1, <2>2 DEF Budget
<1>4. QED
  BY <1>1, <1>2, <1>3, Invariance, PTL DEF Spec

-----------------------------------------------------------------------------
(* Leases that outlive the worker. *)

(* Whoever works towards a provider call holds an unexpired lease on a job *)
(* without a recorded charge; ...                                          *)
Owns(w) ==
    /\ inv[w].pc \in Owning => Holds(job[J(w)], w) /\ ~job[J(w)].expired
    /\ inv[w].pc \in Owning \ {"recover"} => ~Billed(job[J(w)])
    /\ inv[w].pc \in {"reserved", "llm", "reply"} => job[J(w)].reserved = inv[w].reserved

(* ... an expired lease is that of a dead invocation, in the table ...     *)
DeadRow(j) ==
    job[j].status = "RUNNING" /\ job[j].expired => inv[job[j].lease].pc = "idle"

(* ... and in what a claim has read.                                       *)
DeadSnap(w) ==
    inv[w].pc \in ClaimSteps /\ inv[w].was = "RUNNING"
       => inv[w].snap \in Workers /\ inv[inv[w].snap].pc = "idle"

DeployedInv ==
    /\ \A w \in Workers : Owns(w) /\ DeadSnap(w)
    /\ \A j \in Jobs : DeadRow(j)

(* The tokens that appear are those of invocations.                        *)
LEMMA TokensAreWorkers ==
    ASSUME IInv
    PROVE  /\ \A j \in Jobs : job[j].status = "RUNNING" => job[j].lease \in Workers
           /\ \A w \in Workers : inv[w].pc # "idle" => J(w) \in Jobs
<1>1. \A j \in Jobs : job[j].status = "RUNNING" => job[j].lease \in Workers
  BY DEF IInv, RowsOK, RowInv, RowCheck, Row
<1>2. QED
  BY <1>1, Mine

(* A step of w leaves the row of an owner v alone.                         *)
LEMMA OwnersRowKept ==
    ASSUME IInv, DeployedInv, NEW w \in Workers, Shape(w),
           NEW v \in Workers, v # w, inv[v].pc \in Owning
    PROVE  job'[J(v)] = job[J(v)]
<1>1. inv[v].pc # "idle" /\ J(v) \in Jobs
  BY Mine DEF Owning, CallSteps
<1>2. Holds(job[J(v)], v) /\ ~job[J(v)].expired
  BY DEF DeployedInv, Owns
<1>3. CASE job' = job
  BY <1>3
<1>4. CASE inv[w].pc # "idle" /\ J(v) # J(w)
  BY <1>1, <1>4 DEF Shape, FreshToken
<1>5. CASE inv[w].pc # "idle" /\ J(v) = J(w) /\ job'[J(v)] # job[J(v)]
  <2>1. Licensed(job[J(v)], inv[w], w)
    BY <1>5 DEF Shape
  <2>2. inv[w].pc = "limit" /\ inv[w].was = "RUNNING" /\ inv[w].snap = v
    BY <1>2, <2>1 DEF Licensed, Holds
  <2>3. inv[v].pc = "idle"
    BY <2>2 DEF DeployedInv, DeadSnap, ClaimSteps
  <2>4. QED
    BY <1>1, <2>3
<1>6. QED
  BY <1>3, <1>4, <1>5 DEF Shape

LEMMA OwnsShape ==
    ASSUME IInv, DeployedInv, NEW w \in Workers, Shape(w), NEW v \in Workers
    PROVE  Owns(v)'
<1>1. CASE v # w
  <2>1. inv'[v] = inv[v]
    BY <1>1 DEF Shape
  <2>2. inv[v].pc \in Owning => job'[J(v)] = job[J(v)]
    BY <1>1, OwnersRowKept
  <2>3. Owns(v)
    BY DEF DeployedInv
  <2>4. QED
    BY <2>1, <2>2, <2>3 DEF Owns, J, Owning, CallSteps
<1>2. CASE v = w
  <2> DEFINE i == inv[w]  k == inv'[w]  r == job[J(w)]  s == job'[J(w)]
  <2>1. CASE k.pc \notin Owning
    BY <1>2, <2>1 DEF Owns, Owning, CallSteps
  <2>2. CASE k.pc \in Owning
    <3>1. k # Idle /\ ~Looks(k) /\ ~Collects(k)
      BY <2>2 DEF Looks, Collects, Idle, ClaimSteps, CallSteps, Owning
    <3>2. inv[w].pc # "idle" /\ (Continues(i, k, r, s, w) \/ Claims(i, k, r, s, w))
      BY <3>1 DEF Shape, Local
    <3>3. J(w)' = J(w) /\ r \in Row /\ RowInv(r) /\ Owns(w)
      BY <3>2, Mine DEF Continues, Claims, J, DeployedInv
    <3>4. CASE Claims(i, k, r, s, w)
      BY <1>2, <3>3, <3>4 DEF Claims, Owns, Holds
    <3>5. CASE Continues(i, k, r, s, w)
      <4>1. CASE /\ i.pc = "syncStart" /\ r.status = "QUEUED" /\ s = StartedRow(r, w)
                 /\ k.pc = "resolve"
        <5>1. Holds(s, w) /\ ~s.expired /\ ~Billed(s)
          <6>1. Holds(s, w) /\ ~s.expired
            BY <3>3, <4>1 DEF StartedRow, Row, Holds
          <6>2. ~Billed(s)
            BY <3>3, <4>1, StartedRowOK DEF Billed
          <6>3. QED
            BY <6>1, <6>2
        <5>2. QED
          BY <1>2, <3>3, <4>1, <5>1 DEF Owns
      <4>2. CASE /\ i.pc \in Owning /\ (i.pc = "recover" => ~Billed(r))
                 /\ s.status = r.status /\ s.lease = r.lease
                 /\ s.expired => r.expired
                 /\ Billed(s) => Billed(r)
        <5>1. Holds(s, w) /\ ~s.expired /\ ~Billed(s)
          BY <3>3, <4>2 DEF Owns, Holds
        <5>2. k.pc \in {"reserved", "llm", "reply"} => s.reserved = k.reserved
          BY <3>3, <3>5 DEF Continues, Owns
        <5>3. QED
          BY <1>2, <3>3, <5>1, <5>2 DEF Owns
      <4>3. QED
        BY <2>2, <3>5, <4>1, <4>2 DEF Continues
    <3>6. QED
      BY <3>2, <3>4, <3>5
  <2>3. QED
    BY <2>1, <2>2
<1>3. QED
  BY <1>1, <1>2

(* An invocation that has ended does not come back under a token in use.   *)
LEMMA DeadShape ==
    ASSUME IInv, DeployedInv, NEW w \in Workers, Shape(w)
    PROVE  /\ \A v \in Workers : DeadSnap(v)'
           /\ \A j \in Jobs : DeadRow(j)'
<1>1. ASSUME NEW t, inv[t].pc = "idle", t \in Workers,
             \/ \E j \in Jobs : job[j].lease = t
             \/ \E v \in Workers : inv[v].snap = t
      PROVE  inv'[t].pc = "idle"
  <2>1. t # w
    BY <1>1 DEF Shape, FreshToken
  <2>2. QED
    BY <1>1, <2>1 DEF Shape
<1>2. ASSUME NEW j \in Jobs, job[j].status = "RUNNING", job[j].expired
      PROVE  job[j].lease \in Workers /\ inv'[job[j].lease].pc = "idle"
  BY <1>1, <1>2, TokensAreWorkers DEF DeployedInv, DeadRow
<1>3. ASSUME NEW j \in Jobs, job'[j].status = "RUNNING", job'[j].expired
      PROVE  inv'[job'[j].lease].pc = "idle"
  <2>1. CASE job'[j] = job[j]
    BY <1>2, <1>3, <2>1
  <2>2. CASE Serves(job[j], job'[j], w)
    BY <1>2, <1>3, <2>2 DEF Serves, Holds
  <2>3. QED
    BY <2>1, <2>2 DEF Shape
<1>4. ASSUME NEW v \in Workers, inv'[v].pc \in ClaimSteps, inv'[v].was = "RUNNING"
      PROVE  inv'[v].snap \in Workers /\ inv'[inv'[v].snap].pc = "idle"
  <2>1. CASE v # w
    <3>1. /\ inv'[v] = inv[v] /\ inv[v].snap \in Workers
          /\ inv[inv[v].snap].pc = "idle"
      BY <1>4, <2>1 DEF Shape, DeployedInv, DeadSnap
    <3>2. QED
      BY <1>1, <3>1
  <2>2. CASE v = w
    <3> DEFINE k == inv'[w]
    <3>1. k # Idle /\ ~Collects(k)
      BY <1>4, <2>2 DEF Idle, Collects, ClaimSteps
    <3>2. \A r, s : ~Continues(inv[w], k, r, s, w) /\ ~Claims(inv[w], k, r, s, w)
      BY <1>4, <2>2 DEF Continues, Claims, ClaimSteps
    <3>3. Looks(k)
      BY <3>1, <3>2 DEF Shape, Local
    <3>4. QED
      BY <1>2, <1>4, <2>2, <3>3 DEF Looks
  <2>3. QED
    BY <2>1, <2>2
<1>5. QED
  BY <1>3, <1>4 DEF DeadRow, DeadSnap

LEMMA DeployedPasses ==
    ASSUME IInv, DeployedInv, LeaseOutlivesWorker, NEW j \in Jobs, Passes(j)
    PROVE  DeployedInv'
<1>1. \A w \in Workers : Alike(inv[w], inv'[w])
  BY DEF Passes
<1>2. ASSUME NEW w \in Workers PROVE Owns(w)'
  <2>1. Owns(w) /\ J(w)' = J(w)
    BY <1>1 DEF DeployedInv, Alike, J
  <2>2. CASE inv[w].pc \notin Owning
    BY <1>1, <2>2 DEF Owns, Alike, Owning, CallSteps
  <2>3. CASE inv[w].pc \in Owning
    <3>1. J(w) \in Jobs /\ inv[w].pc # "idle" /\ Holds(job[J(w)], w)
      BY <2>1, <2>3, Mine DEF Owning, CallSteps, Owns
    <3>2. J(w) # j
      BY <3>1 DEF Passes, Holds
    <3>3. job'[J(w)] = job[J(w)]
      BY <3>1, <3>2 DEF Passes
    <3>4. QED
      BY <1>1, <2>1, <3>3 DEF Owns, Alike
  <2>4. QED
    BY <2>2, <2>3
<1>3. \A w \in Workers : DeadSnap(w)'
  BY <1>1 DEF DeployedInv, DeadSnap, Alike
<1>4. ASSUME NEW i \in Jobs PROVE DeadRow(i)'
  <2>1. CASE i # j
    <3>1. job'[i] = job[i] /\ DeadRow(i)
      BY <2>1 DEF Passes, DeployedInv
    <3>2. QED
      BY <1>1, <3>1, TokensAreWorkers DEF DeadRow, Alike
  <2>2. CASE i = j
    BY <1>1, <2>2, TokensAreWorkers DEF DeadRow, Alike, Passes
  <2>3. QED
    BY <2>1, <2>2
<1>5. QED
  BY <1>2, <1>3, <1>4 DEF DeployedInv

LEMMA DeployedCreates ==
    ASSUME IInv, DeployedInv, NEW j \in Jobs, Creates(j)
    PROVE  DeployedInv'
<1>1. \A w \in Workers : Starts(inv[w], inv'[w])
  BY DEF Creates
<1>2. \A t \in Workers : inv[t].pc = "idle" => inv'[t].pc = "idle"
  BY <1>1 DEF Starts
<1>3. \A i \in Jobs : job'[i].status = "RUNNING" => job'[i] = job[i]
  <2>1. job'[j].status = "QUEUED"
    BY DEF Creates, CreatedRow, NoRow
  <2>2. \A i \in Jobs : RecoveredRow(job[i]).status = "FAILED"
    BY DEF IInv, RowsOK, RecoveredRow, Row
  <2>3. QED
    BY <2>1, <2>2 DEF Creates
<1>4. \A i \in Jobs : DeadRow(i)'
  BY <1>2, <1>3, TokensAreWorkers DEF DeployedInv, DeadRow
<1>5. \A w \in Workers : DeadSnap(w)'
  BY <1>1, <1>2 DEF DeployedInv, DeadSnap, Starts, ClaimSteps
<1>6. ASSUME NEW w \in Workers PROVE Owns(w)'
  <2>1. CASE inv[w].pc \in Owning
    <3>1. /\ inv'[w] = inv[w] /\ J(w) \in Jobs /\ Owns(w)
          /\ Holds(job[J(w)], w) /\ ~job[J(w)].expired
      BY <1>1, <2>1, Mine DEF Starts, Owning, CallSteps, DeployedInv, Owns
    <3>2. J(w) # j /\ ~Stale(J(w), j)
      BY <3>1 DEF Creates, Holds, Stale, IsStale
    <3>3. job'[J(w)] = job[J(w)]
      BY <3>1, <3>2 DEF Creates
    <3>4. QED
      BY <3>1, <3>3 DEF Owns, J
  <2>2. CASE inv[w].pc \notin Owning
    <3>1. inv'[w].pc \notin Owning
      BY <1>1, <2>2 DEF Starts, Owning, CallSteps
    <3>2. QED
      BY <3>1 DEF Owns, Owning, CallSteps
  <2>3. QED
    BY <2>1, <2>2
<1>7. QED
  BY <1>4, <1>5, <1>6 DEF DeployedInv

(* With a lease longer than the Lambda timeout, whoever talks to the       *)
(* provider holds the lease and the reservation of a job without a         *)
(* recorded charge, for any number of invocations and jobs.  The           *)
(* hypothesis is the deployment's: without it the property fails.          *)
THEOREM ExclusiveProviderCall ==
    LeaseOutlivesWorker => (Spec => []ProviderCallIsExclusive)
<1> SUFFICES ASSUME LeaseOutlivesWorker PROVE Spec => []ProviderCallIsExclusive
  OBVIOUS
<1>1. Init => DeployedInv
  BY DEF Init, DeployedInv, Owns, DeadSnap, DeadRow, NoRow, Idle, Owning, CallSteps,
         ClaimSteps
<1>2. IInv /\ DeployedInv /\ [Next]_vars => DeployedInv'
  <2> SUFFICES ASSUME IInv, DeployedInv, [Next]_vars PROVE DeployedInv'
    OBVIOUS
  <2>1. CASE UNCHANGED vars
    BY <2>1 DEF vars, DeployedInv, Owns, DeadSnap, DeadRow, J
  <2>2. CASE \E w \in Workers : Shape(w)
    BY <2>2, OwnsShape, DeadShape DEF DeployedInv
  <2>3. CASE \E j \in Jobs : Creates(j) \/ Passes(j)
    BY <2>3, DeployedPasses, DeployedCreates
  <2>4. QED
    BY <2>1, <2>2, <2>3, Kinds
<1>3. DeployedInv => ProviderCallIsExclusive
  <2> SUFFICES ASSUME DeployedInv, NEW w \in Workers, inv[w].pc \in {"llm", "reply"}
               PROVE  /\ Holds(MyRow(w), w) /\ MyRow(w).reserved = inv[w].reserved
                      /\ ~HasProviderBillingEvidence(MyRow(w))
    BY DEF ProviderCallIsExclusive
  <2>1. inv[w].pc \in Owning \ {"recover"} /\ Owns(w)
    BY DEF Owning, CallSteps, DeployedInv
  <2>2. QED
    BY <2>1 DEF Owns, MyRow, Billed
<1>4. QED
  BY <1>1, <1>2, <1>3, Invariance, PTL DEF Spec

(* The queue only chooses which of the worker's behaviours happen: with a  *)
(* bounded number of receives (WorkerRedelivery) the worker still takes    *)
(* only the steps of AnalysisWorker, so that what is proved of Spec holds  *)
(* there too.                                                              *)
THEOREM RedeliveryImplementsWorker == RedeliverySpec => Spec
<1>1. RedeliveryInit => Init
  BY DEF RedeliveryInit
<1>2. [RedeliveryNext]_redeliveryVars => [Next]_vars
  <2> SUFFICES ASSUME [RedeliveryNext]_redeliveryVars PROVE [Next]_vars
    OBVIOUS
  <2>1. CASE UNCHANGED redeliveryVars
    BY <2>1 DEF redeliveryVars
  <2>2. CASE Work
    BY <2>2 DEF Work, Next
  <2>3. ASSUME NEW j \in Jobs, NEW w \in Workers, Receive(w, j) PROVE Next
    <3> DEFINE last == receives[j] + 1 >= MaxAttempts
    <3>1. last \in BOOLEAN /\ Deliver(w, j, last)
      BY <2>3 DEF Receive
    <3> HIDE DEF last
    <3>2. QED
      BY <3>1 DEF Next
  <2>4. ASSUME NEW j \in Jobs, ReceiveInVain(j) \/ Republish(j)
        PROVE  UNCHANGED vars
    BY <2>4 DEF ReceiveInVain, Republish
  <2>5. ASSUME NEW j \in Jobs,
               \/ AcceptJob(j) \/ FailQueuedInvalidMessage(j)
               \/ LeaseExpires(j) \/ RetryFallsDue(j)
        PROVE  Next
    BY <2>5 DEF Next
  <2>6. QED
    BY <2>1, <2>2, <2>3, <2>4, <2>5 DEF RedeliveryNext
<1>3. QED
  BY <1>1, <1>2, PTL DEF RedeliverySpec, Spec
=============================================================================
