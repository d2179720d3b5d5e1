------------------------ MODULE JobAcceptanceProofs ------------------------
(***************************************************************************)
(* Invariance proofs for JobAcceptance, for any sets of users, keys,       *)
(* repositories and requests.                                              *)
(*                                                                         *)
(* The invariant says what the locks are for: no two transactions hold the *)
(* same one; a transaction past the first check holds the lock of its key  *)
(* and no job has that key; one about to insert holds the lock of its      *)
(* repository and no job is active on it.  An insert by somebody else      *)
(* would need the same lock, so both facts survive until the commit.       *)
(*                                                                         *)
(* Two further invariants rest on this one.  LimitInv: a transaction past  *)
(* its count holds the user's lock, so the count is still true when it     *)
(* inserts.  ListInv: the cursor of a listing separates the jobs it has    *)
(* shown from those it still owes.                                         *)
(***************************************************************************)
EXTENDS JobAcceptance, FiniteSetTheorems, TLAPS

\* What the proofs need of TypeOK.
CoreType ==
  /\ now \in 0..MaxTime
  /\ jobs \subseteq Job
  /\ request \in [Requests -> Request]
  /\ locks \in [Requests -> SUBSET Locks]

PastKey == {"rate", "repository", "exclusive", "insert"}

HasKey(j, x) == j.user = x.user /\ j.key = x.key
Blocks(j, x) == j.body.repository = x.body.repository /\ j.status = "ACTIVE"
Names(j, x) == j.id = x.job /\ HasKey(j, x) /\ j.body = x.body

\* Of a request x that holds the locks L, over the ledger J.
Placed(x) ==
  x.pc \in InTransaction => x.user \in Users /\ x.key \in Keys /\ x.body \in Bodies
KeyGuarded(x, L, J) ==
  x.pc \in PastKey => <<"key", x.user, x.key>> \in L /\ \A j \in J : ~HasKey(j, x)
RepositoryGuarded(x, L, J) ==
  x.pc = "insert" => /\ <<"repository", x.body.repository>> \in L
                     /\ \A j \in J : ~Blocks(j, x)
AnswerGood(x, J) == x.pc = "answered" => \E j \in J : Names(j, x)

Good(x, L, J) ==
  Placed(x) /\ KeyGuarded(x, L, J) /\ RepositoryGuarded(x, L, J) /\ AnswerGood(x, J)

RequestInv == \A q \in Requests : Good(request[q], locks[q], jobs)

\* A lock belongs to one transaction.
LocksExclusive == \A q \in Requests : \A lock \in locks[q] : Free(q, lock)

\* An id names one job.
IdsUnique == \A j, k \in jobs : j.id = k.id => j = k

IInv ==
  /\ CoreType /\ RequestInv /\ LocksExclusive
  /\ IdsUnique /\ OneJobPerKey /\ ActiveJobIsExclusive

----------------------------------------------------------------------------
(* Steps that leave the ledger alone.                                      *)

LEMMA ZeroIsTime == 0 \in 0..MaxTime
BY JobAcceptanceAssumption

\* One transaction changes its place and its locks.
LEMMA RequestStep ==
  ASSUME IInv, NEW q \in Requests, NEW x \in Request, NEW L \in SUBSET Locks,
         \A lock \in L : Free(q, lock),
         Good(x, L, jobs),
         request' = [request EXCEPT ![q] = x],
         locks' = [locks EXCEPT ![q] = L],
         now' = now, jobs' = jobs
  PROVE  IInv'
<1>1. CoreType'
  BY DEF IInv, CoreType
<1>2. /\ request'[q] = x /\ locks'[q] = L
      /\ \A p \in Requests \ {q} : request'[p] = request[p] /\ locks'[p] = locks[p]
  BY DEF IInv, CoreType
<1>3. RequestInv'
  BY <1>2, Zenon DEF IInv, RequestInv
<1>4. LocksExclusive'
  <2> SUFFICES ASSUME NEW p \in Requests, NEW lock \in locks'[p], NEW o \in Requests \ {p}
               PROVE  lock \notin locks'[o]
    BY DEF LocksExclusive, Free
  <2>1. CASE p = q
    BY <1>2, <2>1 DEF Free
  <2>2. CASE o = q
    <3>1. lock \in locks[p] /\ p # q
      BY <1>2, <2>2
    <3> QED BY <1>2, <2>2, <3>1 DEF Free
  <2>3. CASE p # q /\ o # q
    BY <1>2, <2>3 DEF IInv, LocksExclusive, Free
  <2> QED BY <2>1, <2>2, <2>3
<1>5. IdsUnique' /\ OneJobPerKey' /\ ActiveJobIsExclusive'
  BY Zenon DEF IInv, IdsUnique, OneJobPerKey, ActiveJobIsExclusive
<1> QED BY <1>1, <1>3, <1>4, <1>5 DEF IInv

\* A transaction ends without a job.
LEMMA RollbackStep ==
  ASSUME IInv, NEW q \in Requests, Rollback(q), now' = now, jobs' = jobs
  PROVE  IInv'
<1>1. NoRequest \in Request /\ NoRequest.pc = "idle"
  BY JobAcceptanceAssumption DEF NoRequest, Request
<1>2. request' = [request EXCEPT ![q] = NoRequest] /\ locks' = [locks EXCEPT ![q] = {}]
  BY DEF Rollback
<1>3. Good(NoRequest, {}, jobs)
  BY <1>1 DEF Good, Placed, KeyGuarded, RepositoryGuarded, AnswerGood, PastKey, InTransaction
<1>4. {} \in SUBSET Locks /\ \A lock \in {} : Free(q, lock)
  OBVIOUS
<1> QED BY <1>1, <1>2, <1>3, <1>4, RequestStep

\* A transaction moves on with one more lock.
LEMMA LockStep ==
  ASSUME IInv, NEW q \in Requests, NEW lock \in Locks, Free(q, lock),
         NEW pc \in PastKey, request[q].pc \in InTransaction,
         locks' = [locks EXCEPT ![q] = @ \cup {lock}],
         Goto(q, pc), now' = now, jobs' = jobs,
         KeyGuarded([request[q] EXCEPT !.pc = pc], locks[q] \cup {lock}, jobs),
         RepositoryGuarded([request[q] EXCEPT !.pc = pc], locks[q] \cup {lock}, jobs)
  PROVE  IInv'
<1> DEFINE x == [request[q] EXCEPT !.pc = pc]
<1>1. request[q] \in Request /\ locks[q] \in SUBSET Locks /\ Good(request[q], locks[q], jobs)
  BY DEF IInv, CoreType, RequestInv
<1>2. /\ x \in Request /\ x.pc = pc /\ x.user = request[q].user /\ x.key = request[q].key
      /\ x.body = request[q].body /\ x.job = request[q].job
  BY <1>1 DEF Request, PastKey, InTransaction
<1>3. request' = [request EXCEPT ![q] = x] /\ locks' = [locks EXCEPT ![q] = locks[q] \cup {lock}]
  BY DEF Goto, IInv, CoreType
<1>4. KeyGuarded(x, locks[q] \cup {lock}, jobs) /\ RepositoryGuarded(x, locks[q] \cup {lock}, jobs)
  OBVIOUS
<1> HIDE DEF x
<1>5. Placed(x) /\ AnswerGood(x, jobs)
  BY <1>1, <1>2 DEF Good, Placed, AnswerGood, PastKey
<1>6. \A l \in locks[q] \cup {lock} : Free(q, l)
  BY DEF IInv, LocksExclusive
<1>7. locks[q] \cup {lock} \in SUBSET Locks
  BY <1>1
<1> QED BY <1>2, <1>3, <1>4, <1>5, <1>6, <1>7, RequestStep DEF Good

----------------------------------------------------------------------------
(* The actions of a transaction.                                           *)

\* A transaction starts without locks.
LEMMA BeginStep ==
  ASSUME IInv, NEW q \in Requests, NEW u \in Users, NEW k \in Keys, NEW body \in Bodies,
         request' = [request EXCEPT ![q] =
           [NoRequest EXCEPT !.pc = "key", !.user = u, !.key = k, !.started = now, !.body = body]],
         locks' = locks, now' = now, jobs' = jobs
  PROVE  IInv'
<1> DEFINE x == [NoRequest EXCEPT !.pc = "key", !.user = u, !.key = k, !.started = now, !.body = body]
<1>1. now \in 0..MaxTime /\ locks \in [Requests -> SUBSET Locks]
  BY DEF IInv, CoreType
<1>2. NoRequest \in Request
  BY JobAcceptanceAssumption DEF NoRequest, Request
<1>3. /\ x \in Request /\ x.pc = "key"
      /\ x.user = u /\ x.key = k /\ x.body = body
  BY <1>1, <1>2 DEF Request, InTransaction
<1> HIDE DEF x
<1>4. Good(x, locks[q], jobs)
  BY <1>3 DEF Good, Placed, KeyGuarded, RepositoryGuarded, AnswerGood, PastKey
<1>5. locks' = [locks EXCEPT ![q] = locks[q]] /\ locks[q] \in SUBSET Locks
  BY <1>1
<1>6. \A lock \in locks[q] : Free(q, lock)
  BY DEF IInv, LocksExclusive
<1>7. request' = [request EXCEPT ![q] = x]
  BY DEF x
<1> QED BY <1>3, <1>4, <1>5, <1>6, <1>7, RequestStep

LEMMA CreateInv ==
  ASSUME IInv, NEW q \in Requests, NEW u \in Users, NEW k \in Keys, NEW r \in Repositories,
         Create(q, u, k, r)
  PROVE  IInv'
<1>1. [type |-> "CREATE", repository |-> r, source |-> 0] \in Bodies
  BY DEF Bodies
<1> QED BY <1>1, BeginStep DEF Create

LEMMA RetryInv ==
  ASSUME IInv, NEW q \in Requests, NEW u \in Users, NEW k \in Keys, NEW j \in jobs,
         Retry(q, u, k, j)
  PROVE  IInv'
<1>1. j.id \in JobIds /\ j.body.repository \in Repositories
  BY DEF IInv, CoreType, Job, Bodies
<1>2. [type |-> "RETRY", repository |-> j.body.repository, source |-> j.id] \in Bodies
  BY <1>1 DEF Bodies
<1> QED BY <1>2, BeginStep DEF Retry

\* The job found under the key is the one the answer names.
LEMMA LockKeyInv ==
  ASSUME IInv, NEW q \in Requests, LockKey(q)
  PROVE  IInv'
<1> DEFINE u == request[q].user
           k == request[q].key
           lock == <<"key", u, k>>
           existing == {j \in JobsOf(u) : j.key = k}
<1>1. /\ request[q] \in Request /\ request[q].pc = "key" /\ Free(q, lock)
      /\ now' = now /\ jobs' = jobs /\ Placed(request[q])
  BY DEF LockKey, IInv, CoreType, RequestInv, Good
<1>2. u \in Users /\ k \in Keys
  BY <1>1 DEF Placed, InTransaction
<1>3. CASE existing = {} /\ locks' = [locks EXCEPT ![q] = @ \cup {lock}] /\ Goto(q, "rate")
  <2> DEFINE x == [request[q] EXCEPT !.pc = "rate"]
  <2>1. x.pc = "rate" /\ x.user = u /\ x.key = k
    BY <1>1 DEF Request
  <2>2. lock \in Locks
    BY <1>2 DEF Locks
  <2>3. \A j \in jobs : ~(j.user = u /\ j.key = k)
    BY <1>3 DEF JobsOf
  <2> HIDE DEF x
  <2>4. KeyGuarded(x, locks[q] \cup {lock}, jobs) /\ RepositoryGuarded(x, locks[q] \cup {lock}, jobs)
    BY <2>1, <2>3 DEF KeyGuarded, RepositoryGuarded, HasKey
  <2>5. "rate" \in PastKey /\ request[q].pc \in InTransaction
    BY <1>1 DEF PastKey, InTransaction
  <2> HIDE DEF lock
  <2> QED BY <1>1, <1>3, <2>2, <2>4, <2>5, LockStep DEF x
<1>4. ASSUME NEW j \in existing, SameRequest(j, request[q].body), Accept(q, j.id)
      PROVE  IInv'
  <2> DEFINE x == [[[request[q] EXCEPT !.pc = "answered"] EXCEPT !.started = 0] EXCEPT !.job = j.id]
  <2>1. request' = [request EXCEPT ![q] = x] /\ locks' = [locks EXCEPT ![q] = {}]
    BY <1>4 DEF Accept, IInv, CoreType
  <2>2. j \in jobs /\ j.user = u /\ j.key = k /\ j.body = request[q].body /\ j.id \in JobIds
    BY <1>4 DEF JobsOf, SameRequest, IInv, CoreType, Job
  <2>3. /\ x \in Request /\ x.pc = "answered" /\ x.job = j.id
        /\ x.user = u /\ x.key = k /\ x.body = request[q].body
    BY <1>1, <2>2, ZeroIsTime DEF Request
  <2> HIDE DEF x
  <2>4. Good(x, {}, jobs)
    BY <2>2, <2>3 DEF Good, Placed, KeyGuarded, RepositoryGuarded, AnswerGood, Names, HasKey,
       PastKey, InTransaction
  <2>5. {} \in SUBSET Locks /\ \A l \in {} : Free(q, l)
    OBVIOUS
  <2> QED BY <1>1, <2>1, <2>3, <2>4, <2>5, RequestStep
<1>5. CASE Rollback(q)
  BY <1>1, <1>5, RollbackStep
<1> QED BY <1>3, <1>4, <1>5 DEF LockKey

LEMMA LockRateInv ==
  ASSUME IInv, NEW q \in Requests, LockRate(q)
  PROVE  IInv'
<1> DEFINE lock == <<"rate", request[q].user>>
           x == [request[q] EXCEPT !.pc = "repository"]
<1>1. /\ request[q] \in Request /\ request[q].pc = "rate" /\ Free(q, lock)
      /\ now' = now /\ jobs' = jobs /\ Good(request[q], locks[q], jobs)
  BY DEF LockRate, IInv, CoreType, RequestInv
<1>2. request[q].user \in Users
  BY <1>1 DEF Good, Placed, InTransaction
<1>3. CASE locks' = [locks EXCEPT ![q] = @ \cup {lock}] /\ Goto(q, "repository")
  <2>1. x.pc = "repository" /\ x.user = request[q].user /\ x.key = request[q].key
    BY <1>1 DEF Request
  <2>2. lock \in Locks
    BY <1>2 DEF Locks
  <2> HIDE DEF x, lock
  <2>3. KeyGuarded(x, locks[q] \cup {lock}, jobs) /\ RepositoryGuarded(x, locks[q] \cup {lock}, jobs)
    BY <1>1, <2>1 DEF Good, KeyGuarded, RepositoryGuarded, HasKey, PastKey
  <2>4. "repository" \in PastKey /\ request[q].pc \in InTransaction
    BY <1>1 DEF PastKey, InTransaction
  <2> QED BY <1>1, <1>3, <2>2, <2>3, <2>4, LockStep DEF x
<1>4. CASE Rollback(q)
  BY <1>1, <1>4, RollbackStep
<1> QED BY <1>3, <1>4 DEF LockRate

LEMMA FindRepositoryInv ==
  ASSUME IInv, NEW q \in Requests, FindRepository(q)
  PROVE  IInv'
<1> DEFINE x == [request[q] EXCEPT !.pc = "exclusive"]
<1>1. /\ request[q] \in Request /\ request[q].pc = "repository"
      /\ now' = now /\ jobs' = jobs /\ Good(request[q], locks[q], jobs)
      /\ locks[q] \in SUBSET Locks
  BY DEF FindRepository, IInv, CoreType, RequestInv
<1>2. CASE Goto(q, "exclusive") /\ UNCHANGED locks
  <2>1. /\ x \in Request /\ x.pc = "exclusive" /\ x.user = request[q].user
        /\ x.key = request[q].key /\ x.body = request[q].body
        /\ x.job = request[q].job
    BY <1>1 DEF Request, InTransaction
  <2>2. request' = [request EXCEPT ![q] = x] /\ locks' = [locks EXCEPT ![q] = locks[q]]
    BY <1>2 DEF Goto, IInv, CoreType
  <2> HIDE DEF x
  <2>3. Good(x, locks[q], jobs)
    BY <1>1, <2>1 DEF Good, Placed, KeyGuarded, RepositoryGuarded, AnswerGood, Names, HasKey,
       PastKey, InTransaction
  <2>4. \A l \in locks[q] : Free(q, l)
    BY DEF IInv, LocksExclusive
  <2> QED BY <1>1, <2>1, <2>2, <2>3, <2>4, RequestStep
<1>3. CASE Rollback(q)
  BY <1>1, <1>3, RollbackStep
<1> QED BY <1>2, <1>3 DEF FindRepository

LEMMA LockRepositoryInv ==
  ASSUME IInv, NEW q \in Requests, LockRepository(q)
  PROVE  IInv'
<1> DEFINE r == request[q].body.repository
           lock == <<"repository", r>>
           x == [request[q] EXCEPT !.pc = "insert"]
<1>1. /\ request[q] \in Request /\ request[q].pc = "exclusive" /\ Free(q, lock)
      /\ now' = now /\ jobs' = jobs /\ Good(request[q], locks[q], jobs)
  BY DEF LockRepository, IInv, CoreType, RequestInv
<1>2. r \in Repositories
  BY <1>1 DEF Good, Placed, InTransaction, Bodies
<1>3. CASE ~Active(r) /\ locks' = [locks EXCEPT ![q] = @ \cup {lock}] /\ Goto(q, "insert")
  <2>1. x.pc = "insert" /\ x.user = request[q].user /\ x.key = request[q].key /\ x.body = request[q].body
    BY <1>1 DEF Request
  <2>2. lock \in Locks
    BY <1>2 DEF Locks
  <2>3. \A j \in jobs : ~(j.body.repository = r /\ j.status = "ACTIVE")
    BY <1>3 DEF Active
  <2> HIDE DEF x
  <2>4. KeyGuarded(x, locks[q] \cup {lock}, jobs)
    BY <1>1, <2>1 DEF Good, KeyGuarded, HasKey, PastKey
  <2>5. RepositoryGuarded(x, locks[q] \cup {lock}, jobs)
    BY <2>1, <2>3 DEF RepositoryGuarded, Blocks
  <2>6. "insert" \in PastKey /\ request[q].pc \in InTransaction
    BY <1>1 DEF PastKey, InTransaction
  <2> HIDE DEF lock
  <2> QED BY <1>1, <1>3, <2>2, <2>4, <2>5, <2>6, LockStep DEF x
<1>4. CASE Rollback(q)
  BY <1>1, <1>4, RollbackStep
<1> QED BY <1>3, <1>4 DEF LockRepository

LEMMA UnavailableInv ==
  ASSUME IInv, NEW q \in Requests, Unavailable(q)
  PROVE  IInv'
BY RollbackStep DEF Unavailable

LEMMA AnsweredInv ==
  ASSUME IInv, NEW q \in Requests, Answered(q)
  PROVE  IInv'
<1>1. MaxTime \in Nat
  BY JobAcceptanceAssumption
<1>2. NoRequest \in Request
  BY <1>1 DEF NoRequest, Request
<1>3. Good(NoRequest, locks[q], jobs)
  BY DEF NoRequest, Good, Placed, KeyGuarded, RepositoryGuarded, AnswerGood, PastKey, InTransaction
<1>4. locks' = [locks EXCEPT ![q] = locks[q]] /\ locks[q] \in SUBSET Locks
  BY DEF Answered, IInv, CoreType
<1>5. \A l \in locks[q] : Free(q, l)
  BY DEF IInv, LocksExclusive
<1> QED BY <1>2, <1>3, <1>4, <1>5, RequestStep DEF Answered

----------------------------------------------------------------------------
(* Steps that change the ledger.                                           *)

\* A job with a fresh id, a key nobody has and a repository without an active
\* job keeps the ledger in order.
LEMMA LedgerGrows ==
  ASSUME IInv, NEW new \in Job, new.id \in FreeIds,
         new.key # NoKey => \A j \in jobs : ~(j.user = new.user /\ j.key = new.key),
         \A j \in jobs : ~(j.body.repository = new.body.repository /\ j.status = "ACTIVE"),
         jobs' = jobs \cup {new}
  PROVE  jobs' \subseteq Job /\ IdsUnique' /\ OneJobPerKey' /\ ActiveJobIsExclusive'
<1>1. jobs' \subseteq Job
  BY DEF IInv, CoreType
<1>2. \A j \in jobs : j.id # new.id
  BY DEF FreeIds
<1>3. IdsUnique'
  BY <1>2 DEF IInv, IdsUnique
<1>4. OneJobPerKey'
  BY DEF IInv, OneJobPerKey
<1>5. ActiveJobIsExclusive'
  BY DEF IInv, ActiveJobIsExclusive
<1> QED BY <1>1, <1>3, <1>4, <1>5

\* A request that holds other locks than the writer does not notice a new job.
LEMMA OthersKeepGood ==
  ASSUME IInv, NEW p \in Requests, NEW new,
         <<"key", new.user, new.key>> \notin locks[p] \/ new.key = NoKey,
         <<"repository", new.body.repository>> \notin locks[p]
  PROVE  Good(request[p], locks[p], jobs \cup {new})
<1> DEFINE x == request[p]
<1>1. Good(x, locks[p], jobs)
  BY DEF IInv, RequestInv
<1> HIDE DEF x
<1>2. KeyGuarded(x, locks[p], jobs \cup {new})
  <2> SUFFICES ASSUME x.pc \in PastKey
               PROVE  <<"key", x.user, x.key>> \in locks[p] /\ \A j \in jobs \cup {new} : ~HasKey(j, x)
    BY DEF KeyGuarded
  <2>1. <<"key", x.user, x.key>> \in locks[p] /\ \A j \in jobs : ~HasKey(j, x)
    BY <1>1 DEF Good, KeyGuarded
  <2>2. x.key # NoKey
    BY <1>1, JobAcceptanceAssumption DEF Good, Placed, PastKey, InTransaction
  <2>3. ~HasKey(new, x)
    BY <2>1, <2>2 DEF HasKey
  <2> QED BY <2>1, <2>3
<1>3. RepositoryGuarded(x, locks[p], jobs \cup {new})
  <2> SUFFICES ASSUME x.pc = "insert"
               PROVE  /\ <<"repository", x.body.repository>> \in locks[p]
                      /\ \A j \in jobs \cup {new} : ~Blocks(j, x)
    BY DEF RepositoryGuarded
  <2>1. <<"repository", x.body.repository>> \in locks[p] /\ \A j \in jobs : ~Blocks(j, x)
    BY <1>1 DEF Good, RepositoryGuarded
  <2>2. ~Blocks(new, x)
    BY <2>1 DEF Blocks
  <2> QED BY <2>1, <2>2
<1>4. Placed(x) /\ AnswerGood(x, jobs \cup {new})
  BY <1>1 DEF Good, AnswerGood
<1> QED BY <1>2, <1>3, <1>4 DEF Good, x

LEMMA InsertInv ==
  ASSUME IInv, NEW q \in Requests, Insert(q)
  PROVE  IInv'
<1>1. /\ request[q] \in Request /\ request[q].pc = "insert" /\ Good(request[q], locks[q], jobs)
      /\ now \in 0..MaxTime /\ now' = now
  BY DEF Insert, IInv, CoreType, RequestInv
<1>2. PICK id \in FreeIds, t \in request[q].started..now :
        /\ jobs' = jobs \cup {NewJob(id, request[q].user, request[q].key, request[q].body, t)}
        /\ Accept(q, id) \/ Rollback(q)
  BY DEF Insert
<1> DEFINE new == NewJob(id, request[q].user, request[q].key, request[q].body, t)
<1>3. /\ new.id = id /\ new.user = request[q].user /\ new.key = request[q].key
      /\ new.body = request[q].body
  BY DEF NewJob
<1>4. /\ request[q].user \in Users /\ request[q].key \in Keys /\ request[q].body \in Bodies
      /\ request[q].key # NoKey
  BY <1>1, JobAcceptanceAssumption DEF Good, Placed, InTransaction
<1>5. t \in 0..MaxTime /\ id \in JobIds
  <2>1. request[q].started \in 0..MaxTime
    BY <1>1 DEF Request
  <2>2. MaxTime \in Nat
    BY JobAcceptanceAssumption
  <2> QED BY <1>1, <2>1, <2>2 DEF FreeIds
<1>6. new \in Job
  BY <1>4, <1>5 DEF NewJob, Job
<1>7. jobs' = jobs \cup {new}
  BY <1>2
<1> HIDE DEF new
<1>8. /\ <<"key", new.user, new.key>> \in locks[q]
      /\ \A j \in jobs : ~(j.user = new.user /\ j.key = new.key)
  BY <1>1, <1>3 DEF Good, KeyGuarded, PastKey, HasKey
<1>9. /\ <<"repository", new.body.repository>> \in locks[q]
      /\ \A j \in jobs : ~(j.body.repository = new.body.repository /\ j.status = "ACTIVE")
  BY <1>1, <1>3 DEF Good, RepositoryGuarded, Blocks
<1>10. jobs' \subseteq Job /\ IdsUnique' /\ OneJobPerKey' /\ ActiveJobIsExclusive'
  BY <1>3, <1>6, <1>7, <1>8, <1>9, LedgerGrows
<1> DEFINE y == [[[request[q] EXCEPT !.pc = "answered"] EXCEPT !.started = 0] EXCEPT !.job = id]
<1>11. Accept(q, id) => request' = [request EXCEPT ![q] = y] /\ locks' = [locks EXCEPT ![q] = {}]
  BY DEF Accept, IInv, CoreType
<1>12. Rollback(q) => request' = [request EXCEPT ![q] = NoRequest] /\ locks' = [locks EXCEPT ![q] = {}]
  BY DEF Rollback
<1>13. /\ y \in Request /\ y.pc = "answered" /\ y.job = id
       /\ y.user = request[q].user /\ y.key = request[q].key /\ y.body = request[q].body
  BY <1>1, <1>5, ZeroIsTime DEF Request
<1>14. NoRequest \in Request /\ NoRequest.pc = "idle"
  BY JobAcceptanceAssumption DEF NoRequest, Request
<1> HIDE DEF y
<1>15. AnswerGood(y, jobs') /\ AnswerGood(NoRequest, jobs')
  BY <1>3, <1>7, <1>13, <1>14 DEF AnswerGood, Names, HasKey
<1>16. ASSUME NEW x \in {y, NoRequest},
              request' = [request EXCEPT ![q] = x], locks' = [locks EXCEPT ![q] = {}]
       PROVE  IInv'
  <2>1. request' = [request EXCEPT ![q] = x] /\ locks' = [locks EXCEPT ![q] = {}]
    BY <1>16
  <2>2. x \in Request /\ x.pc \in {"answered", "idle"}
    BY <1>13, <1>14
  <2>3. AnswerGood(x, jobs')
    BY <1>15
  <2>4. Good(x, {}, jobs')
    BY <2>2, <2>3 DEF Good, Placed, KeyGuarded, RepositoryGuarded, PastKey, InTransaction
  <2>5. /\ request'[q] = x /\ locks'[q] = {}
        /\ \A p \in Requests \ {q} : request'[p] = request[p] /\ locks'[p] = locks[p]
    BY <2>1 DEF IInv, CoreType
  <2>6. CoreType'
    BY <1>1, <1>10, <2>1, <2>2 DEF IInv, CoreType
  <2>7. RequestInv'
    <3> SUFFICES ASSUME NEW p \in Requests \ {q} PROVE Good(request[p], locks[p], jobs')
      BY <2>4, <2>5, Zenon DEF RequestInv
    <3>1. /\ <<"key", new.user, new.key>> \notin locks[p]
          /\ <<"repository", new.body.repository>> \notin locks[p]
      BY <1>8, <1>9 DEF IInv, LocksExclusive, Free
    <3> QED BY <1>7, <3>1, OthersKeepGood
  <2>8. LocksExclusive'
    BY <2>5 DEF IInv, LocksExclusive, Free
  <2> QED BY <1>10, <2>6, <2>7, <2>8 DEF IInv
<1> QED BY <1>2, <1>11, <1>12, <1>16

\* The requests and their locks do not change; a new ledger suits them.
LEMMA LedgerStep ==
  ASSUME IInv, now' = now, request' = request, locks' = locks,
         jobs' \subseteq Job, IdsUnique', OneJobPerKey', ActiveJobIsExclusive',
         \A p \in Requests : Good(request[p], locks[p], jobs')
  PROVE  IInv'
<1>1. CoreType'
  BY Zenon DEF IInv, CoreType
<1>2. RequestInv' /\ LocksExclusive'
  BY Zenon DEF IInv, RequestInv, LocksExclusive, Free
<1> QED BY <1>1, <1>2 DEF IInv

LEMMA CreateSyncInv ==
  ASSUME IInv, NEW u \in Users, NEW r \in Repositories, NEW id \in JobIds, CreateSync(u, r, id)
  PROVE  IInv'
<1> DEFINE body == [type |-> "CREATE", repository |-> r, source |-> 0]
           new == NewJob(id, u, NoKey, body, now)
<1>1. body \in Bodies /\ now \in 0..MaxTime /\ body.repository = r
  BY DEF Bodies, IInv, CoreType
<1>2. /\ jobs' = jobs \cup {new} /\ now' = now /\ request' = request /\ locks' = locks
      /\ id \in FreeIds /\ ~Active(r)
      /\ \A q \in Requests : <<"repository", r>> \notin locks[q]
  BY DEF CreateSync
<1> HIDE DEF body
<1>3. new \in Job /\ new.id = id /\ new.key = NoKey /\ new.body.repository = r
  BY <1>1 DEF NewJob, Job
<1> HIDE DEF new
<1>4. \A j \in jobs : ~(j.body.repository = new.body.repository /\ j.status = "ACTIVE")
  BY <1>2, <1>3 DEF Active
<1>5. jobs' \subseteq Job /\ IdsUnique' /\ OneJobPerKey' /\ ActiveJobIsExclusive'
  BY <1>2, <1>3, <1>4, LedgerGrows
<1>6. \A p \in Requests : Good(request[p], locks[p], jobs')
  BY <1>2, <1>3, OthersKeepGood
<1> QED BY <1>2, <1>5, <1>6, LedgerStep

\* A job that ends keeps its identity.
LEMMA JobEndsInv ==
  ASSUME IInv, NEW j \in jobs, NEW status \in {"FAILED", "ENDED"}, JobEnds(j, status)
  PROVE  IInv'
<1> DEFINE e == [j EXCEPT !.status = status]
<1>1. /\ jobs' = (jobs \ {j}) \cup {e} /\ now' = now /\ request' = request /\ locks' = locks
  BY DEF JobEnds
<1>2. j \in Job /\ jobs \subseteq Job
  BY DEF IInv, CoreType
<1>3. /\ e \in Job /\ e.id = j.id /\ e.user = j.user /\ e.key = j.key /\ e.body = j.body
      /\ e.status # "ACTIVE"
  BY <1>2 DEF Job
<1> HIDE DEF e
<1>4. jobs' \subseteq Job
  BY <1>1, <1>2, <1>3
<1>5. IdsUnique'
  BY <1>1, <1>3 DEF IInv, IdsUnique
<1>6. OneJobPerKey'
  BY <1>1, <1>3 DEF IInv, OneJobPerKey
<1>7. ActiveJobIsExclusive'
  BY <1>1, <1>3 DEF IInv, ActiveJobIsExclusive
<1>8. ASSUME NEW p \in Requests PROVE Good(request[p], locks[p], jobs')
  <2> DEFINE x == request[p]
  <2>1. Good(x, locks[p], jobs)
    BY DEF IInv, RequestInv
  <2> HIDE DEF x
  <2>2. KeyGuarded(x, locks[p], jobs') /\ RepositoryGuarded(x, locks[p], jobs')
    BY <1>1, <1>3, <2>1 DEF Good, KeyGuarded, RepositoryGuarded, HasKey, Blocks
  <2>3. AnswerGood(x, jobs')
    BY <1>1, <1>3, <2>1 DEF Good, AnswerGood, Names, HasKey
  <2> QED BY <2>1, <2>2, <2>3 DEF Good, x
<1> QED BY <1>1, <1>4, <1>5, <1>6, <1>7, <1>8, LedgerStep

----------------------------------------------------------------------------
(* The theorems.                                                           *)

\* Listings, ownership and the clock touch nothing the invariant is about,
\* but for the clock's type.
LEMMA ElsewhereInv ==
  ASSUME IInv, now' \in 0..MaxTime, request' = request, locks' = locks, jobs' = jobs
  PROVE  IInv'
<1>1. CoreType'
  BY Zenon DEF IInv, CoreType
<1>2. RequestInv' /\ LocksExclusive'
  BY Zenon DEF IInv, RequestInv, LocksExclusive, Free
<1>3. IdsUnique' /\ OneJobPerKey' /\ ActiveJobIsExclusive'
  BY Zenon DEF IInv, IdsUnique, OneJobPerKey, ActiveJobIsExclusive
<1> QED BY <1>1, <1>2, <1>3 DEF IInv

LEMMA InitInv == Init => IInv
<1> SUFFICES ASSUME Init PROVE IInv
  OBVIOUS
<1>1. CoreType
  BY JobAcceptanceAssumption DEF Init, CoreType, NoRequest, Request
<1>2. ASSUME NEW q \in Requests PROVE Good(request[q], locks[q], jobs)
  <2>1. request[q] = NoRequest
    BY DEF Init
  <2>2. NoRequest.pc = "idle"
    BY DEF NoRequest
  <2> QED BY <2>1, <2>2 DEF Good, Placed, KeyGuarded, RepositoryGuarded, AnswerGood, PastKey,
        InTransaction
<1>3. LocksExclusive
  BY DEF Init, LocksExclusive
<1>4. IdsUnique /\ OneJobPerKey /\ ActiveJobIsExclusive
  BY DEF Init, IdsUnique, OneJobPerKey, ActiveJobIsExclusive
<1> QED BY <1>1, <1>2, <1>3, <1>4 DEF IInv, RequestInv

LEMMA NextInv == IInv /\ [Next]_vars => IInv'
<1> SUFFICES ASSUME IInv, [Next]_vars PROVE IInv'
  OBVIOUS
<1>1. now \in 0..MaxTime /\ MaxTime \in Nat
  BY JobAcceptanceAssumption DEF IInv, CoreType
<1>2. CASE \E q \in Requests, u \in Users, k \in Keys, r \in Repositories : Create(q, u, k, r)
  BY <1>2, CreateInv
<1>3. CASE \E q \in Requests, u \in Users, k \in Keys, j \in jobs : Retry(q, u, k, j)
  BY <1>3, RetryInv
<1>4. CASE \E q \in Requests : Advance(q) \/ Unavailable(q) \/ Answered(q)
  BY <1>4, LockKeyInv, LockRateInv, FindRepositoryInv, LockRepositoryInv, InsertInv,
     UnavailableInv, AnsweredInv DEF Advance
<1>5. CASE \E l \in Lists : ListEnds(l) \/ \E u \in Users : ListPage(l, u)
  <2>1. now' = now /\ request' = request /\ locks' = locks /\ jobs' = jobs
    BY <1>5 DEF ListEnds, ListPage
  <2> QED BY <1>1, <2>1, ElsewhereInv
<1>6. CASE \E u \in Users, r \in Repositories, id \in JobIds : CreateSync(u, r, id)
  BY <1>6, CreateSyncInv
<1>7. CASE \E j \in jobs, s \in {"FAILED", "ENDED"} : JobEnds(j, s)
  BY <1>7, JobEndsInv
<1>8. CASE Tick
  <2>1. now' = now + 1 /\ now < MaxTime /\ request' = request /\ locks' = locks /\ jobs' = jobs
    BY <1>8 DEF Tick
  <2>2. now' \in 0..MaxTime
    BY <1>1, <2>1
  <2> QED BY <2>1, <2>2, ElsewhereInv
<1>9. CASE UNCHANGED vars
  <2>1. now' = now /\ request' = request /\ locks' = locks /\ jobs' = jobs
    BY <1>9 DEF vars
  <2> QED BY <1>1, <2>1, ElsewhereInv
<1> QED BY <1>2, <1>3, <1>4, <1>5, <1>6, <1>7, <1>8, <1>9 DEF Next

LEMMA IInvHolds == Spec => []IInv
BY InitInv, NextInv, PTL DEF Spec

\* Two requests with one idempotency key never create two jobs: the key's
\* advisory lock alone is enough (acceptJob).
THEOREM KeyNamesOneJob == Spec => []OneJobPerKey
<1>1. IInv => OneJobPerKey
  BY DEF IInv
<1> QED BY <1>1, IInvHolds, PTL

\* An accepted request names the job that its own user, key and body created
\* (acceptJob, resolveExisting).
THEOREM AnswerNamesItsJob == Spec => []AnswerIsItsJob
<1>1. IInv => AnswerIsItsJob
  BY DEF IInv, RequestInv, Good, AnswerGood, Names, HasKey, AnswerIsItsJob
<1> QED BY <1>1, IInvHolds, PTL

\* A repository has at most one active job, whichever endpoint created it
\* (createExclusiveInTransaction under the repository's lock).
THEOREM ActiveJobIsAlone == Spec => []ActiveJobIsExclusive
<1>1. IInv => ActiveJobIsExclusive
  BY DEF IInv
<1> QED BY <1>1, IInvHolds, PTL

----------------------------------------------------------------------------
(* The order of the locks.                                                 *)

PastRate == {"repository", "exclusive", "insert"}

\* What a transaction at the place of x may hold: the locks are taken in the
\* order key, rate limit, repository, and all are gone at its end.
Staged(x, L) ==
  \A lock \in L : \/ lock[1] = "key" /\ x.pc \in PastKey
                  \/ lock[1] = "rate" /\ x.pc \in PastRate
                  \/ lock[1] = "repository" /\ x.pc = "insert"

\* The jobs Recent counts, in a ledger J.
RecentIn(J, u, t) == {j \in J : j.user = u /\ j.key # NoKey /\ j.createdAt > t - Window}

\* From the count to the insert a transaction holds the user's rate limit lock,
\* and the count it made is still the count.
RateGuarded(x, L, J) ==
  x.pc \in PastRate => /\ <<"rate", x.user>> \in L
                       /\ Cardinality(RecentIn(J, x.user, x.started)) < Limit

\* The jobs of a user in the window that ends at t.
WindowIn(J, u, t) ==
  {j \in J : j.user = u /\ j.key # NoKey /\ j.createdAt \in (t - Window + 1)..t}
WithinLimit(J) == \A u \in Users, t \in 0..MaxTime : Cardinality(WindowIn(J, u, t)) <= Limit

LimitInv ==
  /\ IsFiniteSet(jobs)
  /\ \A q \in Requests : Staged(request[q], locks[q])
  /\ \A q \in Requests : RateGuarded(request[q], locks[q], jobs)
  /\ WithinLimit(jobs)

LEMMA LimitIsLimit == WithinLimit(jobs) <=> RateLimitRespected
<1>1. ASSUME NEW u \in Users, NEW t \in 0..MaxTime
      PROVE  WindowIn(jobs, u, t) =
               {j \in JobsOf(u) : j.key # NoKey /\ j.createdAt \in (t - Window + 1)..t}
  BY DEF WindowIn, JobsOf
<1> QED BY <1>1, Zenon DEF WithinLimit, RateLimitRespected

LEMMA RecentIsRecent == \A u, t : Recent(u, t) = Cardinality(RecentIn(jobs, u, t))
<1> SUFFICES ASSUME NEW u, NEW t PROVE Recent(u, t) = Cardinality(RecentIn(jobs, u, t))
  OBVIOUS
<1>1. {j \in JobsOf(u) : j.key # NoKey /\ j.createdAt > t - Window} = RecentIn(jobs, u, t)
  BY DEF RecentIn, JobsOf
<1> QED BY <1>1, Zenon DEF Recent

\* A transaction takes a turn: it is at x afterwards and holds the locks L.
Turn(q, x, L) ==
  /\ x \in Request
  /\ request' = [request EXCEPT ![q] = x]
  /\ locks' = [locks EXCEPT ![q] = L]

\* What a turn may be: one that ends before the count or with the transaction;
\* the count under its lock; a move behind it; the insert.
EarlyTurn(x) == x.pc \notin PastRate /\ jobs' = jobs
CountingTurn(q, x, L) ==
  /\ request[q].pc \in InTransaction
  /\ <<"rate", x.user>> \in L
  /\ Recent(x.user, x.started) < Limit
  /\ jobs' = jobs
LaterTurn(q, x, L) ==
  /\ request[q].pc \in PastRate
  /\ locks[q] \subseteq L
  /\ x.user = request[q].user /\ x.started = request[q].started
  /\ jobs' = jobs
InsertTurn(q, x) ==
  /\ request[q].pc = "insert" /\ x.pc \in {"answered", "idle"}
  /\ \E id \in FreeIds, t \in request[q].started..now :
       jobs' = jobs \cup {NewJob(id, request[q].user, request[q].key, request[q].body, t)}

TurnKind(q, x, L) ==
  EarlyTurn(x) \/ CountingTurn(q, x, L) \/ LaterTurn(q, x, L) \/ InsertTurn(q, x)

\* A turn of q, with what else it leaves alone.
TakesTurn(q) ==
  \E x, L : Turn(q, x, L) /\ Staged(x, L) /\ TurnKind(q, x, L)

LEMMA AnswerTurn ==
  ASSUME IInv, NEW q \in Requests, NEW n \in JobIds, Accept(q, n) \/ Rollback(q),
         jobs' = jobs \/ InsertTurn(q, NoRequest)
  PROVE  TakesTurn(q)
<1> DEFINE y == [[[request[q] EXCEPT !.pc = "answered"] EXCEPT !.started = 0] EXCEPT !.job = n]
<1>1. request[q] \in Request
  BY DEF IInv, CoreType
<1>2. y \in Request /\ y.pc = "answered"
  BY <1>1, ZeroIsTime DEF Request
<1>3. NoRequest \in Request /\ NoRequest.pc = "idle"
  BY JobAcceptanceAssumption DEF NoRequest, Request
<1>4. Accept(q, n) => request' = [request EXCEPT ![q] = y] /\ locks' = [locks EXCEPT ![q] = {}]
  BY DEF Accept, IInv, CoreType
<1>5. Rollback(q) => request' = [request EXCEPT ![q] = NoRequest] /\ locks' = [locks EXCEPT ![q] = {}]
  BY DEF Rollback
<1> HIDE DEF y
<1>6. PICK x \in {y, NoRequest} :
        request' = [request EXCEPT ![q] = x] /\ locks' = [locks EXCEPT ![q] = {}]
  BY <1>4, <1>5
<1>7. x \in Request /\ x.pc \in {"answered", "idle"}
  BY <1>2, <1>3
<1>8. Turn(q, x, {}) /\ Staged(x, {})
  BY <1>6, <1>7 DEF Turn, Staged
<1>9. TurnKind(q, x, {})
  BY <1>7 DEF TurnKind, EarlyTurn, InsertTurn, PastRate
<1> QED BY <1>8, <1>9 DEF TakesTurn

\* A transaction that changed nothing fails.
LEMMA RollbackTurn ==
  ASSUME IInv, NEW q \in Requests, Rollback(q), jobs' = jobs
  PROVE  TakesTurn(q)
<1>1. NoRequest \in Request /\ NoRequest.pc = "idle"
  BY JobAcceptanceAssumption DEF NoRequest, Request
<1>2. Turn(q, NoRequest, {}) /\ Staged(NoRequest, {}) /\ TurnKind(q, NoRequest, {})
  BY <1>1 DEF Turn, Staged, TurnKind, EarlyTurn, PastRate, Rollback
<1> QED BY <1>2 DEF TakesTurn

LEMMA BeginTurn ==
  ASSUME IInv, LimitInv, NEW q \in Requests, request[q].pc = "idle",
         NEW u \in Users, NEW k \in Keys, NEW body \in Bodies,
         request' = [request EXCEPT ![q] =
           [NoRequest EXCEPT !.pc = "key", !.user = u, !.key = k, !.started = now, !.body = body]],
         locks' = locks, jobs' = jobs
  PROVE  TakesTurn(q)
<1> DEFINE x == [NoRequest EXCEPT !.pc = "key", !.user = u, !.key = k, !.started = now, !.body = body]
<1>1. now \in 0..MaxTime /\ locks \in [Requests -> SUBSET Locks]
  BY DEF IInv, CoreType
<1>2. NoRequest \in Request
  BY JobAcceptanceAssumption DEF NoRequest, Request
<1>3. x \in Request /\ x.pc = "key"
  BY <1>1, <1>2 DEF Request, InTransaction
<1>4. request' = [request EXCEPT ![q] = x]
  OBVIOUS
<1> HIDE DEF x
<1>5. locks[q] = {}
  BY DEF LimitInv, Staged, PastKey, PastRate
<1>6. Turn(q, x, {}) /\ Staged(x, {})
  BY <1>1, <1>3, <1>4, <1>5 DEF Turn, Staged
<1>7. TurnKind(q, x, {})
  BY <1>3 DEF TurnKind, EarlyTurn, PastRate
<1> QED BY <1>6, <1>7 DEF TakesTurn

LEMMA CreateTurn ==
  ASSUME IInv, LimitInv, NEW q \in Requests, NEW u \in Users, NEW k \in Keys,
         NEW r \in Repositories, Create(q, u, k, r)
  PROVE  TakesTurn(q)
<1>1. [type |-> "CREATE", repository |-> r, source |-> 0] \in Bodies
  BY DEF Bodies
<1> QED BY <1>1, BeginTurn DEF Create

LEMMA RetryTurn ==
  ASSUME IInv, LimitInv, NEW q \in Requests, NEW u \in Users, NEW k \in Keys, NEW j \in jobs,
         Retry(q, u, k, j)
  PROVE  TakesTurn(q)
<1>1. j.id \in JobIds /\ j.body.repository \in Repositories
  BY DEF IInv, CoreType, Job, Bodies
<1>2. [type |-> "RETRY", repository |-> j.body.repository, source |-> j.id] \in Bodies
  BY <1>1 DEF Bodies
<1> QED BY <1>2, BeginTurn DEF Retry

\* A transaction moves to the next place, with the locks L.
LEMMA MoveTurn ==
  ASSUME IInv, NEW q \in Requests, NEW pc \in PastKey, NEW L,
         Goto(q, pc), locks' = [locks EXCEPT ![q] = L],
         Staged([pc |-> pc], L), jobs' = jobs,
         \/ pc = "rate"
         \/ pc = "repository" /\ request[q].pc \in InTransaction
            /\ <<"rate", request[q].user>> \in L
            /\ Recent(request[q].user, request[q].started) < Limit
         \/ request[q].pc \in PastRate /\ locks[q] \subseteq L
  PROVE  TakesTurn(q)
<1> DEFINE x == [request[q] EXCEPT !.pc = pc]
<1>1. request[q] \in Request
  BY DEF IInv, CoreType
<1>2. x \in Request /\ x.pc = pc /\ x.user = request[q].user /\ x.started = request[q].started
  BY <1>1 DEF Request, PastKey, InTransaction
<1>3. request' = [request EXCEPT ![q] = x]
  BY DEF Goto, IInv, CoreType
<1> HIDE DEF x
<1>4. Turn(q, x, L) /\ Staged(x, L)
  BY <1>2, <1>3 DEF Turn, Staged
<1>5. TurnKind(q, x, L)
  BY <1>2 DEF TurnKind, EarlyTurn, CountingTurn, LaterTurn, PastRate
<1> QED BY <1>4, <1>5 DEF TakesTurn

LEMMA LockKeyTurn ==
  ASSUME IInv, LimitInv, NEW q \in Requests, LockKey(q)
  PROVE  TakesTurn(q)
<1> DEFINE u == request[q].user
           k == request[q].key
           lock == <<"key", u, k>>
           existing == {j \in JobsOf(u) : j.key = k}
<1>1. request[q].pc = "key" /\ jobs' = jobs
  BY DEF LockKey
<1>2. CASE locks' = [locks EXCEPT ![q] = @ \cup {lock}] /\ Goto(q, "rate")
  <2>1. locks[q] = {}
    BY <1>1 DEF LimitInv, Staged, PastKey, PastRate
  <2>2. lock[1] = "key"
    OBVIOUS
  <2> HIDE DEF lock
  <2>3. Staged([pc |-> "rate"], locks[q] \cup {lock}) /\ "rate" \in PastKey
    BY <2>1, <2>2 DEF Staged, PastKey
  <2>4. locks' = [locks EXCEPT ![q] = locks[q] \cup {lock}]
    BY <1>2
  <2> QED BY <1>1, <1>2, <2>3, <2>4, MoveTurn
<1>3. ASSUME NEW j \in existing, Accept(q, j.id) PROVE TakesTurn(q)
  <2>1. j.id \in JobIds
    BY <1>3 DEF JobsOf, IInv, CoreType, Job
  <2> QED BY <1>1, <1>3, <2>1, AnswerTurn
<1>4. CASE Rollback(q)
  BY <1>1, <1>4, RollbackTurn
<1> QED BY <1>2, <1>3, <1>4 DEF LockKey

LEMMA LockRateTurn ==
  ASSUME IInv, LimitInv, NEW q \in Requests, LockRate(q)
  PROVE  TakesTurn(q)
<1> DEFINE lock == <<"rate", request[q].user>>
<1>1. request[q].pc = "rate" /\ jobs' = jobs
  BY DEF LockRate
<1>2. CASE /\ Recent(request[q].user, request[q].started) < Limit
           /\ locks' = [locks EXCEPT ![q] = @ \cup {lock}] /\ Goto(q, "repository")
  <2>1. Staged(request[q], locks[q])
    BY DEF LimitInv
  <2>2. lock[1] = "rate"
    OBVIOUS
  <2> HIDE DEF lock
  <2>3. Staged([pc |-> "repository"], locks[q] \cup {lock}) /\ "repository" \in PastKey
    BY <1>1, <2>1, <2>2 DEF Staged, PastKey, PastRate
  <2>4. locks' = [locks EXCEPT ![q] = locks[q] \cup {lock}]
    BY <1>2
  <2>5. request[q].pc \in InTransaction /\ <<"rate", request[q].user>> \in locks[q] \cup {lock}
    BY <1>1 DEF InTransaction, lock
  <2> QED BY <1>1, <1>2, <2>3, <2>4, <2>5, MoveTurn
<1>3. CASE Rollback(q)
  BY <1>1, <1>3, RollbackTurn
<1> QED BY <1>2, <1>3 DEF LockRate

LEMMA FindRepositoryTurn ==
  ASSUME IInv, LimitInv, NEW q \in Requests, FindRepository(q)
  PROVE  TakesTurn(q)
<1>1. request[q].pc = "repository" /\ jobs' = jobs
  BY DEF FindRepository
<1>2. CASE Goto(q, "exclusive") /\ UNCHANGED locks
  <2>1. Staged(request[q], locks[q])
    BY DEF LimitInv
  <2>2. Staged([pc |-> "exclusive"], locks[q]) /\ "exclusive" \in PastKey
    BY <1>1, <2>1 DEF Staged, PastKey, PastRate
  <2>3. locks' = [locks EXCEPT ![q] = locks[q]]
    BY <1>2 DEF IInv, CoreType
  <2>4. request[q].pc \in PastRate
    BY <1>1 DEF PastRate
  <2> QED BY <1>1, <1>2, <2>2, <2>3, <2>4, MoveTurn
<1>3. CASE Rollback(q)
  BY <1>1, <1>3, RollbackTurn
<1> QED BY <1>2, <1>3 DEF FindRepository

LEMMA LockRepositoryTurn ==
  ASSUME IInv, LimitInv, NEW q \in Requests, LockRepository(q)
  PROVE  TakesTurn(q)
<1> DEFINE lock == <<"repository", request[q].body.repository>>
<1>1. request[q].pc = "exclusive" /\ jobs' = jobs
  BY DEF LockRepository
<1>2. CASE locks' = [locks EXCEPT ![q] = @ \cup {lock}] /\ Goto(q, "insert")
  <2>1. Staged(request[q], locks[q])
    BY DEF LimitInv
  <2>2. lock[1] = "repository"
    OBVIOUS
  <2> HIDE DEF lock
  <2>3. Staged([pc |-> "insert"], locks[q] \cup {lock}) /\ "insert" \in PastKey
    BY <1>1, <2>1, <2>2 DEF Staged, PastKey, PastRate
  <2>4. locks' = [locks EXCEPT ![q] = locks[q] \cup {lock}]
    BY <1>2
  <2>5. request[q].pc \in PastRate
    BY <1>1 DEF PastRate
  <2> QED BY <1>1, <1>2, <2>3, <2>4, <2>5, MoveTurn
<1>3. CASE Rollback(q)
  BY <1>1, <1>3, RollbackTurn
<1> QED BY <1>2, <1>3 DEF LockRepository

LEMMA InsertIsTurn ==
  ASSUME IInv, LimitInv, NEW q \in Requests, Insert(q)
  PROVE  TakesTurn(q)
<1>1. PICK id \in FreeIds, t \in request[q].started..now :
        /\ jobs' = jobs \cup {NewJob(id, request[q].user, request[q].key, request[q].body, t)}
        /\ Accept(q, id) \/ Rollback(q)
  BY DEF Insert
<1>2. request[q].pc = "insert" /\ NoRequest.pc = "idle"
  BY DEF Insert, NoRequest
<1>3. InsertTurn(q, NoRequest)
  BY <1>1, <1>2 DEF InsertTurn
<1>4. id \in JobIds
  BY DEF FreeIds
<1> QED BY <1>1, <1>3, <1>4, AnswerTurn

LEMMA UnavailableTurn ==
  ASSUME IInv, LimitInv, NEW q \in Requests, Unavailable(q)
  PROVE  TakesTurn(q)
BY RollbackTurn DEF Unavailable

LEMMA AnsweredTurn ==
  ASSUME IInv, LimitInv, NEW q \in Requests, Answered(q)
  PROVE  TakesTurn(q)
<1>1. NoRequest \in Request /\ NoRequest.pc = "idle"
  BY JobAcceptanceAssumption DEF NoRequest, Request
<1>2. /\ request[q].pc = "answered" /\ jobs' = jobs /\ locks' = locks
      /\ request' = [request EXCEPT ![q] = NoRequest]
  BY DEF Answered
<1>3. locks[q] = {}
  BY <1>2 DEF LimitInv, Staged, PastKey, PastRate
<1>4. Turn(q, NoRequest, {}) /\ Staged(NoRequest, {})
  BY <1>1, <1>2, <1>3 DEF Turn, Staged, IInv, CoreType
<1>5. TurnKind(q, NoRequest, {})
  BY <1>1, <1>2 DEF TurnKind, EarlyTurn, PastRate
<1> QED BY <1>4, <1>5 DEF TakesTurn

----------------------------------------------------------------------------
(* The rate limit.                                                         *)

\* A new job is one more in the sets it belongs to, and the old ones stay.
LEMMA CountsGrow ==
  ASSUME NEW J, IsFiniteSet(J), NEW new, NEW u, NEW t
  PROVE  /\ Cardinality(WindowIn(J \cup {new}, u, t)) <= Cardinality(WindowIn(J, u, t)) + 1
         /\ Cardinality(WindowIn(J, u, t)) \in Nat
         /\ Cardinality(RecentIn(J, u, t)) \in Nat
         /\ WindowIn(J \cup {new}, u, t) \subseteq WindowIn(J, u, t) \cup {new}
         /\ RecentIn(J \cup {new}, u, t) \subseteq RecentIn(J, u, t) \cup {new}
<1>1. WindowIn(J, u, t) \in SUBSET J /\ RecentIn(J, u, t) \in SUBSET J
  BY DEF WindowIn, RecentIn
<1>2. /\ IsFiniteSet(WindowIn(J, u, t)) /\ IsFiniteSet(RecentIn(J, u, t))
  BY <1>1, FS_Subset
<1>3. Cardinality(WindowIn(J, u, t)) \in Nat /\ Cardinality(RecentIn(J, u, t)) \in Nat
  BY <1>2, FS_CardinalityType
<1>4. /\ WindowIn(J \cup {new}, u, t) \subseteq WindowIn(J, u, t) \cup {new}
      /\ RecentIn(J \cup {new}, u, t) \subseteq RecentIn(J, u, t) \cup {new}
  BY DEF WindowIn, RecentIn
<1> DEFINE W == WindowIn(J, u, t)
           V == WindowIn(J \cup {new}, u, t)
<1>5. IsFiniteSet(W \cup {new}) /\ Cardinality(W \cup {new}) <= Cardinality(W) + 1
      /\ Cardinality(W \cup {new}) \in Nat
  <2>1. IsFiniteSet(W)
    BY <1>2
  <2> HIDE DEF W
  <2>2. IsFiniteSet(W \cup {new}) /\
        Cardinality(W \cup {new}) = IF new \in W THEN Cardinality(W) ELSE Cardinality(W) + 1
    BY <2>1, FS_AddElement
  <2>3. Cardinality(W) \in Nat
    BY <2>1, FS_CardinalityType
  <2> QED BY <2>2, <2>3
<1>6. Cardinality(V) <= Cardinality(W \cup {new}) /\ Cardinality(V) \in Nat
  <2>1. V \in SUBSET (W \cup {new})
    BY <1>4
  <2> HIDE DEF V, W
  <2>2. IsFiniteSet(V) /\ Cardinality(V) <= Cardinality(W \cup {new})
    BY <1>5, <2>1, FS_Subset
  <2> QED BY <2>2, FS_CardinalityType
<1>7. Cardinality(V) <= Cardinality(W) + 1
  <2>1. Cardinality(W) \in Nat
    BY <1>3
  <2> HIDE DEF V, W
  <2> QED BY <1>5, <1>6, <2>1
<1> QED BY <1>3, <1>4, <1>7

\* The window that the new job lies in holds, besides it, only jobs that the
\* transaction counted: its job is not older than its start.
LEMMA InsertKeepsLimit ==
  ASSUME NEW J, IsFiniteSet(J), J \subseteq Job, WithinLimit(J),
         NEW new \in Job, NEW s \in 0..MaxTime, s <= new.createdAt,
         Cardinality(RecentIn(J, new.user, s)) < Limit
  PROVE  WithinLimit(J \cup {new})
<1> SUFFICES ASSUME NEW u \in Users, NEW t \in 0..MaxTime
             PROVE  Cardinality(WindowIn(J \cup {new}, u, t)) <= Limit
  BY DEF WithinLimit
<1>1. MaxTime \in Nat /\ Window \in Nat /\ Limit \in Nat /\ t \in Nat /\ s \in Nat
  BY JobAcceptanceAssumption
<1>2. new.createdAt \in Nat
  BY <1>1 DEF Job
<1>3. Cardinality(WindowIn(J, u, t)) <= Limit /\ Cardinality(WindowIn(J, u, t)) \in Nat
  BY CountsGrow DEF WithinLimit
<1>4. CASE new \in WindowIn(J \cup {new}, u, t)
  <2>1. new.user = u /\ new.createdAt <= t
    BY <1>1, <1>2, <1>4 DEF WindowIn
  <2>2. WindowIn(J, u, t) \in SUBSET RecentIn(J, new.user, s)
    <3> SUFFICES ASSUME NEW j \in WindowIn(J, u, t) PROVE j \in RecentIn(J, new.user, s)
      OBVIOUS
    <3>1. /\ j \in J /\ j.user = u /\ j.key # NoKey /\ j.createdAt \in (t - Window + 1)..t
      BY DEF WindowIn
    <3>2. j.createdAt \in Nat
      BY <1>1, <3>1 DEF Job
    <3>3. j.createdAt > s - Window
      BY <1>1, <1>2, <2>1, <3>1, <3>2
    <3> QED BY <2>1, <3>1, <3>3 DEF RecentIn
  <2>3. IsFiniteSet(RecentIn(J, new.user, s))
    <3>1. RecentIn(J, new.user, s) \in SUBSET J
      BY DEF RecentIn
    <3> QED BY <3>1, FS_Subset
  <2>4. Cardinality(WindowIn(J, u, t)) <= Cardinality(RecentIn(J, new.user, s))
    BY <2>2, <2>3, FS_Subset
  <2>5. /\ Cardinality(WindowIn(J \cup {new}, u, t)) <= Cardinality(WindowIn(J, u, t)) + 1
        /\ Cardinality(RecentIn(J, new.user, s)) \in Nat
    BY CountsGrow
  <2>6. Cardinality(WindowIn(J \cup {new}, u, t)) \in Nat
    <3>1. WindowIn(J \cup {new}, u, t) \in SUBSET (J \cup {new})
      BY DEF WindowIn
    <3>2. IsFiniteSet(J \cup {new})
      BY FS_AddElement
    <3> QED BY <3>1, <3>2, FS_Subset, FS_CardinalityType
  <2> QED BY <1>1, <1>3, <2>4, <2>5, <2>6
<1>5. CASE new \notin WindowIn(J \cup {new}, u, t)
  <2>1. WindowIn(J \cup {new}, u, t) = WindowIn(J, u, t)
    BY <1>5 DEF WindowIn
  <2> QED BY <1>3, <2>1
<1> QED BY <1>4, <1>5
\* A turn keeps the limit: what the others counted is about other users, since
\* only the holder of a user's rate limit lock inserts jobs of that user.
LEMMA TurnLimit ==
  ASSUME IInv, LimitInv, NEW q \in Requests, TakesTurn(q)
  PROVE  LimitInv'
<1>1. PICK x, L : Turn(q, x, L) /\ Staged(x, L) /\ TurnKind(q, x, L)
  BY DEF TakesTurn
<1>2. /\ request'[q] = x /\ locks'[q] = L
      /\ \A p \in Requests \ {q} : request'[p] = request[p] /\ locks'[p] = locks[p]
  BY <1>1 DEF Turn, IInv, CoreType
<1>3. \A p \in Requests : Staged(request'[p], locks'[p])
  BY <1>1, <1>2, Zenon DEF LimitInv
<1>4. \A p \in Requests : RateGuarded(request[p], locks[p], jobs)
  BY DEF LimitInv
<1>5. IsFiniteSet(jobs) /\ WithinLimit(jobs)
  BY DEF LimitInv
<1>6. CASE jobs' = jobs /\ RateGuarded(x, L, jobs)
  <2>1. \A p \in Requests : RateGuarded(request'[p], locks'[p], jobs')
    BY <1>2, <1>4, <1>6, Zenon
  <2> QED BY <1>3, <1>5, <1>6, <2>1, Zenon DEF LimitInv
<1>7. CASE EarlyTurn(x)
  BY <1>6, <1>7 DEF EarlyTurn, RateGuarded
<1>8. CASE CountingTurn(q, x, L)
  <2>1. Cardinality(RecentIn(jobs, x.user, x.started)) < Limit
    BY <1>8, RecentIsRecent DEF CountingTurn
  <2> QED BY <1>6, <1>8, <2>1 DEF CountingTurn, RateGuarded
<1>9. CASE LaterTurn(q, x, L)
  BY <1>4, <1>6, <1>9 DEF LaterTurn, RateGuarded
<1>10. CASE InsertTurn(q, x)
  <2>1. PICK id \in FreeIds, t \in request[q].started..now :
          jobs' = jobs \cup {NewJob(id, request[q].user, request[q].key, request[q].body, t)}
    BY <1>10 DEF InsertTurn
  <2> DEFINE new == NewJob(id, request[q].user, request[q].key, request[q].body, t)
  <2>2. /\ request[q] \in Request /\ request[q].pc = "insert" /\ x.pc \in {"answered", "idle"}
        /\ Placed(request[q]) /\ now \in 0..MaxTime /\ jobs \subseteq Job
    BY <1>10 DEF InsertTurn, IInv, CoreType, RequestInv, Good
  <2>3. /\ request[q].user \in Users /\ request[q].key \in Keys /\ request[q].body \in Bodies
    BY <2>2 DEF Placed, InTransaction
  <2>4. request[q].started \in 0..MaxTime /\ MaxTime \in Nat
    BY <2>2, JobAcceptanceAssumption DEF Request
  <2>5. t \in 0..MaxTime /\ request[q].started <= t /\ id \in JobIds
    BY <2>2, <2>4 DEF FreeIds
  <2>6. new \in Job /\ new.createdAt = t /\ new.user = request[q].user
    BY <2>3, <2>5 DEF NewJob, Job
  <2>7. jobs' = jobs \cup {new}
    BY <2>1
  <2> HIDE DEF new
  <2>8. /\ <<"rate", new.user>> \in locks[q]
        /\ Cardinality(RecentIn(jobs, new.user, request[q].started)) < Limit
    BY <1>4, <2>2, <2>6 DEF RateGuarded, PastRate
  <2>9. WithinLimit(jobs')
    BY <1>5, <2>2, <2>4, <2>5, <2>6, <2>7, <2>8, InsertKeepsLimit
  <2>10. IsFiniteSet(jobs')
    BY <1>5, <2>7, FS_AddElement
  <2>11. ASSUME NEW p \in Requests \ {q} PROVE RateGuarded(request[p], locks[p], jobs')
    <3> SUFFICES ASSUME request[p].pc \in PastRate
                 PROVE  /\ <<"rate", request[p].user>> \in locks[p]
                        /\ Cardinality(RecentIn(jobs', request[p].user, request[p].started)) < Limit
      BY DEF RateGuarded
    <3>1. /\ <<"rate", request[p].user>> \in locks[p]
          /\ Cardinality(RecentIn(jobs, request[p].user, request[p].started)) < Limit
      BY <1>4 DEF RateGuarded
    <3>2. request[p].user # new.user
      BY <2>8, <3>1 DEF IInv, LocksExclusive, Free
    <3>3. RecentIn(jobs', request[p].user, request[p].started)
            = RecentIn(jobs, request[p].user, request[p].started)
      BY <2>7, <3>2 DEF RecentIn
    <3> QED BY <3>1, <3>3
  <2>12. RateGuarded(x, L, jobs')
    BY <2>2 DEF RateGuarded, PastRate
  <2>13. \A p \in Requests : RateGuarded(request'[p], locks'[p], jobs')
    BY <1>2, <2>11, <2>12, Zenon
  <2> QED BY <1>3, <2>9, <2>10, <2>13, Zenon DEF LimitInv
<1> QED BY <1>1, <1>7, <1>8, <1>9, <1>10 DEF TurnKind

\* A ledger with the same counts.
LEMMA SameCounts ==
  ASSUME LimitInv, request' = request, locks' = locks, IsFiniteSet(jobs'),
         \A u, t : /\ Cardinality(WindowIn(jobs', u, t)) = Cardinality(WindowIn(jobs, u, t))
                   /\ Cardinality(RecentIn(jobs', u, t)) = Cardinality(RecentIn(jobs, u, t))
  PROVE  LimitInv'
<1>1. WithinLimit(jobs')
  BY DEF LimitInv, WithinLimit
<1>2. \A p \in Requests : RateGuarded(request'[p], locks'[p], jobs')
  BY DEF LimitInv, RateGuarded
<1>3. \A p \in Requests : Staged(request'[p], locks'[p])
  BY DEF LimitInv
<1> QED BY <1>1, <1>2, <1>3, Zenon DEF LimitInv

\* A job of the synchronous endpoint has no key and is not counted.
LEMMA CreateSyncLimit ==
  ASSUME LimitInv, NEW u \in Users, NEW r \in Repositories, NEW id \in JobIds, CreateSync(u, r, id)
  PROVE  LimitInv'
<1> DEFINE new == NewJob(id, u, NoKey, [type |-> "CREATE", repository |-> r, source |-> 0], now)
<1>1. jobs' = jobs \cup {new} /\ request' = request /\ locks' = locks
  BY DEF CreateSync
<1>2. new.key = NoKey
  BY DEF NewJob
<1> HIDE DEF new
<1>3. \A v, t : WindowIn(jobs', v, t) = WindowIn(jobs, v, t) /\ RecentIn(jobs', v, t) = RecentIn(jobs, v, t)
  BY <1>1, <1>2 DEF WindowIn, RecentIn
<1>4. IsFiniteSet(jobs')
  BY <1>1, FS_AddElement DEF LimitInv
<1> QED BY <1>1, <1>3, <1>4, SameCounts

\* An element makes room for another one.
LEMMA ReplaceElement ==
  ASSUME NEW S, IsFiniteSet(S), NEW a \in S, NEW b, b \notin S
  PROVE  IsFiniteSet((S \ {a}) \cup {b}) /\ Cardinality((S \ {a}) \cup {b}) = Cardinality(S)
<1> DEFINE R == S \ {a}
<1>1. IsFiniteSet(R) /\ Cardinality(R) = Cardinality(S) - 1
  BY FS_RemoveElement
<1>2. b \notin R /\ Cardinality(S) \in Nat
  BY FS_CardinalityType
<1> HIDE DEF R
<1>3. IsFiniteSet(R \cup {b}) /\ Cardinality(R \cup {b}) = Cardinality(R) + 1
  BY <1>1, <1>2, FS_AddElement
<1> QED BY <1>1, <1>2, <1>3 DEF R

\* A job that ends is counted as before.
LEMMA JobEndsLimit ==
  ASSUME IInv, LimitInv, NEW j \in jobs, NEW status \in {"FAILED", "ENDED"}, JobEnds(j, status)
  PROVE  LimitInv'
<1> DEFINE e == [j EXCEPT !.status = status]
<1>1. /\ jobs' = (jobs \ {j}) \cup {e} /\ request' = request /\ locks' = locks
      /\ j.status = "ACTIVE"
  BY DEF JobEnds
<1>2. j \in Job
  BY DEF IInv, CoreType
<1>3. /\ e.id = j.id /\ e.user = j.user /\ e.key = j.key /\ e.createdAt = j.createdAt
      /\ e.status = status
  BY <1>2 DEF Job
<1> HIDE DEF e
<1>4. e \notin jobs
  BY <1>1, <1>3 DEF IInv, IdsUnique
<1>5. IsFiniteSet(jobs) /\ IsFiniteSet(jobs')
  BY <1>1, <1>4, ReplaceElement DEF LimitInv
<1>6. ASSUME NEW S \in SUBSET jobs, NEW T,
             T = IF j \in S THEN (S \ {j}) \cup {e} ELSE S
      PROVE  Cardinality(T) = Cardinality(S)
  <2>1. IsFiniteSet(S)
    BY <1>5, FS_Subset
  <2> QED BY <1>4, <1>6, <2>1, ReplaceElement
<1>7. ASSUME NEW u, NEW t
      PROVE  /\ Cardinality(WindowIn(jobs', u, t)) = Cardinality(WindowIn(jobs, u, t))
             /\ Cardinality(RecentIn(jobs', u, t)) = Cardinality(RecentIn(jobs, u, t))
  <2>1. /\ WindowIn(jobs, u, t) \in SUBSET jobs
        /\ WindowIn(jobs', u, t) = IF j \in WindowIn(jobs, u, t)
                                     THEN (WindowIn(jobs, u, t) \ {j}) \cup {e}
                                     ELSE WindowIn(jobs, u, t)
    BY <1>1, <1>3 DEF WindowIn
  <2>2. /\ RecentIn(jobs, u, t) \in SUBSET jobs
        /\ RecentIn(jobs', u, t) = IF j \in RecentIn(jobs, u, t)
                                     THEN (RecentIn(jobs, u, t) \ {j}) \cup {e}
                                     ELSE RecentIn(jobs, u, t)
    BY <1>1, <1>3 DEF RecentIn
  <2> QED BY <1>6, <2>1, <2>2
<1> QED BY <1>1, <1>5, <1>7, SameCounts

LEMMA LimitInit == Init => LimitInv
<1> SUFFICES ASSUME Init PROVE LimitInv
  OBVIOUS
<1>1. jobs = {} /\ IsFiniteSet(jobs)
  BY FS_EmptySet DEF Init
<1>2. ASSUME NEW q \in Requests
      PROVE  Staged(request[q], locks[q]) /\ RateGuarded(request[q], locks[q], jobs)
  <2>1. request[q].pc = "idle" /\ locks[q] = {}
    BY DEF Init, NoRequest
  <2> QED BY <2>1 DEF Staged, RateGuarded, PastRate
<1>3. WithinLimit(jobs)
  <2>1. \A u, t : WindowIn(jobs, u, t) = {}
    BY <1>1 DEF WindowIn
  <2> QED BY <2>1, FS_EmptySet, JobAcceptanceAssumption DEF WithinLimit
<1> QED BY <1>1, <1>2, <1>3 DEF LimitInv

LEMMA LimitNext == IInv /\ LimitInv /\ [Next]_vars => LimitInv'
<1> SUFFICES ASSUME IInv, LimitInv, [Next]_vars PROVE LimitInv'
  OBVIOUS
<1>1. CASE \E q \in Requests, u \in Users, k \in Keys, r \in Repositories : Create(q, u, k, r)
  BY <1>1, CreateTurn, TurnLimit
<1>2. CASE \E q \in Requests, u \in Users, k \in Keys, j \in jobs : Retry(q, u, k, j)
  BY <1>2, RetryTurn, TurnLimit
<1>3. CASE \E q \in Requests : Advance(q) \/ Unavailable(q) \/ Answered(q)
  BY <1>3, LockKeyTurn, LockRateTurn, FindRepositoryTurn, LockRepositoryTurn, InsertIsTurn,
     UnavailableTurn, AnsweredTurn, TurnLimit DEF Advance
<1>4. CASE \E u \in Users, r \in Repositories, id \in JobIds : CreateSync(u, r, id)
  BY <1>4, CreateSyncLimit
<1>5. CASE \E j \in jobs, s \in {"FAILED", "ENDED"} : JobEnds(j, s)
  BY <1>5, JobEndsLimit
<1>6. CASE request' = request /\ locks' = locks /\ jobs' = jobs
  BY <1>6, SameCounts DEF LimitInv
<1>7. CASE \E l \in Lists : ListEnds(l) \/ \E u \in Users : ListPage(l, u)
  BY <1>6, <1>7 DEF ListEnds, ListPage
<1>8. CASE Tick
  BY <1>6, <1>8 DEF Tick
<1>9. CASE UNCHANGED vars
  BY <1>6, <1>9 DEF vars
<1> QED BY <1>1, <1>2, <1>3, <1>4, <1>5, <1>7, <1>8, <1>9 DEF Next

LEMMA LimitHolds == Spec => [](IInv /\ LimitInv)
BY InitInv, NextInv, LimitInit, LimitNext, PTL DEF Spec

\* No window of time holds more jobs of a user than the limit, although the
\* count is taken from the start of a transaction that inserts much later
\* (acceptJob, getCreationRateLimitStatus).
THEOREM LimitIsRespected == Spec => []RateLimitRespected
<1>1. LimitInv => RateLimitRespected
  BY LimitIsLimit DEF LimitInv
<1> QED BY <1>1, LimitHolds, PTL

\* Transactions never wait for each other in a circle, nor for a transaction
\* that is over: of those that are furthest on, each finds its lock free
\* (acceptJob takes the locks in one order).
THEOREM LocksAreOrdered == Spec => []SomeTransactionProceeds
<1>1. ASSUME IInv, LimitInv PROVE SomeTransactionProceeds
  <2> DEFINE At(pc) == {q \in Requests : request[q].pc = pc}
  <2> SUFFICES ASSUME NEW o \in Requests, request[o].pc \in InTransaction
               PROVE  \E q \in Requests : /\ request[q].pc \in InTransaction
                                          /\ \A lock \in Needed(q) : Free(q, lock)
    BY DEF SomeTransactionProceeds
  <2>1. \A q \in Requests : Staged(request[q], locks[q])
    BY <1>1 DEF LimitInv
  <2>2. ASSUME NEW q \in At("repository") \cup At("insert")
        PROVE  request[q].pc \in InTransaction /\ Needed(q) = {}
    BY DEF Needed, InTransaction
  <2>3. ASSUME NEW q \in At("exclusive"), At("insert") = {}
        PROVE  request[q].pc \in InTransaction /\ \A lock \in Needed(q) : Free(q, lock)
    <3>1. Needed(q) = {<<"repository", request[q].body.repository>>}
      BY DEF Needed
    <3>2. ASSUME NEW p \in Requests, NEW lock \in locks[p] PROVE lock[1] # "repository"
      BY <2>1, <2>3 DEF Staged
    <3> QED BY <3>1, <3>2 DEF Free, InTransaction
  <2>4. ASSUME NEW q \in At("rate"), At("insert") = {}, At("exclusive") = {}, At("repository") = {}
        PROVE  request[q].pc \in InTransaction /\ \A lock \in Needed(q) : Free(q, lock)
    <3>1. Needed(q) = {<<"rate", request[q].user>>}
      BY DEF Needed
    <3>2. ASSUME NEW p \in Requests, NEW lock \in locks[p] PROVE lock[1] # "rate"
      BY <2>1, <2>4 DEF Staged, PastRate
    <3> QED BY <3>1, <3>2 DEF Free, InTransaction
  <2>5. ASSUME NEW q \in At("key"), At("insert") = {}, At("exclusive") = {}, At("repository") = {},
               At("rate") = {}
        PROVE  request[q].pc \in InTransaction /\ \A lock \in Needed(q) : Free(q, lock)
    <3>1. Needed(q) = {<<"key", request[q].user, request[q].key>>}
      BY DEF Needed
    <3>2. ASSUME NEW p \in Requests, NEW lock \in locks[p] PROVE lock[1] # "key"
      BY <2>1, <2>5 DEF Staged, PastKey
    <3> QED BY <3>1, <3>2 DEF Free, InTransaction
  <2>6. o \in At("key") \cup At("rate") \cup At("repository") \cup At("exclusive") \cup At("insert")
    BY DEF InTransaction
  <2>7. \A pc : At(pc) \subseteq Requests
    OBVIOUS
  <2> HIDE DEF At
  <2> QED BY <2>2, <2>3, <2>4, <2>5, <2>6, <2>7
<1> QED BY <1>1, LimitHolds, PTL

----------------------------------------------------------------------------
(* Listings.                                                               *)

\* What the order compares.
Point(x) == x.createdAt \in Nat /\ x.id \in Nat

\* Descending order of (createdAt, id) is a strict order, total but for points
\* with the same date and id.
LEMMA BeforeOrder ==
  ASSUME NEW a, NEW b, NEW c, Point(a), Point(b), Point(c)
  PROVE  /\ ~Before(a, a)
         /\ Before(a, b) => ~Before(b, a)
         /\ Before(a, b) /\ Before(b, c) => Before(a, c)
         /\ ~Before(a, b) /\ Before(c, b) => ~Before(a, c)
         /\ a.id # b.id => Before(a, b) \/ Before(b, a)
BY DEF Point, Before

Above(S, j) == {k \in S : Before(j, k)}
Below(S, j) == {k \in S : Before(k, j)}
Points(S) == IsFiniteSet(S) /\ \A j \in S : Point(j)

\* A finite set has a first and a last point: take one with the least set of
\* points beyond it.
LEMMA FirstExists ==
  ASSUME NEW S, Points(S), S # {}
  PROVE  \E j \in S : Above(S, j) = {}
<1> DEFINE T == {Above(S, j) : j \in S}
<1>1. T \subseteq SUBSET S /\ T # {}
  BY DEF Above
<1>2. FiniteSubsetsOf(S) = SUBSET S
  BY FS_FiniteSubsetsOfFinite DEF Points
<1>3. IsWellFoundedOn(StrictSubsetOrdering(S), SUBSET S)
  BY <1>2, FS_StrictSubsetOrderingWellFounded
<1> HIDE DEF T
<1>4. PICK U \in T : \A V \in T : ~(<<V, U>> \in StrictSubsetOrdering(S))
  BY <1>1, <1>3, WFMin
<1>5. PICK j \in S : U = Above(S, j)
  BY <1>4 DEF T
<1>6. ASSUME NEW k \in Above(S, j) PROVE FALSE
  <2>1. k \in S /\ Before(j, k)
    BY DEF Above
  <2>2. Above(S, k) \subseteq Above(S, j)
    BY <2>1, BeforeOrder DEF Above, Points
  <2>3. k \notin Above(S, k)
    BY <2>1, BeforeOrder DEF Above, Points
  <2>4. Above(S, k) \in T /\ Above(S, k) \in SUBSET S /\ Above(S, j) \in SUBSET S
    BY <2>1 DEF T, Above
  <2>5. <<Above(S, k), Above(S, j)>> \in StrictSubsetOrdering(S)
    BY <2>2, <2>3, <2>4 DEF StrictSubsetOrdering
  <2> QED BY <1>4, <1>5, <2>4, <2>5
<1> QED BY <1>6

LEMMA LastExists ==
  ASSUME NEW S, Points(S), S # {}
  PROVE  \E j \in S : Below(S, j) = {}
<1> DEFINE T == {Below(S, j) : j \in S}
<1>1. T \subseteq SUBSET S /\ T # {}
  BY DEF Below
<1>2. FiniteSubsetsOf(S) = SUBSET S
  BY FS_FiniteSubsetsOfFinite DEF Points
<1>3. IsWellFoundedOn(StrictSubsetOrdering(S), SUBSET S)
  BY <1>2, FS_StrictSubsetOrderingWellFounded
<1> HIDE DEF T
<1>4. PICK U \in T : \A V \in T : ~(<<V, U>> \in StrictSubsetOrdering(S))
  BY <1>1, <1>3, WFMin
<1>5. PICK j \in S : U = Below(S, j)
  BY <1>4 DEF T
<1>6. ASSUME NEW k \in Below(S, j) PROVE FALSE
  <2>1. k \in S /\ Before(k, j)
    BY DEF Below
  <2>2. Below(S, k) \subseteq Below(S, j)
    BY <2>1, BeforeOrder DEF Below, Points
  <2>3. k \notin Below(S, k)
    BY <2>1, BeforeOrder DEF Below, Points
  <2>4. Below(S, k) \in T /\ Below(S, k) \in SUBSET S /\ Below(S, j) \in SUBSET S
    BY <2>1 DEF T, Below
  <2>5. <<Below(S, k), Below(S, j)>> \in StrictSubsetOrdering(S)
    BY <2>2, <2>3, <2>4 DEF StrictSubsetOrdering
  <2> QED BY <1>4, <1>5, <2>4, <2>5
<1> QED BY <1>6

LastOf(page) == CHOOSE j \in page : \A k \in page : j = k \/ Before(j, k)

\* What Newest returns: nothing that is left out comes before its last job, and
\* a set that fits on a page is all of the page.
LEMMA NewestPage ==
  ASSUME NEW S, Points(S), \A j, k \in S : j.id = k.id => j = k, NEW n \in Nat \ {0}
  PROVE  /\ Newest(S, n) \subseteq S
         /\ Cardinality(S) <= n => Newest(S, n) = S
         /\ Cardinality(S) > n =>
              /\ LastOf(Newest(S, n)) \in Newest(S, n)
              /\ \A j \in Newest(S, n) : ~Before(j, LastOf(Newest(S, n)))
              /\ \A j \in S \ Newest(S, n) : Before(j, LastOf(Newest(S, n)))
<1> DEFINE P == Newest(S, n)
<1>1. P = {j \in S : Cardinality(Above(S, j)) < n}
  BY DEF Newest, Above
<1>2. ASSUME NEW j \in S
      PROVE  /\ Above(S, j) \in SUBSET S /\ IsFiniteSet(Above(S, j)) /\ j \notin Above(S, j)
             /\ Cardinality(Above(S, j)) \in Nat /\ Cardinality(S) \in Nat
             /\ Cardinality(Above(S, j)) < Cardinality(S)
  <2>1. Above(S, j) \in SUBSET S /\ IsFiniteSet(S)
    BY DEF Above, Points
  <2>2. j \notin Above(S, j)
    BY BeforeOrder DEF Above, Points
  <2>3. /\ IsFiniteSet(Above(S, j)) /\ Cardinality(Above(S, j)) <= Cardinality(S)
        /\ Cardinality(S) = Cardinality(Above(S, j)) => S = Above(S, j)
    BY <2>1, FS_Subset
  <2>4. Cardinality(Above(S, j)) \in Nat /\ Cardinality(S) \in Nat
    BY <2>1, <2>3, FS_CardinalityType
  <2> QED BY <2>1, <2>2, <2>3, <2>4
<1>3. P \subseteq S
  BY <1>1
<1>4. ASSUME Cardinality(S) <= n PROVE P = S
  BY <1>1, <1>2, <1>4
<1>5. ASSUME Cardinality(S) > n
      PROVE  /\ LastOf(P) \in P
             /\ \A j \in P : ~Before(j, LastOf(P))
             /\ \A j \in S \ P : Before(j, LastOf(P))
  <2>1. S # {}
    BY <1>5, FS_EmptySet
  <2>2. PICK top \in S : Above(S, top) = {}
    BY <2>1, FirstExists
  <2>3. top \in P
    BY <1>1, <2>2, FS_EmptySet
  <2>4. Points(P)
    BY <1>3, FS_Subset DEF Points
  <2> HIDE DEF P
  <2>5. PICK low \in P : Below(P, low) = {}
    BY <2>3, <2>4, LastExists
  <2>6. \A k \in P : low = k \/ Before(low, k)
    <3> SUFFICES ASSUME NEW k \in P, low # k PROVE Before(low, k)
      OBVIOUS
    <3>1. low.id # k.id /\ ~Before(k, low)
      BY <1>3, <2>5 DEF Below
    <3> QED BY <2>4, <3>1, BeforeOrder DEF Points
  <2>7. LastOf(P) \in P /\ \A k \in P : LastOf(P) = k \/ Before(LastOf(P), k)
    BY <2>6 DEF LastOf
  <2> DEFINE last == LastOf(P)
  <2> HIDE DEF last
  <2>8. last \in P /\ last \in S /\ \A k \in P : last = k \/ Before(last, k)
    BY <1>3, <2>7 DEF last
  <2>9. ASSUME NEW j \in P PROVE ~Before(j, last)
    BY <2>4, <2>8, BeforeOrder DEF Points
  <2>10. ASSUME NEW j \in S \ P PROVE Before(j, last)
    <3>1. last.id # j.id
      BY <2>8
    <3>2. ASSUME Before(last, j) PROVE FALSE
      <4>1. Above(S, j) \in SUBSET Above(S, last)
        BY <2>8, <3>2, BeforeOrder DEF Above, Points
      <4>2. IsFiniteSet(Above(S, last))
        BY <1>2, <2>8
      <4>3. Cardinality(Above(S, j)) <= Cardinality(Above(S, last))
        BY <4>1, <4>2, FS_Subset
      <4>4. /\ Cardinality(Above(S, j)) \in Nat /\ Cardinality(Above(S, last)) \in Nat
        BY <1>2, <2>8
      <4>5. Cardinality(Above(S, last)) < n /\ ~(Cardinality(Above(S, j)) < n)
        BY <1>1, <2>8 DEF P
      <4> QED BY <4>3, <4>4, <4>5
    <3> QED BY <2>8, <3>1, <3>2, BeforeOrder DEF Points
  <2> QED BY <2>8, <2>9, <2>10 DEF last
<1> QED BY <1>3, <1>4, <1>5

\* The ids a listing remembers are ids of jobs of its user.
Remembered(x, J) == \A i \in x.seen \cup x.present : \E j \in J : j.id = i /\ j.user = x.user

\* Between two pages the cursor separates what was shown from what is to come.
Separated(x, J) ==
  x.pc = "paging" => \A j \in J : j.user = x.user =>
    /\ j.id \in x.seen => ~Before(j, x.cursor)
    /\ j.id \in x.present \ x.seen => Before(j, x.cursor)

Complete(x) == ~x.repeated /\ (x.pc = "done" => x.present \subseteq x.seen)

ListGood(x, J) ==
  /\ x.pc = "idle" => x = NoListing
  /\ x.pc # "idle" => x.user \in Users
  /\ Remembered(x, J) /\ Separated(x, J) /\ Complete(x)

ListInv ==
  /\ listing \in [Lists -> Listing]
  /\ \A l \in Lists : ListGood(listing[l], jobs)

\* The ledger changes, but not the user, the date and the id of a job in it;
\* a new job has an id no listing remembers.
SameIds(J, K) ==
  /\ \A j \in J : \E k \in K : j.id = k.id /\ j.user = k.user
  /\ \A k \in K : \/ k.id \notin {j.id : j \in J}
                  \/ \E j \in J : j.id = k.id /\ j.user = k.user /\ j.createdAt = k.createdAt

LEMMA LedgerListing ==
  ASSUME ListInv, listing' = listing, SameIds(jobs, jobs')
  PROVE  ListInv'
<1>1. ASSUME NEW l \in Lists PROVE ListGood(listing[l], jobs')
  <2> DEFINE x == listing[l]
  <2>1. ListGood(x, jobs)
    BY DEF ListInv
  <2> HIDE DEF x
  <2>2. Remembered(x, jobs')
    BY <2>1 DEF ListGood, Remembered, SameIds
  <2>3. Separated(x, jobs')
    <3> SUFFICES ASSUME x.pc = "paging", NEW k \in jobs', k.user = x.user
                 PROVE  /\ k.id \in x.seen => ~Before(k, x.cursor)
                        /\ k.id \in x.present \ x.seen => Before(k, x.cursor)
      BY DEF Separated
    <3>1. CASE k.id \notin {j.id : j \in jobs}
      BY <2>1, <3>1 DEF ListGood, Remembered
    <3>2. ASSUME NEW j \in jobs, j.id = k.id, j.user = k.user, j.createdAt = k.createdAt
          PROVE  /\ k.id \in x.seen => ~Before(k, x.cursor)
                 /\ k.id \in x.present \ x.seen => Before(k, x.cursor)
      BY <2>1, <3>2 DEF ListGood, Separated, Before
    <3> QED BY <3>1, <3>2 DEF SameIds
  <2> QED BY <2>1, <2>2, <2>3 DEF ListGood, x
<1>2. listing' \in [Lists -> Listing]
  BY DEF ListInv
<1>3. \A l \in Lists : ListGood(listing'[l], jobs')
  BY <1>1, Zenon
<1> QED BY <1>2, <1>3 DEF ListInv

LEMMA NoListingGood ==
  NoListing \in Listing /\ \A J : ListGood(NoListing, J)
<1>1. MaxTime \in Nat
  BY JobAcceptanceAssumption
<1>2. Start \in Cursor
  BY <1>1 DEF Start, Cursor
<1>3. NoListing \in Listing
  BY <1>2 DEF NoListing, Listing
<1>4. /\ NoListing.pc = "idle" /\ NoListing.present = {} /\ NoListing.seen = {}
      /\ NoListing.repeated = FALSE
  BY DEF NoListing
<1> QED BY <1>3, <1>4 DEF ListGood, Remembered, Separated, Complete

\* One listing changes.
LEMMA ListStep ==
  ASSUME ListInv, NEW l \in Lists, NEW x \in Listing, ListGood(x, jobs),
         listing' = [listing EXCEPT ![l] = x], jobs' = jobs
  PROVE  ListInv'
<1>1. listing' \in [Lists -> Listing] /\ listing'[l] = x
      /\ \A m \in Lists \ {l} : listing'[m] = listing[m]
  BY DEF ListInv
<1>2. \A m \in Lists : ListGood(listing'[m], jobs')
  BY <1>1, Zenon DEF ListInv
<1> QED BY <1>1, <1>2 DEF ListInv

LEMMA ListEndsGood ==
  ASSUME ListInv, NEW l \in Lists, ListEnds(l)
  PROVE  ListInv'
BY NoListingGood, ListStep DEF ListEnds

LEMMA JobIsPoint ==
  ASSUME NEW j \in Job
  PROVE  Point(j) /\ j.id \in JobIds /\ j.createdAt \in 0..MaxTime
<1>1. j.id \in JobIds /\ j.createdAt \in 0..MaxTime
  BY DEF Job
<1>2. MaxTime \in Nat /\ JobIds \subseteq Nat
  BY JobAcceptanceAssumption
<1>3. j.id \in Nat
  BY <1>1, <1>2
<1>4. \A t \in 0..MaxTime : t \in Nat
  BY <1>2
<1> QED BY <1>1, <1>3, <1>4 DEF Point

\* Some jobs of the ledger, and the page of them.
LEMMA PageFacts ==
  ASSUME IInv, LimitInv, NEW after \in SUBSET jobs
  PROVE  /\ Newest(after, PageLimit) \subseteq after
         /\ ~(Cardinality(after) > PageLimit) => Newest(after, PageLimit) = after
         /\ Cardinality(after) > PageLimit =>
              /\ LastOf(Newest(after, PageLimit)) \in Newest(after, PageLimit)
              /\ \A j \in Newest(after, PageLimit) : ~Before(j, LastOf(Newest(after, PageLimit)))
              /\ \A j \in after \ Newest(after, PageLimit) :
                   Before(j, LastOf(Newest(after, PageLimit)))
<1>1. after \in SUBSET jobs
  OBVIOUS
<1>2. IsFiniteSet(after)
  BY <1>1, FS_Subset DEF LimitInv
<1>3. MaxTime \in Nat /\ JobIds \subseteq Nat /\ PageLimit \in Nat \ {0}
  BY JobAcceptanceAssumption
<1>4. \A j \in jobs : Point(j)
  BY JobIsPoint DEF IInv, CoreType
<1>5. Points(after)
  BY <1>1, <1>2, <1>4 DEF Points
<1>6. \A j, k \in after : j.id = k.id => j = k
  BY <1>1 DEF IInv, IdsUnique
<1>7. Cardinality(after) \in Nat
  BY <1>2, FS_CardinalityType
<1> QED BY <1>3, <1>5, <1>6, <1>7, NewestPage

LEMMA ListPageGood ==
  ASSUME IInv, LimitInv, ListInv, NEW l \in Lists, NEW u \in Users, ListPage(l, u)
  PROVE  ListInv'
<1> DEFINE old == listing[l]
           first == old.pc = "idle"
           after == {j \in JobsOf(u) : PastCursor(j, old.cursor)}
           page == Newest(after, PageLimit)
           ids == {j.id : j \in page}
           more == Cardinality(after) > PageLimit
           last == LastOf(page)
           cursor == IF more THEN [createdAt |-> last.createdAt, id |-> last.id] ELSE Start
           present == IF first THEN {j.id : j \in JobsOf(u)} ELSE old.present
           seen == old.seen \cup ids
           repeated == old.repeated \/ old.seen \cap ids # {}
           pc == IF more THEN "paging" ELSE "done"
           x == [pc |-> pc, user |-> u, cursor |-> cursor, present |-> present,
                 seen |-> seen, repeated |-> repeated]
<1>1. /\ old.pc = "paging" => u = old.user
      /\ old.pc # "done"
      /\ jobs' = jobs
      /\ listing' = [listing EXCEPT ![l] = x]
  BY Zenon DEF ListPage, LastOf
<1>2. old \in Listing /\ ListGood(old, jobs)
  BY DEF ListInv
<1>3. old.pc \in {"idle", "paging", "done"} /\ old.cursor \in Cursor
      /\ old.present \in SUBSET JobIds /\ old.seen \in SUBSET JobIds
  BY <1>2 DEF Listing
<1>4. ~old.repeated
  BY <1>2 DEF ListGood, Complete
<1>5. /\ page \subseteq after
      /\ ~more => page = after
      /\ more => last \in page
      /\ more => \A j \in page : ~Before(j, last)
      /\ more => \A j \in after \ page : Before(j, last)
  <2>1. after \in SUBSET jobs
    BY DEF JobsOf
  <2> HIDE DEF after
  <2> QED BY <2>1, PageFacts
<1>6. after \subseteq jobs /\ \A j \in after : j.user = u /\ Before(j, old.cursor)
  BY DEF JobsOf, PastCursor
<1>7. JobsOf(u) = {j \in jobs : j.user = u}
  BY DEF JobsOf
<1>8. MaxTime \in Nat /\ JobIds \subseteq Nat
  BY JobAcceptanceAssumption
<1>9. \A j \in jobs : Point(j) /\ j.id \in JobIds /\ j.createdAt \in 0..MaxTime
  BY JobIsPoint DEF IInv, CoreType
<1>10. first => old = NoListing
  BY <1>2 DEF ListGood
<1>11. NoListing.cursor = Start /\ NoListing.seen = {} /\ NoListing.present = {}
  BY DEF NoListing
<1>12. \A j \in jobs : Before(j, Start)
  BY <1>8, <1>9 DEF Before, Start
<1>13. Point(old.cursor)
  <2>1. old.cursor.createdAt \in 0..MaxTime + 1 /\ old.cursor.id \in JobIds \cup {0}
    BY <1>3 DEF Cursor
  <2>2. \A t \in 0..MaxTime + 1 : t \in Nat
    BY <1>8
  <2>3. \A i \in JobIds \cup {0} : i \in Nat
    BY <1>8
  <2> QED BY <2>1, <2>2, <2>3 DEF Point
<1>14. first => old.cursor = Start /\ old.seen = {}
  BY <1>10, <1>11
<1>15. ~first => old.pc = "paging" /\ u = old.user
  BY <1>1, <1>3
<1> HIDE DEF first, after, page, more, last
<1>16. more => last \in jobs /\ last.user = u /\ Point(last) /\ last.id \in JobIds
               /\ last.createdAt \in 0..MaxTime /\ Before(last, old.cursor)
  BY <1>5, <1>6, <1>9
<1>17. present \in SUBSET JobIds /\ seen \in SUBSET JobIds
  BY <1>3, <1>5, <1>6, <1>7, <1>9
<1>18. cursor \in Cursor
  <2>1. Start \in Cursor
    BY <1>8 DEF Start, Cursor
  <2>2. more => last.createdAt \in 0..MaxTime + 1 /\ last.id \in JobIds \cup {0}
    BY <1>8, <1>16
  <2> QED BY <2>1, <2>2 DEF Cursor
<1>19. old.seen \cap ids = {}
  <2> SUFFICES ASSUME NEW j \in page, j.id \in old.seen PROVE FALSE
    OBVIOUS
  <2>1. j \in jobs /\ j.user = u /\ Before(j, old.cursor)
    BY <1>5, <1>6
  <2>2. old.pc = "paging" /\ u = old.user
    BY <1>14, <1>15
  <2> QED BY <1>2, <2>1, <2>2 DEF ListGood, Separated
<1>20. repeated = FALSE
  BY <1>4, <1>19
<1> HIDE DEF repeated, cursor, present, seen, pc
<1>21. x \in Listing /\ x.pc = pc /\ x.user = u /\ x.cursor = cursor /\ x.present = present
       /\ x.seen = seen /\ x.repeated = FALSE
  <2>1. pc \in {"idle", "paging", "done"} /\ repeated \in BOOLEAN
    BY <1>20 DEF pc
  <2> QED BY <1>17, <1>18, <1>20, <2>1 DEF Listing
<1>22. ASSUME NEW j \in jobs, j.user = u, j.id \in present PROVE j.id \in old.seen \/ j \in after
  <2>1. CASE first
    BY <1>6, <1>7, <1>12, <1>14, <1>22, <2>1 DEF after, PastCursor
  <2>2. CASE ~first
    <3>1. j.id \in old.present
      BY <1>22, <2>2 DEF present
    <3>2. old.pc = "paging" /\ u = old.user
      BY <1>15, <2>2
    <3>3. j.id \in old.seen \/ Before(j, old.cursor)
      BY <1>2, <1>22, <3>1, <3>2 DEF ListGood, Separated
    <3> QED BY <1>7, <1>22, <3>3 DEF after, PastCursor
  <2> QED BY <2>1, <2>2
<1>23. \A i \in present \cup seen : \E j \in jobs : j.id = i /\ j.user = u
  <2>1. \A i \in ids : \E j \in jobs : j.id = i /\ j.user = u
    BY <1>5, <1>6
  <2>2. CASE first
    BY <1>7, <1>14, <2>1, <2>2 DEF present, seen
  <2>3. CASE ~first
    <3>1. \A i \in old.seen \cup old.present : \E j \in jobs : j.id = i /\ j.user = old.user
      BY <1>2 DEF ListGood, Remembered
    <3> QED BY <1>15, <2>1, <2>3, <3>1 DEF present, seen
  <2> QED BY <2>2, <2>3
<1>24. Remembered(x, jobs)
  BY <1>21, <1>23 DEF Remembered
<1>25. Separated(x, jobs)
  <2> SUFFICES ASSUME pc = "paging", NEW j \in jobs, j.user = u
               PROVE  /\ j.id \in seen => ~Before(j, cursor)
                      /\ j.id \in present \ seen => Before(j, cursor)
    BY <1>21 DEF Separated
  <2>1. more
    BY DEF pc
  <2>2. cursor.createdAt = last.createdAt /\ cursor.id = last.id
    BY <2>1 DEF cursor
  <2>3. Before(j, cursor) <=> Before(j, last)
    BY <2>2 DEF Before
  <2>4. ASSUME j.id \in ids PROVE ~Before(j, last)
    <3>1. PICK k \in page : k.id = j.id
      BY <2>4
    <3>2. k = j
      BY <1>5, <1>6, <3>1 DEF IInv, IdsUnique
    <3> QED BY <1>5, <2>1, <3>1, <3>2
  <2>5. ASSUME j.id \in old.seen PROVE ~Before(j, last)
    <3>1. old.pc = "paging" /\ u = old.user
      BY <1>14, <1>15, <2>5
    <3>2. ~Before(j, old.cursor)
      BY <1>2, <2>5, <3>1 DEF ListGood, Separated
    <3> QED BY <1>9, <1>13, <1>16, <2>1, <3>2, BeforeOrder
  <2>6. ASSUME j.id \in present \ seen PROVE Before(j, last)
    <3>1. j \in after /\ j \notin page
      BY <1>22, <2>6 DEF seen
    <3> QED BY <1>5, <2>1, <3>1
  <2> QED BY <2>3, <2>4, <2>5, <2>6 DEF seen
<1>26. Complete(x)
  <2>1. ASSUME pc = "done" PROVE present \subseteq seen
    <3>1. ~more
      BY <2>1 DEF pc
    <3> SUFFICES ASSUME NEW i \in present PROVE i \in seen
      OBVIOUS
    <3>2. PICK j \in jobs : j.id = i /\ j.user = u
      BY <1>23
    <3> QED BY <1>5, <1>22, <3>1, <3>2 DEF seen
  <2> QED BY <1>21, <2>1 DEF Complete
<1>27. x.pc # "idle"
  BY <1>21 DEF pc
<1> HIDE DEF x
<1>28. ListGood(x, jobs)
  BY <1>21, <1>24, <1>25, <1>26, <1>27 DEF ListGood
<1> QED BY <1>1, <1>21, <1>28, ListStep

LEMMA SameLedger == SameIds(jobs, jobs)
BY DEF SameIds

LEMMA GrownLedger ==
  ASSUME NEW new, new.id \in FreeIds
  PROVE  SameIds(jobs, jobs \cup {new})
BY DEF SameIds, FreeIds

LEMMA ListInit == Init => ListInv
<1> SUFFICES ASSUME Init PROVE ListInv
  OBVIOUS
<1>1. listing \in [Lists -> Listing]
  BY NoListingGood DEF Init
<1>2. \A l \in Lists : ListGood(listing[l], jobs)
  BY NoListingGood DEF Init
<1> QED BY <1>1, <1>2 DEF ListInv

LEMMA ListNext == IInv /\ LimitInv /\ ListInv /\ [Next]_vars => ListInv'
<1> SUFFICES ASSUME IInv, LimitInv, ListInv, [Next]_vars PROVE ListInv'
  OBVIOUS
<1>1. CASE jobs' = jobs /\ listing' = listing
  BY <1>1, SameLedger, LedgerListing
<1>2. CASE \E q \in Requests, u \in Users, k \in Keys, r \in Repositories : Create(q, u, k, r)
  BY <1>1, <1>2 DEF Create
<1>3. CASE \E q \in Requests, u \in Users, k \in Keys, j \in jobs : Retry(q, u, k, j)
  BY <1>1, <1>3 DEF Retry
<1>4. CASE \E q \in Requests : Advance(q) \/ Unavailable(q) \/ Answered(q)
  <2>1. PICK q \in Requests : Advance(q) \/ Unavailable(q) \/ Answered(q)
    BY <1>4
  <2>2. CASE LockKey(q)
    BY <1>1, <2>2 DEF LockKey
  <2>3. CASE LockRate(q)
    BY <1>1, <2>3 DEF LockRate
  <2>4. CASE FindRepository(q) \/ LockRepository(q)
    BY <1>1, <2>4 DEF FindRepository, LockRepository
  <2>5. CASE Unavailable(q) \/ Answered(q)
    BY <1>1, <2>5 DEF Unavailable, Answered
  <2>6. CASE Insert(q)
    <3>1. PICK id \in FreeIds, t \in request[q].started..now :
            jobs' = jobs \cup {NewJob(id, request[q].user, request[q].key, request[q].body, t)}
      BY <2>6 DEF Insert
    <3> DEFINE new == NewJob(id, request[q].user, request[q].key, request[q].body, t)
    <3>2. new.id \in FreeIds
      BY DEF NewJob
    <3>3. jobs' = jobs \cup {new} /\ listing' = listing
      BY <2>6, <3>1 DEF Insert
    <3> HIDE DEF new
    <3> QED BY <3>2, <3>3, GrownLedger, LedgerListing
  <2> QED BY <2>1, <2>2, <2>3, <2>4, <2>5, <2>6 DEF Advance
<1>5. CASE \E l \in Lists : ListEnds(l) \/ \E u \in Users : ListPage(l, u)
  BY <1>5, ListEndsGood, ListPageGood
<1>6. CASE \E u \in Users, r \in Repositories, id \in JobIds : CreateSync(u, r, id)
  <2>1. PICK u \in Users, r \in Repositories, id \in JobIds : CreateSync(u, r, id)
    BY <1>6
  <2> DEFINE new == NewJob(id, u, NoKey, [type |-> "CREATE", repository |-> r, source |-> 0], now)
  <2>2. new.id \in FreeIds
    BY <2>1 DEF NewJob, CreateSync
  <2>3. jobs' = jobs \cup {new} /\ listing' = listing
    BY <2>1 DEF CreateSync
  <2> HIDE DEF new
  <2> QED BY <2>2, <2>3, GrownLedger, LedgerListing
<1>7. CASE \E j \in jobs, s \in {"FAILED", "ENDED"} : JobEnds(j, s)
  <2>1. PICK j \in jobs, s \in {"FAILED", "ENDED"} : JobEnds(j, s)
    BY <1>7
  <2> DEFINE e == [j EXCEPT !.status = s]
  <2>2. e.id = j.id /\ e.user = j.user /\ e.createdAt = j.createdAt
    BY DEF IInv, CoreType, Job
  <2>3. jobs' = (jobs \ {j}) \cup {e} /\ listing' = listing
    BY <2>1 DEF JobEnds
  <2> HIDE DEF e
  <2>4. SameIds(jobs, jobs')
    BY <2>2, <2>3 DEF SameIds
  <2> QED BY <2>3, <2>4, LedgerListing
<1>8. CASE Tick
  BY <1>1, <1>8 DEF Tick
<1>9. CASE UNCHANGED vars
  BY <1>1, <1>9 DEF vars
<1> QED BY <1>2, <1>3, <1>4, <1>5, <1>6, <1>7, <1>8, <1>9 DEF Next

LEMMA ListHolds == Spec => [](IInv /\ ListInv)
BY LimitHolds, ListInit, ListNext, PTL DEF Spec

\* The variables have their types, and an id names one job.
THEOREM AcceptanceTypeCorrect == Spec => []TypeOK
<1>1. IInv /\ ListInv => TypeOK
  BY DEF IInv, CoreType, IdsUnique, ListInv, TypeOK
<1> QED BY <1>1, ListHolds, PTL

\* A listing that reaches its last page has shown every job its user had at the
\* first page, none of them twice, while jobs come and end meanwhile (listOwned
\* pages by the pair of createdAt and id).
THEOREM ListingsAreComplete == Spec => []ListingIsComplete
<1>1. ListInv => ListingIsComplete
  BY DEF ListInv, ListGood, Complete, ListingIsComplete
<1> QED BY <1>1, ListHolds, PTL
=============================================================================
