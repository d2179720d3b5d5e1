--------------------------- MODULE JobAcceptance ---------------------------
(***************************************************************************)
(* The acceptance API of analysis jobs, AnalysisJobApiService: create and  *)
(* retry take three advisory locks in turn inside one READ COMMITTED       *)
(* transaction (the idempotency key, the user's rate limit, the            *)
(* repository); list pages through a user's jobs with a cursor.  A step is *)
(* one lock with the reads it protects, or one statement.                  *)
(*                                                                         *)
(* The unique index on (userId, idempotencyKey) and the recovery from its  *)
(* violation are left out: OneJobPerKey shows that the locks alone keep a  *)
(* second job from being inserted.  The work of the jobs is external here  *)
(* (see AnalysisWorker): a job ends at any time.                           *)
(***************************************************************************)
EXTENDS Integers, FiniteSets

CONSTANTS
  Users,
  Keys,           \* idempotency keys clients send
  Repositories,
  Requests,       \* create and retry requests in flight
  Lists,          \* listings being paged through
  JobIds,         \* ids a job may get; random in the code, so in any order
  Limit,          \* ANALYSIS_JOB_CREATION_RATE_LIMIT
  Window,         \* ANALYSIS_JOB_CREATION_RATE_LIMIT_WINDOW_MS
  PageLimit,      \* query.limit
  MaxTime,        \* bound on the clock
  NoUser, NoKey, NoRepository

ASSUME JobAcceptanceAssumption ==
  /\ JobIds \subseteq Nat
  /\ Limit \in Nat \ {0}
  /\ Window \in Nat \ {0}
  /\ PageLimit \in Nat \ {0}
  /\ MaxTime \in Nat
  /\ NoUser \notin Users /\ NoKey \notin Keys /\ NoRepository \notin Repositories

VARIABLES
  now,       \* the database's clock
  jobs,      \* the ledger: a set of job records
  request,   \* create and retry requests
  locks,     \* the advisory locks each transaction holds
  listing    \* listings in progress

vars == <<now, jobs, request, locks, listing>>

\* What a client asks for; the request hash is a digest of it and the user.
Bodies == [type : {"CREATE"}, repository : Repositories, source : {0}]
            \cup [type : {"RETRY"}, repository : Repositories, source : JobIds]
NoBody == [type |-> "CREATE", repository |-> NoRepository, source |-> 0]

\* A job of the synchronous endpoint has no key of a client ("sync:").
Job == [id : JobIds, user : Users, key : Keys \cup {NoKey}, body : Bodies,
        status : {"ACTIVE", "FAILED", "ENDED"},  \* FAILED: and errorRetryable
        createdAt : 0..MaxTime]

InTransaction == {"key", "rate", "repository", "exclusive", "insert"}

\* "answered": accepted.  A client that got an error, or no answer at all, has
\* nothing to remember and is idle.
Request == [pc : InTransaction \cup {"idle", "answered"},
            user : Users \cup {NoUser}, key : Keys \cup {NoKey},
            body : Bodies \cup {NoBody},
            started : 0..MaxTime,       \* CURRENT_TIMESTAMP of the transaction
            job : JobIds \cup {0}]      \* the job an accepted request names
NoRequest == [pc |-> "idle", user |-> NoUser, key |-> NoKey, body |-> NoBody,
              started |-> 0, job |-> 0]

Cursor == [createdAt : 0..MaxTime + 1, id : JobIds \cup {0}]
Start == [createdAt |-> MaxTime + 1, id |-> 0]

Listing == [pc : {"idle", "paging", "done"},
            user : Users \cup {NoUser},
            cursor : Cursor,
            present : SUBSET JobIds,    \* history: the user's jobs at the first page
            seen : SUBSET JobIds,
            repeated : BOOLEAN]         \* history: some job came twice
NoListing == [pc |-> "idle", user |-> NoUser, cursor |-> Start,
              present |-> {}, seen |-> {}, repeated |-> FALSE]

Locks == ({"key"} \X Users \X Keys) \cup ({"rate"} \X Users) \cup ({"repository"} \X Repositories)

\* The variables have their types, and an id names one job.
TypeOK ==
  /\ now \in 0..MaxTime
  /\ jobs \subseteq Job
  /\ \A j, k \in jobs : j.id = k.id => j = k
  /\ request \in [Requests -> Request]
  /\ locks \in [Requests -> SUBSET Locks]
  /\ listing \in [Lists -> Listing]

Init ==
  /\ now = 0
  /\ jobs = {}
  /\ request = [q \in Requests |-> NoRequest]
  /\ locks = [q \in Requests |-> {}]
  /\ listing = [l \in Lists |-> NoListing]

----------------------------------------------------------------------------
(* The ledger.                                                             *)

JobsOf(u) == {j \in jobs : j.user = u}
FreeIds == JobIds \ {j.id : j \in jobs}

\* A seeded fault for the mutant of Recent: the window looks back half as far.
RecentHalf(u, t) ==
  Cardinality({j \in JobsOf(u) : j.key # NoKey /\ 2 * j.createdAt > 2 * t - Window})

\* getCreationRateLimitStatus for a transaction that started at t: the clients'
\* jobs of the last window.  Jobs created after t count as well.
Recent(u, t) ==
  Cardinality({j \in JobsOf(u) : j.key # NoKey /\ j.createdAt > t - Window})

Active(r) == \E j \in jobs : j.body.repository = r /\ j.status = "ACTIVE"

\* The bound on jobs: a request begins only if an id is left for it.
Room == Cardinality(FreeIds) > Cardinality({q \in Requests : request[q].pc \in InTransaction})

NewJob(id, u, k, body, t) ==
  [id |-> id, user |-> u, key |-> k, body |-> body, status |-> "ACTIVE", createdAt |-> t]

----------------------------------------------------------------------------
(* create and retry.                                                       *)

Free(q, lock) == \A p \in Requests \ {q} : lock \notin locks[p]

Goto(q, pc) == request' = [request EXCEPT ![q].pc = pc]

\* The transaction is over, which releases its locks; the answer names a job.
Accept(q, id) ==
  /\ request' = [request EXCEPT ![q].pc = "answered", ![q].started = 0, ![q].job = id]
  /\ locks' = [locks EXCEPT ![q] = {}]

\* A seeded fault for the mutant of Rollback: session locks outlive an error.
RollbackKeepingLocks(q) ==
  /\ request' = [request EXCEPT ![q] = NoRequest]
  /\ UNCHANGED locks

\* An error inside the transaction.
Rollback(q) ==
  /\ request' = [request EXCEPT ![q] = NoRequest]
  /\ locks' = [locks EXCEPT ![q] = {}]

\* create: a transaction starts.
Create(q, u, k, r) ==
  /\ request[q].pc = "idle" /\ Room
  /\ request' = [request EXCEPT ![q] =
       [NoRequest EXCEPT !.pc = "key", !.user = u, !.key = k, !.started = now,
          !.body = [type |-> "CREATE", repository |-> r, source |-> 0]]]
  /\ UNCHANGED <<now, jobs, locks, listing>>

\* retry reads the source job first, outside the transaction: it must be the
\* user's own, failed, and retryable.
Retry(q, u, k, j) ==
  /\ request[q].pc = "idle" /\ Room
  /\ j \in JobsOf(u)
  /\ j.status = "FAILED"
  /\ request' = [request EXCEPT ![q] =
       [NoRequest EXCEPT !.pc = "key", !.user = u, !.key = k, !.started = now,
          !.body = [type |-> "RETRY", repository |-> j.body.repository, source |-> j.id]]]
  /\ UNCHANGED <<now, jobs, locks, listing>>

\* A seeded fault for the mutant of SameRequest: any request may use the key.
SameRequestAlways(j, body) == TRUE

\* resolveExisting compares the hashes.
SameRequest(j, body) == j.body = body

\* A seeded fault for the mutant of LockKey: nobody waits for the lock.
LockKeyAtOnce(q) ==
  LET u == request[q].user
      k == request[q].key
      existing == {j \in JobsOf(u) : j.key = k}
  IN /\ request[q].pc = "key"
     /\ \/ /\ existing = {}
           /\ Goto(q, "rate")
           /\ UNCHANGED locks
        \/ \E j \in existing :
             IF SameRequest(j, request[q].body)
               THEN Accept(q, j.id)
               ELSE Rollback(q)
     /\ UNCHANGED <<now, jobs, listing>>

\* The lock of the key, then the job stored under it: the same request is
\* answered with it, a different one is refused.
LockKey(q) ==
  LET u == request[q].user
      k == request[q].key
      lock == <<"key", u, k>>
      existing == {j \in JobsOf(u) : j.key = k}
  IN /\ request[q].pc = "key"
     /\ Free(q, lock)
     /\ \/ /\ existing = {}
           /\ locks' = [locks EXCEPT ![q] = @ \cup {lock}]
           /\ Goto(q, "rate")
        \/ \E j \in existing :
             /\ SameRequest(j, request[q].body)
             /\ Accept(q, j.id)
        \/ \E j \in existing :
             /\ ~SameRequest(j, request[q].body)
             /\ Rollback(q)
     /\ UNCHANGED <<now, jobs, listing>>

\* The user's rate limit lock, then the count of recent jobs.
LockRate(q) ==
  LET u == request[q].user
      lock == <<"rate", u>>
  IN /\ request[q].pc = "rate"
     /\ Free(q, lock)
     /\ \/ /\ Recent(u, request[q].started) < Limit
           /\ locks' = [locks EXCEPT ![q] = @ \cup {lock}]
           /\ Goto(q, "repository")
        \/ /\ Recent(u, request[q].started) >= Limit
           /\ Rollback(q)
     /\ UNCHANGED <<now, jobs, listing>>

\* The repository must be the user's, and the user must have tokens.  Webhooks,
\* synchronisations and other jobs change both at any time: either is possible.
FindRepository(q) ==
  /\ request[q].pc = "repository"
  /\ \/ Goto(q, "exclusive") /\ UNCHANGED locks
     \/ Rollback(q)
  /\ UNCHANGED <<now, jobs, listing>>

\* A seeded fault for the mutant of LockRepository: no lock is taken.
LockRepositoryNever(q) ==
  /\ request[q].pc = "exclusive"
  /\ \/ ~Active(request[q].body.repository) /\ Goto(q, "insert") /\ UNCHANGED locks
     \/ Active(request[q].body.repository) /\ Rollback(q)
  /\ UNCHANGED <<now, jobs, listing>>

\* createExclusive: the repository's lock, then no active job may exist.
LockRepository(q) ==
  LET r == request[q].body.repository
      lock == <<"repository", r>>
  IN /\ request[q].pc = "exclusive"
     /\ Free(q, lock)
     /\ \/ /\ ~Active(r)
           /\ locks' = [locks EXCEPT ![q] = @ \cup {lock}]
           /\ Goto(q, "insert")
        \/ /\ Active(r)
           /\ Rollback(q)
     /\ UNCHANGED <<now, jobs, listing>>

\* The job is inserted and the transaction commits.  createdAt lies between
\* the start of the transaction and now.  The answer may get lost, which leaves
\* the client where an error does.
Insert(q) ==
  /\ request[q].pc = "insert"
  /\ \E id \in FreeIds, t \in request[q].started..now :
       /\ jobs' = jobs \cup {NewJob(id, request[q].user, request[q].key, request[q].body, t)}
       /\ Accept(q, id) \/ Rollback(q)
  /\ UNCHANGED <<now, listing>>

\* The transaction times out or the process dies before the commit.
Unavailable(q) ==
  /\ request[q].pc \in InTransaction
  /\ Rollback(q)
  /\ UNCHANGED <<now, jobs, listing>>

\* The client has its answer and may send another request.
Answered(q) ==
  /\ request[q].pc = "answered"
  /\ request' = [request EXCEPT ![q] = NoRequest]
  /\ UNCHANGED <<now, jobs, locks, listing>>

----------------------------------------------------------------------------
(* Listing.                                                                *)

\* Descending order of (createdAt, id).
Before(j, c) == j.createdAt < c.createdAt \/ (j.createdAt = c.createdAt /\ j.id < c.id)

\* A seeded fault for the mutant of PastCursor: the id is not compared.
PastCursorByDate(j, c) == j.createdAt < c.createdAt

\* The boundary listOwned puts on a page.
PastCursor(j, c) == Before(j, c)

\* The newest jobs of a set, at most n of them.
Newest(set, n) == {j \in set : Cardinality({k \in set : Before(j, k)}) < n}

\* list: the next page; a cursor is returned while there are more jobs.
ListPage(l, u) ==
  LET old == listing[l]
      first == old.pc = "idle"
      after == {j \in JobsOf(u) : PastCursor(j, old.cursor)}
      page == Newest(after, PageLimit)
      ids == {j.id : j \in page}
      more == Cardinality(after) > PageLimit
      last == CHOOSE j \in page : \A k \in page : j = k \/ Before(j, k)
  IN /\ old.pc = "paging" => u = old.user
     /\ old.pc # "done"
     /\ listing' = [listing EXCEPT ![l] =
          [pc |-> IF more THEN "paging" ELSE "done", user |-> u,
           cursor |-> IF more THEN [createdAt |-> last.createdAt, id |-> last.id]
                      ELSE Start,
           present |-> IF first THEN {j.id : j \in JobsOf(u)} ELSE old.present,
           seen |-> old.seen \cup ids,
           repeated |-> old.repeated \/ old.seen \cap ids # {}]]
     /\ UNCHANGED <<now, jobs, request, locks>>

\* The client is done with the listing.
ListEnds(l) ==
  /\ listing[l].pc # "idle"
  /\ listing' = [listing EXCEPT ![l] = NoListing]
  /\ UNCHANGED <<now, jobs, request, locks>>

----------------------------------------------------------------------------
(* Elsewhere.                                                              *)

\* A seeded fault for the mutant of CreateSync: the id is derived from the input.
CreateSyncDerivedId(u, r, id) ==
  /\ \A q \in Requests : <<"repository", r>> \notin locks[q]
  /\ ~Active(r) /\ Room
  /\ jobs' = jobs \cup
       {NewJob(id, u, NoKey, [type |-> "CREATE", repository |-> r, source |-> 0], now)}
  /\ UNCHANGED <<now, request, locks, listing>>

\* The synchronous endpoint creates a job under the repository's lock alone.
CreateSync(u, r, id) ==
  /\ \A q \in Requests : <<"repository", r>> \notin locks[q]
  /\ ~Active(r)
  /\ id \in FreeIds /\ Room
  /\ jobs' = jobs \cup
       {NewJob(id, u, NoKey, [type |-> "CREATE", repository |-> r, source |-> 0], now)}
  /\ UNCHANGED <<now, request, locks, listing>>

\* A worker ends a job.
JobEnds(j, status) ==
  /\ j.status = "ACTIVE"
  /\ jobs' = (jobs \ {j}) \cup {[j EXCEPT !.status = status]}
  /\ UNCHANGED <<now, request, locks, listing>>

Tick ==
  /\ now < MaxTime
  /\ now' = now + 1
  /\ UNCHANGED <<jobs, request, locks, listing>>

Advance(q) ==
  LockKey(q) \/ LockRate(q) \/ FindRepository(q) \/ LockRepository(q) \/ Insert(q)

Next ==
  \/ \E q \in Requests, u \in Users, k \in Keys, r \in Repositories : Create(q, u, k, r)
  \/ \E q \in Requests, u \in Users, k \in Keys, j \in jobs : Retry(q, u, k, j)
  \/ \E q \in Requests : Advance(q) \/ Unavailable(q) \/ Answered(q)
  \/ \E l \in Lists : ListEnds(l) \/ \E u \in Users : ListPage(l, u)
  \/ \E u \in Users, r \in Repositories, id \in JobIds : CreateSync(u, r, id)
  \/ \E j \in jobs, s \in {"FAILED", "ENDED"} : JobEnds(j, s)
  \/ Tick

Spec == Init /\ [][Next]_vars

----------------------------------------------------------------------------
(* Properties.                                                             *)

\* Two requests with one idempotency key never create two jobs, however their
\* transactions overlap, time out or lose their answers: the key's lock is
\* enough.
OneJobPerKey ==
  \A j, k \in jobs : j.user = k.user /\ j.key = k.key /\ j.key # NoKey => j = k

\* An accepted request names the job stored under its key, and that job was
\* created by the same request: a key never leads to somebody else's job, nor
\* to the job of a different request.
AnswerIsItsJob ==
  \A q \in Requests : request[q].pc = "answered" =>
    \E j \in jobs : /\ j.id = request[q].job
                    /\ j.user = request[q].user
                    /\ j.key = request[q].key
                    /\ j.body = request[q].body

\* No window of time holds more jobs of a user than the limit, although a
\* transaction counts from its own start and may insert much later.
RateLimitRespected ==
  \A u \in Users, t \in 0..MaxTime :
    Cardinality({j \in JobsOf(u) : j.key # NoKey /\ j.createdAt \in (t - Window + 1)..t})
      <= Limit

\* A repository has at most one active job, also between the asynchronous and
\* the synchronous endpoint.
ActiveJobIsExclusive ==
  \A j, k \in jobs :
    j.status = "ACTIVE" /\ k.status = "ACTIVE" /\ j.body.repository = k.body.repository => j = k

\* A listing that reaches its last page has shown every job the user had at its
\* first page, and none twice, while jobs are created and finished meanwhile.
ListingIsComplete ==
  \A l \in Lists :
    /\ ~listing[l].repeated
    /\ listing[l].pc = "done" => listing[l].present \subseteq listing[l].seen

\* The lock a request is about to take.
Needed(q) ==
  CASE request[q].pc = "key"       -> {<<"key", request[q].user, request[q].key>>}
    [] request[q].pc = "rate"      -> {<<"rate", request[q].user>>}
    [] request[q].pc = "exclusive" -> {<<"repository", request[q].body.repository>>}
    [] OTHER                       -> {}

\* Transactions never wait for each other in a circle, nor for a lock whose
\* transaction is over: while some are open, one of them can go on.
SomeTransactionProceeds ==
  LET open == {q \in Requests : request[q].pc \in InTransaction}
  IN open # {} => \E q \in open : \A lock \in Needed(q) : Free(q, lock)
=============================================================================
