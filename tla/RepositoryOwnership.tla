------------------------ MODULE RepositoryOwnership ------------------------
(***************************************************************************)
(* Who a repository belongs to while jobs run on it.  A repository row has *)
(* one owner, and CollectionService.getRepositories makes the caller the   *)
(* owner of every repository it lists: two users who can both see a        *)
(* repository take it from each other.  A job is accepted for its user and *)
(* analyses the GitHub name of the owner at the time it is claimed.        *)
(*                                                                         *)
(* A user and the user's GitHub name are the same value here.  Who is      *)
(* charged, and what the job does to the checkpoint, is AnalysisWorker.    *)
(***************************************************************************)
CONSTANTS
  Users,
  Repositories,
  Jobs,         \* identities of jobs
  NoUser, NoRepository

VARIABLES
  owner,         \* Repository.ownerId; NoUser before the row exists
  job,           \* jobs of both endpoints
  syncing        \* syncRepository calls between their read and their job

vars == <<owner, job, syncing>>

\* target: whose activity was collected
NoJob == [status |-> "none", kind |-> "async", user |-> NoUser,
          repository |-> NoRepository, target |-> NoUser]

Init ==
  /\ owner = [r \in Repositories |-> NoUser]
  /\ job = [j \in Jobs |-> NoJob]
  /\ syncing = {}

----------------------------------------------------------------------------

Active(r) == \E j \in Jobs : job[j].repository = r /\ job[j].status \in {"QUEUED", "RUNNING"}

\* getRepositories upserts each repository GitHub lists with the caller as
\* owner, one statement per repository.
TakeRepository(u, r) ==
  /\ owner' = [owner EXCEPT ![r] = u]
  /\ UNCHANGED <<job, syncing>>

\* Acceptance: the user owns the repository and no job is active on it.
Accept(j, u, r) ==
  /\ job[j].status = "none"
  /\ owner[r] = u
  /\ ~Active(r)
  /\ job' = [job EXCEPT ![j] = [NoJob EXCEPT !.status = "QUEUED", !.user = u,
                                             !.repository = r]]
  /\ UNCHANGED <<owner, syncing>>

\* A worker claims the job and collects for the owner's name as it is now; a
\* later attempt reads it again.
Claim(j) ==
  /\ job[j].kind = "async"
  /\ job[j].status \in {"QUEUED", "RUNNING"}
  /\ job' = [job EXCEPT ![j].status = "RUNNING", ![j].target = owner[job[j].repository]]
  /\ UNCHANGED <<owner, syncing>>

\* syncRepository reads the row with its owner in one query, and collects.
SyncRead(u, r) ==
  /\ owner[r] = u
  /\ syncing' = syncing \cup {[user |-> u, repository |-> r, target |-> owner[r]]}
  /\ UNCHANGED <<owner, job>>

\* runAnalysis creates its job afterwards, unless one is active.
SyncJob(j, s) ==
  /\ job[j].status = "none"
  /\ s \in syncing
  /\ ~Active(s.repository)
  /\ job' = [job EXCEPT ![j] =
       [status |-> "RUNNING", kind |-> "sync", user |-> s.user,
        repository |-> s.repository, target |-> s.target]]
  /\ syncing' = syncing \ {s}
  /\ UNCHANGED owner

\* Collection fails, or another job is active (409).
SyncEnds(s) ==
  /\ s \in syncing
  /\ syncing' = syncing \ {s}
  /\ UNCHANGED <<owner, job>>

\* The report is stored and the job closed, whoever owns the repository now.
Complete(j) ==
  /\ job[j].status = "RUNNING"
  /\ job' = [job EXCEPT ![j].status = "SUCCEEDED"]
  /\ UNCHANGED <<owner, syncing>>

\* The job fails for good.
Fail(j) ==
  /\ job[j].status \in {"QUEUED", "RUNNING"}
  /\ job' = [job EXCEPT ![j].status = "FAILED"]
  /\ UNCHANGED <<owner, syncing>>

Next ==
  \/ \E u \in Users, r \in Repositories :
       \/ TakeRepository(u, r) \/ SyncRead(u, r)
       \/ \E j \in Jobs : Accept(j, u, r)
  \/ \E j \in Jobs : Claim(j) \/ Complete(j) \/ Fail(j)
  \/ \E s \in syncing : SyncEnds(s) \/ \E j \in Jobs : SyncJob(j, s)

Spec == Init /\ [][Next]_vars

----------------------------------------------------------------------------
(* Properties.                                                             *)

\* A report analyses the user it is stored for ("analyses the user's
\* development competence").
ReportIsAboutItsUser ==
  \A j \in Jobs : job[j].status = "SUCCEEDED" => job[j].target = job[j].user
=============================================================================
