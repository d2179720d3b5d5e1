\* Two overlapping requests of two users for one repository, two keys, and a
\* listing of one job a page.  A third id is left for a job that is created
\* while the listing is between its first two.
CONSTANTS
  Users = {u1, u2}
  Keys = {k1, k2}
  Repositories = {p1}
  Requests = {q1, q2}
  Lists = {l1}
  JobIds = {1, 2, 3}
  Limit = 1
  Window = 2
  PageLimit = 1
  MaxTime = 2
  NoUser = NoUser
  NoKey = NoKey
  NoRepository = NoRepository
SYMMETRY SameKeys
SPECIFICATION Spec
INVARIANTS TypeOK OneJobPerKey AnswerIsItsJob RateLimitRespected ActiveJobIsExclusive ListingIsComplete SomeTransactionProceeds
CHECK_DEADLOCK FALSE
