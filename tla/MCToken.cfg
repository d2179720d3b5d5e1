\* Two requests share the token of one installation.
CONSTANTS
  q1 = q1
  q2 = q2
  i1 = i1
  r1 = r1
  Requests = {q1, q2}
  Installations = {i1}
  Tokens = {t1, t2, t3, t4, t5}
  Listing <- OnePage
  PageSize = 1
  NoToken = NoToken
  AnyRepository = AnyRepository
SYMMETRY SameRequests
SPECIFICATION Spec
INVARIANTS TypeOK RetryUsesAnotherToken UndisturbedRequestSucceeds
PROPERTIES RequestProgresses
