\* Two users who both see one repository, one job.
CONSTANTS
  Users = {u1, u2}
  Repositories = {p1}
  Jobs = {j1}
  NoUser = NoUser
  NoRepository = NoRepository
SYMMETRY Anonymous
SPECIFICATION Spec
INVARIANTS ReportIsAboutItsUser
