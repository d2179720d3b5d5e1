\* Two users, an installation both may see, a callback and two synchronisations.
CONSTANTS
  Users = {u1, u2}
  Installations = {i1}
  Callbacks = {c1}
  Syncs = {y1, y2}
  States = {s1}
  NoUser = NoUser
  NoInstallation = NoInstallation
  NoState = NoState
SYMMETRY Anonymous
SPECIFICATION Spec
INVARIANTS TypeOK LinkWasVerified QuietSyncIsExact
