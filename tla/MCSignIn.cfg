\* Two accounts and three concurrent requests.
CONSTANTS
  Accounts = {a1, a2}
  Requests = {r1, r2, r3}
  NoAccount = NoAccount
SYMMETRY Anonymous
SPECIFICATION Spec
INVARIANTS TypeOK NoGrantAfterDeactivation GithubTokenIsOwn
