SPECIFICATION Spec
CONSTANTS
    NULL = NULL
    Workers = {w1, w2}
    Jobs = {j1}
    Users = {u1}
    Repos = {r1}
    OwnerOf <- MCOwnerOf
    RepoOf <- MCRepoOf
    SyncJobs = {}
    RetiredJobs = {}
    MaxAttempts = 2
    InitialTokens = 2
    ReserveSizes = {1, 3}
    UsageSizes = {0, 2, 3}
    MaxInstant = 4
    MaxFaults = 2
    LeaseOutlivesWorker = TRUE
PROPERTIES
    NoRecallAfterAnswer
CHECK_DEADLOCK FALSE
