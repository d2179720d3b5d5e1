SPECIFICATION FairSpec
CONSTANTS
    NULL = NULL
    Workers = {w1, w2}
    Jobs = {j1}
    Users = {u1}
    Repos = {r1}
    OwnerOf <- MCOwnerOf
    RepoOf <- MCRepoOf
    SyncJobs = {}
    RetiredJobs = {}
    MaxAttempts = 3
    InitialTokens = 2
    ReserveSizes = {1, 3}
    UsageSizes = {0, 2, 3}
    MaxInstant = 4
    MaxFaults = 3
    LeaseOutlivesWorker = TRUE
    MaxReceives = 3
INVARIANTS
    ProviderCallIsExclusive
PROPERTIES
    AcceptedJobEnds
CHECK_DEADLOCK FALSE
