SPECIFICATION Spec
CONSTANTS
    NULL = NULL
    Workers = {w1, w2}
    Jobs = {j1, j2, j3}
    Users = {u1}
    Repos = {r1}
    OwnerOf <- MCOwnerOf
    RepoOf <- MCRepoOf
    SyncJobs = {j3}
    RetiredJobs = {j2}
    MaxAttempts = 1
    InitialTokens = 2
    ReserveSizes = {1}
    UsageSizes = {0, 2}
    MaxInstant = 5
    MaxFaults = 0
    LeaseOutlivesWorker = FALSE
SYMMETRY WorkerSymmetry
INVARIANTS
    OneActiveJobPerRepository
    CheckpointCovered
PROPERTIES
    CheckpointMonotone
CHECK_DEADLOCK FALSE
