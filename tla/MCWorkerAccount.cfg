SPECIFICATION Spec
CONSTANTS
    NULL = NULL
    Workers = {w1, w2}
    Jobs = {j1, j2}
    Users = {u1}
    Repos = {r1}
    OwnerOf <- MCOwnerOf
    RepoOf <- MCRepoOf
    SyncJobs = {j2}
    RetiredJobs = {}
    MaxAttempts = 2
    InitialTokens = 2
    ReserveSizes = {1, 3}
    UsageSizes = {0, 2, 3}
    MaxInstant = 4
    MaxFaults = 1
    LeaseOutlivesWorker = FALSE
SYMMETRY WorkerSymmetry
INVARIANTS
    TypeOK
    HeldMatchesLedger
    RowChecks
    CallsWithinAttempts
    ReportIffSucceeded
PROPERTIES
    TerminalIsFinal
    ImplementsAccount
CHECK_DEADLOCK FALSE
