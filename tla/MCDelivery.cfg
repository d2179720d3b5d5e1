SPECIFICATION FairSpec
CONSTANTS
    NULL = NULL
    Publishers = {p1, p2}
    Messages = {m1, m2}
    PublishMax = 2
    MaxAttempts = 2
    MaxReceives = 2
    MaxPublishes = 3
    MaxFaults = 1
    LeaseWithinVisibility = FALSE
INVARIANTS
    TypeOK
    NeverForgotten
    SendsAreCounted
    UnpublishableWasNotDelivered
PROPERTIES
    RetryDeadlineKept
    EndsOrDeadLettered
CHECK_DEADLOCK FALSE
