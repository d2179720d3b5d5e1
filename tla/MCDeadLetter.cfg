SPECIFICATION FairSpec
CONSTANTS
    NULL = NULL
    Publishers = {p1}
    Messages = {m1, m2}
    PublishMax = 3
    MaxAttempts = 2
    MaxReceives = 2
    MaxPublishes = 4
    MaxFaults = 2
    LeaseWithinVisibility = TRUE
PROPERTIES
    DeadLetteredJobEnds
CHECK_DEADLOCK FALSE
