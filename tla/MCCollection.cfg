SPECIFICATION FairSpec
CONSTANTS
    PullRequests = {1, 2, 3}
    Reviews <- ThreeReviews
    Comments <- ThreeComments
    PageSize = 2
    NestedPageSize = 2
    Overlap = 1
    MaxChanged = 2
    MaxNodes = 7
    Grain = 2
    MaxTime = 7
    BrokenTime = 3
    MaxFaults = 1
INVARIANTS TypeOK NothingMissed CollectedIsOneVersion CollectionIsComplete
PROPERTIES CollectionEnds
CHECK_DEADLOCK FALSE
