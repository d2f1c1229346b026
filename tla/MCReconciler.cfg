CONSTANTS
    BackoffBase = 1
    BackoffMax = 4
    DetachedBackoffBase = 5
    DetachedBackoffMax = 11
    ActiveCheckInterval = 3
    MinDetachedAge = 14
    MaxFailures = 3
    Zero = Zero
SPECIFICATION FairSpec
INVARIANTS
    TypeOK
    RetriedInTime
    NotRetriedEarly
PROPERTIES
    Converges
