\* A scan of up to two pages that is tried twice after failures, and two deaths.
CONSTANTS
    Jobs = {j1}
    MaxPages = 2
    MaxTasks = 1
    Workers = {w1}
    NoWorker = NoWorker
    RetryLimits = {1, 2}
    MaxExits = 2
SPECIFICATION FairSpec
INVARIANTS
    TypeOK
    ActiveHasTask
    CancelHolds
    OfferedIsWhole
    PagesInOrder
PROPERTIES
    ScanningEnds
CHECK_DEADLOCK FALSE
