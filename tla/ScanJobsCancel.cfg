\* A cancel that is saved after the worker has ended the scan.
CONSTANTS
    Jobs = {j1}
    MaxPages = 1
    MaxTasks = 1
    Workers = {w1}
    NoWorker = NoWorker
    RetryLimits = {1}
    MaxExits = 0
SPECIFICATION FairSpec
PROPERTIES
    CancelEndsScan
CHECK_DEADLOCK FALSE
