\* A retry after the retained file has expired.
CONSTANTS
    Jobs = {j1}
    MaxTasks = 3
    Workers = {w1}
    NoWorker = NoWorker
    RetryLimits = {1}
    MaxExits = 0
SPECIFICATION Spec
PROPERTIES
    RetryNeedsSource
CHECK_DEADLOCK FALSE
