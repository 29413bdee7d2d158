\* A scan that is run again over the pages of a failed attempt.
CONSTANTS
    Jobs = {j1}
    MaxPages = 1
    MaxTasks = 1
    Workers = {w1}
    NoWorker = NoWorker
    RetryLimits = {2}
    MaxExits = 0
SPECIFICATION Spec
PROPERTIES
    CompleteHasOwnPages
CHECK_DEADLOCK FALSE
