\* Two jobs that share the queue, or one and a command, and one death.
CONSTANTS
    Jobs = {j1, j2}
    MaxTasks = 2
    Workers = {w1}
    NoWorker = NoWorker
    RetryLimits = {2}
    MaxExits = 1
SPECIFICATION FairSpec
PROPERTIES
    ConvertingEnds
    SyncCatchesUp
CHECK_DEADLOCK FALSE
