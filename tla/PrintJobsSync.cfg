\* A job that sync_print_jobs finds waiting in CUPS.
CONSTANTS
    Jobs = {j1}
    MaxTasks = 1
    Workers = {w1}
    NoWorker = NoWorker
    RetryLimits = {1}
    MaxExits = 0
SPECIFICATION FairSpec
PROPERTIES
    PrintedIsShown
CHECK_DEADLOCK FALSE
