\* Two workers whose handlers end within the lease.
CONSTANTS
    MaxTasks = 3
    Workers = {w1, w2}
    NoOwner = NoOwner
    RetryLimits = {1, 2}
    Lease = 2
    Backoff = 1
    HandlerMax = 2
    MaxExits = 2
SPECIFICATION FairSpec
INVARIANTS
    TypeOK
    OneExecutor
    RetryBudget
    QueueInv
PROPERTIES
    FinishedIsFinal
    ImplementsQueue
    EveryTaskEnds
