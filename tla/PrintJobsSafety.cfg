\* One job with its print task and up to three more: commands and their retries,
\* and one death of the worker or of a request.
CONSTANTS
    Jobs = {j1}
    MaxTasks = 4
    Workers = {w1}
    NoWorker = NoWorker
    RetryLimits = {2}
    MaxExits = 1
SPECIFICATION Spec
INVARIANTS
    TypeOK
    WaitingHasTask
    CancelSticks
    ShownStateIsTracked
    SubmissionsAccounted
CHECK_DEADLOCK FALSE
