\* Two devices that can have each other's queue name; refreshing is the end of every other handler.
CONSTANTS
    Devices = {d1, d2}
    NoDevice = NoDevice
    Queues = {q1, q2}
    NoQueue = NoQueue
    Requests = {"disable"}
    MaxTasks = 3
    Workers = {w1}
    NoWorker = NoWorker
    RetryLimits = {2}
    MaxEdits = 1
SPECIFICATION Spec
INVARIANTS
    TypeOK
    OnlineIsServed
    NoOrphanQueue
    ShownIsCups
CONSTRAINT MCBound
CHECK_DEADLOCK FALSE
SYMMETRY MCSymmetry
