\* Two scanners whose names overlap, two endpoints each, one death.
CONSTANTS
    s1 = s1
    s2 = s2
    Scanners = {s1, s2}
    NoScanner = NoScanner
    MaxVersion = 2
    Hpaio = {2}
    NameWithin <- MCNameWithin
    MaxTasks = 3
    Workers = {w1}
    NoWorker = NoWorker
    RetryLimits = {2}
    MaxExits = 1
SPECIFICATION FairSpec
INVARIANTS
    TypeOK
    PendingHasTask
    ReadyIsOfEndpoint
PROPERTIES
    VerdictComes
CHECK_DEADLOCK FALSE
