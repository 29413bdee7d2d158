\* One run, two executions or more, every setting saved once over an old value.
CONSTANTS
    Runs = {r1}
    Networks <- MCNetworks
    ProbeAnswers <- MCProbeAnswers
    WsdAnswers <- MCWsdAnswers
    MdnsAnswers <- MCMdnsAnswers
    NoRow = NoRow
    NoNumber = NoNumber
    MaxSaves = 1
    MaxTasks = 1
    Workers = {w1}
    NoWorker = NoWorker
    RetryLimits <- MCRetryLimits
SPECIFICATION FairSpec
INVARIANTS
    TypeOK
    RunHasTask
    BestIsOffered
    ResultsInNetwork
    LimitsAreSane
    SettingsTakeEffect
PROPERTIES
    RunEnds
CHECK_DEADLOCK FALSE
