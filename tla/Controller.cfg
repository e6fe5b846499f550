SPECIFICATION Spec
CONSTANTS
    Keys = {k1}
    Callers = {w1}
    Uris = {"sqs", "tube"}
    Services = {"sqs", "beanstalkd"}
    ServiceOf <- MCServiceOf
    NoSpec = NoSpec
    Idle = Idle
    Int32Max = 31
    Overflow32 <- MCOverflow32
    Deployments = {d1}
    NoDeployment = NoDeployment
    Gone = Gone
    Free = Free
    WpaSpecs <- MCTwoSpecs
    Backlogs = {2, 3}
    InitialBacklogs <- MCTwoBacklogs
    SentRates = {}
    IdleCounts = {}
    HandScaled = {1}
    ScaleDownDelay = 1
    RetrySteps = 2
    Possible = {"create", "edit", "delete", "late", "kill", "stop"}
    MaxEdits = 3
    MaxLag = 2
INVARIANTS TypeOK
PROPERTIES
    RegistryInSync Convergence DecidesOnWhatIs DisruptionRespected
    NoItemLost DeletionFollowed RegistrationFollowed ScaleTimeKept
CHECK_DEADLOCK FALSE
