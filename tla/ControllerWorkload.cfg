SPECIFICATION Spec
CONSTANTS
    Keys = {k1}
    Callers = {w1}
    Uris = {"sqs", "bad", "ftp"}
    Services = {"sqs", "beanstalkd"}
    ServiceOf <- MCServiceOf
    NoSpec = NoSpec
    Idle = Idle
    Int32Max = 31
    Overflow32 <- MCOverflow32
    Deployments = {d1}
    NoDeployment = NoDeployment
    Gone = Gone
    Free = Free
    WpaSpecs <- MCOddSpecs
    Backlogs = {0, 3}
    InitialBacklogs <- MCAnyBacklogs
    SentRates = {60}
    IdleCounts = {1}
    HandScaled = {1}
    ScaleDownDelay = 1
    RetrySteps = 2
    Possible = {"create", "remove", "deploy", "relist", "backlog"}
    MaxEdits = 3
    MaxLag = 1
INVARIANTS RegistrationOnTheWay
PROPERTIES Convergence NoItemLost
CHECK_DEADLOCK FALSE
