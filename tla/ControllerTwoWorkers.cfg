SPECIFICATION Spec
CONSTANTS
    Keys = {k1}
    Callers = {w1, w2}
    Uris = {"sqs"}
    Services = {"sqs"}
    ServiceOf <- MCServiceOf
    NoSpec = NoSpec
    Idle = Idle
    Int32Max = 31
    Overflow32 <- MCOverflow32
    Deployments = {d1}
    NoDeployment = NoDeployment
    Gone = Gone
    Free = Free
    WpaSpecs <- MCOneSpec
    Backlogs = {3}
    InitialBacklogs <- MCAnyBacklogs
    SentRates = {}
    IdleCounts = {}
    HandScaled = {1, 3}
    ScaleDownDelay = 1
    RetrySteps = 2
    Possible = {"create", "rollout", "scale"}
    MaxEdits = 2
    MaxLag = 2
INVARIANTS OneWorkerPerItem
PROPERTIES Convergence
CHECK_DEADLOCK FALSE
