SPECIFICATION Spec
CONSTANTS
    Keys = {k1}
    Callers = {k1}
    Uris = {"near", "far"}
    Services = {"sqs"}
    ServiceOf <- MCServiceOf
    NoSpec = NoSpec
    Idle = Idle
    Int32Max = 7
    Overflow32 <- MCOverflow32
    Messages = {m1}
    WpaSpecs <- MCWpaSpecs
    Edits <- MCEdits
    Configured = {"near"}
    SentRates = {0, 60}
INVARIANTS TypeOK NoneOverlooked
PROPERTIES MessageGetsAWorker IdleWorkersGo
