SPECIFICATION Spec
CONSTANTS
    Keys = {"k1"}
    Callers = {"w1", "w2"}
    Uris = {"sqsA", "tube", "ftp"}
    Services = {"sqs", "beanstalkd"}
    ServiceOf <- MCServiceOf
    Started = {"sqs", "beanstalkd"}
    NoSpec = NoSpec
    Idle = Idle
    Goroutines = {g1, g2}
    UrisOf <- MCUrisOf
    MessageCounts = {0}
    SentRates <- MCUnknown
    IdleCounts <- MCUnknown
    MaxRemovals = 1
INVARIANTS
    TypeOK
    OnePollUntilGone
    FlagHasGoroutine
PROPERTIES
    PolledUntilRemoved
    GoneIsNotPolled
    OnlyAddRegisters
