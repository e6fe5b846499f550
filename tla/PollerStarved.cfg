SPECIFICATION Spec
CONSTANTS
    Keys = {"k1"}
    Callers = {"w1"}
    Uris = {"sqsA", "ftp"}
    Services = {"sqs", "beanstalkd"}
    Started = {"sqs"}
    ServiceOf <- MCServiceOf
    NoSpec = NoSpec
    Idle = Idle
    Goroutines = {g1, g2}
    UrisOf <- MCUrisOf
    MessageCounts = {0}
    SentRates <- MCUnknown
    IdleCounts <- MCUnknown
    MaxRemovals = 2
PROPERTY RegisteredIsPolled
