SPECIFICATION Spec
CONSTANTS
    Keys = {k1}
    Callers = {k1}
    Tube = "tube"
    Uris = {"tube"}
    Services = {"beanstalkd"}
    ServiceOf <- MCServiceOf
    NoSpec = NoSpec
    Idle = Idle
    Int32Max = 7
    Overflow32 <- MCOverflow32
    Messages = {m1}
    WpaSpecs <- MCWpaSpecs
    Edits <- MCEdits
    Conns = {c1, c2, c3, c4}
    Nil = Nil
    NoClient = NoClient
PROPERTY NeverPanics
