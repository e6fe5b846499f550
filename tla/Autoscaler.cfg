SPECIFICATION Spec
CONSTANTS
    Int32Max = 31
    Overflow32 <- MCOverflow32
    ScaleDownDelay = 1
    WpaSpecs <- MCWpaSpecs
    MessageCounts <- MCMessageCounts
    SentRates <- MCSentRates
    IdleCounts <- MCIdleCounts
    EditedReplicas <- MCEditedReplicas
INVARIANTS
    TypeOK
    MoreMessagesMoreWorkers
PROPERTIES
    ScalesIntoBounds
    DisruptionBounded
    BacklogKeepsAWorker
    NoHunting
    Convergence
