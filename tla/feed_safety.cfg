SPECIFICATION LiveSpec
CONSTANTS
    Symbols <- OneSymbol
    Timeframes <- OneTimeframe
    HistoryLimit = 3
    MaxDelayAttempt = 1
    FaultKinds <- AllFaults
    MaxCandle = 4
    WireBound = 3
    FaultBound = 2
INVARIANTS
    ReconciledSessionHasNoGap
    EvaluatedOnceInOrder
    EvaluatedStaysFinal
    AcknowledgedMeansDelivering
    DatabaseOutlivesTask
PROPERTIES
    ShutdownCompletes
    ReconnectsUnlessTaskEnded
