SPECIFICATION Spec
CONSTANTS
    Symbols <- OneSymbol
    Timeframes <- OneTimeframe
    HistoryLimit = 3
    MaxDelayAttempt = 1
    FaultKinds = {"drop"}
    MaxCandle = 4
    WireBound = 3
    FaultBound = 2
INVARIANT NoEvaluationSkipped
