SPECIFICATION FiguresSpec
CONSTANTS
    InSampleMonths = 6
    OutSampleMonths = 2
    StepMonths = 2
    WindowBound = 8
    Unit = 2
    GateSettings <- ReachableGate
    Starts <- FiveStarts
    Markets <- SeamsOfHalves
    ClosedTrades <- FiveTrades
    CostSettings <- ThreeCosts
    Reports <- SomeReports
    DrawdownThreshold = 45
    MonthBound = 14
    TradeBound = 3
    ShuffleBound = 3
    FigureBound = 2
CHECK_DEADLOCK FALSE
INVARIANTS
    OutOfSampleOnce
    ResamplingIsCoherent
PROPERTY
    OnlyAShrinkingLossFails
