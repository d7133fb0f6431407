SPECIFICATION Spec
CONSTANTS
    Feed = "live"
    Timeframes <- ThreeTimeframes
    Duration <- DurationOf
    Readings <- ThreeReadings
    Setups <- ThreeSetups
    RetestQualities = {0, 100}
    VolumeMinimums = {0, 50, 100}
    RsiBullish = 50
    RsiBearish = 50
    CsdSaturation = 80
    BreakoutSaturation = 80
    EmaSaturation = 50
    MacdSaturation = 10
    Weights <- DefaultWeights
    HighAtr = 150
    LowAtr = 30
    TrendSeparation = 20
    RangeSeparation = 5
    EntryMode = "both"
    Horizon = 5
    FaultBound = 2
CHECK_DEADLOCK FALSE
INVARIANTS
    CausallyAvailable
    ConfirmationIsCurrent
    RestartNeverAddsSignals
    ScoresStayOnTheScale
