SPECIFICATION Spec
CONSTANTS
    Legs <- TwoLegs
    BreakevenAfter = 1
    BreakevenOffset = 1
    TimeStop = 2
    RUnit = 2
    Keys = {"ETH 15m", "ETH 1h"}
    PrimaryKeys = {"ETH 15m"}
    Candles <- Moves
    Plans <- BothSides
    CandleBound = 4
    SignalBound = 2
CHECK_DEADLOCK FALSE
INVARIANTS
    RunnerMatchesSimulator
    GrossMatchesFills
    PessimisticFills
    LossIsBounded
