SPECIFICATION LiveSpec
CONSTANTS
    EntryModes <- BothModes
    Symbols <- TwoSymbols
    Windows = 1
    Observations = 1
    Variants = 1
    Iterations = {1000}
    Tradeless <- NoneAtFirst
    DataBound = 2
    RunBound = 3
    FaultBound = 1
CHECK_DEADLOCK FALSE
INVARIANTS
    ReusedUnitsMatchInputs
    DurableProgress
    ReadyMeansEvidence
PROPERTY
    RunEnds
