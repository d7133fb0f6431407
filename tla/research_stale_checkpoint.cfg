SPECIFICATION Spec
CONSTANTS
    EntryModes <- OneMode
    Symbols <- TwoSymbols
    Windows = 1
    Observations = 1
    Variants = 1
    Iterations = {20, 1000}
    Tradeless <- NoneAtFirst
    DataBound = 1
    RunBound = 2
    FaultBound = 0
CHECK_DEADLOCK FALSE
INVARIANT ReusedUnitsMatchInputs
