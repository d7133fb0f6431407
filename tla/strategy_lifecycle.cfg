SPECIFICATION Spec
CONSTANTS
    Bars <- LiveBars
    Histories <- OneHistory
    LeftBars = 1
    RightBars = 1
    MinDistance = 1
    ZoneOffset = 0
    MaxWait = 2
    EntryMode = "both"
    Window = 9
    BarBound = 10
    LagBound = 2
    RestartBound = 1
CHECK_DEADLOCK FALSE
INVARIANTS
    TypeOK
    OneSignalPerTrigger
    FailedTriggerNeverSignals
    RetestIsFirstReturn
PROPERTY
    ImplementsContract
