SPECIFICATION LiveSpec
CONSTANTS
    Streams <- StreamsVal
    FirstMarket = "ETH15m"
    LastVersion <- VersionsVal
    FaultBound = 2
    Attempts = 2
    ReadersBlock = TRUE
    StaleAfter = 1
INVARIANTS
    FilesMatchTheEngine
    ChartShowsItsMarket
PROPERTIES
    ReadersNeverStopTheFeed
    DeadEngineIsNotLive
    NewestIsDrawn
CHECK_DEADLOCK FALSE
