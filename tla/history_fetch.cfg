SPECIFICATION LiveSpec
CONSTANTS
    Pairs <- PairsVal
    Opens <- OpensVal
    Width = 3
    Years = 10
    Limit = 2
    Batch = 2
    MaxFailures = 2
    MaxMissingGap = 1
    Overlap = 2
    FirstClock = 10
    ClockBound = 12
    RunBound = 2
INVARIANTS
    RangeIsComplete
    ReportedIsDurable
    ExitZeroMeansUsable
PROPERTY
    ScriptEnds
CHECK_DEADLOCK FALSE
