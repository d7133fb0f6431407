SPECIFICATION LiveSpec
CONSTANTS
    Signals = {"s1", "s2"}
    Providers <- TwoProviders
    MaxAttempts = 2
    RunBound = 1
INVARIANTS
    AlertsAreBounded
    RowsTellTheTruth
    EveryProviderTried
PROPERTY
    ShutdownEnds
