SPECIFICATION DispatchSpec
CONSTANTS
    Settings <- MCSettings
    LatencyStats <- MCLatencyStats
    MaxRetries = 2
    DayMinutes = 2
    MaxPerMinute = 2
INVARIANTS
    OneAnswer
    AttemptsAccount
    RouteBest
    OutageIsReal
PROPERTIES
    AttemptsEnd
    BlocksEnd
