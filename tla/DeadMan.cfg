SPECIFICATION ProgressSpec
CONSTANTS
    Parts <- JustWatchdog
    Bundles <- Two
    Keys <- Two
    AgentClasses <- One
    TrustedServers <- One
    Levels <- Two
    PolicyRequests <- Two
    Nothing = Nothing
    Items <- Two
    Threshold = 2
    HeartbeatTTL = 3
    DeadManInterval = 3
    NoAge = NoAge
    Tasks <- Two
    KindOf <- OwnKind
    MaxRetriesOf <- SomeRetry
    Fallible <- Two
    Workers <- Two
    MaxDeaths = 2
    NoMessage = NoMessage
INVARIANT SilenceReported
CHECK_DEADLOCK FALSE
