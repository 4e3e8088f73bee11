SPECIFICATION ProgressSpec
CONSTANTS
    Parts <- AllParts
    Bundles <- Two
    Keys <- Two
    AgentClasses <- One
    TrustedServers <- One
    Levels <- Two
    PolicyRequests <- Two
    Nothing = Nothing
    Items <- Two
    Threshold = 2
    HeartbeatTTL = 3
    DeadManInterval = 1
    NoAge = NoAge
    Tasks <- Two
    KindOf <- OwnKind
    MaxRetriesOf <- SomeRetry
    Fallible <- Two
    Workers <- Two
    MaxDeaths = 2
    NoMessage = NoMessage
INVARIANTS
    ProgressTypeOK
    StaleOnlyByOverlap
PROPERTIES
    StaleDecisionsDie
    OverdueReported
    TaskSettles
CHECK_DEADLOCK FALSE
