SPECIFICATION ServicesSpec
CONSTANTS
    Parts <- JustRouting
    Packs <- TwoPacks
    Classes <- OneClass
    Caps <- OneCap
    PackRequests <- Two
    Identities <- Two
    IdentityNames <- Two
    HomeClasses <- One
    AgentTokens <- Three
    TokenRequests <- Two
    NoIdentity = NoIdentity
    Capability = capability
    CapName = name
    Aliases <- One
    RouteMappings <- Two
    RouteTools <- Two
    ToolOf <- OwnTool
    Mutating <- One
    Weights <- Numbers
    Digests <- Numbers
    Dimensions <- One
    Values <- Two
    Policies <- TheRepositorysPolicy
    Calls <- One
    Absent = Absent
    Events <- Two
    Metrics <- Two
    WindowOf <- HourAndDay
    AlertRules <- One
    Alerts <- One
    Admins <- One
    MaxThreshold = 2
    Retention = 2
    AlertRequests <- One
    None = None
    Bound <- OneOwner
    DimensionRows <- OneDimension
    AllowedValues <- Two
    SetRequests <- Three
    AtFirst = AtFirst
    Clients <- OneClient
    Agents <- OneAgent
    NoAgent = NoAgent
    Paths <- OnePath
    HealthPaths <- NoPath
    OpenPaths <- NoPath
    NamespaceOf <- OneNamespace
    MaxRequests = 4
    MaxInFlight = 2
    Limit <- TwentyAndHundred
    RateWindow = 2
    CleanEvery = 1
    Ticks = 3
INVARIANT ReadOnlyNeverMutates
CHECK_DEADLOCK FALSE
