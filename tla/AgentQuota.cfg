SPECIFICATION ServicesSpec
CONSTANTS
    Parts <- JustPipeline
    Packs <- TwoPacks
    Classes <- OneClass
    Caps <- OneCap
    PackRequests <- Two
    Identities <- Two
    IdentityNames <- Two
    HomeClasses <- One
    AgentTokens <- Three
    TokenRequests <- Two
    NoIdentity = NoIdentity
    Capability = capability
    CapName = name
    Aliases <- One
    RouteMappings <- Two
    RouteTools <- Two
    ToolOf <- OwnTool
    Mutating <- One
    Weights <- Numbers
    Digests <- Numbers
    Dimensions <- One
    Values <- Two
    Policies <- BothPolicies
    Calls <- One
    Absent = Absent
    Events <- Two
    Metrics <- Two
    WindowOf <- HourAndDay
    AlertRules <- One
    Alerts <- One
    Admins <- One
    MaxThreshold = 2
    Retention = 2
    AlertRequests <- One
    None = None
    Bound <- OneOwner
    DimensionRows <- OneDimension
    AllowedValues <- Two
    SetRequests <- Three
    AtFirst = AtFirst
    Clients <- OneClient
    Agents <- TwoAgents
    NoAgent = NoAgent
    Paths <- OnePath
    HealthPaths <- NoPath
    OpenPaths <- NoPath
    NamespaceOf <- OneNamespace
    MaxRequests = 4
    MaxInFlight = 2
    Limit <- TwentyAndHundred
    RateWindow = 3
    CleanEvery = 3
    Ticks = 4
INVARIANT OnlyTheBusyAgentIsBlocked
CHECK_DEADLOCK FALSE
