SPECIFICATION RegistrySpec
CONSTANTS
    NoRow = NoRow
    NoKey = NoKey
    NoCursor = NoCursor
    Servers <- Two
    Endpoints <- Two
    Tools <- One
    Offers <- SameOffer
    Capabilities <- Two
    Mappings <- Two
    RegistryRequests <- Two
    Statuses <- ThreeStatuses
    Unknown = "unknown"
    Updates <- Two
    HealthTTL = 2
    Rows <- FourRows
    PerPage = 1
    MaxClock = 2
INVARIANTS
    RegistryTypeOK
    EndpointsDistinct
    WalkIsComplete
PROPERTIES
    
    DecommissionEnds
    HealthConverges
CHECK_DEADLOCK FALSE
