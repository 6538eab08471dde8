SPECIFICATION BackgroundSpec
CONSTANTS
    Names = {"a", "b"}
    Desks = {"d1"}
    Users = {"ann"}
    Asked <- AskedForAny
    Zones = {"east", "west"}
    DefaultZone = "east"
    LastDay = 2
    Requests = {r1}
    MaxRequests = 1
    MaxRename = 0
    MaxDelete = 1
    MaxEdit = 1
    MaxArchive = 2
    m1 = m1
    m2 = m2
    NoMap = NoMap
    Maps <- ListedMaps
    Listed <- ListedMaps
    MaxAsks = 1
    MaxTimers = 1
    MaxPicks = 0
    MaxStatus = 1
    MaxVersion = 2
PROPERTIES
    PastRemoved
    AvailabilityCatchesUp
    UpdateReachesClient
CHECK_DEADLOCK FALSE
