SPECIFICATION MapsSpec
CONSTANTS
    Names = {"a"}
    Desks = {"d1"}
    Users = {"ann"}
    Asked <- AskedForA
    Zones = {"east", "west"}
    DefaultZone = "east"
    LastDay = 2
    Requests = {r1}
    MaxRequests = 2
    MaxRename = 0
    MaxDelete = 0
    MaxEdit = 0
    MaxArchive = 2
PROPERTIES AddingKeepsOthers
CHECK_DEADLOCK FALSE
