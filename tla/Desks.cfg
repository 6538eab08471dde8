SPECIFICATION DesksSpec
CONSTANTS
    Names = {"a", "b"}
    Desks = {"d1"}
    Users = {"ann","bob"}
    Asked <- AskedForA
    Zones = {"east", "west"}
    DefaultZone = "east"
    LastDay = 2
    Requests = {r1, r2}
    MaxRequests = 3
    MaxRename = 1
    MaxDelete = 0
    MaxEdit = 0
    MaxArchive = 0
    ItemIds = {i1, i2}
    Numbers <- TwoNumbers
    Whitelist <- OneExempt
    SizeOf <- OneCustom
INVARIANTS
    TypeOK
    DoubleBookedOnlyByOverlap
    LooksAgree
PROPERTIES
    TableKept
SYMMETRY DesksSymmetry
CHECK_DEADLOCK FALSE
ACTION_CONSTRAINT NoListing
