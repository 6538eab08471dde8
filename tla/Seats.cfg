SPECIFICATION SeatsSpec
CONSTANTS
    Refs = {"ldap", "entra", "robin"}
    Numbers = {"a1", "a2"}
    Persons <- People
    MaxShared = 2
    SourceLists <- ThreeSources
    DeskLists <- TrimmedDesks
    Mirrors <- SmallMirrors
    AlignDesks <- FourDesks
    Grid <- Points
INVARIANTS
    SeatsTypeOK
    DecidedRight
    SeatRules
PROPERTIES
    OrderKept
    OthersStay
CHECK_DEADLOCK FALSE
