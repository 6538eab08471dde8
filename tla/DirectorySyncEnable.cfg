SPECIFICATION KnownSpec
CONSTANTS
    SourceIds = {1, 2}
    Persons = {"ann"}
    Titles = {"dev"}
    Offices = {1}
    Confs = {"c1"}
    Scheduler = "scheduler"
    Requests = {"r1"}
    MaxHR = 0
    MaxAdmin = 1
    MaxManual = 0
    MaxCrash = 0
PROPERTIES OnlyAdminEnables
CHECK_DEADLOCK FALSE
