SPECIFICATION FreshFairSpec
CONSTANTS
    SourceIds = {1, 2}
    Persons = {"ann"}
    Titles = {"dev"}
    Offices = {1}
    Confs = {"c1"}
    Scheduler = "scheduler"
    Requests = {"r1"}
    MaxHR = 1
    MaxAdmin = 0
    MaxManual = 1
    MaxCrash = 0
PROPERTIES Converges
CHECK_DEADLOCK FALSE
