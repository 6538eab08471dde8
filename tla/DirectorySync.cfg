SPECIFICATION KnownSpec
CONSTANTS
    SourceIds = {1, 2}
    Persons = {"ann"}
    Titles = {"dev"}
    Offices = {1}
    Confs = {"c1"}
    Scheduler = "scheduler"
    Requests = {"r1"}
    MaxHR = 1
    MaxAdmin = 1
    MaxManual = 1
    MaxCrash = 1
CONSTRAINT TwoUpsets
INVARIANTS TypeOK StaysPublished NeverAnnouncedAsNew
CHECK_DEADLOCK FALSE
