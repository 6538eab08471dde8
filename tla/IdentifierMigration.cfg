SPECIFICATION FairSpec
CONSTANTS
    People = {"ann", "bob"}
    Mailless = {"bob"}
    Registered = {"ann"}
    Workers = {x1, x2}
    Purgers = {"janitor"}
    MaxRuns = 3
    MaxCancel = 1
    MaxExpire = 1
    MaxCrash = 1
    MaxFail = 1
    MaxEdit = 2
INVARIANTS TypeOK OneGeneration ConflictsUntouched AvatarKept
PROPERTIES ConvertedUnlessPurged TrackerReleased
CHECK_DEADLOCK FALSE
CONSTRAINT TwoUpsets
