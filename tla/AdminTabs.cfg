SPECIFICATION TabsSpec
CONSTANTS
    Kinds <- AllKinds
    MaxTimers = 2
    MaxRuns = 1
INVARIANTS
    TabsInStep
PROPERTIES
    DashboardCatchesUp
    PollsEnd
