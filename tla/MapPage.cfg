SPECIFICATION BothFairSpec
CONSTANTS
    Dates <- TwoDates
    Today = "today"
    Users <- TwoUsers
    Me = "me"
    Statuses <- TwoStatuses
    MaxAsks = 1
    MaxChanges = 1
    Desks <- ThreeDesks
    Unlisted <- FreeBooking
    Texts <- TwoTexts
    Hits <- Found
CONSTRAINT OneMissing
INVARIANTS
    PageInStep
    MarksInStep
PROPERTIES
    PlateStays
    PageCatchesUp
