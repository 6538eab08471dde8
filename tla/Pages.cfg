SPECIFICATION PagesSpec
CONSTANTS
    m1 = m1
    m2 = m2
    m3 = m3
    NoMap = NoMap
    Maps <- AllMaps
    Listed <- ListedMaps
    MaxAsks = 1
    MaxTimers = 2
    MaxPicks = 1
    MaxStatus = 0
    Views <- TabViews
    MaxHistory = 5
    MaxPending = 2
    room = room
    Sections <- TwoSections
    Perms <- AllPerms
    Queries <- TwoQueries
    RoomMaps <- OneRoomMap
    Hits <- MatchingMaps
    MaxPaneAsks = 1
    MaxVersion = 3
    LdapIds <- OneLdap
    EntraIds <- OneEntra
    NewIds <- OneNew
    StartTabs <- OneEach
    MaxCalls = 2
    MaxGens = 1
    MaxPages = 1
    Entries <- ThreeEntries
    Filters <- TwoTexts
    NoFilter = ""
    Matches <- Passing
    PageSize = 2
    View = 1
    MaxLate = 1
INVARIANTS
    MapInStep
    SelectorInStep
    NoticesAreAwaited
    StoresFollowWorkers
    CardsInStep
    ListIsExcerpt
    PagesFollow
PROPERTIES
    TypedIsKept
    KeepsPromise
CHECK_DEADLOCK FALSE
SYMMETRY MapSymmetry
