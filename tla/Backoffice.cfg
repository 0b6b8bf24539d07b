SPECIFICATION Spec
CONSTANTS
    BaseDelay = 3
    MaxDelay = 30
    MaxWrites = 2
    MaxRotations = 2
    Accounts <- MCAccounts
    MaxSites = 3
    MaxLoads = 2
    Windows <- MCTwo
    Markers <- MCTwo
    MaxSaves = 2
    Folders <- MCTwo
    Filters <- MCFilters
    MaxQueries = 2
    Cams <- MCTwo
    MaxPoints = 4
    MaxZones = 2
    Findings <- MCTwo
    Tickets <- MCTickets
    Jobs <- MCTwo
CHECK_DEADLOCK FALSE
INVARIANTS  OneActivity
PROPERTIES ImplementsLink  PagesRecover
