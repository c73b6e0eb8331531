CONSTANTS
    None = None
    DayLength = 2
    Plan <- BasePlan
    NightHours = {}
    WeekendTimes = {}
    GridWindow = 2
    Events <- FundedEvents
    InitPhases = {"Phase2"}
    Quotes <- DayQuotes
    Fills <- DayCountFills
    Orders = {}
    Offsets <- NowOnly
    StaleThreshold = 1
    MaxTime = 4
    MaxCalls = 5
SPECIFICATION Spec
INVARIANT FundedNeverUpgrades
CHECK_DEADLOCK FALSE
