CONSTANTS
    None = None
    DayLength = 2
    Plan <- BasePlan
    NightHours = {}
    WeekendTimes = {}
    GridWindow = 2
    Events <- DayCountEvents
    InitPhases = {"Phase1"}
    Quotes <- DayQuotes
    Fills <- DayCountFills
    Orders = {}
    Offsets <- NowOnly
    StaleThreshold = 1
    MaxTime = 4
    MaxCalls = 5
SPECIFICATION Spec
INVARIANT EveryTradingDayCounts
CHECK_DEADLOCK FALSE
