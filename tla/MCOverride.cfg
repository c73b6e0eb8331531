CONSTANTS
    None = None
    DayLength = 2
    Plan <- BasePlan
    NightHours = {}
    WeekendTimes = {}
    GridWindow = 2
    Events <- StopEvents
    InitPhases = {"Phase1"}
    Quotes <- BreachQuotes
    Fills = {}
    Orders = {}
    Offsets <- NowOnly
    StaleThreshold = 1
    MaxTime = 1
    MaxCalls = 5
SPECIFICATION Spec
PROPERTY OverrideClears
CHECK_DEADLOCK FALSE
