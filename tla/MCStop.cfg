CONSTANTS
    None = None
    DayLength = 2
    Plan <- BasePlan
    NightHours = {}
    WeekendTimes = {}
    GridWindow = 2
    Events <- StopEvents
    InitPhases = {"Phase1"}
    Quotes <- BreachQuotes
    Fills <- StopFills
    Orders = {}
    Offsets <- NowOnly
    StaleThreshold = 1
    MaxTime = 1
    MaxCalls = 4
SPECIFICATION Spec
PROPERTY StopForcesEmergency
CHECK_DEADLOCK FALSE
