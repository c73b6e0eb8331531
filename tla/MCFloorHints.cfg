CONSTANTS
    None = None
    DayLength = 2
    Plan <- PctInitialPlan
    NightHours = {}
    WeekendTimes = {}
    GridWindow = 2
    Events <- HintEvents
    InitPhases = {"Phase1"}
    Quotes <- HintQuotes
    Fills = {}
    Orders = {}
    Offsets <- NowOnly
    StaleThreshold = 1
    MaxTime = 4
    MaxCalls = 4
SPECIFICATION HttpSpec
INVARIANTS HintsCoverBreach
CHECK_DEADLOCK FALSE
