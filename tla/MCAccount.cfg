CONSTANTS
    None = None
    DayLength = 2
    Plan <- HttpPlan
    NightHours = {}
    WeekendTimes = {}
    GridWindow = 2
    Events <- PipelineEvent
    InitPhases = {"Phase2"}
    Quotes <- HttpQuotes
    Fills <- BreachFills
    Orders <- HttpOrders
    Offsets <- StaleNowEarly
    StaleThreshold = 1
    MaxTime = 3
    MaxCalls = 4
SPECIFICATION HttpSpec
INVARIANTS TypeOK NoDayCountedTwice BestDayWithinSum PeakBalanceIsPeak HintsCoverBreach
PROPERTIES BreachIsSticky LiquidationNeedsFreshTick SkippedIsUntouched 
VIEW AccountView
CHECK_DEADLOCK FALSE
