CONSTANTS
    None = None
    DayLength = 2
    Plan <- LossPlan
    NightHours = {}
    WeekendTimes = {}
    GridWindow = 2
    Events <- LossEvents
    InitPhases = {"Phase1"}
    Quotes = {}
    Fills <- LossFills
    Orders = {}
    Offsets <- NowOnly
    StaleThreshold = 1
    MaxTime = 1
    MaxCalls = 4
SPECIFICATION Spec
PROPERTY LossLimitIsEnforced
CHECK_DEADLOCK FALSE
