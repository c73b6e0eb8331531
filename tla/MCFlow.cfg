CONSTANTS
    None = None
    DayLength = 2
    Plan <- FlowPlan
    NightHours = {1}
    WeekendTimes = {2}
    GridWindow = 2
    Events <- FlowEvents
    InitPhases = {"Phase2", "Funded"}
    Quotes <- FlowQuotes
    Fills <- FlowFills
    Orders <- FlowOrders
    Offsets <- NowOnly
    StaleThreshold = 1
    MaxTime = 2
    MaxCalls = 5
    MaxWorking = 2
SPECIFICATION FlowSpec
INVARIANTS ProfitPaidOnce ReplayKeepsLedger CapExceededOnlyInFlight
PROPERTY ImplementsLifecycle
VIEW FlowView
CHECK_DEADLOCK FALSE
