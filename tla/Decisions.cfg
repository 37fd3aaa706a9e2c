SPECIFICATION DecisionSpec
CONSTANTS
    DecisionScenes = {"setup", "structure", "verdict", "chart", "risk", "terms"}
    SetupContexts <- Contexts
    SetupReplies <- Answers
    Balance = 100
    RiskPercent = 2
    MaxLeverage = 10
    Candles <- BarShapes
    StartHours = {18}
    HourStep = 3
    MaxBars = 5
    MinBars = 4
    SwingPeriod = 1
    BlockLookback = 1
    RangeWindow = 4
    FlowWindow = 3
    BlockLimit = 2
    SweepLimit = 3
    CandleOrder <- Order
    VerdictContexts <- Situations
    TrendReadings <- Shows
    MaxDetections = 3
    ChartCandles <- Candles4
    MaxChart = 7
    MinChart = 5
    PeakOrder = 1
    TriangleOrder = 1
    FlagLookback = 6
    FlagTail = 2
    ChannelLookback = 7
    PatternLimit = 2
    Evaluators = {e1, e2}
    e1 = e1
    e2 = e2
    MaxOpens = 3
    MaxDays = 2
    MaxConcurrent = 3
    MaxDaily = 1
    RiskPlans = {{}, {"concurrent"}, {"crash"}, {"agent"}, {"agent", "crash"}}
    TermSetups <- Offers
    TermPrefs <- Personas
    ChannelFloors = {0, 25}
    Tolerance = 5
    TermPrices = {0, 993, 996, 1000, 1004, 1010}
    Cuts = {2, 4}
INVARIANTS
    DecisionsTypeOK
    SetupIsSafe
    BookedAsApproved

    
    
SYMMETRY EvaluatorSymmetry
CHECK_DEADLOCK FALSE
