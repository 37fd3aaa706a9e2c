SPECIFICATION FairSpec
CONSTANTS
    MaxTrades = 2
    Levels = {1, 2}
    Size = 2
    Targets = 1
    TakeSize <- MCTakeSize
    Dust = 0
    MaxDeaths = 1
    DeskPlans = {{"overlap", "monitor_exit", "monitor_dies"}, {"overlap", "opposite", "no_margin", "cancel_target"}}

    
PROPERTIES
    OverdueCloses
CHECK_DEADLOCK FALSE
