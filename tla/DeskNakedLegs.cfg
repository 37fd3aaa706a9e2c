SPECIFICATION Spec
CONSTANTS
    MaxTrades = 2
    Levels = {1, 2, 3, 4}
    Size = 2
    Targets = 2
    TakeSize <- MCTakeSize
    Dust = 0
    MaxDeaths = 0
    DeskPlans = {{"no_margin"}}
PROPERTIES
    NoPhantomFill
CHECK_DEADLOCK FALSE
