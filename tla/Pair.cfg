SPECIFICATION Spec
CONSTANTS
    Venue = {"paradex", "extended", "hyperliquid"}
    Size = 2
    Attempts = 2
    MarketFallback = TRUE
    MaxSteps = 1
    MaxCalls = 1
INVARIANTS
    TypeOK
    SecondLegAfterFilledFirst
    OneOrderPerLegMayFill
    LearnedNoActionMeansFlat
    HedgedMeansBothFilled
CHECK_DEADLOCK FALSE
