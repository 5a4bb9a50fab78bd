SPECIFICATION PricingSpec
CONSTANTS
    Chunks = 4
    Permits = 1
    Attempts = 1
    Threshold = 2
    Batched = FALSE
PROPERTIES
    OpenFailsFast
CHECK_DEADLOCK FALSE
