SPECIFICATION Spec
CONSTANTS
    PER_EPOCH = 2
    TARGET_SPARKS = 2
    HashSpace = 64
    PriceMin = 8
    QuietFrom = 2
    Wishes <- MCWishes
    ActionOf <- MCActionOf
    Arrivals <- MCArrivals
    Ties <- MCTies
    Half = 4
    RawBytes = 2
    Far = 8
    Sparks0 <- MCSparks0
INVARIANTS SelectionIsTheFairChoice PackedLogsHold
PROPERTY QueueDrains

CHECK_DEADLOCK TRUE
