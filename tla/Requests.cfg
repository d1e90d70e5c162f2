SPECIFICATION RequestsSpec
CONSTANTS
    Calls = {c1, c2}
    Sizes <- MCSizes
    QUEUE = 3
    CHECKERS = 1
    Disconnects = TRUE
    SECOND = 1
    EPOCH_SECONDS = 6
    PERIOD = 2
    DELAY = 2
    SizeOf <- MCSizeOf
    RefillOf <- MCRefillOf
    MAX_BUCKETS = 2
    IDLE = 2
    BAN = 2
    AddressOf <- MCAddressOf
    SubnetOf <- MCSubnetOf
    GRACE = 2
    REFRESH = 0
    FLUSH = 1
    NETWORK = 1
    HANDLE = 0
    MaxBatch = 2
    MinTime = 4
    MaxTime = 11
    MaxFaults = 1
    MAX_LIFETIME = 2
    MAX_PARAMS = 2
    GIFT_KINDS = 2
    Tried <- MCTried
    Values = {0, 1, 2, 3, 6, 7, 10, 11}
INVARIANTS QueueIsBounded GuardIsFair WishFormsHold BeaconIsFuture
PROPERTY CallsAreAnswered
CHECK_DEADLOCK FALSE
