SPECIFICATION Safe
CONSTANTS
    PER_EPOCH = 2
    TARGET_SPARKS = 1
    OPEN_PER_AUTHOR = 2
    PriceMin = 8
    FirstTarget = 8
    HashSpace = 64
    MaxEpoch = 1
    MaxBoots = 2
    OldEpochs = 0
    Handlers = {h1}
    FirstSparks <- MCFirstSparks
    Nonces = {1, 2, 3, 4}
    DiskFaults = TRUE
    Wishes <- MCWishes
    ActionOf <- MCActionOf
    AuthorOf <- MCOneAuthor
    CreatedOf <- MCCreatedOf
    ExpiresOf <- MCExpiresOf
    Ties <- MCOneTie
    Batches <- MCBatches
    ShareClosed <- MCNeverClosed
    Outcomes <- MCApplied
    Doomed <- MCNeverDoomed
INVARIANT LeavesAreTheLog
CHECK_DEADLOCK TRUE
