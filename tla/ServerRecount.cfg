SPECIFICATION Safe
CONSTANTS
    PER_EPOCH = 2
    TARGET_SPARKS = 1
    OPEN_PER_AUTHOR = 2
    PriceMin = 8
    FirstTarget = 8
    HashSpace = 64
    MaxEpoch = 2
    MaxBoots = 2
    OldEpochs = 0
    Handlers = {h1}
    FirstSparks <- MCFewFirst
    Nonces = {1, 2, 3, 4}
    DiskFaults = FALSE
    Wishes <- MCWishes
    ActionOf <- MCActionOf
    AuthorOf <- MCOneAuthor
    CreatedOf <- MCCreatedOf
    ExpiresOf <- MCExpiresOf
    Ties <- MCOneTie
    Batches <- MCBatches
    ShareClosed <- MCNeverClosed
    Outcomes <- MCApplied
    Doomed <- MCNeverDoomed
INVARIANT WorkCountedOnce
CHECK_DEADLOCK TRUE
