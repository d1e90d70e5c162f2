SPECIFICATION Safe
CONSTANTS
    PER_EPOCH = 2
    TARGET_SPARKS = 1
    OPEN_PER_AUTHOR = 1
    PriceMin = 8
    FirstTarget = 8
    HashSpace = 64
    MaxEpoch = 1
    MaxBoots = 1
    OldEpochs = 0
    Handlers = {h1, h2}
    FirstSparks <- MCFirstSparks
    Nonces = {1, 2, 3, 4}
    DiskFaults = TRUE
    Wishes <- MCWishes
    ActionOf <- MCActionOf
    AuthorOf <- MCOneAuthor
    CreatedOf <- MCCreatedOf
    ExpiresOf <- MCExpiresOf
    Ties <- MCOneTie
    Batches <- MCBatches
    ShareClosed <- MCMayClose
    Outcomes <- MCApplied
    Doomed <- MCNeverDoomed
SYMMETRY HandlerSymmetry
INVARIANTS SparksInTheirWindow NoDuplicateSparks OpenPerAuthor WorkCountedOnce
CHECK_DEADLOCK TRUE
