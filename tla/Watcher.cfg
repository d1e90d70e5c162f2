SPECIFICATION WatchSafe
CONSTANTS
    PER_EPOCH = 2
    TARGET_SPARKS = 1
    OPEN_PER_AUTHOR = 2
    PriceMin = 8
    FirstTarget = 8
    HashSpace = 64
    MaxEpoch = 3
    MaxBoots = 2
    OldEpochs = 1
    Handlers = {h1}
    FirstSparks <- MCFirstSparks
    Nonces = {1, 2, 3, 4}
    DiskFaults = FALSE
    Wishes <- MCWishes
    ActionOf <- MCActionOf
    AuthorOf <- MCOneAuthor
    CreatedOf <- MCCreatedOf
    ExpiresOf <- MCExpiresOf
    Ties <- MCOneTie
    Batches <- MCBatches
    ShareClosed <- MCMayClose
    Outcomes <- MCAll
    Doomed <- MCMayDoom
    Natures <- MCNatures
    ReplayPage = 1
    PROPOSALS_LIMIT = 2
    LateHeads = {3}
INVARIANTS LogNeverAccused AccusedForACause BooksAgree ProofsAreExact
CHECK_DEADLOCK TRUE
