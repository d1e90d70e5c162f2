SPECIFICATION Spec
CONSTANTS
    NULL = NULL
    g1 = g1
    g2 = g2
    g3 = g3
    g4 = g4
    Plates = {1, 2}
    COMEBACK_WAS = 2
    COMEBACK_LOW = 1
    COMEBACK_BACK = 3
    CROSSING_MEMBERS = 2
    CROSSING_EPOCHS = 2
    GREAT = 2
    SPLIT_MEMBERS = 1
    HOUR = 2
    DAY = 2
    APART = 2
    HUNTER = 4
    ARMS_WINDOW_DAYS = 1
    ARMS_HUNTERS = 1
    ARMS_RACE_X10 = 2
    NAME_THRESHOLD = 2
    MULLER_EVERY = 2
    DOMINANT_EVERY = 2
    FRAMES_KEPT = 2
    PAGE = 3
    MaxSteps = 2
    MaxOrganisms = 6
    MaxBirths = 1
    MaxChanges <- MCMaxChanges
    MaxBoots = 2
    BridgesClose = {2, 5, 6}
    Hunting <- MCHunting
    Defense <- MCDefense
    Combo <- MCCombo
    NewGenomes <- MCNewGenomes
    FirstWorlds <- MCFirstWorlds
    Beginnings <- MCBeginnings
    ARCHIVE_EVERY = 2
    DIGEST_STORIES = 2
    GENERA = 3
    EPITHETS = 2
    ROUNDS = 60
    Lists <- MCLists
    Limits = {1, 2, 4}
INVARIANTS AnswersAgree RollbackUndoes ShowsTheWorld StoriesToldOnce NewsIsComplete
PROPERTY NamesStay
CHECK_DEADLOCK FALSE
