SPECIFICATION Spec
CONSTANTS
    Calls = {c1, c2, c3}
    Sizes <- MCSizes
    QUEUE = 4
    CHECKERS = 2
    Disconnects = TRUE
INVARIANT CounterIsTheQueue
CHECK_DEADLOCK TRUE
