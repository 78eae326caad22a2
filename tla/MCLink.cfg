SPECIFICATION Spec
CONSTANTS
    c1 = c1
    c2 = c2
    c3 = c3
    Call = {c1, c2, c3}
    RATE_LIMIT = 2
    TIME_WINDOW = 2
    Capacities = {1, 2}
    SEND_RATE_LIMIT = 1
    MaxCapacity = 2
    Unit = 2
    drop_threshold = 2
    MaxTime = 2
    Never = Never
SYMMETRY Calls
INVARIANTS
    TypeOK
    BurstBounded
    RefusalJustified
CHECK_DEADLOCK FALSE
