SPECIFICATION Spec
CONSTANTS
    c1 = c1
    c2 = c2
    c3 = c3
    c4 = c4
    p = p
    i = i
    j = j
    Call = {c1, c2, c3, c4}
    Sender <- MCSender
    Id <- MCId
    SEEN_EXPIRY_SECONDS = 2
    INBOUND_RATE_LIMIT = 1
    INBOUND_TIME_WINDOW = 2
    MaxTime = 3
    Never = Never
SYMMETRY Copies
INVARIANTS
    TypeOK
    HandledOnce
    LimitJustified
PROPERTIES
    CopyOfAccepted
CHECK_DEADLOCK FALSE
