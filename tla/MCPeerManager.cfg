SPECIFICATION Spec
CONSTANTS
    p1 = p1
    h1 = h1
    h2 = h2
    Peer = {p1}
    Handler = {h1, h2}
    MaxOffenses = 3
    MaxSamples = 2
    Timeout = 1
    MaxTime = 3
    MaxMessages = 4
    Absent = Absent
INVARIANTS
    TypeOK
    BlacklistJustified
    LimitEnforced
    CountedAlone
PROPERTIES
    NothingRevived
    StatusCatchesUp
CHECK_DEADLOCK FALSE
