SPECIFICATION RelaySpec
CONSTANTS
    d = d
    g = g
    p = p
    q = q
    NoLan = NoLan
    Node = {d, g, p, q}
    NATed = {d}
    Lan <- MCLan
    Listed <- MCListed
    MaxTTL = 3
    Latency <- MCLatency
    MaxSent = 1
    Rounds <- MCRounds
INVARIANTS
    RelayTypeOK
    RelaysLead
    RelayKnowsTarget
PROPERTIES
    FloodEnds
CHECK_DEADLOCK FALSE
