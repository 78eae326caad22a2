\* Two transactions, each handed to add_transaction up to three times: again before the pool
\* is cleared, between copy and clear, or after.
SPECIFICATION PoolSpec
CONSTANTS
    Tx = {x1, x2}
    PeersJoin = TRUE
    MaxCalls = 3
INVARIANTS
    PoolTypeOK
    PoolMatchesIds
    EveryAdditionAccounted
    CopyIsPrefix
CHECK_DEADLOCK FALSE
