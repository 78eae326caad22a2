\* The header handler and the progress of orphans and of the miner: two blocks of other
\* nodes, one of our own, headers of two blocks at a time.  No symmetry: liveness.
SPECIFICATION Spec
CONSTANTS
    Remote = {r1, r2}
    Own = {o1}
    Genesis = Genesis
    Unborn = Unborn
    Thread = {t1}
    Light = FALSE
    PeersJoin = TRUE
    MaxHeaders = 2
    MaxCopies = 2
INVARIANTS
    HeaderParentFirst
    HeadersRequested
PROPERTIES
    OrphansFollow
    MinedBlocksStored
CHECK_DEADLOCK FALSE
