\* The chain and the orphans: three blocks of other nodes, so that an orphan can wait for
\* an orphan, and one of our own.
SPECIFICATION SafeSpec
CONSTANTS
    Remote = {r1, r2, r3}
    Own = {o1}
    Genesis = Genesis
    Unborn = Unborn
    Thread = {t1}
    Light = FALSE
    PeersJoin = TRUE
    MaxHeaders = 1
    MaxCopies = 2
INVARIANTS
    TypeOK
    UniqueBlocks
    ParentFirst
    NoBlockLost
    NoStuckOrphan
    OwnNeverOrphaned
SYMMETRY Symmetry
CHECK_DEADLOCK FALSE
