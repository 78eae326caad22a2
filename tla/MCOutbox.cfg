SPECIFICATION Spec
CONSTANTS
    a = a
    b = b
    m1 = m1
    m2 = m2
    m3 = m3
    m4 = m4
    Msg = {m1, m2, m3, m4}
    Target = {a, b}
    To <- MCTo
    TypeOf <- MCTypeOf
    QueueLimit = 2
    MaxRetries = 3
    PeersJoin = TRUE
    NoMsg = NoMsg
INVARIANTS
    TypeOK
    QueueBounded
    Conservation
    BoundedBypass
PROPERTIES
    ImplementsPromise
    
CHECK_DEADLOCK FALSE
