SPECIFICATION Spec
CONSTANTS
    a = a
    b = b
    c = c
    b1 = b1
    b2 = b2
    Node = {a, b, c}
    Light = {c}
    Known <- MCKnown
    Fanout <- MCFanout
    Block = {b1, b2}
    Creator <- MCCreator
    Genesis = Genesis
    Unborn = Unborn
    Starting = {a, b}
    Rounds <- MCRounds
PROPERTIES
    AllHeldSent
CHECK_DEADLOCK FALSE
