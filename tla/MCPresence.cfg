CONSTANTS
    h1 = h1
    h2 = h2
    h3 = h3
    p1 = p1
    p2 = p2
    None = None
    Missing = Missing
    Null = Null
    Handlers = {h1, h2, h3}
    Players = {p1, p2}
    MaxClient = 2
    Envs <- AllEnvs
SPECIFICATION Spec
INVARIANTS
    SlotOnce
    OwnHandler
    OnlineAgreed
    LoginPending
SYMMETRY Interchangeable
CHECK_DEADLOCK FALSE
