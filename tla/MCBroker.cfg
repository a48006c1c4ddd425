CONSTANTS
    w1 = w1
    w2 = w2
    c1 = c1
    world = world
    logic = logic
    mmi = mmi
    Clients = {c1}
    Workers = {w1, w2}
    Names = {world, mmi}
    Reserved = {mmi}
    MmiService = mmi
    Offers <- OffersAll
    Asked = {world, mmi}
    NoService = NoService
    Freed = Freed
    MaxRequests = 2
    MaxRestarts = 1
SPECIFICATION Spec
INVARIANTS
    WorkConserving
    InOrder
PROPERTY Promised
CHECK_DEADLOCK FALSE
