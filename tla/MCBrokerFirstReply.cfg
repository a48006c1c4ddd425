CONSTANTS
    w1 = w1
    w2 = w2
    c1 = c1
    world = world
    logic = logic
    mmi = mmi
    Clients = {c1}
    Workers = {w1, w2}
    Names = {world, logic}
    Reserved = {mmi}
    MmiService = mmi
    Offers <- OffersDeployed
    Asked = {world, logic}
    NoService = NoService
    Freed = Freed
    MaxRequests = 3
    MaxRestarts = 1
SPECIFICATION Spec
INVARIANT NoNullService
CHECK_DEADLOCK FALSE
