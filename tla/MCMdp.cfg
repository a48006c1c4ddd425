CONSTANTS
    w1 = w1
    c1 = c1
    world = world
    mmi = mmi
    NoService = NoService
    Freed = Freed
    NoClient = NoClient
    Clients = {c1}
    Workers = {w1}
    Names = {world}
    Reserved = {mmi}
    MmiService = mmi
    Offers <- OneWorker
    Asked = {world}
    MaxRequests = 3
    MaxRestarts = 1
    MaxUnread = 1
    MaxWorkerRestarts = 1
SPECIFICATION MdpFairSpec
INVARIANTS
    AtMostOnce
    PointersValid
PROPERTY WorkersReturn
CHECK_DEADLOCK FALSE
