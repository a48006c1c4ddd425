CONSTANTS
    None = None
    u1 = u1
    u2 = u2
    a = a
    b = b
    Users <- MCUsers
    Names <- MCNames
    Types = {1, 3}
    MaxGroups = 2
    MaxFailures = 1
    NoPlayer = NoPlayer
    Players = {1, 2}
    Size = 3
    Block <- Land
    AreaOf <- Column
    Areas = {0, 1}
    SomePlayers = 1
    MaxRequests = 4
    NoRow = NoRow
    Tops = {1}
    Levels = {0, 2}
    Widths = {1, 3}
    PageSize = 2
    MaxRows = 3
    MinConnects = 2
    MaxConnects = 4
    Depth = 5
    MaxOpened = 6
    Nicks = {n1, n2}
    Spaced = Spaced
    BoyNames = {n1}
    GirlNames = {n2}
    NoNick = NoNick
    NoOne = NoOne
    Emails = {mail}
    Conns = {c1, c2}
    ChatSlots = 2
    MaxAccounts = 2
    MaxCalls = 4
    SoldierKinds = {foot, horse}
    GuardCamps = {north, south}
    Vacant = Vacant
    NoCamp = NoCamp
    Idle = Idle
    MaxSoldiers = 3
    MaxOrders = 5
SPECIFICATION StoredSpec
SYMMETRY Interchangeable
INVARIANTS
    RecordBacked
    LeadersAreMembers
    GroupHasMembers
    PlacesAgree
    WatchersAgree
    PagesComplete
    ConnectionsApart
    NamesAgree
    DefendersAgree
CHECK_DEADLOCK FALSE
