CONSTANTS
    hall = hall
    mill = mill
    plot = plot
    civil = civil
    factory = factory
    NoBuild = NoBuild
    Sns = {hall, mill, plot}
    BuildKinds = {civil, factory}
    Hall = hall
    Union = mill
    StartKind <- Started
    StartLevel <- AtLevelOne
    Uncounted = {factory}
    Factories = {factory}
    BuildCost <- BuildCosts
    DiamondCost <- Gems
    BuildSeconds <- BuildTimes
    NumLimit <- NumOf
    LevelLimit <- Highest
    TimerTime = 1
    PriceUnit = 3
    Space = 1
    ArmKinds = {1}
    ArmTop = 1
    StartAsset = 1
    StartDiamonds = 1
    TopLevel = 2
    MaxStale = 1
    MaxAsset = 1
    StartBalance = 1
    p1 = p1
    p2 = p2
    None = None
    NoEquip = NoEquip
    Players = {p1, p2}
    Equips = {e1, e2}
    BackpackNum <- Sizes
    HeroSlots = {0}
    Prices = {1}
    PageSize = 1
    MaxMails = 2
    MaxDiamonds = 1
    Nameless = {p2}
    Nobody = Nobody
    HeroIds = {h1, h2, h3, h4}
    Positions = {1, 2}
    Offers = {1, 2}
    Jobs = {1, 2}
    RecruitCost = 1
    HeroDiamonds = 2
    NoHero = NoHero
    quick = quick
    slow = slow
    elite = elite
    Hole = Hole
    Camps = {1}
    Kinds = {quick, slow, elite}
    Refused = {elite}
    BuildTime <- Times
    Cost <- SoldierPrices
    Population <- Places
    PopLimit = 3
    RetryTime = 2
    Wood = 10
    Diamonds = 1
    Numbers = {2}
    Foreign <- Others
    Horizon = 3
    MaxRequests = 3
SPECIFICATION PlayerSpec
INVARIANTS
    KeptOnce
    
PROPERTIES
    CountAgrees
    SavedAtOnce
    OrdersProgress
    
    ConstructionsEnd
