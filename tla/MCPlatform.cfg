SPECIFICATION MCSpec
CONSTANTS
    People = {ann, bob, eve}
    Founder = ann
    Outside = {eve}
    ApiRequests = {r1, r2}
    Mine = Mine
    Other = Other
    NoRow = NoRow
    Requests <- MCRequests
    Result <- MCResult
    PartLists <- MCPartLists
    Catalogue <- MCCatalogue
    KerfWidth = 3
    None = None
    Handlers = {h1, h2, h3, h4}
    Wild = {h4}
    Late = {h1, h4}
    Priority <- MCPriority
    Events = {e3}
    MaxAttempts = 2
    DlqCapacity = 1
    MaxLeaving = 1
    Runs = {r1, r2}
    Order <- MCOrder
    DependsOn <- MCDependsOn
    ConfigOf <- MCConfigOf
    StoreCapacity = 3
    N = 3
    Limits = {1, 2}
    Nodes = {1, 2, 3}
    Ids = {}
    Derived = {2, 3}
    MaxApplied = 1
    MaxInt = 16383
    RateScale = 10
    SetupTime = 2
    FinishTime = 3
    Hour = 6
    RatedMaterials <- MCMaterials
    Density <- MCDensity
    CutTime <- MCCutTime
    DefaultRates <- MCDefault
    Forms <- MCForms
    Packages <- MCPackages
    ItemProjects <- MCProjects
SYMMETRY Symmetry
CHECK_DEADLOCK FALSE
INVARIANTS
    ApiTellsTheTruth
    BordersHold
    NoEventForgotten
    HistoryIsTrue
    WorkIsBounded
    RebuildRepairs
    AdviceHolds
    OptimumIsFound
    PlanCanBeCut
    PlanIsEconomical
    PriceIsRight
