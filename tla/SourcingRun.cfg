SPECIFICATION SourcingSpec
CONSTANTS
    Missing = Missing
    NoAnswer = NoAnswer
    Prices = {0, 899, 935, 999, 1000, 2650, 20001}
    Costs = {100, 400, 1500}
    Parcels <- MCParcels
    Volumes = {0, 1, 3, 40, 41, 100, 251, 1001}
    HighValue = 20000
    Nets = {150, 350}
    Rois = {1800, 3000}
    Shares <- MCShares
    Sellers <- MCSellers
    OrderUnits <- MCOrderUnits
    ThresholdSets <- MCThresholdSets
    RowKinds <- MCRowKinds
    ListLength = 3
    Blank = Blank
    Lists = {"list"}
    Rows = {1, 2}
    Channels = {"ebay"}
    Crunches = {c1, c2}
    ListOf <- MCListOf
    GtinOf <- MCGtinOf
    Thresholds = {"strict", "loose"}
    Width = 1
    NoGtin = Missing
    NoMatch = NoMatch
    NoTh = NoTh
    MaxDay = 3
    MaxStock = 3
    Levels = {100, 400}
    MinDepletionDays = 2
    MinVelocityDays = 2
    MaxVelocityDays = 2
    MinSamples = 2
    PurchaseOrders = {"po"}
    Amounts <- MCAmounts
    Quantities <- MCQuantities
    MaxRows = 2
    MaxLines = 1
    Inventory = "__inventory__"
    NoPO = Missing
    MaxColumns = 3
    MaxDataRows = 1
    KeptRows = 1
    CellCosts = {1200, 100}
CHECK_DEADLOCK FALSE
INVARIANTS AnswersAgree LooserNeverWorse RankingKeepsVerdicts
    DepletionCountsOnce ForecastsJudgedFairly ScoresShareThresholds NoFeeLost
    NeverSilentlyAnother UnitCostIsAUnitCost
