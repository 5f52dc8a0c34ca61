SPECIFICATION ServicesSpec
CONSTANTS
    Missing = Missing
    Requests = {a, b}
    Shoppers = {a, b}
    Queries = {"name", "override"}
    ByName = "name"
    Found <- MCFound
    Known = {"amazon", "ebay"}
    MaxRows = 1
    Standby = FALSE
    Nothing = Missing
    Window = 4
    Lag = 1
    BaseLimit = 1
    ProMultiplier = 2
    Exempt = FALSE
    MaxClock = 6
    Products = {"product"}
    Stray = {"missing"}
    Workers = {"worker"}
    Bounded = {TRUE, FALSE}
    MaxMessages = 3
    MaxReceive = 2
    Batch = 2
    Sessions = {a, b}
    Cards = {1, 2}
    Program <- MCProgramOf
    Tags <- MCTags
    Listings <- MCListings
    Discounts <- MCDiscounts
    PortalBonuses <- MCBonuses
    Calls = {a, b}
    Nobody = Missing
    Asked <- MCRoutes
    Configured <- MCRoutes
    Attempts <- MCAttempts
    Lifetime = 3
    Buffer = 1
    Interval = 2
    MaxTokens = 2
    MaxNow = 3
    MaxScripts = 1
    Resolves = {a, b}
    Upcs = {"upc1", "upc2"}
    MatchingUpcs = {"upc1"}
    Provisional = TRUE
    None = Missing
    Retailers = {"amazon"}
    Names = {1, 2, 3}
    Traits <- MCTraits
    Family <- MCFamily
    DbReplies <- MCDbReplies
    BestBuyReplies <- MCBestBuyReplies
    SecondLegReplies <- MCSecondLegReplies
    GeminiReplies <- MCGeminiReplies
    BrandOnly = FALSE
    MaxResults = 2
    MaxSweeps = 1
    NoAnswer = Missing
    Shops = {"amazon", "fb_marketplace", "walmart"}
    Product <- MCProduct
    Titles <- MCTitles
    OnSale <- MCOnSale
    MaxListings = 5
    NoPick = Missing
    Watchdogs = {a, b}
    Degraded = 2
    MaxHeals = 1
    Retries = 1
    MaxFailures = 2
    MaxCalls = 3
    NoHealth = Missing
    Portals = {1, 2}
    Stores = {"amazon"}
    Rates = {2, 4}
    Was = {0}
    Slugs <- MCSlugs
    Referrals = {2}
    Enabled = {TRUE, FALSE}
    AlertThreshold = 1
    Throttle = 3
    Staleness = 1
    MaxCtas = 1
    LastTick = 3
    NoBonus = Missing
    NeverSent = Missing
    Programs <- MCPrograms
    Prices <- MCPrices
    Viewed <- MCViewed
    SoldBrand <- MCSoldBrand
    FailureThreshold = 2
    MaxChecks = 3
SYMMETRY Symmetry
CHECK_DEADLOCK FALSE
INVARIANTS ServicesTypeOK WindowBounded AlertsThrottled
    OffersAreCurrent HealBudget DeactivatedForCause BestOfferPerScope AtMostOnePreferred PortalsNeverCost
    TopOfItsOwnSearch OneCanonicalRow TrustedSourceWins
PROPERTIES ImplementsRetryQueue TokensUsable WalmartPaced CheaperNeverDearer
