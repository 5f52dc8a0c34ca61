SPECIFICATION RefinesSpec
CONSTANTS
    Requests = {q1, q2}
    RecRequests = {q1}
    Retailers = {1}
    PortRank <- MCPortRank
    Conditions = {new}
    New = new
    Queries = {}
    NoQuery = NoQuery
    Locations = {}
    NoLocation = NoLocation
    ProductQuery = NoQuery
    NoResult = NoResult
    NoEntry = NoEntry
    NoRow = NoRow
    Wallets = {none, visa}
    NoWallet = NoWallet
    NoRec = NoRec
    MinRetailers = 1
PROPERTY ImplementsPrices
