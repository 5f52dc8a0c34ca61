SPECIFICATION StreamedSpec
CONSTANTS
    Requests = {q1, q2}
    RecRequests = {q1}
    Retailers = {1, 2}
    PortRank <- MCPortRank
    Conditions = {new}
    New = new
    Queries = {phone}
    NoQuery = NoQuery
    Locations = {}
    NoLocation = NoLocation
    ProductQuery = NoQuery
    NoResult = NoResult
    NoEntry = NoEntry
    NoRow = NoRow
    Wallets = {none}
    NoWallet = NoWallet
    NoRec = NoRec
    MinRetailers = 1
INVARIANT
    RecFromWholePrices
