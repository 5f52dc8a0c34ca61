SPECIFICATION Spec
CONSTANTS
    Requests = {q1, q2}
    Retailers = {1, 2}
    PortRank <- MCPortRank
    Conditions = {new}
    New = new
    Queries = {}
    NoQuery = NoQuery
    Locations = {}
    NoLocation = NoLocation
    ProductQuery = NoQuery
    RecRequests = {}
    NoResult = NoResult
    NoEntry = NoEntry
    NoRow = NoRow
PROPERTY NoParallelDispatch
