SPECIFICATION Spec
CONSTANTS
    Requests = {q1, q2}
    Retailers = {1}
    PortRank <- MCPortRank
    Conditions = {new}
    New = new
    Queries = {phone}
    NoQuery = NoQuery
    Locations = {}
    NoLocation = NoLocation
    ProductQuery = NoQuery
    RecRequests = {}
    NoResult = NoResult
    NoEntry = NoEntry
    NoRow = NoRow
INVARIANT NamespacesDisjoint
