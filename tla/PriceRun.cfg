SPECIFICATION PriceRunSpec
CONSTANTS
    Requests = {q1, q2}
    Retailers = {1, 2}
    PortRank <- MCPortRank
    Conditions = {new, used}
    New = new
    Queries = {}
    NoQuery = NoQuery
    Locations = {}
    NoLocation = NoLocation
    ProductQuery = NoQuery
    RecRequests = {q1, q2}
    NoResult = NoResult
    NoEntry = NoEntry
    NoRow = NoRow
SYMMETRY RequestSymmetry
INVARIANTS
    BatchesDeadlockOverImage
    PartialNeverCanonical
PROPERTY NoVisibilityGap
