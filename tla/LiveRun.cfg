SPECIFICATION LiveSpec
CONSTANTS
    Requests = {q1, q2}
    Cities = {austin}
    Ids = {id}
    Permits = 1
    Unresolved = Unresolved
    Throttled = Throttled
    Nothing = Nothing
    Retailers = {1, 2}
    PortRank <- MCPortRank
    Conditions = {new}
    New = new
    NoQuery = NoQuery
    NoLocation = NoLocation
    RecRequests = {}
    NoResult = NoResult
    NoEntry = NoEntry
    NoRow = NoRow
INVARIANTS OneWinner NoLostWakeup
PROPERTIES EveryCallReturns EveryRequestEnds
