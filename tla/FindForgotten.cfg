SPECIFICATION Spec
CONSTANTS
    Requests = {q1, q2}
    Cities = {austin}
    Ids = {id}
    Permits = 1
    Unresolved = Unresolved
    Throttled = Throttled
    Nothing = Nothing
PROPERTY IdsAreKept
