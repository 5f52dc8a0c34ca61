CONSTANTS
    Handlers = {h1}
    Readers = {}
    Types = {"INITIAL_PURCHASE"}
    Expiries = {1}
    MaxEvents = 1
    MaxTime = 1
    CacheTTL = 1
    Never = Never
    NoUser = NoUser
    NoTier = NoTier
SPECIFICATION Spec
CHECK_DEADLOCK FALSE
INVARIANT AckedMeansApplied
