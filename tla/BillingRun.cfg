CONSTANTS
    Handlers = {h1, h2}
    Readers = {r1}
    Types = {"INITIAL_PURCHASE", "EXPIRATION"}
    Expiries = {1}
    MaxEvents = 2
    MaxTime = 2
    CacheTTL = 2
    Never = Never
    NoUser = NoUser
    NoTier = NoTier
SPECIFICATION Spec
CHECK_DEADLOCK FALSE
SYMMETRY Symmetry
INVARIANTS TierFresh RowIsLatest
PROPERTY AppliedOnce
