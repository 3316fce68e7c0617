SPECIFICATION FairSpec
CONSTANTS
    User = {ana, bob}
    Password = {p1}
    Request = {r1, r2}
    ResetToken = {}
    MaxSecond = 1
    RefreshTTL = 1
    Leeway = 1
    ResetTTL = 1
    None = None
INVARIANTS TypeOK OneBootstrapAdmin
PROPERTIES StoreSpec EveryRequestEnds
CHECK_DEADLOCK FALSE
