SPECIFICATION FairSpec
CONSTANTS
    User = {ana}
    Password = {p1}
    Request = {r1, r2}
    ResetToken = {x1}
    MaxSecond = 2
    RefreshTTL = 1
    Leeway = 1
    ResetTTL = 1
    None = None
INVARIANT SingleSuccessor
PROPERTIES StoreSpec EveryRequestEnds
CHECK_DEADLOCK FALSE
