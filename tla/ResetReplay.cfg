SPECIFICATION UninterruptedSpec
CONSTANTS
    User = {ana}
    Password = {p1, p2}
    Request = {r1, r2}
    ResetToken = {x1}
    MaxSecond = 1
    RefreshTTL = 1
    Leeway = 1
    ResetTTL = 1
    None = None
PROPERTY ResetTokenSingleUse
CHECK_DEADLOCK FALSE
