SPECIFICATION UninterruptedSpec
CONSTANTS
    User = {ana, bob}
    Profile = {sales, staff}
    Permission = {admin}
    Admin = admin
    Request = {r1, r2}
    TTL = 2
    FetchBound = 1
    CacheMax = 1
    None = None
PROPERTY InvalidationIsFinal
