SPECIFICATION Spec
CONSTANTS
    Tab = {"t1"}
    Profile = {"none", "some"}
    None = None
    MaxGen = 3
    MaxMoves = 3
    MaxCalls = 2
    MaxFaults = 1
INVARIANTS TypeOK OneStoreCall NoForgedCall
PROPERTIES SignOutRevokes StaysSignedIn SessionSettles AdminIsGuarded
CHECK_DEADLOCK FALSE
