SPECIFICATION Spec
CONSTANTS
    Webhook = {h1, h2}
    Event = {e1}
    Worker = {w1, w2}
    Batch = 2
    MaxAttempts = 3
    Leases = {1}
    SendTime = 1
    Backoff <- Waits
    MaxCrashes = 0
    MaxCount = 3
INVARIANT NoDoubleSend
