\* Violated: a worker misses the notify_all of the shutdown.
SPECIFICATION FairSpec
CONSTANTS
    c1 = c1  c2 = c2  c3 = c3  c4 = c4
    None = None
    kMaxWorkers = 1
    Clients <- TwoClients
    Vanishing = {}
    RequestKinds = {"text"}
    MaxSignals = 1
CHECK_DEADLOCK FALSE
PROPERTY PoolStops
