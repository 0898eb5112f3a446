\* Two workers, as kMaxWorkers says.  Every client stays and sends; one signal on any thread; fair threads.
SPECIFICATION FairSpec
CONSTANTS
    c1 = c1  c2 = c2  c3 = c3  c4 = c4
    None = None
    kMaxWorkers = 2
    Clients <- TwoClients
    Vanishing = {}
    RequestKinds = {"text", "blank"}
    MaxSignals = 1
CHECK_DEADLOCK FALSE
INVARIANTS NoSleepOverWork NoStrandedClient CleanExit
PROPERTIES
    EveryAcceptedAnswered JoinCompletes
