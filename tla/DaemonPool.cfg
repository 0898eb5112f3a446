\* One worker, a queue of one and more clients than worker, queue and accept loop can
\* hold; two signals, the second of which closes a number that has been given away;
\* every client may vanish.
SPECIFICATION Spec
CONSTANTS
    c1 = c1  c2 = c2  c3 = c3  c4 = c4
    None = None
    kMaxWorkers = 1
    Clients <- FourClients
    Vanishing <- FourClients
    RequestKinds = {"file"}
    MaxSignals = 2
SYMMETRY Symmetric
CHECK_DEADLOCK FALSE
INVARIANTS TypeOK SingleOwner NoneLost OnlyListenerClosed BoundedConnections
PROPERTY ImplementsService
