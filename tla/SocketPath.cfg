\* Three daemons on one path, each started up to twice; they are down in the end.
SPECIFICATION Spec
CONSTANTS
    d1 = d1  d2 = d2  d3 = d3
    Nothing = Nothing
    Daemons = {d1, d2, d3}
    MaxLives = 2
SYMMETRY Symmetric
INVARIANTS StaleOnlyAfterCrash StartsReachable
CHECK_DEADLOCK FALSE
