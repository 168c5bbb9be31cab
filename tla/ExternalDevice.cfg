SPECIFICATION Spec
CONSTANTS
    Conns = {c1, c2}
    Uids = {u1, u2}
    Tags = {none, t1}
    NoTag = none
    Bridgeable = {u1}
    MaxOpens = 2
    MaxSimple = 1
SYMMETRY Symmetry
INVARIANTS ListedIsConnected ActiveIsConnected SteadyIsReached
CHECK_DEADLOCK FALSE
