SPECIFICATION Spec
CONSTANTS
    Writers = {w1, w2}
    Sources = {p1, p2}
    PerCap = 1
    GlobalCap = 2
    ChanCap = 1
    Limits = {0, 1}
    MaxEvents = 3
INVARIANTS PollerMissesNothing StreamIsComplete
PROPERTY PublishEnds
CHECK_DEADLOCK FALSE
