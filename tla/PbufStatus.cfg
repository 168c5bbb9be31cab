SPECIFICATION SessionSpec
CONSTANTS
    Conns = {c1, c2}
    NoConn = NoConn
    Vdsms = {v1, v2}
    NoVdsm = NoVdsm
INVARIANT
    StatusIsCurrent
