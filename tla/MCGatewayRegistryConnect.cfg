SPECIFICATION Spec
CONSTANTS
    Gateway = {d1, d2}
    Node = {d1, d2}
    Mesh = {m1, m2}
    Psk = {k1, k2}
    NoPsk = NoPsk
    NoMesh = NoMesh
    Plain = Plain
    Worker = {w1, w2}
    Row = {r1, r2}
    NoRow = NoRow
    MaxRequests = 2
    MaxFaults = 2
PROPERTIES
    KeyChangesRollBack
CHECK_DEADLOCK FALSE
