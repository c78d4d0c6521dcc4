SPECIFICATION Spec
CONSTANTS
    g1 = g1
    n1 = n1
    m1 = m1
    m2 = m2
    k1 = k1
    Gateway = {g1}
    Node = {n1}
    Mesh = {m1, m2}
    Psk = {k1}
    NoPsk = NoPsk
    NoMesh = NoMesh
    Plain = Plain
    NoSnapshot = NoSnapshot
    KeyEvents <- MCKeyEvents
    RejectionEvents <- MCRejectionEvents
    Packets <- MCPackets
    MaxConfig <- MCMaxConfig
    MaxRaw = 1
    MaxFaults = 2
INVARIANTS StateIsReplay CheckpointedAreSettled
PROPERTIES EmittedIsAuthorized EventuallyCheckpointed
CHECK_DEADLOCK FALSE
