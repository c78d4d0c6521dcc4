SPECIFICATION Spec
CONSTANTS
    g1 = g1
    n1 = n1
    m1 = m1
    k1 = k1
    k2 = k2
    Gateway = {g1}
    Node = {n1}
    Mesh = {m1}
    Psk = {k1, k2}
    NoPsk = NoPsk
    NoMesh = NoMesh
    Plain = Plain
    KeyEvents <- MCKeyEvents
    RejectionEvents <- MCRejectionEvents
    Packets <- MCPackets
    MaxPoll = 2
    MaxConfig <- MCMaxConfig
    MaxRaw = 2
    MaxFaults = 1
INVARIANTS
    StateIsTailReplay
    SideEventsFollowDecoded
    CommittedAreSettled
PROPERTIES
    OutputIsAuthorized
    EventuallyDecided
CHECK_DEADLOCK FALSE
