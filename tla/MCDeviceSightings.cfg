SPECIFICATION Spec
CONSTANTS
    p1 = p1
    p2 = p2
    Position <- MCPosition
    Packet <- MCPacket
    Nowhere = Nowhere
    NoRow = NoRow
    Idle = Idle
    Deleted = Deleted
    MaxPublished = 2
    MaxRequests = 2
    MaxFaults = 1
INVARIANTS NothingLost OrderIsKept PinnedTakesPrecedence
PROPERTIES DeviceAppears
CHECK_DEADLOCK FALSE
