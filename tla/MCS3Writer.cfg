SPECIFICATION Spec
CONSTANTS
    Device = {d1, d2}
    Bad = Bad
    BatchSize = 2
    MaxLog = 4
    MaxFaults = 2
INVARIANTS
    TypeOK
    CommittedAreArchived
    DuplicatesNeedFaults
    BufferIsBounded
PROPERTIES
    SinkSpec
    EventuallyArchived
