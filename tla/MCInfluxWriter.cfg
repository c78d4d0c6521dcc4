SPECIFICATION Spec
CONSTANTS
    decoded = decoded
    alarms = alarms
    Topic <- MCTopic
    Sent <- MCSent
    MaxPoll = 2
    MaxLog = 2
    MaxFaults = 2
INVARIANTS
    LossNeedsFailedWrite
PROPERTIES
    EventuallyStored
CHECK_DEADLOCK FALSE
