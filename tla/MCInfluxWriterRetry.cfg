SPECIFICATION Spec
CONSTANTS
    decoded = decoded
    alarms = alarms
    Topic <- MCTopic
    Sent <- MCSent
    MaxPoll = 2
    MaxLog = 2
    MaxFaults = 1
INVARIANTS
    CommittedAreStored
CHECK_DEADLOCK FALSE
