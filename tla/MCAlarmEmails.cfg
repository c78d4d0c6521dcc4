SPECIFICATION Spec
CONSTANTS
    Interval = 2
    Window = 8
    Channels <- MCChannels
    AlignSample <- MCAlignSample
    GapSample <- MCGapSample
    Worker = {w1}
    Idle = Idle
    Steps <- MCSteps
    SeriesCases <- MCSeries
    FailureCases <- MCFailures
    MaxQueue = 1
    MaxAlarms = 2
    MaxFaults = 1
INVARIANTS AlignmentIsNearest GapsAreFound SilenceExplained
PROPERTIES OneEmailPerCooldown OwnerIsReminded DerivedAreRegistered
