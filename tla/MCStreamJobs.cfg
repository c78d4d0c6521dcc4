SPECIFICATION StreamSpec
CONSTANTS
    k1 = k1
    k2 = k2
    Kind = {k1, k2}
    Scenario <- MCScenario
    NoNumber = NoNumber
    NoConfig = NoConfig
    NoRule = NoRule
    NoLimit = NoLimit
    Window = 3
    MaxSetbacks = 1
INVARIANTS AlarmsAreBacked CalibratedByCurve
PROPERTY EventuallyAlarmed
CHECK_DEADLOCK FALSE
