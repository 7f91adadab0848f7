SPECIFICATION Spec
CONSTANTS
    w1 = w1
    w2 = w2
    None = None
    Waypoints <- MCWaypoints
    Configs <- MCConfigs
    MaxDecisions = 4
    MaxTrials = 3
INVARIANT FrozenDecides
CHECK_DEADLOCK FALSE
