SPECIFICATION FairSpec
CONSTANTS
    N = 2
    Keys <- MCKeys
    Key <- MCKey
    Ports <- MCPorts
    Port <- MCPort
    Frozen = {1, 2}
    Workers = 2
    MaxAttempts = 2
    CheckpointEvery = 2
    MaxRuns = 1
INVARIANTS
    SuccessMeansStoreIntact
PROPERTIES
    RunEnds
CHECK_DEADLOCK FALSE
