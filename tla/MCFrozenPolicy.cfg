SPECIFICATION Spec
CONSTANTS
    N = 2
    Keys <- MCKeys
    Key <- MCKey
    Ports <- MCPorts
    Port <- MCPort
    Frozen = {1, 2}
    Workers = 2
    MaxAttempts = 2
    CheckpointEvery = 2
    MaxRuns = 1
INVARIANT PolicyMutationFails
CHECK_DEADLOCK FALSE
