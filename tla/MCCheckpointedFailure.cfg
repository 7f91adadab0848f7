SPECIFICATION Spec
CONSTANTS
    N = 3
    Keys <- MCKeys
    Key <- MCKey
    Ports <- MCPorts
    Port <- MCPort
    Frozen = {}
    Workers = 2
    MaxAttempts = 2
    CheckpointEvery = 2
    MaxRuns = 1
INVARIANT ChecksOnlySuccesses
CHECK_DEADLOCK FALSE
