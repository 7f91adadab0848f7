SPECIFICATION Spec
CONSTANTS
    k1 = k1
    k2 = k2
    c1 = c1
    Torn = Torn
    Kids <- MCKids
    Contexts <- MCContexts
    Weights <- MCWeights
    Posteriors <- MCPosteriors
    Tau = 88
    HStar = 10
    UseLifecycle = TRUE
    MaxCount = 10
    MaxObservations = 4
    MaxDecays = 0
    MaxCrashes = 1
INVARIANT DisabledIsPermanent
CHECK_DEADLOCK FALSE
