SPECIFICATION Spec
CONSTANTS
    N = 4
    Nearest <- MCNearest
    Threshold = 2
    CountCap = 3
    Procs = {p1, p2}
    Oracle <- MCOracle
    Stations = {}
    Pickaxes = {}
    FreeAnswers <- MCFreeAnswers
    Strays <- MCStrays
    Patience = 1
    FailLimit = 2
    Starts <- MCStarts
INVARIANTS
    TypeOK
    UnreadableIsPending
    ClaimsKept
    EpisodesCounted
    CandidatesAcyclic
PROPERTIES
    InadmissibleCutOff
SYMMETRY Symmetry
CHECK_DEADLOCK FALSE
