SPECIFICATION Spec
CONSTANTS
    ep1 = ep1
    ep2 = ep2
    Episodes <- MCEpisodes
    Opportunities <- MCOpportunities
    Draws = 3
    AlphaNum = 1
    AlphaDen = 4
    CapEpsilon = 2
    Delta0 = 3
    Keys <- MCKeys
    Lambdas <- MCLambdas
    EpsAbs = 8
    EpsInc = 5
    InitialBudget = 3
    Calibrations <- MCCalibrations
    SelectEstimates <- MCSelectEstimates
    AuditEstimates <- MCAuditEstimates
    FutureClip = 3
    MaxAdmits = 2
INVARIANTS TypeOK SpendAccounted ReserveOnlyRestricts OnlyBudgetRefuses
PROPERTIES CertificateChain NoSecondChance
SYMMETRY EpisodeSymmetry
