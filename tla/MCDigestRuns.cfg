SPECIFICATION Spec
CONSTANTS
    p1 = p1
    p2 = p2
    t1 = t1
    t2 = t2
    simp = simp
    seeded = seeded
    inferred = inferred
    refs = refs
    Nothing = Nothing
    Processes <- TwoProcesses
    Targets <- TwoTargets
    Templates <- OneTemplate
    Basins <- TwoBasins
    Refs <- OneRefs
    TemplatesOf <- InEachBasin
    ProofBody <- OneBody
    Configs <- FourConfigs
    MaxRuns = 2
    MaxPlans = 1
    MaxAborts = 1
SYMMETRY Symmetry
INVARIANTS
    TypeOK
    TargetsAreBacked
    BasinsAreEarned
    PacksAreBacked
PROPERTIES
    KeepsLog
CHECK_DEADLOCK FALSE
