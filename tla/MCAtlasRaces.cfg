SPECIFICATION Spec
CONSTANTS
    l1 = l1
    l2 = l2
    e1 = e1
    e2 = e2
    Loops <- TwoLoops
    Entries <- OneEntry
    Absent = Absent
    MaxRuns = 3
    MaxSeeds = 1
    MaxAttempts = 1
    MaxRetires = 1
    MaxAborts = 1
SYMMETRY Symmetry
INVARIANTS
    TypeOK
    CountsAreBacked
    EmissionsAreRecorded
    CausesComeFirst
    PromotedIsBacked
    CountsAreExact
PROPERTIES
    RetiredStaysRetired
CHECK_DEADLOCK FALSE
