SPECIFICATION Spec
CONSTANTS
    a = a
    b = b
    c = c
    P = P
    Q = Q
    Publishers <- ThreePublishers
    Publications <- TwoPublications
    Unrelated = Unrelated
    Nothing = Nothing
    NFiles = 2
    MaxFaults = 1
    MaxForeign = 1
INVARIANTS
    TypeOK
    OutputIsWhole
    ShownSurvives
    EndedIsRestored
    EndedIsTidy
PROPERTIES
    RefusedIsKept
SYMMETRY Symmetry
CHECK_DEADLOCK FALSE
