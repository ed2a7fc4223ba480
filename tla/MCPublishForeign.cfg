SPECIFICATION Spec
CONSTANTS
    a = a
    b = b
    c = c
    P = P
    Q = Q
    Publishers <- OnePublisher
    Publications <- TwoPublications
    Unrelated = Unrelated
    Nothing = Nothing
    NFiles = 2
    MaxFaults = 0
    MaxForeign = 1
PROPERTIES
    UnrelatedIsKept
CHECK_DEADLOCK FALSE
