SPECIFICATION Spec
CONSTANTS
    Absent = Absent
    Torn = Torn
    HasTimeout = TRUE
    MaxLines = 1
    MaxBeats = 2
    MaxRuns = 2
    Arguments <- FourArguments
INVARIANTS
    TypeOK
    OkIsEarned
    LogsAreTrue
PROPERTIES
    RunEnds
CHECK_DEADLOCK FALSE
