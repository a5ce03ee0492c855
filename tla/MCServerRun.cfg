\* Both modes, two requests, two signals; weak fairness.
CONSTANTS
    Requests = {q1, q2}
    None = none
    MaxSignals = 2
SPECIFICATION FairSpec
INVARIANTS
    DrainIsRespected
    NothingIsLeftBehind
PROPERTIES
    TheCommandEnds
\* The command ends.
CHECK_DEADLOCK FALSE
