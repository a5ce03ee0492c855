\* Three calls at the same time, three processes one after the other; weak fairness.
CONSTANTS
    Callers = {c1, c2, c3}
    None = none
    MaxRuns = 3
SPECIFICATION FairSpec
INVARIANTS
    OneProcess
    StopHitsItsRun
    StoppedIsDead
PROPERTIES
    StopReturns
\* All calls return and the process ends.
CHECK_DEADLOCK FALSE
