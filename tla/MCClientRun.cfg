\* The limits of the code, two signals.
CONSTANTS
    MaxAttempts = 3
    MaxDecodes = 2
    MaxRestarts = 3
    MaxSignals = 2
SPECIFICATION FairSpec
INVARIANTS
    AtMostOneTunnel
    ExitCleansUp
PROPERTIES
    TheRunEnds
\* The command ends.
CHECK_DEADLOCK FALSE
