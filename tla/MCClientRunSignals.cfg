\* The limits of the code, one signal.
CONSTANTS
    MaxAttempts = 3
    MaxDecodes = 2
    MaxRestarts = 3
    MaxSignals = 1
SPECIFICATION FairSpec
PROPERTIES
    EveryExitCleansUp
\* The command ends.
CHECK_DEADLOCK FALSE
