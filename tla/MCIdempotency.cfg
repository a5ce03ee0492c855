\* Three attempts under one key, each a tunnel create or another mutation;
\* a handler may outlive the retention of its key; weak fairness.
CONSTANTS
    Attempts = {a1, a2, a3}
    Keys = {k1}
    Creates = {c1}
    Others = {d1}
    None = none
    Retention = 1
    MaxClock = 3
    MaxCrashes = 1
SPECIFICATION FairSpec
INVARIANTS
    NeverBothRun
    ReplayMatchesRequest
    CreatedIsCommitted
    OneTunnelPerKey
    CommittedIsReplayable
PROPERTIES
    NoKeyIsStranded
    ImplementsReservations
\* The system stops when every attempt is answered and the clock has stopped.
CHECK_DEADLOCK FALSE
