\* Two callers, 2 requests per minute of 2 ticks, cleanup every minute.
CONSTANTS
    Callers = {a, b}
    Rate = 2
    Minute = 2
    Cleanup = 2
    None = none
    MaxClock = 5
SYMMETRY Symmetry
SPECIFICATION Spec
INVARIANTS
    WindowBound
PROPERTIES
    ImplementsTokenBucket
CHECK_DEADLOCK FALSE
