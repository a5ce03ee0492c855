\* Two tunnels, two frpc sessions, one visitor, time for a tunnel to elapse.
CONSTANTS
    Tunnels = {t1, t2}
    Users = {u1}
    None = none
    MaxConcurrent = 2
    Sessions = {s1, s2}
    Visitors = {v1}
    MaxTTL = 1
    MaxClock = 2
SYMMETRY Symmetry
SPECIFICATION Spec
INVARIANTS
    NoVisitAfterTheEnd
    RegisteredIsAdmitted
    SessionsAreConfined
CHECK_DEADLOCK FALSE
