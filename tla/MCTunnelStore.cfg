\* Four requests of every kind and the reaper race for two rows and the quota of one user.
CONSTANTS
    Tunnels = {t1, t2}
    Users = {u1}
    Requests = {r1, r2, r3, r4}
    Reaper = reaper
    None = none
    Kinds = {"create", "newproxy", "closeproxy", "revoke"}
    MaxConcurrent = 1
    MaxTTL = 1
    DefaultTTL = 2
    MaxClock = 2
    MaxFaults = 0
SYMMETRY Symmetry
SPECIFICATION Spec
INVARIANTS
    QuotaRespected
    CreatesAreDistinct
    TrailIsTheHistory
    AcceptedProxyWasLive
    DeleteIsFinal
PROPERTIES
    TerminalAbsorbing
