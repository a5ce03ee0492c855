\* Two requests of two users, with one failed pass or crash; weak fairness.
CONSTANTS
    Tunnels = {t1, t2}
    Users = {u1, u2}
    Requests = {r1, r2}
    Reaper = reaper
    None = none
    Kinds = {"create", "newproxy", "closeproxy", "revoke"}
    MaxConcurrent = 1
    MaxTTL = 1
    DefaultTTL = 2
    MaxClock = 2
    MaxFaults = 1
SPECIFICATION FairSpec
PROPERTIES
    ImplementsLifecycle
    EveryRequestIsAnswered
    EveryTunnelEnds
