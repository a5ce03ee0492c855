\* Four tunnels of two users, pages of one; weak fairness of the client and the server.
CONSTANTS
    MaxTunnel = 4
    Users = {u1, u2}
    None = none
    Limit = 1
    MaxPageAttempts = 3
    MaxClock = 2
SPECIFICATION FairListSpec
INVARIANTS
    NewestFirst
    ListingIsComplete
PROPERTIES
    ListingEnds
\* The listing ends, the tunnels are created, the clock stops.
CHECK_DEADLOCK FALSE
