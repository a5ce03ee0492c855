\* Two set-tokens, a logout and two readers, with a power cut.
CONSTANTS
    Writers = {w1, w2}
    Removers = {x1}
    Readers = {p1, p2}
    Old = old
    NoFile = none
    MaxPowerCuts = 1
SYMMETRY Symmetry
SPECIFICATION FileSpec
INVARIANTS
    FileIsWhole
    OnlyLogoutFailsARead
\* Every command ends.
CHECK_DEADLOCK FALSE
