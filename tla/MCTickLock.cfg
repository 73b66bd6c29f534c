\* Delays from none to beyond the grace time, which is twice the life of the
\* lock as in the code; two fire times.
SPECIFICATION Spec
SYMMETRY Symmetry
CONSTANTS
    Proc = {p1, p2, p3}
    Node = {n1, n2}
    FireTime = {1, 3}
    TTL = 1
    Grace = 2
    MaxLate = 3
    Horizon = 5
INVARIANT ClaimsPerTickBounded
PROPERTY LockedOnlyByOwnTick OwnershipSpec
CHECK_DEADLOCK FALSE
