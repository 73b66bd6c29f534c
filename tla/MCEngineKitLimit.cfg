\* A limit of one, two callers: stale and torn counts; no failures.
SPECIFICATION Spec
SYMMETRY RunSymmetry
CONSTANTS
    Caller = {c1, c2}
    Worker = {}
    Node = {n1}
    Run = {r1, r2, r3, r4, r5, r6, r7}
    Max = 1
    MaxFaults = 0
    MaxCancels = 0
INVARIANT OvershootBounded
CHECK_DEADLOCK FALSE
