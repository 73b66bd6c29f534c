\* A request and two debug runs in one process.
SPECIFICATION MCSpec
SYMMETRY Symmetry
CONSTANTS
    p1 = p1
    p3 = p3
    Handler = {h1}
    Debugger = {d1, d2}
    Project = {p1, p2, p3}
    MaxWork = 5
INVARIANT TypeOK QuietAtRoot OwnUnlessDisturbed HalfMadeOnlyIfBroken
CHECK_DEADLOCK FALSE
