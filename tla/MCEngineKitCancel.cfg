\* Two nodes and a change of the script's hosts before it is stopped.
SPECIFICATION Spec
CONSTANTS
    Caller = {c1}
    Worker = {}
    Node = {n1, n2}
    Run = {r1}
    Max = 1
    MaxFaults = 0
    MaxCancels = 2
INVARIANT CancelStopsEverywhere
CHECK_DEADLOCK FALSE
