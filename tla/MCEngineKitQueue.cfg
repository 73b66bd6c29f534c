\* The delay queue under fairness: two delay threads, outages, restarts, removal
\* of the task, cancelling.
SPECIFICATION FairSpec
CONSTANTS
    Caller = {c1}
    Worker = {w1, w2}
    Node = {n1}
    Run = {r1, r2}
    Max = 0
    MaxFaults = 2
    MaxCancels = 1
INVARIANT RemovedTaskNeverStarts NothingLostOrDoubled
PROPERTY QueueDrains RunLifeSpec
CHECK_DEADLOCK FALSE
