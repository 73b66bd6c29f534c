\* One script with all kinds of entries, the clock running.
SPECIFICATION Spec
CONSTANTS
    Script = {s1}
    Node = {n1}
    CronKey = {c1}
    FixKey = {f1}
    DynKey = {d1}
    Dyn = dyn
    Date = {0, 1}
    MaxTime = 2
    MaxEdits = 2
INVARIANT SettledNoOrphans
PROPERTY FixRunsOnce
CHECK_DEADLOCK FALSE
