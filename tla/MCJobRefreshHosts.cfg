\* Two nodes: does a change of hosts or node_ids reach a job that exists.
SPECIFICATION Spec
CONSTANTS
    Script = {s1}
    Node = {n1, n2}
    CronKey = {c1}
    FixKey = {}
    DynKey = {}
    Dyn = dyn
    Date = {0}
    MaxTime = 0
    MaxEdits = 1
INVARIANT SettledJobsRunOnTheirHosts
CHECK_DEADLOCK FALSE
