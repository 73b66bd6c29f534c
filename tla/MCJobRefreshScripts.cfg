\* Two scripts, cron entries only: one script's failure against another's jobs.
SPECIFICATION FairSpec
CONSTANTS
    Script = {s1, s2}
    Node = {n1}
    CronKey = {c1}
    FixKey = {}
    DynKey = {}
    Dyn = dyn
    Date = {0}
    MaxTime = 0
    MaxEdits = 2
INVARIANT SettledJobsMatchRows
PROPERTY RemovesOnlyUnwanted StoppedScriptsGoQuiet
CHECK_DEADLOCK FALSE
