\* The request that kills all instances, in the bounds of MCRequests.cfg.
SPECIFICATION Spec
SYMMETRY Symmetry
CONSTANTS
    SyncThread = {t1, t2}
    TaskName = {n1, n2}
    SyncRun = {x1, x2}
    PageSize = 2
    MaxDays = 2
    MaxSync = 6
    CatThread = {t1, t2}
    ProjectName = {n1, n2}
    About = {x1, x2}
    CatNode = {y1, y2}
    MaxJob = 2
    MaxCat = 4
    RowThread = {t1, t2}
    SpiderName = {n1, n2}
    Cfg = {x1, x2}
    MaxRow = 2
    MaxRowOps = 4
    UserThread = {t1, t2}
    UserName = {n1, n2}
    Right = {x1, x2}
    Value = {y1, y2}
    MaxRows = 2
    MaxUserOps = 3
INVARIANT KilledAll
CHECK_DEADLOCK FALSE
