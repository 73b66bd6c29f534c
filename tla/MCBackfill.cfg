\* One or two processes, up to four windows, with one failure.
SPECIFICATION FairSpec
CONSTANTS
    FirstYear = 2000
    LastYear = 2002
    Proc = {p1, p2}
    Range <- Ranges
    MaxFaults = 1
INVARIANT TypeOK WindowAfterPredecessor OneWindowAtATime RunsTileRange
          NeverStandsStill
PROPERTY StartsOnce BackfillCompletes ThreadEnds
CHECK_DEADLOCK FALSE
