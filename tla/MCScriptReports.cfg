\* Two scripts under one batch id, two handlers, three reports.
SPECIFICATION Spec
SYMMETRY Symmetry
CONSTANTS
    Script = {s1, s2}
    Batch = {b1}
    Handler = {h1, h2}
    MaxReports = 3
INVARIANT TypeOK ConfirmedStaysRecorded
PROPERTY TurnedDownOnlyForAnother MessageKept RefusedOnlyEarly
CHECK_DEADLOCK FALSE
