CONSTANTS
    Harts = {0, 1}
    Procs = {p1, p2}
    Idle = Idle
    NULL = NULL
    SleepLens = {0}
    MaxVruntime = 2
SPECIFICATION OperatorSpec
INVARIANT RecordWhenQuiet
CHECK_DEADLOCK FALSE
