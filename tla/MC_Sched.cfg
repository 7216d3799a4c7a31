CONSTANTS
    Harts = {0, 1}
    Procs = {p1, p2}
    Idle = Idle
    NULL = NULL
    SleepLens = {0, 1}
    MaxVruntime = 3
SPECIFICATION FairSpec
INVARIANTS
    TypeOK
    MutualExclusion
    AtMostOnePlace
    NeverLost
    CurrentIsRunning
    StateMatchesList
    AlwaysPreemptible
    ListsAscending
PROPERTIES
    NoEarlyWake
    LockReleased
    SleeperWakes
