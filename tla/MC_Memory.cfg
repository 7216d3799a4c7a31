CONSTANTS
    h1 = h1
    h2 = h2
    p1 = p1
    p2 = p2
    TotalPages = 25
    ScanPages = 24
    BkPages = 1
    Sizes = {2}
    Fanout = 3
    Harts = {h1, h2}
    PAGE_SIZE = 8
    HDR = 2
    WORD = 2
    HeapStart = 9
    MaxHeapPages = 4
    Scenes <- MCScenes
    Procs = {p1, p2}
    ProcBytes = 3
    TrampolineV = 0
    StackV = 1
    ImageV = 2
SPECIFICATION Spec
INVARIANTS HeapTiled ContiguousForDevices PagesOwned ProcessSeesOwnPages TlbSound
