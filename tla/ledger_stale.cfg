\* Two plain readers of one counter that is never reset.
SPECIFICATION Spec
CHECK_DEADLOCK FALSE
CONSTANTS
    c1 = c1
    c2 = c2
    srvA = srvA
    srvB = srvB
    w1 = w1
    w2 = w2
    r1 = r1
    t1 = t1
    t2 = t2
    t3 = t3
    v1 = v1
    NoService = NoService
    Service = {c1}
    Server = {srvA}
    Home <- OneHome
    Assigned = {srvA}
    Reader = {w1, w2}
    Guarded = {}
    Gb = 2
    Rates = {1, 3}
    Receipt = {}
    Transfer = {}
    Unlocked = {}
    Joining = {}
    Viewer = {}
    Amount <- NoAmount
    Opening = 1
    FirstMode = "payg"
    MaxCounter = 2
    MaxResets = 0
INVARIANTS NeverInflated
