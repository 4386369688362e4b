\* A live view of the account against the review of a receipt.
SPECIFICATION Spec
CHECK_DEADLOCK FALSE
CONSTANTS
    c1 = c1
    c2 = c2
    srvA = srvA
    srvB = srvB
    w1 = w1
    w2 = w2
    r1 = r1
    t1 = t1
    t2 = t2
    t3 = t3
    v1 = v1
    NoService = NoService
    Service = {c1}
    Server = {srvA}
    Home <- OneHome
    Assigned = {srvA}
    Reader = {}
    Guarded = {}
    Gb = 2
    Rates = {1, 3}
    Receipt = {r1}
    Transfer = {}
    Unlocked = {}
    Joining = {}
    Viewer = {v1}
    Amount <- ReceiptAmount
    Opening = 1
    FirstMode = "payg"
    MaxCounter = 1
    MaxResets = 0
INVARIANTS LedgerBalances
