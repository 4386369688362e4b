\* One or two configs of one reseller, with readers, credits and the sessions
\* that load the account unlocked.
SPECIFICATION Spec
CHECK_DEADLOCK FALSE
CONSTRAINT Regions
CONSTANTS
    c1 = c1
    c2 = c2
    srvA = srvA
    srvB = srvB
    w1 = w1
    w2 = w2
    r1 = r1
    t1 = t1
    t2 = t2
    t3 = t3
    v1 = v1
    NoService = NoService
    Service = {c1, c2}
    Server = {srvA, srvB}
    Home <- TwoHomes
    Assigned = {srvA, srvB}
    Reader = {w1, w2}
    Guarded = {w1}
    Gb = 2
    Rates = {1, 3}
    Receipt = {r1}
    Transfer = {t1, t2, t3}
    Unlocked = {t2, t3}
    Joining = {t3}
    Viewer = {v1}
    Amount <- Amounts
    Opening = 1
    FirstMode = "payg"
    MaxCounter = 2
    MaxResets = 1
INVARIANTS TypeOK BilledAtItsRate UsageStaysBillable WalletBalances
