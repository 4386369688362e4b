SPECIFICATION Spec
CONSTANTS
    Visits <- TrackedVisits
    MaxKeys = 2
    MaxHttp = 2
    MaxOrders = 2
    None = None
    Nodes = {n1, n2}
    Excluded = {n2}
    Texts = {save, store, zakhire, gb, gig, xray}
    save = save
    store = store
    zakhire = zakhire
    gb = gb
    gig = gig
    xray = xray
    EnFa <- MCEnFa
    FaEn <- MCFaEn
PROPERTIES
    ShowsEveryOutcome
CHECK_DEADLOCK FALSE
