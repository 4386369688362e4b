SPECIFICATION Spec
CONSTANTS
    u1 = u1
    u2 = u2
    o1 = o1
    o2 = o2
    o3 = o3
    o4 = o4
    api = api
    b1 = b1
    b2 = b2
    ApiLoop = api
    NoUser = NoUser
    NoOrder = NoOrder
    User = {u1}
    Order = {o1, o2, o3, o4}
    Worker = {api, b1}
    Owner <- CardOwner
    Kind <- CardKind
    Price <- CardPrice
    Discounted = {o1, o2, o3, o4}
    MaxUses = 2
    PerUserLimit = 4
    MaxOpenOrders = 4
    Opening <- CardOpening
    Referrer <- NoReferrer
    Commission <- CardCommission
    MaxCrashes = 0
    MaxAsked = 1
INVARIANTS CodeWithinLimit
CHECK_DEADLOCK FALSE
