SPECIFICATION Spec
CONSTANTS
    u1 = u1
    u2 = u2
    o1 = o1
    o2 = o2
    o3 = o3
    o4 = o4
    api = api
    b1 = b1
    b2 = b2
    ApiLoop = api
    NoUser = NoUser
    NoOrder = NoOrder
    User = {u1, u2}
    Order = {o1, o2, o3}
    Worker <- Bots
    Owner <- ChatOwner
    Kind <- ChatKind
    Price <- WalletPrice
    Discounted = {o2, o3}
    MaxUses = 1
    PerUserLimit = 1
    MaxOpenOrders = 1
    Opening <- WalletOpening
    Referrer <- ChatReferrer
    Commission <- ChatCommission
    MaxCrashes = 1
    MaxAsked = 2
INVARIANTS CodeWithinLimit
CHECK_DEADLOCK FALSE
