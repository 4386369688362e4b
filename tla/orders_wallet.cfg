SPECIFICATION FairSpec
CONSTANTS
    u1 = u1
    u2 = u2
    o1 = o1
    o2 = o2
    o3 = o3
    o4 = o4
    api = api
    b1 = b1
    b2 = b2
    ApiLoop = api
    NoUser = NoUser
    NoOrder = NoOrder
    User = {u1}
    Order = {o1, o2, o3}
    Worker <- Bots
    Owner <- CardOwner
    Kind <- WalletKind
    Price <- WalletPrice
    Discounted = {o1}
    MaxUses = 2
    PerUserLimit = 1
    MaxOpenOrders = 1
    Opening <- WalletOpening
    Referrer <- NoReferrer
    Commission <- CardCommission
    MaxCrashes = 1
    MaxAsked = 3
INVARIANTS WalletExact NoOverdraft NoBlindRebuild
PROPERTIES QueueSettles
CHECK_DEADLOCK FALSE
