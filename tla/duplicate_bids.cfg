SPECIFICATION Spec
CONSTANTS
    None = None
    u1 = u1  u2 = u2
    t1 = t1
    b1 = b1  b2 = b2  b3 = b3
    s1 = s1  s2 = s2
    Users = {u1, u2}
    Timeslots = {t1}
    Bidder <- MCBidder
    BidSlot <- MCBidSlot
    BidPrice <- MCBidPrice
    BidQuantity <- MCBidQuantity
    SupplySlot <- MCSupplySlot
    ReservePrice <- MCReservePrice
    SupplyQuantity <- MCSupplyQuantity
    EpochSlots = {t1}
    MaxRetries = 2
    Handlers = {h1, h2}
    Bids = {b1, b2}
    Supplies = {}
    Leftover = {}
    EventStatuses = {}
    Faults = {}
    Crashes = FALSE
INVARIANT OneActiveBid
CHECK_DEADLOCK FALSE
