SPECIFICATION ApartSpec
CONSTANTS
    None = None
    u1 = u1  u2 = u2
    t1 = t1  t2 = t2
    b1 = b1  b2 = b2  b3 = b3  b4 = b4
    s1 = s1  s2 = s2
    Users = {u1, u2}
    Timeslots = {t1, t2}
    Bidder <- ApartBidder
    BidSlot <- ApartBidSlot
    BidPrice <- ApartBidPrice
    BidQuantity <- ApartBidQuantity
    SupplySlot <- ApartSupplySlot
    ReservePrice <- MCReservePrice
    SupplyQuantity <- MCSupplyQuantity
    EpochSlots = {t1}
    MaxRetries = 2
    Handlers = {h1, h2}
    Bids = {b1, b2, b3, b4}
    Supplies = {s1, s2}
    Leftover = {b2, b3}
    EventStatuses = {}
    Faults <- ApartFaults
    Crashes = FALSE
INVARIANTS OneActiveBid MatchedWithinPrices MatchedDemandCovered
PROPERTIES ImplementsMarket SettledBookIsFinal
SYMMETRY HandlerSymmetry
CHECK_DEADLOCK FALSE
