SPECIFICATION FairSpec
CONSTANTS
    None = None
    r1 = r1  r2 = r2
    w1 = w1 
    a1 = a1 
    Requests = {r1, r2}
    Wallets = {w1}
    Addresses = {a1}
    Routers = {"auth", "bids", "supplies", "users", "timeslots", "blockchain", "websocket", "app"}
    Max <- MCMax
    LookupFails = TRUE
INVARIANTS AnsweredOnce ActsForTokenHolder
PROPERTIES EveryRequestAnswered
CHECK_DEADLOCK FALSE
