SPECIFICATION Spec
CONSTANTS
    NoResult = NoResult
    BidData <- MCBidData
    SupplyData <- MCSupplyData
    Books <- MCBooks
    Quantities = {1, 2}
    MaxBids = 3
    MaxSupplies = 2
    Prices = {1, 2, 3}
INVARIANTS TypeOK MatchedBidsAreWhole MeritOrder EnergyBalance
PROPERTIES ImplementsReference Terminates
CHECK_DEADLOCK FALSE
