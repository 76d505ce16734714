SPECIFICATION FairSpec
CONSTANTS
    w1 = w1  w2 = w2
    n1 = n1  n2 = n2
    None = None
    Wallets = {w1, w2}
    Nonces = {n1, n2}
    Owner <- MCOwner
    Handlers = {h1, h2}
    MaxRetries = 2
    Faults <- MCFaults
    Crashes = TRUE
INVARIANTS TypeOK SpentNonceRefused TokenSpendsNonce TokenHasUser
PROPERTIES EveryRequestAnswered
CHECK_DEADLOCK FALSE
