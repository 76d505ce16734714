SPECIFICATION FairSpec
CONSTANTS
    a = a  b = b  c = c
    w1 = w1  w2 = w2
    None = None
    Sockets = {a, b, c}
    Wallets = {w1, w2}
    Timeslots = {t1}
    WalletOf <- MCWalletOf
    Admins = {w1}
    MaxConnections <- MCMaxConnections
INVARIANTS MembersAreJoined NoStrangers ConnectionsCounted UpdatesReachClients
PROPERTIES EmptyRoomsGo InactiveDisconnected
