---------------------------- MODULE GatewayProofs ----------------------------
(* Theorems about Gateway, for any number of requests, clients and tokens,    *)
(* any limits and whatever database calls fail.                               *)
EXTENDS Gateway, TLAPS

-----------------------------------------------------------------------------
(* The routes: who is let through to a guarded operation *)

Gates == {"authenticateWallet", "adminAuth"}

\* A route to a guarded operation ends in a gate, or its controller refuses
\* requests without a user.
Guards(route) ==
  \/ route.handler.op \notin Guarded
  \/ route.handler.noUser # None
  \/ \E l \in Limiters, g \in Gates : route.before = <<l, g>>

LEMMA AuthRoutes == \A x \in DOMAIN authRoutes : Guards(authRoutes[x])
BY NoneAssumption DEF authRoutes, Guards, Route, Guarded, Statuses, Handler, asyncHandler,
   initializeAuth, verifyAuth, getProfile, logout, validateToken, Zod

LEMMA BidRoutes == \A x \in DOMAIN bidRoutes : Guards(bidRoutes[x])
<1> USE NoneAssumption DEF bidRoutes, Guards, Gates, Limiters, WalletLimiters, Route, Guarded,
        Statuses, Handler, asyncHandler
<1>1. Guards(bidRoutes.place) /\ Guards(bidRoutes.cancel)
  BY DEF placeBid, cancelBid
<1>2. Guards(bidRoutes.get) /\ Guards(bidRoutes.status)
  BY DEF getBidById, updateBidStatus
<1> HIDE DEF Guards
<1> QED BY <1>1, <1>2

LEMMA SupplyRoutes == \A x \in DOMAIN supplyRoutes : Guards(supplyRoutes[x])
<1> USE NoneAssumption DEF supplyRoutes, Guards, Gates, Limiters, WalletLimiters, Route, Guarded,
        Statuses, Handler, asyncHandler
<1>1. Guards(supplyRoutes.place) /\ Guards(supplyRoutes.cancel)
  BY DEF placeSupply, cancelSupply
<1>2. Guards(supplyRoutes.get) /\ Guards(supplyRoutes.status)
  BY DEF getSupplyById, updateSupplyStatus
<1> HIDE DEF Guards
<1> QED BY <1>1, <1>2

LEMMA UserRoutes == \A x \in DOMAIN userRoutes : Guards(userRoutes[x])
BY NoneAssumption DEF userRoutes, Guards, Route, Guarded, Statuses, Handler, asyncHandler,
   getMyBids, getMySupplies

LEMMA TimeslotRoutes == \A x \in DOMAIN timeslotRoutes : Guards(timeslotRoutes[x])
<1> USE NoneAssumption DEF timeslotRoutes, Guards, Route, Guarded, Statuses, Handler, asyncHandler
<1>1. /\ Guards(timeslotRoutes.active) /\ Guards(timeslotRoutes.upcoming)
      /\ Guards(timeslotRoutes.list)
  BY DEF getActiveTimeslots, getUpcomingTimeslots, listTimeslots
<1>2. Guards(timeslotRoutes.get) /\ Guards(timeslotRoutes.stats)
  BY DEF getTimeslotById, getTimeslotStats
<1>3. Guards(timeslotRoutes.bids) /\ Guards(timeslotRoutes.bidStats)
  BY DEF getTimeslotBids, getTimeslotBidStats
<1>4. Guards(timeslotRoutes.supplies) /\ Guards(timeslotRoutes.supplyStats)
  BY DEF getTimeslotSupplies, getTimeslotSupplyStats
<1>5. Guards(timeslotRoutes.create) /\ Guards(timeslotRoutes.update) /\ Guards(timeslotRoutes.seal)
  BY DEF createTimeslot, updateTimeslot, sealTimeslot
<1>6. Guards(timeslotRoutes.settle) /\ Guards(timeslotRoutes.cancel)
  BY DEF settleTimeslot, cancelTimeslot
<1>7. DOMAIN timeslotRoutes =
        {"active", "upcoming", "list", "get", "stats", "bids", "bidStats", "supplies",
         "supplyStats", "create", "update", "seal", "settle", "cancel"}
  OBVIOUS
<1> HIDE DEF Guards, timeslotRoutes
<1> QED BY <1>1, <1>2, <1>3, <1>4, <1>5, <1>6, <1>7

LEMMA BlockchainRoutes == \A x \in DOMAIN blockchainRoutes : Guards(blockchainRoutes[x])
<1> USE NoneAssumption DEF blockchainRoutes, Guards, Route, Guarded, Statuses, Handler
<1>1. Guards(blockchainRoutes.health) /\ Guards(blockchainRoutes.globalState)
  BY DEF getHealth, getGlobalState
<1>2. Guards(blockchainRoutes.timeInfo) /\ Guards(blockchainRoutes.active)
  BY DEF getTimeInfo, getActiveSlots
<1>3. Guards(blockchainRoutes.timeslot) /\ Guards(blockchainRoutes.bids)
  BY DEF getTimeslot, getSlotBids
<1>4. Guards(blockchainRoutes.supplies) /\ Guards(blockchainRoutes.balance)
  BY DEF getSlotSupplies, getAccountBalance
<1>5. Guards(blockchainRoutes.userBids) /\ Guards(blockchainRoutes.userSupplies)
  BY DEF getUserBids, getUserSupplies
<1>6. Guards(blockchainRoutes.validateBid) /\ Guards(blockchainRoutes.validateSupply)
  BY DEF validateBidParams, validateSupplyParams
<1>7. Guards(blockchainRoutes.pdaAddresses)
  BY DEF getPDAAddresses
<1>8. DOMAIN blockchainRoutes =
        {"health", "globalState", "timeInfo", "active", "timeslot", "bids",
         "supplies", "balance", "userBids", "userSupplies", "validateBid", "validateSupply",
         "pdaAddresses"}
  OBVIOUS
<1> HIDE DEF Guards, blockchainRoutes
<1> QED BY <1>1, <1>2, <1>3, <1>4, <1>5, <1>6, <1>7, <1>8

LEMMA OtherRoutes ==
  /\ \A x \in DOMAIN websocketRoutes : Guards(websocketRoutes[x])
  /\ \A x \in DOMAIN appRoutes : Guards(appRoutes[x])
BY NoneAssumption DEF websocketRoutes, appRoutes, Guards, Route, Guarded, Statuses, Handler,
   connectionStats, testBroadcast, alive, notFoundHandler

LEMMA RoutesGuard ==
  \A x \in DOMAIN routes : \A y \in DOMAIN routes[x] : Guards(routes[x][y])
BY AuthRoutes, BidRoutes, SupplyRoutes, UserRoutes, TimeslotRoutes, BlockchainRoutes, OtherRoutes
   DEF routes

-----------------------------------------------------------------------------
(* The routes: what is on them *)

Middleware == Limiters \cup {"authenticateWallet", "optionalAuth", "requireAuth", "adminAuth"}

\* What a controller refuses a request with is a status.
Refuses(h) ==
  h.noUser \in Statuses \cup {None} /\ h.badInput \in Statuses \cup {None} /\ h.fault \in Statuses

Typed(route) == route.before \in Seq(Middleware) /\ Refuses(route.handler)

LEMMA MiddlewareSequences ==
  ASSUME NEW S
  PROVE  /\ <<>> \in Seq(S)
         /\ \A a \in S : <<a>> \in Seq(S)
         /\ \A a, b \in S : <<a, b>> \in Seq(S)
         /\ \A s, t \in Seq(S) : s \o t \in Seq(S)
<1>1. ASSUME NEW a \in S PROVE <<a>> \in Seq(S)
  OBVIOUS
<1>2. ASSUME NEW a \in S, NEW b \in S PROVE <<a, b>> \in Seq(S)
  OBVIOUS
<1> QED BY <1>1, <1>2

LEMMA Names ==
  /\ Middleware =
       {"authRateLimit", "verifyRateLimit", "bidRateLimit", "placeBidRateLimit",
        "supplyRateLimit", "placeSupplyRateLimit", "userRateLimit", "timeslotRateLimit",
        "timeslotModifyRateLimit", "blockchainRateLimit", "heavyBlockchainRateLimit",
        "authenticateWallet", "optionalAuth", "requireAuth", "adminAuth"}
BY DEF Middleware, Limiters, AuthLimiters, WalletLimiters, TimeslotLimiters, ChainLimiters

LEMMA HandlerType ==
  ASSUME NEW noUser \in Statuses \cup {None}, NEW badInput \in Statuses \cup {None}, NEW op, NEW own
  PROVE  Refuses(Handler(noUser, badInput, op, own))
BY DEF Refuses, Handler, Statuses

LEMMA RouteType ==
  ASSUME NEW h, Refuses(h)
  PROVE  /\ Typed(Route(<<>>, h))
         /\ \A a \in Middleware : Typed(Route(<<a>>, h))
         /\ \A a, b \in Middleware : Typed(Route(<<a, b>>, h))
         /\ \A s, t \in Seq(Middleware) : Typed(Route(s \o t, h))
BY MiddlewareSequences DEF Typed, Route

\* auth.controller.ts, bid.controller.ts, supply.controller.ts
LEMMA ServiceHandlers ==
  /\ Refuses(initializeAuth) /\ Refuses(verifyAuth) /\ Refuses(getProfile) /\ Refuses(logout)
  /\ Refuses(validateToken)
  /\ Refuses(placeBid) /\ Refuses(getBidById) /\ Refuses(getMyBids) /\ Refuses(cancelBid)
  /\ Refuses(getTimeslotBids) /\ Refuses(getTimeslotBidStats) /\ Refuses(updateBidStatus)
  /\ Refuses(placeSupply) /\ Refuses(getSupplyById) /\ Refuses(getMySupplies)
  /\ Refuses(cancelSupply) /\ Refuses(getTimeslotSupplies) /\ Refuses(getTimeslotSupplyStats)
  /\ Refuses(updateSupplyStatus)
<1>1. ASSUME NEW a \in Statuses \cup {None}, NEW b \in Statuses \cup {None}, NEW op
      PROVE  Refuses(asyncHandler(a, b, op))
  BY <1>1, HandlerType DEF asyncHandler
<1>2. {400, 401, 500} \subseteq Statuses /\ Zod \in Statuses
  BY DEF Statuses, Zod
<1> QED BY <1>1, <1>2
     DEF initializeAuth, verifyAuth, getProfile, logout, validateToken, placeBid, getBidById,
         getMyBids, cancelBid, getTimeslotBids, getTimeslotBidStats, updateBidStatus, placeSupply,
         getSupplyById, getMySupplies, cancelSupply, getTimeslotSupplies, getTimeslotSupplyStats,
         updateSupplyStatus

\* timeslot.controller.ts, blockchain.controller.ts and the routes without one
LEMMA OwnHandlers ==
  /\ Refuses(createTimeslot) /\ Refuses(getTimeslotById) /\ Refuses(listTimeslots)
  /\ Refuses(getActiveTimeslots) /\ Refuses(getUpcomingTimeslots) /\ Refuses(updateTimeslot)
  /\ Refuses(sealTimeslot) /\ Refuses(settleTimeslot) /\ Refuses(cancelTimeslot)
  /\ Refuses(getTimeslotStats)
  /\ Refuses(getHealth) /\ Refuses(getGlobalState) /\ Refuses(getTimeInfo)
  /\ Refuses(getActiveSlots) /\ Refuses(getTimeslot) /\ Refuses(getSlotBids)
  /\ Refuses(getSlotSupplies) /\ Refuses(getUserBids) /\ Refuses(getUserSupplies)
  /\ Refuses(getAccountBalance) /\ Refuses(validateBidParams) /\ Refuses(validateSupplyParams)
  /\ Refuses(getPDAAddresses)
  /\ Refuses(connectionStats) /\ Refuses(testBroadcast) /\ Refuses(alive)
  /\ Refuses(notFoundHandler)
<1>1. {400, 401, 404, 500, 503} \subseteq Statuses
  BY DEF Statuses
<1>2. Refuses(getHealth)
  <2>1. getHealth.noUser = None /\ getHealth.badInput = None /\ getHealth.fault = 503
    BY DEF getHealth, Handler
  <2> QED BY <1>1, <2>1 DEF Refuses
<1> QED BY <1>1, <1>2, HandlerType
     DEF createTimeslot, getTimeslotById, listTimeslots, getActiveTimeslots, getUpcomingTimeslots,
         updateTimeslot, sealTimeslot, settleTimeslot, cancelTimeslot, getTimeslotStats,
         getGlobalState, getTimeInfo, getActiveSlots, getTimeslot, getSlotBids, getSlotSupplies,
         getUserBids, getUserSupplies, getAccountBalance, validateBidParams, validateSupplyParams,
         getPDAAddresses, connectionStats, testBroadcast, alive, notFoundHandler

LEMMA AuthTyped == \A x \in DOMAIN authRoutes : Typed(authRoutes[x])
<1>1. {"authRateLimit", "verifyRateLimit", "authenticateWallet"} \in SUBSET Middleware
  BY Names
<1>2. Typed(authRoutes.initialize) /\ Typed(authRoutes.init)
  BY <1>1, RouteType, ServiceHandlers DEF authRoutes
<1>3. Typed(authRoutes.verify) /\ Typed(authRoutes.profile)
  BY <1>1, RouteType, ServiceHandlers DEF authRoutes
<1>4. Typed(authRoutes.logout) /\ Typed(authRoutes.validate)
  BY <1>1, RouteType, ServiceHandlers DEF authRoutes
<1>5. DOMAIN authRoutes = {"initialize", "init", "verify", "profile", "logout", "validate"}
  BY DEF authRoutes
<1> QED BY <1>2, <1>3, <1>4, <1>5

LEMMA BidTyped == \A x \in DOMAIN bidRoutes : Typed(bidRoutes[x])
<1>1. {"bidRateLimit", "placeBidRateLimit", "authenticateWallet", "adminAuth"} \in SUBSET Middleware
  BY Names
<1>2. Typed(bidRoutes.place) /\ Typed(bidRoutes.get)
  BY <1>1, RouteType, ServiceHandlers DEF bidRoutes
<1>3. Typed(bidRoutes.cancel) /\ Typed(bidRoutes.status)
  BY <1>1, RouteType, ServiceHandlers DEF bidRoutes
<1>4. DOMAIN bidRoutes = {"place", "get", "cancel", "status"}
  BY DEF bidRoutes
<1> QED BY <1>2, <1>3, <1>4

LEMMA SupplyTyped == \A x \in DOMAIN supplyRoutes : Typed(supplyRoutes[x])
<1>1. {"supplyRateLimit", "placeSupplyRateLimit", "authenticateWallet", "adminAuth"} \in SUBSET Middleware
  BY Names
<1>2. Typed(supplyRoutes.place) /\ Typed(supplyRoutes.get)
  BY <1>1, RouteType, ServiceHandlers DEF supplyRoutes
<1>3. Typed(supplyRoutes.cancel) /\ Typed(supplyRoutes.status)
  BY <1>1, RouteType, ServiceHandlers DEF supplyRoutes
<1>4. DOMAIN supplyRoutes = {"place", "get", "cancel", "status"}
  BY DEF supplyRoutes
<1> QED BY <1>2, <1>3, <1>4

LEMMA UserTyped == \A x \in DOMAIN userRoutes : Typed(userRoutes[x])
<1>1. {"userRateLimit", "authenticateWallet"} \in SUBSET Middleware
  BY Names
<1>2. Typed(userRoutes.bids) /\ Typed(userRoutes.supplies)
  BY <1>1, RouteType, ServiceHandlers DEF userRoutes
<1>3. DOMAIN userRoutes = {"bids", "supplies"}
  BY DEF userRoutes
<1> QED BY <1>2, <1>3

LEMMA TimeslotTyped == \A x \in DOMAIN timeslotRoutes : Typed(timeslotRoutes[x])
<1>1. /\ <<>> \in Seq(Middleware) /\ <<"timeslotRateLimit">> \in Seq(Middleware)
      /\ <<"requireAuth">> \in Seq(Middleware) /\ <<"optionalAuth">> \in Seq(Middleware)
  BY Names, MiddlewareSequences
<1>2. "timeslotModifyRateLimit" \in Middleware /\ "requireAuth" \in Middleware
  BY Names
<1>3. Typed(timeslotRoutes.active) /\ Typed(timeslotRoutes.upcoming)
  BY <1>1, <1>2, RouteType, ServiceHandlers, OwnHandlers DEF timeslotRoutes
<1>4. Typed(timeslotRoutes.list) /\ Typed(timeslotRoutes.get)
  BY <1>1, <1>2, RouteType, ServiceHandlers, OwnHandlers DEF timeslotRoutes
<1>5. Typed(timeslotRoutes.stats) /\ Typed(timeslotRoutes.bids)
  BY <1>1, <1>2, RouteType, ServiceHandlers, OwnHandlers DEF timeslotRoutes
<1>6. Typed(timeslotRoutes.bidStats) /\ Typed(timeslotRoutes.supplies)
  BY <1>1, <1>2, RouteType, ServiceHandlers, OwnHandlers DEF timeslotRoutes
<1>7. Typed(timeslotRoutes.supplyStats) /\ Typed(timeslotRoutes.create)
  BY <1>1, <1>2, RouteType, ServiceHandlers, OwnHandlers DEF timeslotRoutes
<1>8. Typed(timeslotRoutes.update) /\ Typed(timeslotRoutes.seal)
  BY <1>1, <1>2, RouteType, ServiceHandlers, OwnHandlers DEF timeslotRoutes
<1>9. Typed(timeslotRoutes.settle) /\ Typed(timeslotRoutes.cancel)
  BY <1>1, <1>2, RouteType, ServiceHandlers, OwnHandlers DEF timeslotRoutes
<1>10. DOMAIN timeslotRoutes =
        {"active", "upcoming", "list", "get", "stats", "bids",
         "bidStats", "supplies", "supplyStats", "create", "update", "seal",
         "settle", "cancel"}
  BY DEF timeslotRoutes
<1> QED BY <1>3, <1>4, <1>5, <1>6, <1>7, <1>8, <1>9, <1>10

LEMMA BlockchainTyped == \A x \in DOMAIN blockchainRoutes : Typed(blockchainRoutes[x])
<1>1. /\ <<"requireAuth">> \in Seq(Middleware) /\ <<"heavyBlockchainRateLimit">> \in Seq(Middleware)
  BY Names, MiddlewareSequences
<1>2. "blockchainRateLimit" \in Middleware /\ "heavyBlockchainRateLimit" \in Middleware
  BY Names
<1>3. Typed(blockchainRoutes.health) /\ Typed(blockchainRoutes.globalState)
  BY <1>1, <1>2, RouteType, OwnHandlers DEF blockchainRoutes
<1>4. Typed(blockchainRoutes.timeInfo) /\ Typed(blockchainRoutes.active)
  BY <1>1, <1>2, RouteType, OwnHandlers DEF blockchainRoutes
<1>5. Typed(blockchainRoutes.timeslot) /\ Typed(blockchainRoutes.bids)
  BY <1>1, <1>2, RouteType, OwnHandlers DEF blockchainRoutes
<1>6. Typed(blockchainRoutes.supplies) /\ Typed(blockchainRoutes.balance)
  BY <1>1, <1>2, RouteType, OwnHandlers DEF blockchainRoutes
<1>7. Typed(blockchainRoutes.userBids) /\ Typed(blockchainRoutes.userSupplies)
  BY <1>1, <1>2, RouteType, OwnHandlers DEF blockchainRoutes
<1>8. Typed(blockchainRoutes.validateBid) /\ Typed(blockchainRoutes.validateSupply)
  BY <1>1, <1>2, RouteType, OwnHandlers DEF blockchainRoutes
<1>9. Typed(blockchainRoutes.pdaAddresses)
  BY <1>1, <1>2, RouteType, OwnHandlers DEF blockchainRoutes
<1>10. DOMAIN blockchainRoutes =
        {"health", "globalState", "timeInfo", "active", "timeslot", "bids",
         "supplies", "balance", "userBids", "userSupplies", "validateBid", "validateSupply",
         "pdaAddresses"}
  BY DEF blockchainRoutes
<1> QED BY <1>3, <1>4, <1>5, <1>6, <1>7, <1>8, <1>9, <1>10

LEMMA OtherTyped ==
  /\ \A x \in DOMAIN websocketRoutes : Typed(websocketRoutes[x])
  /\ \A x \in DOMAIN appRoutes : Typed(appRoutes[x])
BY RouteType, OwnHandlers DEF websocketRoutes, appRoutes

LEMMA RoutesTyped ==
  \A x \in DOMAIN routes : \A y \in DOMAIN routes[x] : Typed(routes[x][y])
BY AuthTyped, BidTyped, SupplyTyped, UserTyped, TimeslotTyped, BlockchainTyped, OtherTyped
   DEF routes

-----------------------------------------------------------------------------
(* The inductive invariant *)

\* A request under way that may come to a guarded operation has a gate before
\* it, or has a user, or is one that the controller refuses without a user.
Gated(q, h) ==
  /\ \/ h.op \notin Guarded \/ h.noUser # None
     \/ q.state # "called" /\ \E l \in Limiters, g \in Gates : q.rest = <<l, g>>
     \/ q.state # "called" /\ \E g \in Gates : q.rest = <<g>>
     \/ q.user # None /\ q.rest = <<>>
  /\ q.state = "called" => q.user # None \/ h.noUser = None

UnderWay == {"routing", "validating", "called"}

Good(q, rs) ==
  /\ q.answers = IF q.state = "answered" THEN 1 ELSE 0
  /\ q.user = None \/ q.user = q.token
  /\ q.state = "validating" => q.rest # <<>>
  /\ q.state \in UnderWay => q.route \in DOMAIN rs /\ Gated(q, rs[q.route].handler)

GatewayInv ==
  /\ TypeOK
  /\ \A r \in Requests : Good(req[r], routes[router])

LEMMA Sequences ==
  /\ \A a, b : Head(<<a, b>>) = a /\ Tail(<<a, b>>) = <<b>> /\ <<a, b>> # <<>>
  /\ \A a : Head(<<a>>) = a /\ Tail(<<a>>) = <<>> /\ <<a>> # <<>>
OBVIOUS

LEMMA LimitersAreNoGates ==
  Limiters \cap Gates = {} /\ "optionalAuth" \notin Gates /\ "requireAuth" \notin Gates
BY DEF Limiters, AuthLimiters, WalletLimiters, TimeslotLimiters, ChainLimiters, Gates

LEMMA IdleGood == Idle \in Request /\ \A rs : Good(Idle, rs)
<1>1. <<>> \in Seq(Middleware)
  BY MiddlewareSequences
<1> QED BY <1>1 DEF Good, Idle, Request, UnderWay, Middleware

LEMMA GatewayInit == Init => GatewayInv
BY IdleGood DEF Init, GatewayInv, TypeOK

\* A step of one request.
LEMMA Becoming ==
  ASSUME GatewayInv, NEW r \in Requests, NEW q \in Request, Becomes(r, q),
         Good(q, routes[router]), router' = router, live' = live,
         hits' \in [Limiters -> [Keys -> Nat]]
  PROVE  GatewayInv'
<1>1. req' = [x \in Requests |-> IF x = r THEN q ELSE req[x]]
  BY DEF GatewayInv, TypeOK, Becomes
<1>2. \A x \in Requests : req'[x] \in Request /\ Good(req'[x], routes[router])
  BY <1>1 DEF GatewayInv, TypeOK
<1>3. Request' = Request
  BY DEF Request
<1>4. TypeOK'
  BY <1>1, <1>2, <1>3 DEF GatewayInv, TypeOK
<1> QED BY <1>2, <1>4 DEF GatewayInv

LEMMA Answering ==
  ASSUME GatewayInv, NEW r \in Requests, NEW s \in Statuses, Answer(r, s),
         req[r].state # "answered", router' = router, live' = live,
         hits' \in [Limiters -> [Keys -> Nat]]
  PROVE  GatewayInv'
<1> DEFINE q == [Idle EXCEPT !.state = "answered", !.token = req[r].token,
                    !.started = req[r].started, !.status = s, !.answers = req[r].answers + 1]
<1>1. req[r].answers = 0 /\ req[r] \in Request
  BY DEF GatewayInv, Good, TypeOK
<1>2. q \in Request
  <2>1. /\ req[r].answers + 1 \in Nat /\ req[r].token \in Wallets \cup {None}
        /\ req[r].started \in BOOLEAN /\ s \in Statuses \cup {None}
    BY <1>1 DEF Request
  <2> QED BY <2>1, IdleGood DEF Request
<1>3. q.answers = 1 /\ q.state = "answered" /\ q.user = None
  BY <1>1 DEF Idle
<1>4. Becomes(r, q)
  BY DEF Answer
<1>5. Good(q, routes[router])
  BY <1>3 DEF Good, UnderWay
<1> HIDE DEF q
<1> QED BY <1>2, <1>4, <1>5, Becoming

\* next(), called by a limiter or by one of the middlewares for a user.
LEMMA Proceeding ==
  ASSUME GatewayInv, NEW r \in Requests, NEW user \in Wallets \cup {None}, Proceed(r, user),
         req[r].state \in {"routing", "validating"}, req[r].rest # <<>>,
         user = None \/ user = req[r].token,
         Head(req[r].rest) \in Gates => user # None,
         router' = router, live' = live, hits' \in [Limiters -> [Keys -> Nat]]
  PROVE  GatewayInv'
<1> DEFINE q == [req[r] EXCEPT !.state = "routing", !.rest = Tail(@), !.user = user]
<1>1. req[r] \in Request /\ Good(req[r], routes[router])
  BY DEF GatewayInv, TypeOK
<1>2. Tail(req[r].rest) \in Seq(Middleware)
  BY <1>1 DEF Request, Middleware
<1>3. q \in Request
  BY <1>1, <1>2 DEF Request, Middleware
<1>4. /\ q.state = "routing" /\ q.rest = Tail(req[r].rest) /\ q.user = user
      /\ q.route = req[r].route /\ q.token = req[r].token /\ q.answers = req[r].answers
  BY <1>1 DEF Request
<1>5. Becomes(r, q)
  BY DEF Proceed
<1> HIDE DEF q
<1>6. Gated(req[r], routes[router][req[r].route].handler) /\ req[r].route \in DOMAIN routes[router]
  BY <1>1 DEF Good, UnderWay
<1>7. Gated(q, routes[router][q.route].handler)
  <2> DEFINE h == routes[router][req[r].route].handler
  <2>1. q.state # "called"
    BY <1>4
  <2>2. ASSUME NEW l \in Limiters, NEW g \in Gates, req[r].rest = <<l, g>>
        PROVE  q.rest = <<g>>
    BY <1>4, <2>2, Sequences
  <2>3. ASSUME NEW g \in Gates, req[r].rest = <<g>>
        PROVE  q.rest = <<>> /\ q.user # None
    BY <1>4, <2>3, Sequences
  <2>4. req[r].rest # <<>> /\ Gated(req[r], h)
    BY <1>6
  <2>5. Gated(q, h)
    BY <2>1, <2>2, <2>3, <2>4 DEF Gated
  <2> QED BY <1>4, <2>5
<1>8. Good(q, routes[router])
  BY <1>1, <1>4, <1>6, <1>7 DEF Good
<1> QED BY <1>3, <1>5, <1>8, Becoming

-----------------------------------------------------------------------------
(* Each step keeps the invariant *)

\* What is known of a request that is under way.
LEMMA Current ==
  ASSUME GatewayInv, NEW r \in Requests
  PROVE  /\ req[r] \in Request
         /\ req[r].answers = IF req[r].state = "answered" THEN 1 ELSE 0
         /\ req[r].user = None \/ req[r].user = req[r].token
         /\ req[r].state = "validating" => req[r].rest # <<>>
         /\ req[r].state \in UnderWay =>
              /\ req[r].route \in DOMAIN routes[router]
              /\ Gated(req[r], handler(r))
              /\ Refuses(handler(r))
         /\ hits \in [Limiters -> [Keys -> Nat]]
<1>1. req[r] \in Request /\ Good(req[r], routes[router]) /\ router \in DOMAIN routes
      /\ hits \in [Limiters -> [Keys -> Nat]]
  BY RouterAssumption DEF GatewayInv, TypeOK
<1> QED BY <1>1, RoutesTyped DEF Good, handler, Typed

LEMMA ArriveKeeps ==
  ASSUME GatewayInv, NEW r \in Requests, Arrive(r)
  PROVE  GatewayInv'
<1>1. PICK route \in DOMAIN routes[router], a \in Addresses, token \in Wallets \cup {None} :
        Becomes(r, [Idle EXCEPT !.state = "routing", !.route = route, !.address = a,
                       !.token = token, !.rest = routes[router][route].before])
  BY DEF Arrive
<1> DEFINE x == routes[router][route]
           q == [Idle EXCEPT !.state = "routing", !.route = route, !.address = a,
                    !.token = token, !.rest = x.before]
<1>2. router \in DOMAIN routes
  BY RouterAssumption DEF GatewayInv, TypeOK
<1>3. Typed(x) /\ Guards(x)
  BY <1>2, RoutesTyped, RoutesGuard
<1>4. q \in Request
  <2>1. x.before \in Seq(Middleware)
    BY <1>3 DEF Typed
  <2> HIDE DEF x
  <2> QED BY <2>1, IdleGood DEF Request, Middleware
<1>5. /\ q.state = "routing" /\ q.route = route /\ q.token = token /\ q.rest = x.before
      /\ q.user = None /\ q.answers = 0
  BY DEF Idle
<1>6. Becomes(r, q)
  BY <1>1
<1> HIDE DEF q
<1>7. Gated(q, x.handler)
  BY <1>3, <1>5 DEF Guards, Gated
<1>8. Good(q, routes[router])
  BY <1>5, <1>7 DEF Good
<1>9. hits' \in [Limiters -> [Keys -> Nat]] /\ router' = router /\ live' = live
  BY Current DEF Arrive
<1> QED BY <1>4, <1>6, <1>8, <1>9, Becoming

LEMMA LimiterKeeps ==
  ASSUME GatewayInv, NEW r \in Requests, NEW l \in Limiters, CountHit(r, l)
  PROVE  GatewayInv'
<1>1. hits' \in [Limiters -> [Keys -> Nat]] /\ router' = router /\ live' = live
  <2>1. hits \in [Limiters -> [Keys -> Nat]]
    BY Current
  <2>2. ASSUME NEW k
        PROVE  [hits EXCEPT ![l][k] = IF @ < Max[l] THEN @ + 1 ELSE @]
                 \in [Limiters -> [Keys -> Nat]]
    <3>1. \A n \in Nat : (IF n < Max[l] THEN n + 1 ELSE n) \in Nat
      OBVIOUS
    <3>2. [hits[l] EXCEPT ![k] = IF @ < Max[l] THEN @ + 1 ELSE @] \in [Keys -> Nat]
      BY <2>1, <3>1
    <3> QED BY <2>1, <3>2
  <2> QED BY <2>2 DEF CountHit
<1>2. /\ req[r].state = "routing" /\ req[r].rest # <<>> /\ Head(req[r].rest) \notin Gates
  BY LimitersAreNoGates DEF CountHit, At
<1>3. 429 \in Statuses
  BY DEF Statuses
<1>4. CASE Answer(r, 429)
  BY <1>1, <1>2, <1>3, <1>4, Answering
<1>5. CASE Proceed(r, req[r].user)
  <2>1. /\ req[r].user \in Wallets \cup {None}
        /\ req[r].user = None \/ req[r].user = req[r].token
    BY Current DEF Request
  <2> QED BY <1>1, <1>2, <1>5, <2>1, Proceeding
<1> QED BY <1>4, <1>5 DEF CountHit

\* authenticateWallet and optionalAuth
LEMMA AuthenticationKeeps ==
  ASSUME GatewayInv, NEW r \in Requests, ReadHeader(r) \/ UserFound(r) \/ UserRefused(r)
  PROVE  GatewayInv'
<1>1. hits' \in [Limiters -> [Keys -> Nat]] /\ router' = router /\ live' = live
  BY Current DEF ReadHeader, UserFound, UserRefused
<1>2. 401 \in Statuses
  BY DEF Statuses
<1>3. CASE ReadHeader(r)
  <2>1. req[r].state = "routing" /\ req[r].rest # <<>>
    BY <1>3 DEF ReadHeader, At
  <2>2. CASE Answer(r, 401)
    BY <1>1, <1>2, <2>1, <2>2, Answering
  <2>3. CASE At(r, "optionalAuth") /\ Proceed(r, None)
    <3>1. Head(req[r].rest) \notin Gates
      BY <2>3, LimitersAreNoGates DEF At
    <3> QED BY <1>1, <2>1, <2>3, <3>1, Proceeding
  <2>4. CASE Becomes(r, [req[r] EXCEPT !.state = "validating"])
    <3> DEFINE q == [req[r] EXCEPT !.state = "validating"]
    <3>1. q \in Request
      <4>1. req[r] \in Request
        BY Current
      <4> QED BY <4>1 DEF Request
    <3>2. /\ q.state = "validating" /\ q.rest = req[r].rest /\ q.user = req[r].user
          /\ q.token = req[r].token /\ q.route = req[r].route /\ q.answers = req[r].answers
      BY Current DEF Request
    <3>3. Becomes(r, q)
      BY <2>4
    <3> HIDE DEF q
    <3>4. /\ req[r].route \in DOMAIN routes[router] /\ Gated(req[r], handler(r))
          /\ req[r].answers = 0
          /\ req[r].user = None \/ req[r].user = req[r].token
      BY <2>1, Current DEF UnderWay
    <3>5. Gated(q, handler(r))
      BY <2>1, <3>2, <3>4 DEF Gated
    <3>6. Good(q, routes[router])
      BY <2>1, <3>2, <3>4, <3>5 DEF Good, handler
    <3> QED BY <1>1, <3>1, <3>3, <3>6, Becoming
  <2> QED BY <1>3, <2>2, <2>3, <2>4 DEF ReadHeader
<1>4. CASE UserFound(r)
  <2>1. req[r].state = "validating" /\ req[r].rest # <<>> /\ Proceed(r, req[r].token)
        /\ req[r].token \in Wallets /\ req[r].token # None
    BY <1>4, Current, GatewayAssumption DEF UserFound, GatewayInv, TypeOK
  <2> QED BY <1>1, <2>1, Proceeding
<1>5. CASE UserRefused(r)
  <2>1. req[r].state = "validating" /\ req[r].rest # <<>>
    BY <1>5, Current DEF UserRefused
  <2>2. CASE Answer(r, 401)
    BY <1>1, <1>2, <2>1, <2>2, Answering
  <2>3. CASE Head(req[r].rest) = "optionalAuth" /\ Proceed(r, None)
    BY <1>1, <2>1, <2>3, LimitersAreNoGates, Proceeding
  <2> QED BY <1>5, <2>2, <2>3 DEF UserRefused
<1> QED BY <1>3, <1>4, <1>5

LEMMA OtherMiddlewareKeeps ==
  ASSUME GatewayInv, NEW r \in Requests, requireAuth(r) \/ adminAuth(r)
  PROVE  GatewayInv'
<1>1. hits' \in [Limiters -> [Keys -> Nat]] /\ router' = router /\ live' = live
  BY Current DEF requireAuth, adminAuth
<1>2. 401 \in Statuses /\ 500 \in Statuses
  BY DEF Statuses
<1>3. req[r].state = "routing" /\ req[r].rest # <<>>
  BY DEF requireAuth, adminAuth, At
<1>4. CASE Answer(r, 401) \/ Answer(r, 500)
  BY <1>1, <1>2, <1>3, <1>4, Answering
<1>5. CASE At(r, "requireAuth") /\ Proceed(r, req[r].user)
  <2>1. /\ req[r].user \in Wallets \cup {None}
        /\ req[r].user = None \/ req[r].user = req[r].token
    BY Current DEF Request
  <2>2. Head(req[r].rest) \notin Gates
    BY <1>5, LimitersAreNoGates DEF At
  <2> QED BY <1>1, <1>3, <1>5, <2>1, <2>2, Proceeding
<1> QED BY <1>4, <1>5 DEF requireAuth, adminAuth

LEMMA ControllerKeeps ==
  ASSUME GatewayInv, NEW r \in Requests,
         \/ RefuseAnonymous(r) \/ RefuseInput(r) \/ AnswerAtOnce(r)
         \/ Call(r) \/ Return(r) \/ Throw(r)
  PROVE  GatewayInv'
<1>1. hits' \in [Limiters -> [Keys -> Nat]] /\ router' = router /\ live' = live
  BY Current DEF RefuseAnonymous, RefuseInput, AnswerAtOnce, Call, Return, Throw
<1>2. req[r].state \in UnderWay /\ req[r].state # "answered"
  BY DEF RefuseAnonymous, RefuseInput, AnswerAtOnce, Call, Return, Throw, Handling, UnderWay
<1>3. Refuses(handler(r)) /\ Gated(req[r], handler(r)) /\ req[r].route \in DOMAIN routes[router]
  BY <1>2, Current
<1>4. CASE RefuseAnonymous(r) \/ RefuseInput(r)
  <2>1. PICK s \in Statuses : Answer(r, s)
    BY <1>3, <1>4 DEF RefuseAnonymous, RefuseInput, Anonymous, Refuses
  <2> QED BY <1>1, <1>2, <2>1, Answering
<1>5. CASE AnswerAtOnce(r) \/ Return(r)
  <2>1. 200 \in Statuses /\ Answer(r, 200)
    BY <1>5 DEF AnswerAtOnce, Return, Statuses
  <2> QED BY <1>1, <1>2, <2>1, Answering
<1>6. CASE Throw(r)
  <2>1. \A e : StatusOf(handler(r), e) \in Statuses
    BY <1>3 DEF StatusOf, AppError, Refuses, Statuses
  <2>2. PICK s \in Statuses : Answer(r, s)
    BY <1>6, <2>1, SMTT(30) DEF Throw
  <2> QED BY <1>1, <1>2, <2>2, Answering
<1>7. CASE Call(r)
  <2> DEFINE q == [req[r] EXCEPT !.state = "called", !.started = TRUE]
  <2>1. q \in Request
    BY Current DEF Request
  <2>2. /\ q.state = "called" /\ q.rest = <<>> /\ q.user = req[r].user /\ req[r].rest = <<>>
        /\ q.token = req[r].token /\ q.route = req[r].route /\ q.answers = req[r].answers
    BY <1>7, Current DEF Request, Call, Handling
  <2>3. Becomes(r, q)
    BY <1>7 DEF Call
  <2> HIDE DEF q
  <2>4. q.user # None \/ handler(r).noUser = None
    BY <1>7, <2>2 DEF Call, Anonymous
  <2>5. Gated(q, handler(r))
    BY <1>3, <2>2, <2>4, Sequences DEF Gated
  <2>6. req[r].answers = 0 /\ (req[r].user = None \/ req[r].user = req[r].token)
    BY <1>2, Current
  <2>7. Good(q, routes[router])
    BY <1>3, <2>2, <2>5, <2>6 DEF Good, handler
  <2> QED BY <1>1, <2>1, <2>3, <2>7, Becoming
<1> QED BY <1>4, <1>5, <1>6, <1>7

LEMMA GatewayStep == GatewayInv /\ [Next]_vars => GatewayInv'
<1> SUFFICES ASSUME GatewayInv, [Next]_vars PROVE GatewayInv'
  OBVIOUS
<1>1. ASSUME NEW r \in Requests, Step(r)
      PROVE  GatewayInv'
  BY <1>1, LimiterKeeps, AuthenticationKeeps, OtherMiddlewareKeeps, ControllerKeeps DEF Step
<1>2. ASSUME NEW r \in Requests, ArriveMalformed(r)
      PROVE  GatewayInv'
  <2>1. /\ hits' \in [Limiters -> [Keys -> Nat]] /\ router' = router /\ live' = live
        /\ 500 \in Statuses /\ req[r].state # "answered" /\ Answer(r, 500)
    BY <1>2, Current DEF ArriveMalformed, Statuses
  <2> QED BY <2>1, Answering
<1>3. ASSUME NEW r \in Requests, Leave(r)
      PROVE  GatewayInv'
  <2>1. hits' \in [Limiters -> [Keys -> Nat]] /\ router' = router /\ live' = live
        /\ Becomes(r, Idle)
    BY <1>3, Current DEF Leave
  <2> QED BY <2>1, IdleGood, Becoming
<1>4. CASE Exit
  <2>1. \A r \in Requests : req'[r] = Idle
    BY <1>4 DEF Exit
  <2>2. Request' = Request
    BY <1>4 DEF Exit, Request
  <2>3. TypeOK'
    BY <1>4, <2>2, IdleGood DEF Exit, GatewayInv, TypeOK
  <2> QED BY <2>1, <2>3, IdleGood DEF GatewayInv
<1>5. CASE \/ \E w \in Wallets : TokenExpires(w)
           \/ \E l \in Limiters, k \in Keys : NewWindow(l, k)
           \/ UNCHANGED vars
  <2>1. req' = req /\ router' = router /\ live' \subseteq live
    BY <1>5 DEF TokenExpires, NewWindow, vars
  <2>2. hits' \in [Limiters -> [Keys -> Nat]]
    BY <1>5 DEF TokenExpires, NewWindow, vars, GatewayInv, TypeOK
  <2>3. Request' = Request
    BY <2>1 DEF Request
  <2> QED BY <2>1, <2>2, <2>3 DEF GatewayInv, TypeOK
<1> QED BY <1>1, <1>2, <1>3, <1>4, <1>5, ArriveKeeps DEF Next

-----------------------------------------------------------------------------
\* Requests, limits and tokens keep their types: whatever is answered has one
\* of the statuses that the code knows.
THEOREM TypeCorrect == Spec => []TypeOK
<1>1. GatewayInv => TypeOK
  BY DEF GatewayInv
<1> QED BY <1>1, GatewayInit, GatewayStep, PTL DEF Spec

\* No request is ever answered twice, on any route and in any order of
\* refusals, expiries and failing calls.
THEOREM RequestsAnsweredOnce == Spec => []AnsweredOnce
<1>1. GatewayInv => AnsweredOnce
  BY DEF GatewayInv, Good, AnsweredOnce
<1> QED BY <1>1, GatewayInit, GatewayStep, PTL DEF Spec

\* Every guarded operation is started for the wallet whose token the request
\* carried, on every route there is.
THEOREM OnlyTokenHoldersAct == Spec => []ActsForTokenHolder
<1>1. GatewayInv => ActsForTokenHolder
  BY DEF GatewayInv, Good, Gated, UnderWay, ActsForTokenHolder, handler
<1> QED BY <1>1, GatewayInit, GatewayStep, PTL DEF Spec

-----------------------------------------------------------------------------
(* Routes that refuse everybody *)

\* A request to one of them waits for its limiter or for requireAuth, and nothing
\* on its way has set a user.
Shut(q) ==
  /\ q.state = "routing" /\ q.user = None
  /\ q.rest = <<"requireAuth">> \/ \E l \in Limiters : q.rest = <<l, "requireAuth">>

ShutInv ==
  \A r \in Requests :
    router = "timeslots" /\ req[r].state \in UnderWay /\ req[r].route \in AdminTimeslotRoutes =>
      Shut(req[r])

LEMMA ShutBefore ==
  ASSUME NEW x \in AdminTimeslotRoutes
  PROVE  \E l \in Limiters : timeslotRoutes[x].before = <<l, "requireAuth">>
<1>1. "timeslotModifyRateLimit" \in Limiters
  BY DEF Limiters, TimeslotLimiters
<1>2. /\ timeslotRoutes.create.before = <<"timeslotModifyRateLimit", "requireAuth">>
      /\ timeslotRoutes.update.before = <<"timeslotModifyRateLimit", "requireAuth">>
      /\ timeslotRoutes.seal.before = <<"timeslotModifyRateLimit", "requireAuth">>
      /\ timeslotRoutes.settle.before = <<"timeslotModifyRateLimit", "requireAuth">>
      /\ timeslotRoutes.cancel.before = <<"timeslotModifyRateLimit", "requireAuth">>
  BY DEF timeslotRoutes, Route
<1> QED BY <1>1, <1>2 DEF AdminTimeslotRoutes

LEMMA ShutHead ==
  ASSUME NEW q, Shut(q)
  PROVE  /\ q.rest # <<>>
         /\ Head(q.rest) \in Limiters => Tail(q.rest) = <<"requireAuth">>
         /\ Head(q.rest) \in Limiters \cup {"requireAuth"}
<1>1. "requireAuth" \notin Limiters
  BY DEF Limiters, AuthLimiters, WalletLimiters, TimeslotLimiters, ChainLimiters
<1>2. CASE q.rest = <<"requireAuth">>
  <2>1. q.rest # <<>> /\ Head(q.rest) = "requireAuth"
    BY <1>2, Sequences
  <2> QED BY <1>1, <2>1
<1>3. ASSUME NEW l \in Limiters, q.rest = <<l, "requireAuth">>
      PROVE  q.rest # <<>> /\ Head(q.rest) = l /\ Tail(q.rest) = <<"requireAuth">>
  BY <1>3, Sequences
<1> QED BY <1>2, <1>3 DEF Shut

\* A step of a request is its answer, or leaves it on its route.
LEMMA StepKinds ==
  ASSUME GatewayInv, NEW r \in Requests, Step(r)
  PROVE  /\ router' = router
         /\ \/ \E s : Answer(r, s)
            \/ \E user : Proceed(r, user)
            \/ Becomes(r, [req[r] EXCEPT !.state = "validating"])
            \/ Becomes(r, [req[r] EXCEPT !.state = "called", !.started = TRUE])
<1>1. CASE \E l \in Limiters : CountHit(r, l)
  BY <1>1 DEF CountHit
<1>2. CASE ReadHeader(r) \/ UserFound(r) \/ UserRefused(r)
  BY <1>2 DEF ReadHeader, UserFound, UserRefused
<1>3. CASE requireAuth(r) \/ adminAuth(r)
  BY <1>3 DEF requireAuth, adminAuth
<1>4. CASE RefuseAnonymous(r) \/ RefuseInput(r) \/ AnswerAtOnce(r) \/ Call(r)
  BY <1>4 DEF RefuseAnonymous, RefuseInput, AnswerAtOnce, Call
<1>5. CASE Return(r) \/ Throw(r)
  BY <1>5 DEF Return, Throw
<1> QED BY <1>1, <1>2, <1>3, <1>4, <1>5 DEF Step

\* What becomes of the request, and of the others.
LEMMA StepEffects ==
  ASSUME GatewayInv, NEW r \in Requests, Step(r)
  PROVE  /\ \A x \in Requests \ {r} : req'[x] = req[x]
         /\ req'[r].state # "answered" => req'[r].route = req[r].route
<1>1. req \in [Requests -> Request] /\ req[r] \in Request
  BY DEF GatewayInv, TypeOK
<1>2. ASSUME NEW s, Answer(r, s)
      PROVE  req'[r].state = "answered" /\ \A x \in Requests \ {r} : req'[x] = req[x]
  BY <1>1, <1>2 DEF Answer, Becomes, Idle
<1>3. ASSUME NEW user, Proceed(r, user)
      PROVE  req'[r].route = req[r].route /\ \A x \in Requests \ {r} : req'[x] = req[x]
  BY <1>1, <1>3 DEF Proceed, Becomes, Request
<1>4. ASSUME \/ Becomes(r, [req[r] EXCEPT !.state = "validating"])
             \/ Becomes(r, [req[r] EXCEPT !.state = "called", !.started = TRUE])
      PROVE  req'[r].route = req[r].route /\ \A x \in Requests \ {r} : req'[x] = req[x]
  <2> DEFINE v == [req[r] EXCEPT !.state = "validating"]
             c == [req[r] EXCEPT !.state = "called", !.started = TRUE]
  <2>1. v.route = req[r].route
    BY <1>1 DEF Request
  <2>2. c.route = req[r].route
    BY <1>1 DEF Request
  <2>3. Becomes(r, v) \/ Becomes(r, c)
    BY <1>4
  <2> HIDE DEF v, c
  <2> QED BY <1>1, <2>1, <2>2, <2>3 DEF Becomes
<1> QED BY <1>2, <1>3, <1>4, StepKinds

\* Its own step leaves such a request before requireAuth, or answers it.
LEMMA ShutOwnStep ==
  ASSUME GatewayInv, NEW r \in Requests, Shut(req[r]), Step(r)
  PROVE  Shut(req'[r]) \/ req'[r].state = "answered"
<1>1. req[r] \in Request /\ req \in [Requests -> Request]
  BY DEF GatewayInv, TypeOK
<1>2. ASSUME NEW s, Answer(r, s) PROVE req'[r].state = "answered"
  BY <1>1, <1>2 DEF Answer, Becomes, Idle
<1>3. /\ req[r].state = "routing" /\ req[r].rest # <<>> /\ req[r].user = None
      /\ Head(req[r].rest) \in Limiters \cup {"requireAuth"}
  BY ShutHead DEF Shut
<1>4. {"authenticateWallet", "optionalAuth", "adminAuth"} \cap (Limiters \cup {"requireAuth"}) = {}
  BY DEF Limiters, AuthLimiters, WalletLimiters, TimeslotLimiters, ChainLimiters
<1>5. CASE \E l \in Limiters : CountHit(r, l)
  <2>1. PICK l \in Limiters : CountHit(r, l)
    BY <1>5
  <2>2. CASE Proceed(r, req[r].user)
    <3>1. Tail(req[r].rest) = <<"requireAuth">>
      BY <2>1, ShutHead DEF CountHit, At
    <3>2. req'[r].state = "routing" /\ req'[r].rest = <<"requireAuth">> /\ req'[r].user = None
      BY <1>1, <1>3, <2>2, <3>1 DEF Proceed, Becomes, Request
    <3> QED BY <3>2 DEF Shut
  <2> QED BY <1>2, <2>1, <2>2 DEF CountHit
<1>6. CASE requireAuth(r)
  BY <1>2, <1>3, <1>6 DEF requireAuth
<1>7. ~ (ReadHeader(r) \/ UserFound(r) \/ UserRefused(r) \/ adminAuth(r))
  BY <1>3, <1>4 DEF ReadHeader, UserFound, UserRefused, adminAuth, At
<1>8. ~ (RefuseAnonymous(r) \/ RefuseInput(r) \/ AnswerAtOnce(r) \/ Call(r) \/ Return(r) \/ Throw(r))
  BY <1>3 DEF RefuseAnonymous, RefuseInput, AnswerAtOnce, Call, Return, Throw, Handling
<1> QED BY <1>5, <1>6, <1>7, <1>8 DEF Step

LEMMA ShutStep == GatewayInv /\ ShutInv /\ [Next]_vars => ShutInv'
<1> SUFFICES ASSUME GatewayInv, ShutInv, [Next]_vars, NEW r \in Requests, router' = "timeslots",
                    req'[r].state \in UnderWay, req'[r].route \in AdminTimeslotRoutes
             PROVE  Shut(req'[r])
  BY DEF ShutInv, Shut
<1>1. req \in [Requests -> Request]
  BY DEF GatewayInv, TypeOK
<1>2. CASE req'[r] = req[r] /\ router' = router
  BY <1>2 DEF ShutInv
<1>3. ASSUME NEW x \in Requests, Step(x)
      PROVE  Shut(req'[r])
  <2>1. router' = router
    BY <1>3, StepKinds
  <2>2. CASE x # r
    BY <1>2, <1>3, <2>1, <2>2, StepEffects
  <2>3. CASE x = r
    <3>1. req'[r].state # "answered"
      BY DEF UnderWay
    <3>2. req[r].route \in AdminTimeslotRoutes
      BY <1>3, <2>3, <3>1, StepEffects
    <3>3. req[r].state \in UnderWay
      BY <1>3, <2>3 DEF Step, CountHit, ReadHeader, UserFound, UserRefused, requireAuth, adminAuth,
         RefuseAnonymous, RefuseInput, AnswerAtOnce, Call, Return, Throw, At, Handling, UnderWay
    <3> QED BY <1>3, <2>1, <2>3, <3>1, <3>2, <3>3, ShutOwnStep DEF ShutInv
  <2> QED BY <2>2, <2>3
<1>4. ASSUME NEW x \in Requests, Arrive(x)
      PROVE  Shut(req'[r])
  <2>1. CASE x # r
    BY <1>1, <1>2, <1>4, <2>1 DEF Arrive, Becomes
  <2>2. CASE x = r
    <3>1. router = "timeslots" /\ routes[router] = timeslotRoutes
      BY <1>4 DEF Arrive, routes
    <3>2. /\ req'[r].state = "routing" /\ req'[r].user = None
          /\ req'[r].rest = timeslotRoutes[req'[r].route].before
      BY <1>1, <1>4, <2>2, <3>1 DEF Arrive, Becomes, Idle
    <3> QED BY <3>2, ShutBefore DEF Shut
  <2> QED BY <2>1, <2>2
<1>5. ASSUME NEW x \in Requests, ArriveMalformed(x) \/ Leave(x)
      PROVE  Shut(req'[r])
  <2>1. router' = router /\ (x # r => req'[r] = req[r])
    BY <1>1, <1>5 DEF ArriveMalformed, Leave, Answer, Becomes
  <2>2. ASSUME Leave(x), x = r PROVE req'[r].state = "idle"
    BY <1>1, <2>2 DEF Leave, Becomes, Idle
  <2>3. ASSUME ArriveMalformed(x), x = r PROVE req'[r].state = "answered"
    BY <1>1, <2>3 DEF ArriveMalformed, Answer, Becomes, Idle
  <2> QED BY <1>2, <1>5, <2>1, <2>2, <2>3 DEF UnderWay
<1>6. CASE Exit
  <2>1. req'[r].state = "idle"
    BY <1>6 DEF Exit, Idle
  <2> QED BY <2>1 DEF UnderWay
<1>7. CASE \/ \E w \in Wallets : TokenExpires(w)
           \/ \E l \in Limiters, k \in Keys : NewWindow(l, k)
           \/ UNCHANGED vars
  BY <1>2, <1>7 DEF TokenExpires, NewWindow, vars
<1> QED BY <1>3, <1>4, <1>5, <1>6, <1>7 DEF Next

\* The operations that administer timeslots are started by no request, whoever
\* sends it and whatever token it carries.
THEOREM AdminTimeslotsRefuseAll == Spec => []AdminTimeslotsShut
<1>1. Init => ShutInv
  BY DEF Init, ShutInv, Idle, UnderWay
<1>2. ShutInv => AdminTimeslotsShut
  BY DEF ShutInv, Shut, AdminTimeslotsShut, UnderWay
<1> QED BY <1>1, <1>2, GatewayInit, GatewayStep, ShutStep, PTL DEF Spec
=============================================================================
