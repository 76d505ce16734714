------------------------------- MODULE Gateway -------------------------------
(***************************************************************************)
(* The HTTP layer: app.ts, the routers, their middleware and the           *)
(* controllers.  A request goes through the middleware of its route and    *)
(* then its controller method, which calls one operation of a service.     *)
(* Node interleaves requests only where one of them awaits: the look at    *)
(* the token and the service call; the other steps here are finer than the *)
(* code's.  What an operation does is modelled by its own module; here it  *)
(* succeeds or throws one of its service's errors.                         *)
(***************************************************************************)
EXTENDS Integers, Sequences, TLC

CONSTANTS
    Requests,       \* slots for requests in flight
    Wallets,
    Addresses,      \* of clients: req.ip
    None,
    Routers,        \* the routers that clients call
    Max,            \* the limit of each limiter: 5 to 100 in the code
    LookupFails     \* whether validateToken's database call may fail

AuthLimiters == {"authRateLimit", "verifyRateLimit"}
\* Their keyGenerator takes the wallet of req.user if there is one.
WalletLimiters ==
    {"bidRateLimit", "placeBidRateLimit", "supplyRateLimit", "placeSupplyRateLimit",
     "userRateLimit"}
TimeslotLimiters == {"timeslotRateLimit", "timeslotModifyRateLimit"}
ChainLimiters == {"blockchainRateLimit", "heavyBlockchainRateLimit"}
Limiters == AuthLimiters \cup WalletLimiters \cup TimeslotLimiters \cup ChainLimiters

ASSUME GatewayAssumption ==
    /\ None \notin Wallets \cup Addresses
    /\ Max \in [Limiters -> Nat \ {0}]
    /\ LookupFails \in BOOLEAN

-----------------------------------------------------------------------------
(* Errors and the statuses they are answered with *)

AppError ==
    [validation |-> 400, authentication |-> 401, notFound |-> 404, conflict |-> 409]
Errors == {"validation", "authentication", "notFound", "conflict", "fault"}
Statuses == {200, 400, 401, 404, 409, 429, 500, 503}

\* What the operations of the services throw; "fault" is any error that is no
\* AppError, such as one of the database or of the chain.
authService ==
    [initializeAuth |-> {"validation", "authentication"},
     verifyAndAuthenticate |-> {"validation", "authentication"},
     logout |-> {}]
bidChanges ==
    [placeBid |-> Errors \ {"authentication"}, cancelBid |-> {"validation", "notFound", "fault"},
     updateBidStatus |-> {"fault"}]
bidQueries ==
    [getBidById |-> {"validation", "notFound", "fault"}, getUserBids |-> {"fault"},
     getTimeslotBids |-> {"notFound", "fault"}, getBidStatistics |-> {"fault"}]
supplyChanges ==
    [placeSupply |-> Errors \ {"authentication"}, cancelSupply |-> Errors \ {"authentication"},
     updateSupplyStatus |-> {"fault"}]
supplyQueries ==
    [getSupplyById |-> {"notFound", "fault"}, getUserSupplies |-> {"fault"},
     getTimeslotSupplies |-> {"fault"}, getSupplyStatistics |-> {"fault"}]
\* cancelTimeslot is called, but the service does not have it.
timeslotChanges ==
    [createTimeslot |-> {"validation", "fault"}, cancelTimeslot |-> {"fault"},
     updateTimeslot |-> {"validation", "notFound", "fault"},
     sealTimeslot |-> {"validation", "notFound", "fault"},
     settleTimeslot |-> {"validation", "notFound", "fault"}]
timeslotQueries ==
    [getTimeslotById |-> {"notFound", "fault"}, listTimeslots |-> {"fault"},
     getActiveTimeslots |-> {"fault"}, getUpcomingTimeslots |-> {"fault"},
     getTimeslotStats |-> {"notFound", "fault"}]

\* The account of a timeslot may be missing.
chainService == [getTimeslot |-> {"notFound", "fault"}]

Throws(op) ==
    LET services == authService @@ bidChanges @@ bidQueries @@ supplyChanges @@ supplyQueries
                    @@ timeslotChanges @@ timeslotQueries @@ chainService
    IN  IF op \in DOMAIN services THEN services[op] ELSE {"fault"}

\* placeSupply reads .success of a number and refuses every balance; the controller
\* of createTimeslot passes no totalEnergy, which the database insists on.
NeverReturn == {"placeSupply", "createTimeslot", "cancelTimeslot"}

\* noUser and badInput: the status of a request without a user, and with input
\* that does not parse; None where the controller does not look.  own: the
\* errors of the operation answered with their own status, the others with fault.
Handler(noUser, badInput, op, own) ==
    [noUser |-> noUser, badInput |-> badInput, op |-> op, own |-> own, fault |-> 500]

\* asyncHandler passes every error to errorHandler, to which a ZodError is no AppError.
asyncHandler(noUser, badInput, op) == Handler(noUser, badInput, op, DOMAIN AppError)
Zod == 500

-----------------------------------------------------------------------------
(* auth.controller.ts *)

initializeAuth == asyncHandler(None, Zod, "initializeAuth")
verifyAuth == asyncHandler(None, Zod, "verifyAndAuthenticate")
getProfile == asyncHandler(401, None, None)
logout == asyncHandler(401, None, "logout")
validateToken == asyncHandler(401, None, None)

(* bid.controller.ts and supply.controller.ts *)

placeBid == asyncHandler(400, Zod, "placeBid")
getBidById == asyncHandler(None, None, "getBidById")
getMyBids == asyncHandler(400, Zod, "getUserBids")
cancelBid == asyncHandler(400, None, "cancelBid")
getTimeslotBids == asyncHandler(None, Zod, "getTimeslotBids")
getTimeslotBidStats == asyncHandler(None, None, "getBidStatistics")
updateBidStatus == asyncHandler(None, 400, "updateBidStatus")

placeSupply == asyncHandler(400, Zod, "placeSupply")
getSupplyById == asyncHandler(None, None, "getSupplyById")
getMySupplies == asyncHandler(400, Zod, "getUserSupplies")
cancelSupply == asyncHandler(400, None, "cancelSupply")
getTimeslotSupplies == asyncHandler(None, Zod, "getTimeslotSupplies")
getTimeslotSupplyStats == asyncHandler(None, None, "getSupplyStatistics")
updateSupplyStatus == asyncHandler(None, 400, "updateSupplyStatus")

(* timeslot.controller.ts: its methods answer their errors themselves.     *)

createTimeslot == Handler(401, 400, "createTimeslot", {"validation"})
getTimeslotById == Handler(None, None, "getTimeslotById", {"notFound"})
listTimeslots == Handler(None, 400, "listTimeslots", {})
getActiveTimeslots == Handler(None, None, "getActiveTimeslots", {})
getUpcomingTimeslots == Handler(None, 400, "getUpcomingTimeslots", {})
updateTimeslot == Handler(401, 400, "updateTimeslot", {"validation", "notFound"})
sealTimeslot == Handler(401, None, "sealTimeslot", {"validation", "notFound"})
settleTimeslot == Handler(401, None, "settleTimeslot", {"validation", "notFound"})
cancelTimeslot == Handler(401, None, "cancelTimeslot", {"validation", "notFound"})
getTimeslotStats == Handler(None, None, "getTimeslotStats", {"notFound"})

(* blockchain.controller.ts *)

getHealth == [Handler(None, None, "checkConnection", {}) EXCEPT !.fault = 503]
getGlobalState == Handler(None, None, "getGlobalState", {})
getTimeInfo == Handler(None, None, None, {})
getActiveSlots == Handler(None, None, "getActiveTimeslots", {})
\* Alone in telling a missing account from a failed call.
getTimeslot == Handler(None, 400, "getTimeslot", {"notFound"})
getSlotBids == Handler(None, 400, "getBidsForTimeslot", {})
getSlotSupplies == Handler(None, 400, "getSuppliesForTimeslot", {})
\* req.user! of a missing user throws a TypeError.
getUserBids == Handler(500, None, "getUserBids", {})
getUserSupplies == Handler(500, None, "getUserSupplies", {})
getAccountBalance == Handler(None, 400, "getAccountBalance", {})
validateBidParams == Handler(None, 400, None, {})
validateSupplyParams == Handler(None, 400, None, {})
getPDAAddresses == Handler(None, 400, None, {})

(* websocket.routes.ts and app.ts *)

connectionStats == Handler(None, None, "getConnectionStats", {})
testBroadcast == Handler(None, 400, "emitSystemAnnouncement", {})
alive == Handler(None, None, None, {})
notFoundHandler == Handler(404, None, None, {})

-----------------------------------------------------------------------------
(* The routers: the middleware before each handler *)

Route(before, handler) == [before |-> before, handler |-> handler]

authRoutes ==
    [initialize |-> Route(<<"authRateLimit">>, initializeAuth),
     init |-> Route(<<"authRateLimit">>, initializeAuth),
     verify |-> Route(<<"verifyRateLimit">>, verifyAuth),
     profile |-> Route(<<"authenticateWallet">>, getProfile),
     logout |-> Route(<<"authenticateWallet">>, logout),
     validate |-> Route(<<"authenticateWallet">>, validateToken)]

\* Mutant: the details of a bid behind optionalAuth, like those of a timeslot.
bidRoutesOptional ==
    [place |-> Route(<<"placeBidRateLimit", "authenticateWallet">>, placeBid),
     get |-> Route(<<"bidRateLimit", "optionalAuth">>, getBidById),
     cancel |-> Route(<<"bidRateLimit", "authenticateWallet">>, cancelBid),
     status |-> Route(<<"bidRateLimit", "adminAuth">>, updateBidStatus)]

bidRoutes ==
    [place |-> Route(<<"placeBidRateLimit", "authenticateWallet">>, placeBid),
     get |-> Route(<<"bidRateLimit", "authenticateWallet">>, getBidById),
     cancel |-> Route(<<"bidRateLimit", "authenticateWallet">>, cancelBid),
     status |-> Route(<<"bidRateLimit", "adminAuth">>, updateBidStatus)]

supplyRoutes ==
    [place |-> Route(<<"placeSupplyRateLimit", "authenticateWallet">>, placeSupply),
     get |-> Route(<<"supplyRateLimit", "authenticateWallet">>, getSupplyById),
     cancel |-> Route(<<"supplyRateLimit", "authenticateWallet">>, cancelSupply),
     status |-> Route(<<"supplyRateLimit", "adminAuth">>, updateSupplyStatus)]

\* Mounted under /users and under /my.
userRoutes ==
    [bids |-> Route(<<"userRateLimit", "authenticateWallet">>, getMyBids),
     supplies |-> Route(<<"userRateLimit", "authenticateWallet">>, getMySupplies)]

timeslotRoutes ==
    LET read(auth) == <<"timeslotRateLimit">> \o auth
        modify == <<"timeslotModifyRateLimit", "requireAuth">>
    IN  [active |-> Route(read(<<>>), getActiveTimeslots),
         upcoming |-> Route(read(<<>>), getUpcomingTimeslots),
         list |-> Route(read(<<"requireAuth">>), listTimeslots),
         get |-> Route(read(<<"optionalAuth">>), getTimeslotById),
         stats |-> Route(read(<<"optionalAuth">>), getTimeslotStats),
         bids |-> Route(read(<<"optionalAuth">>), getTimeslotBids),
         bidStats |-> Route(read(<<"optionalAuth">>), getTimeslotBidStats),
         supplies |-> Route(read(<<"optionalAuth">>), getTimeslotSupplies),
         supplyStats |-> Route(read(<<"optionalAuth">>), getTimeslotSupplyStats),
         create |-> Route(modify, createTimeslot),
         update |-> Route(modify, updateTimeslot),
         seal |-> Route(modify, sealTimeslot),
         settle |-> Route(modify, settleTimeslot),
         cancel |-> Route(modify, cancelTimeslot)]

blockchainRoutes ==
    LET light == <<"blockchainRateLimit">>
        heavy == <<"heavyBlockchainRateLimit">>
    IN  [health |-> Route(light, getHealth),
         globalState |-> Route(light, getGlobalState),
         timeInfo |-> Route(light, getTimeInfo),
         active |-> Route(light, getActiveSlots),
         timeslot |-> Route(light, getTimeslot),
         bids |-> Route(heavy, getSlotBids),
         supplies |-> Route(heavy, getSlotSupplies),
         balance |-> Route(light, getAccountBalance),
         userBids |-> Route(<<"requireAuth">> \o heavy, getUserBids),
         userSupplies |-> Route(<<"requireAuth">> \o heavy, getUserSupplies),
         validateBid |-> Route(light, validateBidParams),
         validateSupply |-> Route(light, validateSupplyParams),
         pdaAddresses |-> Route(light, getPDAAddresses)]

websocketRoutes ==
    [stats |-> Route(<<>>, connectionStats),
     testBroadcast |-> Route(<<>>, testBroadcast),
     health |-> Route(<<>>, connectionStats)]

\* The routes of app.ts and of routes/index.ts itself; other: no route matches.
appRoutes ==
    [health |-> Route(<<>>, alive), api |-> Route(<<>>, alive),
     apiHealth |-> Route(<<>>, alive), other |-> Route(<<>>, notFoundHandler)]

routes ==
    [auth |-> authRoutes, bids |-> bidRoutes, supplies |-> supplyRoutes,
     users |-> userRoutes, timeslots |-> timeslotRoutes, blockchain |-> blockchainRoutes,
     websocket |-> websocketRoutes, app |-> appRoutes]

ASSUME RouterAssumption == Routers \subseteq DOMAIN routes

-----------------------------------------------------------------------------
VARIABLES
    router,         \* the router whose routes this behaviour calls
    req,            \* the request of each slot
    hits,           \* requests counted by each limiter for each key in this window
    live            \* wallets whose token has not expired

vars == <<router, req, hits, live>>

\* state: "idle", "routing" through rest and the handler, "validating" the token,
\* "called" its operation, "answered".  started: it has called its operation.
Idle ==
    [state |-> "idle", route |-> None, address |-> None, token |-> None, rest |-> <<>>,
     user |-> None, started |-> FALSE, status |-> None, answers |-> 0]

Keys == Wallets \cup Addresses
Init ==
    /\ router \in Routers
    /\ req = [r \in Requests |-> Idle]
    /\ hits = [l \in Limiters |-> [k \in Keys |-> 0]]
    /\ live = Wallets

handler(r) == routes[router][req[r].route].handler
At(r, middleware) ==
    req[r].state = "routing" /\ req[r].rest # <<>> /\ Head(req[r].rest) = middleware

Becomes(r, q) == req' = [req EXCEPT ![r] = q]
\* next(): the rest of the route runs, for the given user.
Proceed(r, user) ==
    Becomes(r, [req[r] EXCEPT !.state = "routing", !.rest = Tail(@), !.user = user])
\* What is kept of a request that was answered is what its client saw.
Answer(r, status) ==
    Becomes(r, [Idle EXCEPT
        !.state = "answered", !.token = req[r].token, !.started = req[r].started,
        !.status = status, !.answers = req[r].answers + 1])

-----------------------------------------------------------------------------
(* Middleware *)

\* A client sends a request, with the token of a wallet in its header or without.
Arrive(r) ==
    /\ req[r].state = "idle"
    /\ \E route \in DOMAIN routes[router], a \in Addresses, token \in Wallets \cup {None} :
          Becomes(r, [Idle EXCEPT
              !.state = "routing", !.route = route, !.address = a, !.token = token,
              !.rest = routes[router][route].before])
    /\ UNCHANGED <<router, hits, live>>

\* express.json comes before every router, and to errorHandler the error of a
\* body that is no JSON is no AppError.
ArriveMalformed(r) ==
    /\ req[r].state = "idle"
    /\ Answer(r, 500)
    /\ UNCHANGED <<router, hits, live>>

KeyOf(r, l) ==
    IF l \in WalletLimiters /\ req[r].user # None THEN req[r].user ELSE req[r].address

\* Beyond its limit the count makes no difference.
CountHit(r, l) ==
    LET k == KeyOf(r, l) IN
    /\ At(r, l)
    /\ hits' = [hits EXCEPT ![l][k] = IF @ < Max[l] THEN @ + 1 ELSE @]
    /\ IF hits[l][k] < Max[l] THEN Proceed(r, req[r].user) ELSE Answer(r, 429)
    /\ UNCHANGED <<router, live>>

\* Mutant: no return after the refusal of a missing header.
ReadHeaderOn(r) ==
    /\ At(r, "authenticateWallet") \/ At(r, "optionalAuth")
    /\ CASE req[r].token # None -> Becomes(r, [req[r] EXCEPT !.state = "validating"])
         [] At(r, "optionalAuth") -> Proceed(r, None)
         [] OTHER ->
              Becomes(r, [req[r] EXCEPT
                  !.state = "validating", !.status = 401, !.answers = @ + 1])
    /\ UNCHANGED <<router, hits, live>>

\* authenticateWallet and optionalAuth up to their await of validateToken.
ReadHeader(r) ==
    /\ At(r, "authenticateWallet") \/ At(r, "optionalAuth")
    /\ CASE req[r].token # None -> Becomes(r, [req[r] EXCEPT !.state = "validating"])
         [] At(r, "optionalAuth") -> Proceed(r, None)
         [] OTHER -> Answer(r, 401)
    /\ UNCHANGED <<router, hits, live>>

UserFound(r) ==
    /\ req[r].state = "validating" /\ req[r].token \in live
    /\ Proceed(r, req[r].token)
    /\ UNCHANGED <<router, hits, live>>

UserRefused(r) ==
    /\ req[r].state = "validating" /\ (req[r].token \in live => LookupFails)
    /\ IF Head(req[r].rest) = "optionalAuth" THEN Proceed(r, None) ELSE Answer(r, 401)
    /\ UNCHANGED <<router, hits, live>>

requireAuth(r) ==
    /\ At(r, "requireAuth")
    /\ IF req[r].user = None THEN Answer(r, 401) ELSE Proceed(r, req[r].user)
    /\ UNCHANGED <<router, hits, live>>

\* The wallet service has no verifyToken, so every header with a Bearer token
\* meets a TypeError, answered 500; any other header is refused.
adminAuth(r) ==
    /\ At(r, "adminAuth")
    /\ Answer(r, 401) \/ (req[r].token # None /\ Answer(r, 500))
    /\ UNCHANGED <<router, hits, live>>

-----------------------------------------------------------------------------
(* Controllers *)

Handling(r) == req[r].state = "routing" /\ req[r].rest = <<>>
Anonymous(r) == req[r].user = None /\ handler(r).noUser # None

RefuseAnonymous(r) ==
    /\ Handling(r) /\ Anonymous(r)
    /\ Answer(r, handler(r).noUser)
    /\ UNCHANGED <<router, hits, live>>

RefuseInput(r) ==
    /\ Handling(r) /\ ~Anonymous(r) /\ handler(r).badInput # None
    /\ Answer(r, handler(r).badInput)
    /\ UNCHANGED <<router, hits, live>>

AnswerAtOnce(r) ==
    /\ Handling(r) /\ ~Anonymous(r) /\ handler(r).op = None
    /\ Answer(r, 200)
    /\ UNCHANGED <<router, hits, live>>

Call(r) ==
    /\ Handling(r) /\ ~Anonymous(r) /\ handler(r).op # None
    /\ Becomes(r, [req[r] EXCEPT !.state = "called", !.started = TRUE])
    /\ UNCHANGED <<router, hits, live>>

Return(r) ==
    /\ req[r].state = "called" /\ handler(r).op \notin NeverReturn
    /\ Answer(r, 200)
    /\ UNCHANGED <<router, hits, live>>

StatusOf(h, e) == IF e \in h.own \cap DOMAIN AppError THEN AppError[e] ELSE h.fault

\* Mutant: a rejection that nobody catches.
ThrowUncaught(r) ==
    /\ req[r].state = "called"
    /\ Becomes(r, [req[r] EXCEPT !.state = "thrown"])
    /\ UNCHANGED <<router, hits, live>>

Throw(r) ==
    /\ req[r].state = "called"
    /\ \E e \in Throws(handler(r).op) : Answer(r, StatusOf(handler(r), e))
    /\ UNCHANGED <<router, hits, live>>

-----------------------------------------------------------------------------
(* Clients, time and the process *)

Leave(r) ==
    /\ req[r].state = "answered"
    /\ Becomes(r, Idle)
    /\ UNCHANGED <<router, hits, live>>

TokenExpires(w) ==
    /\ w \in live
    /\ live' = live \ {w}
    /\ UNCHANGED <<router, req, hits>>

NewWindow(l, k) ==
    /\ hits[l][k] > 0
    /\ hits' = [hits EXCEPT ![l][k] = 0]
    /\ UNCHANGED <<router, req, live>>

\* SIGTERM, SIGINT: the process exits with requests in flight; the counts of the
\* limiters are in its memory.
Exit ==
    /\ req' = [r \in Requests |-> Idle]
    /\ hits' = [l \in Limiters |-> [k \in Keys |-> 0]]
    /\ UNCHANGED <<router, live>>

Step(r) ==
    \/ (\E l \in Limiters : CountHit(r, l))
    \/ ReadHeader(r) \/ UserFound(r) \/ UserRefused(r) \/ requireAuth(r) \/ adminAuth(r)
    \/ RefuseAnonymous(r) \/ RefuseInput(r) \/ AnswerAtOnce(r) \/ Call(r)
    \/ Return(r) \/ Throw(r)

Next ==
    \/ \E r \in Requests : Arrive(r) \/ ArriveMalformed(r) \/ Step(r) \/ Leave(r)
    \/ \E w \in Wallets : TokenExpires(w)
    \/ \E l \in Limiters, k \in Keys : NewWindow(l, k)
    \/ Exit

Spec == Init /\ [][Next]_vars
\* Every callback of a request runs in the end, and the services' calls return.
FairSpec == Spec /\ \A r \in Requests : WF_vars(Step(r))

-----------------------------------------------------------------------------
(* Properties *)

Request ==
    [state : {"idle", "routing", "validating", "called", "answered"},
     route : DOMAIN routes[router] \cup {None}, address : Addresses \cup {None},
     token : Wallets \cup {None},
     rest : Seq(Limiters \cup
               {"authenticateWallet", "optionalAuth", "requireAuth", "adminAuth"}),
     user : Wallets \cup {None}, started : BOOLEAN, status : Statuses \cup {None},
     answers : Nat]

\* The state of the requests and of the limiters is what the code keeps.
TypeOK ==
    /\ router \in Routers
    /\ req \in [Requests -> Request]
    /\ hits \in [Limiters -> [Keys -> Nat]]
    /\ live \subseteq Wallets

\* No request is answered twice, whichever middleware refuses it
\* (wallet-auth.middleware.ts: each res.status is followed by a return), and
\* none that was answered is still on its way.
AnsweredOnce ==
    \A r \in Requests : req[r].answers = IF req[r].state = "answered" THEN 1 ELSE 0

\* The operations that act for a wallet, and those meant for an operator.
Guarded ==
    {"placeBid", "getBidById", "getUserBids", "cancelBid", "updateBidStatus",
     "placeSupply", "getSupplyById", "getUserSupplies", "cancelSupply", "updateSupplyStatus",
     "createTimeslot", "updateTimeslot", "sealTimeslot", "settleTimeslot", "cancelTimeslot",
     "logout"}

ASSUME NoneAssumption == None \notin Statuses /\ None \notin Guarded

\* A guarded operation is never started but for the wallet whose token the
\* request carried, looked up before the controller ran
\* (bid.routes.ts "authenticated wallet required").
ActsForTokenHolder ==
    \A r \in Requests :
        req[r].state = "called" /\ handler(r).op \in Guarded =>
            req[r].user # None /\ req[r].user = req[r].token

\* Every request is answered, unless the process exits first
\* (error.middleware.ts: asyncHandler passes rejections on to errorHandler).
EveryRequestAnswered ==
    \A r \in Requests :
        req[r].state \notin {"idle", "answered"} ~> req[r].state \in {"idle", "answered"}

\* The administrative timeslot routes call nothing for anybody: no middleware
\* before requireAuth sets the user it asks for, although timeslot.routes.ts:51
\* calls them routes that "require authentication and admin privileges".
AdminTimeslotRoutes == {"create", "update", "seal", "settle", "cancel"}
AdminTimeslotsShut ==
    \A r \in Requests :
        router = "timeslots" /\ req[r].state = "called" =>
            req[r].route \notin AdminTimeslotRoutes

=============================================================================
