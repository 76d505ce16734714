# A TLA+ model of the energy auction backend

This directory holds TLA+ specifications of the backend in `src/`, TLC
configurations that check them on small instances, and proofs checked by TLAPS.
The backend is an Express server over a PostgreSQL database (Prisma) that lets
users with Solana wallets bid for, and offer, energy in timeslots, clears each
timeslot with a merit-order auction, moves bid amounts into an escrow account on
the chain, and tells its clients about it over WebSockets.

Everything here is translated from the code, with the lines each definition
stands for in `PROJECT.json`. Paths below are relative to the repository; the
services are under `src/src/`.

## 1. The system

| component | state | operations | modelled in |
|---|---|---|---|
| Bids (`bid.service.ts`) | rows of `bids` | `placeBid`, `cancelBid`, `updateBidStatus`, queries | `Auction`, `Market` |
| Supply offers (`supply.service.ts`) | rows of `supplies` | `placeSupply`, `cancelSupply`, `updateSupplyStatus`, queries | `Auction`, `Market`; `placeSupply`, which never succeeds, in `Gateway` |
| Timeslots (`timeslot.service.ts`) | rows of `timeslots` | `sealTimeslot`, `settleTimeslot`, create, update, queries | `Auction`, `Market`; create and update, which change nothing, in `Gateway` |
| Market clearing (`clearing-price.service.ts`) | none; marks bids and supplies | `calculateClearingPrice`, `executeMarketClearing` | `MarketClearing`, `ClearingResult`, `ClearingPrice`, `Auction` |
| Blockchain transactions (`blockchain-transaction.service.ts`) | a transfer in progress; the chain | `prepare...Transaction`, `submitTransactionWithRetry` | `TransactionSubmit`, `Auction` |
| Wallet authentication (`wallet-auth.service.ts`) | rows of `auth_nonces`, `users` | `initializeAuth`, `verifyAndAuthenticate`, `validateToken`, clean-up | `WalletAuth` |
| WebSockets (`websocket/`) | sockets, rooms, two books of members | handshake, join, leave, disconnect, cleaning timer, broadcasts | `SocketRooms` |
| HTTP layer (`app.ts`, `routes/`, `middleware/`, `controllers/`) | limiter counters | every route | `Gateway` |
| Database access (`database/prisma.service.ts`) | the connection | row operations under `executeWithRetry` | `Auction`, `WalletAuth` |
| Chain reader (`blockchain.service.ts`) | none | RPC reads | its errors, in `Gateway` |
| Simple timeslot service, configuration, generated program interface, scripts | - | - | not modelled |

How they interact. A controller calls one service method per request. Services
share nothing but the database and the chain. Node runs one callback at a time,
but a handler gives up control at every `await`, so requests interleave between
any two of their calls. Nothing is wrapped in a database transaction
(`PrismaService.transaction` has no caller), no row is locked, updates are
unconditional, and the schema has no unique constraint on a user's bids in a
timeslot. `settleTimeslot` calls the clearing service, which reads bids and
supply offers and marks the matched ones row by row; `placeBid` calls the
transaction service, which talks to the chain for up to minutes. Both the HTTP
middleware and the socket handshake call `validateToken`.

What is hard:

- check-then-act across awaits: the duplicate check, the status checks of
  timeslot, bid and offer, and the look at a nonce, all old when the write is made;
- the chain decides late: a transfer may land after its request timed out;
- retries: an update whose reply was lost is repeated after others have moved the
  row on, and an attempt to pay is repeated after its answer was lost;
- stops between the updates of a settlement, between insert and payment, between
  the marking of a nonce and the token;
- the clearing arithmetic at ties, empty sides and last points;
- three records of who is in a room, changed by joins, leaves, disconnects and
  a timer that runs between a socket's leaving one room and the next, and a client
  that disappears while its token is being validated;
- routes, each with an order of middleware of its own, where every refusal has to
  be the only answer.

The HTTP layer of this commit keeps several operations from being reached:
`routes/timeslot.routes.ts` puts `requireAuth` before any authentication on its
administrative routes, so they answer 401, and `admin-auth.middleware.ts` calls a
method that does not exist, so that a Bearer token gets a 500. `Gateway` models
this as it is, and the theorem `AdminTimeslotsRefuseAll` says it of every request.
`Auction` models the *service* layer, which is where the state changes, as it behaves
whoever calls it.

## 2. Modules

**`MarketClearing`** (operators). The merit-order clearing of
`clearing-price.service.ts` as a relation: `ClearingOutcomes(B, S)` is the set of
results the code can return for the bids B and offers S. It is a set because
rows come in no particular order and JavaScript's sort keeps the order of equal
prices.

**`Auction`** (core). One variable per column that matters (`status`,
`clearingPrice`, `bid`, `signed` for `bids.txSignature`, `supply`), the clock
(`expired`), the chain (`inDoubt`, `paid`), and `req`: the request each handler
serves, the await it is at, and its locals (`plan` is the fetched book and later
what of it is still to be marked). An action is one awaited call with the
synchronous code up to the next one:

| code | actions |
|---|---|
| `placeBid` | `BeginPlaceBid`, `FindDuplicate`, `InsufficientBalance`, `CreateBid`, `MarkConfirmed`, `MarkConfirmedFails`, `UndoBid` |
| `prepareBidTransaction`, `submitTransactionWithRetry` | `PrepareFails`, `SendTransfer`, `TransferConfirmed`, `SubmitGivesUp` |
| `cancelBid`, `updateBidStatus` | `BeginCancelBid`, `CancelBid`, `UpdateBidStatus` |
| `cancelSupply`, `updateSupplyStatus` | `BeginCancelSupply`, `CancelSupplyTransfer`, `CancelSupply`, `UpdateSupplyStatus` |
| `sealTimeslot` | `BeginSeal`, `SealTimeslot` |
| `settleTimeslot`, `executeMarketClearing` | `BeginSettle`, `FetchBids`, `FetchSupplies` (either first: `Promise.all`), `ClearMarket`, `MatchBid`, `AllocateSupply`, `SettleTimeslot` |
| `executeWithRetry` | `SlotWriteReturns`, `SlotWriteRetried`, `RequestFails` |
| chain, clock, process | `TransferLands`, `TransferDropped`, `SlotEnds`, `Crash` |

`Faults` names the steps whose database calls may fail or lose their reply,
`Crashes` allows restarts (handlers forget everything, rows stay), `Leftover`
are bids an earlier process left `PENDING` (which a crash produces),
`EventStatuses` are the statuses that operators write with `updateBidStatus` and
`updateSupplyStatus`, and `EpochSlots` are the
timeslots whose id `parseInt` reads as a number: ids the database generates start
with a letter, so no bid in a timeslot created by the service is ever paid, and such
a timeslot is simply not in `EpochSlots`.

The two update operations take what the controllers let through and what their table
accepts: all five statuses of a bid, `COMMITTED`, `CONFIRMED` and `CANCELLED` of an
offer. They write it over whatever the row holds, at any moment, and `updateBidStatus`
may add a signature. So an operator can confirm a bid that nobody paid, match one in an
open timeslot and take a withdrawn one up again; nothing in the code prevents it. The
properties of `overlapping` are therefore about steps: they say what no *request* does,
and except the operator's write (`\/ UpdateBidStatus(b)`). The state invariants
that such a write breaks are claimed only where a run or a theorem restricts
`EventStatuses`, and section 4 names the restriction.

Supply offers exist from the start:
`placeSupply` never gets past its balance check, which reads `.success` of a number
(`supply.service.ts:406`), so offers enter the table only by other means.
`Clearings(B, S)` are the plans that clearing a set of rows can result in: the ids to
mark and the price, without the allotted quantities, which no row records.

**`Market`** (abstract). What the services promise of the books, with requests that
take effect at once: `PlaceBid` (one active bid per user), `ConfirmBid`, `WithdrawBid`,
`WithdrawSupply`, `SealTimeslot`, and `SettleTimeslot`, which marks one clearing of the
pending bids and the committed offers and records its price in one step. How a set of
bids and offers clears is its constant operator `Clearings`. `Auction` does not
implement it in general, which is what the counterexamples of section 3 show; it does
when no two requests in flight are about one timeslot (`Apart`), under the conditions of
section 4. `Auction` maps to it
(`Promise == INSTANCE Market WITH ...`, `ImplementsMarket`) by showing rows that a
settlement under way has marked as still `PENDING` or `COMMITTED` (`ShownBid`,
`ShownSupply`): the write of the timeslot's row is the step in which the settlement
takes effect. The insert, the `CONFIRMED` update and the `CANCELLED` updates are the steps
in which the requests about a bid do. Its second part states what follows from the
promise: `OneActiveBid`, `BooksAreCleared`, `SettledStays`.

**`TransactionSubmit`**. One call of the transaction service: the checks of the
three `prepare` methods in order, then the attempts. Each attempt has a transfer of
its own on the chain, since web3.js signs a fresh block hash each time; `unanswered`
is an auxiliary variable that remembers which attempts were given up without an
answer. `ImplementsPlacement` maps a submission to the request of `Auction` that
makes it (`Placement == INSTANCE Auction WITH ...`): every step is one of
`Auction`'s `PrepareFails`, `SendTransfer`, `TransferConfirmed`, `SubmitGivesUp`,
`CancelSupplyTransfer`, or the chain's, or changes nothing the caller sees. That
justifies the coarser actions of the core module. A supply placement's transfer
maps to an idle handler, as no caller reaches it.

**`ClearingResult`** (abstract) and **`ClearingPrice`** (detailed). The first
answers once with a member of `ClearingOutcomes`; the second is the code loop by
loop, and `ImplementsReference` states that it implements the first.

**`WalletAuth`**. The rows of `auth_nonces` (`row`: stored, used, deleted), which
nonces a client was sent (`sent`) and which are past their time (`expired`), the
`users`, how many tokens were `issued` for each nonce, and the request of each
handler.

| code | actions |
|---|---|
| `initializeAuth` | `BeginInit`, `Cleanup`, `CleanupFails` (its own catch), `Store` |
| `verifyAndAuthenticate` | `BeginLogin`, `FindNonce`, `VerifySignature`, `MarkNonce`, `LookupUser`, `CreateUser`, `TouchUser`, with `IssueToken` in the last two |
| `validateToken` | `BeginResolve`, `ResolveUser` |
| `executeWithRetry`, failing queries | `CallFails`, `ReplyLost`, `AgainOrThrow`, `DatabaseRefuses` (the unique wallet column) |
| clock, process, answers | `Expire`, `Crash`, `Answer` |

`req[h].spent` is auxiliary: it records that the nonce was spent when the login
came in. Signatures are abstract: a login is signed by the nonce's owner or not.

**`SocketRooms`**. The connection of each socket, the registrations
(`authenticated`, `walletSockets`), the room service's two books (`rooms`,
`userRooms`), socket.io's own membership (`joined`), which decides who gets a
broadcast, the rooms that exist, the silent sockets and the statistics'
`connections`.

| code | actions |
|---|---|
| connection, middleware | `ConnectAnonymous`, `Handshake`, `HandshakeRefused`, `ClientLeavesEarly`, `RegisterGone`, `Connect` |
| client events | `JoinRoom`, `JoinTimeslot`, `LeaveRoom`, `Ping`, `Disconnect` |
| the five-minute timer | `GoInactive`, `Interval` (all silent sockets, then the empty rooms) |

The broadcasts of `events.service.ts` change no state; they are operators that give
the rooms through which a socket hears of an event. Handlers await nothing but
settled promises except in the handshake; what runs between a socket's leaving its
first room and the next is modelled inside `Interval` (`SilentMembers`).

**`Gateway`**. Each router of `app.ts` is a function from its routes to
`Route(before, handler)`: the middleware in order and the controller method, which
is a record of how it refuses an anonymous caller, how it refuses bad input, which
operation it calls and which of its errors it answers itself. A behaviour concerns
one router; a request takes `Arrive` or `ArriveMalformed`, then its middleware
(`CountHit`, `ReadHeader`, `UserFound`, `UserRefused`, `requireAuth`, `adminAuth`), then
its controller (`RefuseAnonymous`, `RefuseInput`, `AnswerAtOnce`, `Call`, `Return`,
`Throw`) and `Leave`. `TokenExpires`, `NewWindow` (of a limiter) and `Exit` of the
process happen at any time.

**`MCAuction`, `MCApart`, `MCClearingPrice`, `MCWalletAuth`, `MCSocketRooms`,
`MCGateway`** instantiate modules for TLC. **`AuctionProofs`, `MarketProofs`,
`TransactionSubmitProofs`, `MarketClearingProofs`, `ClearingPriceProofs`,
`WalletAuthProofs`, `SocketRoomsProofs`, `GatewayProofs`** hold the proofs.
`AuctionProofs` has what needs no more than `Auction`; `MarketProofs` adds the lemmas
of `MarketClearingProofs` about sums over a book and proves what holds of the market.

Definitions whose comment starts with "Mutant" are faulty variants of a
definition that follows them. They are used by no specification; each makes one
property fail, which shows that the property says something about the code.

## 3. What is checked

| run | instance | properties |
|---|---|---|
| `overlapping` | 2 handlers, 1 bid, 1 offer, 3 attempts; every call may fail, restarts, operators that write every status; 400 000 states | `TypeOK`, `TransfersHaveRows`, `ConfirmedWhenPaid`, `MatchedWhenSealed`, `WithdrawnIsFinal`: what survives every interleaving |
| `apart` | 2 handlers, 2 timeslots, 4 bids (three of one user, two of them in one timeslot; two left over), an offer in each timeslot; a paid bid's last update and a seal may fail; requests about one timeslot wait for each other; 360 000 states | `OneActiveBid`, `MatchedWithinPrices`, `MatchedDemandCovered`, `SettledBookIsFinal`, `ImplementsMarket`: the market rules hold, and the services are a market, when requests about one timeslot do not overlap |
| `returns` | 2 handlers, 1 bid, 1 offer; every call may fail but the insert and the undo; no restarts, no operators' writes | `PendingIsInFlight`, `RequestReturns` (liveness) |
| `submit` | 3 attempts, all kinds of transfer | `TypeOK`, `SignatureIsLanded`, `OnlyUnansweredPayTwice`, `RefusedMovesNothing`, `NothingSentAfterTimeout`, `ImplementsPlacement`, `Returns` |
| `clearing` | every book of up to 3 bids and 2 offers, prices 1-3, quantities 1-2 | `TypeOK`, `MatchedBidsAreWhole`, `MeritOrder`, `EnergyBalance`, `ImplementsReference`, `Terminates` |
| `auth` | 2 handlers, 2 wallets, a nonce each, 2 attempts; every call may fail or lose its reply, restarts | `TypeOK`, `SpentNonceRefused`, `TokenSpendsNonce`, `TokenHasUser`, `EveryRequestAnswered` |
| `sockets` | 3 sockets (one without a token), 2 wallets, 1 timeslot, rooms of 1 or 2 | `MembersAreJoined`, `NoStrangers`, `ConnectionsCounted`, `UpdatesReachClients`, `EmptyRoomsGo`, `InactiveDisconnected` |
| `gateway` | 2 requests, 1 wallet, 1 address, all routers, limits of 1 and 2 | `AnsweredOnce`, `ActsForTokenHolder`, `EveryRequestAnswered` |

Runs that end in a counterexample, each a disagreement between the code and what
its comments, messages or docs say:

| run | property | what TLC shows |
|---|---|---|
| `duplicate_bids` | `OneActiveBid` | two placements pass the duplicate check before either inserts |
| `settled_not_final` | `SettledIsFinal` | a late seal takes a settled timeslot back to `SEALED` (a second settlement would price it again) |
| `confirmed_not_cleared` | `ClearingSeesActiveBids` | a confirmed bid, which is paid, is not fetched for the clearing |
| `nonce_shared` | `OneTokenPerNonce` | two posts of one signed message both find the nonce before either marks it, and both get a token |

The last one needs two logins that overlap: `SpentNonceRefused` (run `auth`) holds for
every login that begins after the mark, and the theorem `OneLoginAtATime` for servers
that take one request at a time.

`OneActiveBid` appears twice on purpose: it holds while requests about one timeslot are
kept apart and fails as soon as two overlap. `apart` and the theorems about `Apart` say
where the line is: `OneActiveBid` and `SettledIsFinal`, refuted here, hold as long
as requests about one timeslot are served one after the other.

Bounds. Every hazard of the service layer that was found or excluded involves
two requests, or one request and a restart, so two handlers suffice: each race is
one handler's stale read against another's write. One timeslot suffices in the
other runs because no operation touches two; `apart` has two, since with one nothing
would overlap in it, and the theorem `ApartRequestsMakeAMarket` is for any number. Two bids of
one user are needed for duplicates, two of different users for matched and unmatched bids side by side; `apart` has bids at prices
3, 5 and 4 in one timeslot, so that both a marginal and an excluded bid occur, and one
of the same user in the other timeslot, which the duplicate check must not see. Settlements
whose own updates fail, restarts and events are left out of it because the rules do not
hold with them; that other calls fail is covered by its theorems, which allow all of
them, and by `overlapping`.
`overlapping` has one bid and one offer because each of its properties speaks of one row
and the bids meet nowhere but in the duplicate check and in a book, both of which
`apart` and the theorems have with several; what it needs instead is every
status of the operators and every failing call against two requests for the same row.
`MaxRetries` is 3, as in the code, in `submit` and `overlapping` and 2 in the other runs
of `Auction` and in `auth`; two attempts already give a repeated write after a lost reply.
`clearing` covers ties, an empty side, curves that touch, and curves that do not
meet; rows are numbered by their terms because the code never looks at ids. Two
wallets in `auth` let a login use the other's nonce. In `sockets` the limits are
below the number of sockets, so full rooms occur, and three sockets let one leave
while another stays and a third comes. `gateway` has two requests so that a limit
is reached by another's hit and a token expires between two looks at it; one
behaviour calls one router, since routers share only tokens and limiters by name.
`overlapping` and `apart` declare their interchangeable handlers symmetric; no run with a
liveness property declares a symmetry.

Fairness. `Auction`, `WalletAuth` and `Gateway` assume weak fairness of each
request's steps: a request always has a step that ends its wait (answer, failure
or timer), Node's event loop runs every settled promise, and database and RPC calls
have timeouts. Nothing is assumed of clients, the chain, the clock or operators.
`TransactionSubmit` assumes the same of its call. `ClearingPrice` is synchronous
code: weak fairness of its next step. `SocketRooms` assumes only that its
interval keeps firing; that is what `EmptyRoomsGo` and `InactiveDisconnected` rest on.

Deadlock is checked in `sockets`, whose timer never stops. The other systems may
really stop: all timeslots settled and no request in flight, a submission or a
clearing that is done, all nonces used, a process that exited.

## 4. What is proved

TLAPS checks these for every number of handlers, bids, offers, timeslots, attempts,
wallets, nonces, sockets and rows, all prices and quantities, with all faults and
restarts where the table names no condition. They rest on the named assumptions on
constants (`SetsAssumption`, `OffersAssumption`, `FaultAssumption`,
`RetriesAssumption`, `DataAssumption`, `KeysAssumption`, `WalletAuthAssumption`,
`SocketAssumption`, `GatewayAssumption`, `RouterAssumption`, `NoneAssumption`), which
TLC evaluates on the runs of the modules that declare them.

| module | theorem | says |
|---|---|---|
| `Auction` | `TypeCorrect` | `[]TypeOK` |
| | `TransfersAreOfBids` | `[]TransfersHaveRows` |
| | `ConfirmedBidsArePaid` | `ConfirmedWhenPaid` |
| | `NothingMatchedWhileOpen` | `MatchedWhenSealed` |
| | `SettledTimeslotsArePriced` | `[]SettledHasPrice` (no run of its own) |
| | `WithdrawnBidsStayOut` | `WithdrawnIsFinal` |
| | `PendingBidsAreInFlight` | `[]PendingIsInFlight`, if neither insert nor undo fails, the process does not stop and no operator writes `PENDING` |
| | `OneHandlerOneActiveBid` | `[]OneActiveBid`, if there is one handler, no duplicate among the leftover bids, and operators write neither `PENDING` nor `CONFIRMED` |
| | `OneHandlerSettledBooks` | `SettledBookIsFinal`, if there is one handler and operators write no statuses |
| | `OneHandlerPrices` | `[]MatchedWithinPrices`, if there is one handler, no restart, the settlement's updates do not fail, and no operator writes `MATCHED` |
| | `OneHandlerCovers` | `[]MatchedDemandCovered`, under the same conditions and if operators write no statuses but `PENDING` and `EXPIRED`: an allocated offer whose status is overwritten no longer covers the demand, and a bid that an operator makes `MATCHED` has no offer allocated for it |
| | `ApartRequestsMakeAMarket` | `Spec /\ []Apart => ImplementsMarket`, for any number of handlers, if there is no restart, the settlement's updates do not fail, and operators write no statuses |
| | `OneHandlerMakesAMarket` | `ImplementsMarket`, under the same conditions, if there is one handler |
| | `ApartRequestsKeepTheRules` | `[](OneActiveBid /\ MatchedWithinPrices /\ MatchedDemandCovered)` for `Spec /\ []Apart`, under the same conditions, with no duplicate among the leftover bids |
| | `ApartSettlementsAreFinal` | `SettledIsFinal` and `SettledBookIsFinal` for `Spec /\ []Apart`, under the same conditions |
| `TransactionSubmit` | `SubmitTypeCorrect`, `SignaturesAreLanded`, `OnlyLostAnswersPayTwice`, `RefusedCallsMoveNothing` | the four invariants |
| | `TimeoutsEndTheCall` | `NothingSentAfterTimeout` |
| | `SubmissionImplementsPlacement` | `ImplementsPlacement`: the retry loop implements the core module's steps |
| `MarketClearing` | `ClearingBalances` | every result for every finite book matches as much demand as supply, and loses no quantity |
| `ClearingPrice` | `TypeCorrect`, `BidsServedWhole`, `MeritOrderKept`, `EnergyBalances` | `[]TypeOK`, `[]MatchedBidsAreWhole`, `[]MeritOrder`, `[]EnergyBalance`, for every book |
| | `ClearsByMerit` | `ImplementsReference`: the loops implement the relation, for every book |
| `WalletAuth` | `TypeCorrect`, `SpentNoncesAreRefused`, `TokensSpendNonces`, `TokensHaveUsers`, `TokensPerNonceBounded`, `OneLoginAtATime` | the four invariants of `auth`; `[]TokensPerNonce`: no more tokens for a nonce than handlers; `[]OneTokenPerNonce`, if there is one handler |
| `SocketRooms` | `TypeCorrect`, `MembersStayJoined`, `RoomsHaveNoStrangers`, `ConnectionsStayCounted`, `EventsReachClients` | `[]TypeOK` and the four invariants of `sockets` |
| `Gateway` | `TypeCorrect`, `RequestsAnsweredOnce`, `OnlyTokenHoldersAct`, `AdminTimeslotsRefuseAll` | `[]TypeOK` and the two invariants of `gateway`, for all routers; `[]AdminTimeslotsShut`: the administrative timeslot routes call nothing |

**Auction.** `TypeOK` is inductive because `Requests` ties each step to the kind of
row it works on (`Fits`), without which a step's write could not be typed.
`ConfirmedWhenPaid` follows step by step from `PaymentInv`: the handler about to write
`CONFIRMED` works on a paid bid, which stays so whatever operators write.
`TransfersHaveRows` needs `RowInv`: a placement past its insert has a row.
`MatchedWhenSealed` and `SettledHasPrice` need `SealInv`: a handler inside a
settlement found its timeslot sealed, timeslots never reopen, its plan holds only
rows of that timeslot, and no other request has a plan. That a clearing only plans
rows it was given is the lemma `ClearedPlan` about `ClearingOutcomes`.

The theorems with one handler say exactly when the code's checks are enough.
`SoleInv`: a placement past its duplicate check is about the only active bid of
its user, which a second handler would break. `BookInv`: what a request read of its
row still holds when it writes, or it repeats the last write of its settlement after a
lost reply. `FitInv`: rows marked in an unsettled timeslot were marked by the
settlement under way, at the price it is about to record; a restart forgets that
price, which is why the theorem excludes restarts. `CoverInv`: what a settlement has
marked and what it still plans to mark, taken together, are covered, and nothing is
marked in an unsettled timeslot outside a settlement; half-way the marked bids alone
are not covered, because bids are marked before offers, so that a settlement
interrupted there and repeated on the rest of the book need not be. `PlacementInv`, for
any number of handlers: no bid has two placements, and a row is `PENDING` only under one
of them.

**Market.** `MarketInv` says what a request knows while requests about its timeslot
keep apart: everything it has read still holds (`RequestOK`), and what a settlement
has marked and plans to mark is one clearing of the book as it was before the first
update (`Planned`). Each awaited call of `Auction` is then one step of `Market` or none,
shown action by action in `Simulated`: the checks made before an await are the guards of
the abstract step at the write, and only the timeslot's own update shows the marked rows.
What `Auction` inherits is proved of the abstract steps: a settled book is one clearing
(`BooksAreCleared`), so its price suits everybody in it (`PlanSuits`) and its demand is
covered (`PlanCovered`). The conditions are needed: after a failed or interrupted
settlement the next one clears the rest of the book, so the timeslot's book is two
clearings with one price; and operators write statuses whatever the timeslot's
status, which is no step of the market.

**MarketClearing.** A sum over a set of rows (`MapThenSumSet`) is a recursive function on
its subsets that takes out one chosen element at a time. The first lemmas (`TableExists` to
`TotalMonotone`) show, by induction over the set of sizes for which it holds, that
there is such a function, that the sum does not depend on the choice, and that it is monotone
and additive. On them rest the lemmas
about the running sums of a sorted listing, how much is left at each position of a pass
(`LeftBefore`) and what the pass serves in all.

**TransactionSubmit.** `SubmitInv` says that earlier attempts are closed (failed,
never sent, or unanswered), later ones not made, and relates the attempt being
made to the step; `EpochInv` that nothing is sent for an id without an epoch;
`TimeoutInv` that a timeout is on its way to the caller. The refinement is proved
per action with the mapping's `caller`, `Sent` and `Landed`, and the fact that the
number of sent transfers stays below `MaxRetries` until all are sent.

**ClearingPrice.** `ClearingInv` follows the phases of the computation: the sorted
lists are listings of the book (`SortInv`), the curves are its running sums
(`CurveInv`), and the pass over the bids stands at the clearing volume minus the demand
curve (`BidsInv`), so that what is left is either enough for the next bid or
nothing; `SuppliesInv` says the same of the pass over the offers. Both passes agree
with `LeftBefore` and `Served` of the relation at every position, so that the rows
matched and the quantities unmet when the loops stop are those of `ClearedAt`: that is the
refinement `ClearsByMerit`, and the balance follows from `ClearingBalances`.

**WalletAuth.** `NonceInv`: a nonce a client knows is never stored again, so a marked or
deleted row stays so. `LoginInv`: a token stands for a spent nonce of its wallet and a
user. `BudgetInv`: the tokens issued for a nonce and the logins still able to get
one are together never more than the handlers, because nobody is admitted once the
nonce is spent; `TokensPerNonce` alone says nothing of the logins on their way.

**SocketRooms.** `Books` (`MembersAreJoined` and `NoStrangers`) is inductive over
joins, disconnects and the timer; the count of connections needs finite sets, and
the deliveries `RegisteredInv`: sockets with a token that are open are registered, and
so is everybody in the authenticated room.

**Gateway.** `GatewayInv` says of each request that what is left of its route either
still holds the middleware that checks the token, or its user is its token's holder, or
its operation is not guarded. That every guarded route has such a middleware is
shown by going through all the routes once. `ShutInv` adds that a request to an
administrative timeslot route never gets past `requireAuth` and has no user.

Only model-checked: liveness (`RequestReturns`, `Returns`, `Terminates`,
`EveryRequestAnswered`, `EmptyRoomsGo`, `InactiveDisconnected`), which is out of the
prover's reach. Every invariant and every step property of the passing runs is stated by
a theorem, some of them under the conditions their runs have too. `TypeOK` of
`SocketRooms` and of `Gateway` is proved and has no run.

## 5. What is not modelled

- Floating point and `Decimal` conversions: prices and quantities are whole
  numbers. The hazards at `clearing-price.service.ts:262`,
  `blockchain-transaction.service.ts:395` and `bid.service.ts:383` are listed in
  `PROJECT.json` and covered by no property.
- Wallet balances: whether a balance check passes is a free choice.
- What the code plainly does not promise is in the models and claimed by no property:
  an operator's status write may confirm an unpaid bid, match one in an open timeslot or
  bring back a withdrawn one; the routes behind `requireAuth` answer 401 to everybody
  (proved, not run); a bid may be inserted, or a cancellation written, after the seal;
  what a cancelled bid paid is never returned; a settlement repeated after a restart may record a price
  that does not fit what was marked before; the first intersection is not always the
  largest volume; the five devices per wallet are not enforced, as wallet rooms are
  entered past the capacity check; `sendUserNotification` emits nothing; the limiters
  run before authentication and so count by address.
- `createTimeslot` and `updateTimeslot` as writes: their only caller passes data
  with which neither changes a row.
- Queries, listings and statistics, the parsing of chain accounts, input validation
  beyond whether it passes, signatures and tokens as bytes, wording, logging.
- `timeslot.service.simple.ts`, an unused near copy; the IDL and types under
  `target/` (6400 of the repository's lines), generated from a program that is not in
  the repository; migrations, seed, scripts, deployment.

## 6. Where it could go on

The components with behaviour of their own are modelled. What is left is data: the
passes of the clearing with rounded quantities, and balances next to transfers. For the
proofs: measures that decrease with every step of a request, which is the part of
termination the prover can state, and what a settlement repeated after a restart still
guarantees.
