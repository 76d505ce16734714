------------------------------- MODULE Auction -------------------------------
(***************************************************************************)
(* The auction backend's services over their shared database: placing and  *)
(* cancelling bids (bid.service.ts), cancelling supply offers              *)
(* (supply.service.ts), sealing and settling a timeslot                    *)
(* (timeslot.service.ts, clearing-price.service.ts), and the transfers a   *)
(* placement sends to the chain (blockchain-transaction.service.ts).       *)
(*                                                                         *)
(* A request handler gives up control at every await, so other handlers    *)
(* run between any two of its database and RPC calls.  Every action of a   *)
(* handler below is one such call with the code up to the next one.  No    *)
(* call is wrapped in a database transaction and no row is locked: what a  *)
(* handler has read may be out of date when it writes.                     *)
(***************************************************************************)
EXTENDS MarketClearing

CONSTANTS
    Handlers,       \* request handlers that may be in flight at the same time
    Users, Timeslots, Bids, Supplies,
    None,           \* no subject
    Bidder,         \* the user who places each bid
    BidSlot,        \* the timeslot each bid is for
    BidPrice, BidQuantity,
    SupplySlot, ReservePrice, SupplyQuantity,
    EpochSlots,     \* timeslots whose id parseInt turns into an epoch number
    Leftover,       \* bids an earlier server process left PENDING
    EventStatuses,  \* statuses that operators set with the two update operations
    MaxRetries,     \* attempts of a transfer and of a timeslot write (3 in the code)
    Faults,         \* steps whose database calls may fail or lose their reply
    Crashes         \* may the server process stop and start again?

ASSUME SetsAssumption ==
    /\ IsFiniteSet(Bids) /\ IsFiniteSet(Supplies)
    /\ EpochSlots \subseteq Timeslots
    /\ Leftover \subseteq Bids
    /\ None \notin Bids \cup Supplies \cup Timeslots

ASSUME OffersAssumption ==
    /\ Bidder \in [Bids -> Users]
    /\ BidSlot \in [Bids -> Timeslots]
    /\ BidPrice \in [Bids -> Nat \ {0}]
    /\ BidQuantity \in [Bids -> Nat \ {0}]
    /\ SupplySlot \in [Supplies -> Timeslots]
    /\ ReservePrice \in [Supplies -> Nat \ {0}]
    /\ SupplyQuantity \in [Supplies -> Nat \ {0}]

VARIABLES
    status,         \* timeslots.status
    clearingPrice,  \* timeslots.clearingPrice, NoPrice while null
    expired,        \* timeslots whose endTime has passed
    bid,            \* bids.status, "NONE" while there is no row
    signed,         \* bids whose row has a txSignature
    supply,         \* supplies.status
    inDoubt,        \* bids with a transfer sent that the chain has not decided
    paid,           \* bids with a transfer landed in the escrow account
    req             \* the request each handler is serving, and how far it is

vars == <<status, clearingPrice, expired, bid, signed, supply, inDoubt, paid, req>>

NoPrice == -1

TimeslotStatus == {"OPEN", "SEALED", "SETTLED"}
BidStatus == {"PENDING", "CONFIRMED", "MATCHED", "CANCELLED", "EXPIRED"}
SupplyStatus == {"COMMITTED", "CONFIRMED", "ALLOCATED", "DELIVERED", "CANCELLED"}

Active == {"PENDING", "CONFIRMED"}

\* Where a handler waits, by the kind of row it works on.
PlaceSteps == {"duplicate", "create", "submit", "confirming", "confirm", "undo"}
BidSteps == PlaceSteps \cup {"cancel"}
SupplySteps == {"cancelSupply", "release"}
SettleSteps == {"fetch", "fetchBids", "fetchSupplies", "clear", "execute"}
SlotSteps == SettleSteps \cup {"seal"}
Steps == {"idle"} \cup BidSteps \cup SupplySteps \cup SlotSteps

ASSUME FaultAssumption ==
    /\ EventStatuses \subseteq BidStatus \cup {"COMMITTED"}
    /\ MaxRetries \in Nat \ {0}
    /\ Faults \subseteq Steps
    /\ Crashes \in BOOLEAN

\* A book fetched for clearing, and then what of it is still to be marked.
NoPlan == [bids |-> {}, supplies |-> {}, price |-> 0]
Plans == [bids : SUBSET Bids, supplies : SUBSET Supplies, price : Nat]

Idle == [step |-> "idle", on |-> None, tries |-> 0, plan |-> NoPlan]
\* What a handler works on is a row of the kind its step is about.
Fits(step, on) ==
    /\ step \in BidSteps => on \in Bids
    /\ step \in SupplySteps => on \in Supplies
    /\ step \in SlotSteps => on \in Timeslots

Requests ==
    {r \in [step  : Steps,
            on    : Bids \cup Supplies \cup Timeslots \cup {None},
            tries : 0..MaxRetries,
            plan  : Plans] : Fits(r.step, r.on)}

Begin(h, step, on) ==
    /\ req[h] = Idle
    /\ req' = [req EXCEPT ![h] = [Idle EXCEPT !.step = step, !.on = on]]

At(h, step) == req[h].step = step
Go(h, step) == req' = [req EXCEPT ![h].step = step]
Finish(h) == req' = [req EXCEPT ![h] = Idle]

Init ==
    /\ status = [t \in Timeslots |-> "OPEN"]
    /\ clearingPrice = [t \in Timeslots |-> NoPrice]
    /\ expired = {}
    /\ bid = [b \in Bids |-> IF b \in Leftover THEN "PENDING" ELSE "NONE"]
    /\ signed = {}
    /\ supply = [s \in Supplies |-> "COMMITTED"]
    /\ inDoubt = {}
    /\ paid \in SUBSET Leftover
    /\ req = [h \in Handlers |-> Idle]

slotVars == <<status, clearingPrice, expired>>
bidVars == <<bid, signed>>
chainVars == <<inDoubt, paid>>

-----------------------------------------------------------------------------
(* placeBid *)

\* The timeslot is read; it must be open and not past its end.
BeginPlaceBid(h, b) ==
    /\ bid[b] = "NONE"
    /\ \A g \in Handlers : req[g].on # b
    /\ status[BidSlot[b]] = "OPEN"
    /\ BidSlot[b] \notin expired
    /\ Begin(h, "duplicate", b)
    /\ UNCHANGED <<slotVars, bidVars, supply, chainVars>>

\* Mutant: the look for a duplicate forgets pending bids.
FindDuplicateConfirmed(h) ==
    /\ At(h, "duplicate")
    /\ IF \E c \in Bids : /\ Bidder[c] = Bidder[req[h].on]
                          /\ BidSlot[c] = BidSlot[req[h].on]
                          /\ bid[c] = "CONFIRMED"
       THEN Finish(h)
       ELSE Go(h, "create")
    /\ UNCHANGED <<slotVars, bidVars, supply, chainVars>>

\* findFirst looks for a row of the same user and timeslot that is still active.
FindDuplicate(h) ==
    /\ At(h, "duplicate")
    /\ IF \E c \in Bids : /\ Bidder[c] = Bidder[req[h].on]
                          /\ BidSlot[c] = BidSlot[req[h].on]
                          /\ bid[c] \in Active
       THEN Finish(h)
       ELSE Go(h, "create")
    /\ UNCHANGED <<slotVars, bidVars, supply, chainVars>>

\* The wallet holds too little, or its balance cannot be read.
InsufficientBalance(h) ==
    /\ At(h, "create")
    /\ Finish(h)
    /\ UNCHANGED <<slotVars, bidVars, supply, chainVars>>

\* Mutant: the insert is not awaited, so that its failure goes unnoticed.
CreateBidUnawaited(h) ==
    /\ At(h, "create")
    /\ bid' \in {bid, [bid EXCEPT ![req[h].on] = "PENDING"]}
    /\ Go(h, "submit")
    /\ UNCHANGED <<slotVars, signed, supply, chainVars>>

\* The row is inserted; its reply may be lost, which ends the request.
CreateBid(h) ==
    /\ At(h, "create")
    /\ bid' = [bid EXCEPT ![req[h].on] = "PENDING"]
    /\ \/ Go(h, "submit")
       \/ "create" \in Faults /\ Finish(h)
    /\ UNCHANGED <<slotVars, signed, supply, chainVars>>

\* Mutant: the transfer is prepared outside the inner try block.
PrepareFailsUncaught(h) ==
    /\ At(h, "submit")
    /\ Finish(h)
    /\ UNCHANGED <<slotVars, bidVars, supply, chainVars>>

\* Too little for amount and fee, no epoch in the timeslot's id, an account
\* missing on the chain, no server wallet, or nothing sent in any attempt.
PrepareFails(h) ==
    /\ At(h, "submit")
    /\ Go(h, "undo")
    /\ UNCHANGED <<slotVars, bidVars, supply, chainVars>>

\* Mutant: the attempt number is set again in every round.
SendTransferForever(h) ==
    /\ At(h, "submit") \/ At(h, "confirming")
    /\ BidSlot[req[h].on] \in EpochSlots
    /\ inDoubt' = inDoubt \cup {req[h].on}
    /\ req' = [req EXCEPT ![h].step = "confirming", ![h].tries = 1]
    /\ UNCHANGED <<slotVars, bidVars, supply, paid>>

\* An attempt sends the transfer; a later attempt follows one that failed.
SendTransfer(h) ==
    /\ At(h, "submit") \/ At(h, "confirming")
    /\ BidSlot[req[h].on] \in EpochSlots
    /\ req[h].tries < MaxRetries
    /\ inDoubt' = inDoubt \cup {req[h].on}
    /\ req' = [req EXCEPT ![h].step = "confirming", ![h].tries = @ + 1]
    /\ UNCHANGED <<slotVars, bidVars, supply, paid>>

\* Mutant: the signature is returned as soon as the transfer is sent.
TransferUnconfirmed(h) ==
    /\ At(h, "confirming")
    /\ Go(h, "confirm")
    /\ UNCHANGED <<slotVars, bidVars, supply, chainVars>>

\* confirmTransaction reports the transfer as landed.
TransferConfirmed(h) ==
    /\ At(h, "confirming")
    /\ req[h].on \in paid
    /\ Go(h, "confirm")
    /\ UNCHANGED <<slotVars, bidVars, supply, chainVars>>

\* The 60 second timeout, or the last attempt's error; the transfer may have
\* landed, and what was sent may still land.
SubmitGivesUp(h) ==
    /\ At(h, "confirming")
    /\ Go(h, "undo")
    /\ UNCHANGED <<slotVars, bidVars, supply, chainVars>>

\* The row gets the signature and becomes CONFIRMED, whatever it was by then.
\* If the reply is lost the catch block undoes it.
MarkConfirmed(h) ==
    /\ At(h, "confirm")
    /\ bid' = [bid EXCEPT ![req[h].on] = "CONFIRMED"]
    /\ signed' = signed \cup {req[h].on}
    /\ \/ Finish(h)
       \/ "confirm" \in Faults /\ Go(h, "undo")
    /\ UNCHANGED <<slotVars, supply, chainVars>>

MarkConfirmedFails(h) ==
    /\ "confirm" \in Faults
    /\ At(h, "confirm")
    /\ Go(h, "undo")
    /\ UNCHANGED <<slotVars, bidVars, supply, chainVars>>

\* The catch block of placeBid.
UndoBid(h) ==
    /\ At(h, "undo")
    /\ bid' = [bid EXCEPT ![req[h].on] = "CANCELLED"]
    /\ Finish(h)
    /\ UNCHANGED <<slotVars, signed, supply, chainVars>>

-----------------------------------------------------------------------------
(* cancelBid, by the bid's owner; updateBidStatus *)

\* Mutant: a bid can be cancelled whatever the status of its timeslot.
BeginCancelBidLate(h, b) ==
    /\ bid[b] \in Active
    /\ Begin(h, "cancel", b)
    /\ UNCHANGED <<slotVars, bidVars, supply, chainVars>>

\* The row is read with its timeslot: the bid active, the timeslot open.
BeginCancelBid(h, b) ==
    /\ bid[b] \in Active
    /\ status[BidSlot[b]] = "OPEN"
    /\ Begin(h, "cancel", b)
    /\ UNCHANGED <<slotVars, bidVars, supply, chainVars>>

CancelBid(h) ==
    /\ At(h, "cancel")
    /\ bid' = [bid EXCEPT ![req[h].on] = "CANCELLED"]
    /\ Finish(h)
    /\ UNCHANGED <<slotVars, signed, supply, chainVars>>

\* updateBidStatus writes any status, and a signature if one is passed, into a
\* row that exists, whatever it holds; COMMITTED is refused by its table.
UpdateBidStatus(b) ==
    /\ bid[b] # "NONE"
    /\ \E s \in EventStatuses \cap BidStatus : bid' = [bid EXCEPT ![b] = s]
    /\ signed' \in {signed, signed \cup {b}}
    /\ UNCHANGED <<slotVars, supply, chainVars, req>>

-----------------------------------------------------------------------------
(* cancelSupply, by the offer's owner; updateSupplyStatus *)

\* Mutant: only an offer already cancelled is refused.
BeginCancelAllocated(h, s) ==
    /\ supply[s] # "CANCELLED"
    /\ Begin(h, "cancelSupply", s)
    /\ UNCHANGED <<slotVars, bidVars, supply, chainVars>>

\* The row is read; the timeslot's status is not looked at.
BeginCancelSupply(h, s) ==
    /\ supply[s] \in {"COMMITTED", "CONFIRMED"}
    /\ Begin(h, "cancelSupply", s)
    /\ UNCHANGED <<slotVars, bidVars, supply, chainVars>>

\* The cancellation transfer is confirmed, or the request fails.
CancelSupplyTransfer(h) ==
    /\ At(h, "cancelSupply")
    /\ \/ SupplySlot[req[h].on] \in EpochSlots /\ Go(h, "release")
       \/ Finish(h)
    /\ UNCHANGED <<slotVars, bidVars, supply, chainVars>>

CancelSupply(h) ==
    /\ At(h, "release")
    /\ supply' = [supply EXCEPT ![req[h].on] = "CANCELLED"]
    /\ Finish(h)
    /\ UNCHANGED <<slotVars, bidVars, chainVars>>

\* updateSupplyStatus writes COMMITTED, CONFIRMED or CANCELLED over whatever the
\* row holds; the other statuses it takes are refused by its table.
UpdateSupplyStatus(s) ==
    /\ \E x \in EventStatuses \cap SupplyStatus : supply' = [supply EXCEPT ![s] = x]
    /\ UNCHANGED <<slotVars, bidVars, chainVars, req>>

-----------------------------------------------------------------------------
(* sealTimeslot and settleTimeslot *)

\* Mutant: attempts are not limited.
SlotWriteUnlimited(h) ==
    \/ Finish(h)
    \/ req[h].step \in Faults /\ req' = [req EXCEPT ![h].tries = @ + 1]

\* executeWithRetry around the update of a timeslot: the call returns, or its
\* reply is lost and the same update is made again later.
SlotWriteReturns(h) ==
    \/ Finish(h)
    \/ /\ req[h].step \in Faults
       /\ req[h].tries + 1 < MaxRetries
       /\ req' = [req EXCEPT ![h].tries = @ + 1]

BeginSeal(h, t) ==
    /\ status[t] = "OPEN"
    /\ Begin(h, "seal", t)
    /\ UNCHANGED <<slotVars, bidVars, supply, chainVars>>

SealTimeslot(h) ==
    /\ At(h, "seal")
    /\ status' = [status EXCEPT ![req[h].on] = "SEALED"]
    /\ SlotWriteReturns(h)
    /\ UNCHANGED <<clearingPrice, expired, bidVars, supply, chainVars>>

\* Mutant: settlement does not look at the timeslot's status.
BeginSettleUnchecked(h, t) ==
    /\ Begin(h, "fetch", t)
    /\ UNCHANGED <<slotVars, bidVars, supply, chainVars>>

BeginSettle(h, t) ==
    /\ status[t] = "SEALED"
    /\ Begin(h, "fetch", t)
    /\ UNCHANGED <<slotVars, bidVars, supply, chainVars>>

\* Mutant: expired bids are fetched too.
FetchBidsExpired(h) ==
    /\ At(h, "fetch") \/ At(h, "fetchBids")
    /\ req' = [req EXCEPT
         ![h].plan.bids = {b \in Bids : BidSlot[b] = req[h].on /\ bid[b] \in {"PENDING", "EXPIRED"}},
         ![h].step = IF At(h, "fetch") THEN "fetchSupplies" ELSE "clear"]
    /\ UNCHANGED <<slotVars, bidVars, supply, chainVars>>

\* calculateClearingPrice starts both queries; they are answered in any order.
FetchBids(h) ==
    /\ At(h, "fetch") \/ At(h, "fetchBids")
    /\ req' = [req EXCEPT
         ![h].plan.bids = {b \in Bids : BidSlot[b] = req[h].on /\ bid[b] = "PENDING"},
         ![h].step = IF At(h, "fetch") THEN "fetchSupplies" ELSE "clear"]
    /\ UNCHANGED <<slotVars, bidVars, supply, chainVars>>

FetchSupplies(h) ==
    /\ At(h, "fetch") \/ At(h, "fetchSupplies")
    /\ req' = [req EXCEPT
         ![h].plan.supplies = {s \in Supplies : SupplySlot[s] = req[h].on /\ supply[s] = "COMMITTED"},
         ![h].step = IF At(h, "fetch") THEN "fetchBids" ELSE "clear"]
    /\ UNCHANGED <<slotVars, bidVars, supply, chainVars>>

BidData(B) ==
    {[id |-> b, price |-> BidPrice[b], quantity |-> BidQuantity[b]] : b \in B}

SupplyData(S) ==
    {[id |-> s, reservePrice |-> ReservePrice[s], quantity |-> SupplyQuantity[s]] : s \in S}

\* The plans that clearing a set of bids and a set of offers can result in.
Clearings(B, S) ==
    {[bids     |-> {m.id : m \in r.matchedBids},
      supplies |-> {m.id : m \in r.matchedSupplies},
      price    |-> r.clearingPrice] : r \in ClearingOutcomes(BidData(B), SupplyData(S))}

\* The price is computed from what was fetched, without another call.
ClearMarket(h) ==
    /\ At(h, "clear")
    /\ \E p \in Clearings(req[h].plan.bids, req[h].plan.supplies) :
         req' = [req EXCEPT ![h].step = "execute", ![h].plan = p]
    /\ UNCHANGED <<slotVars, bidVars, supply, chainVars>>

\* executeMarketClearing: one update per matched bid, the highest price first.
MatchBid(h) ==
    /\ At(h, "execute")
    /\ \E b \in req[h].plan.bids :
         /\ \A c \in req[h].plan.bids : BidPrice[c] <= BidPrice[b]
         /\ bid' = [bid EXCEPT ![b] = "MATCHED"]
         /\ req' = [req EXCEPT ![h].plan.bids = @ \ {b}]
    /\ UNCHANGED <<slotVars, signed, supply, chainVars>>

\* Then one update per matched supply offer, the lowest reserve price first.
AllocateSupply(h) ==
    /\ At(h, "execute")
    /\ req[h].plan.bids = {}
    /\ \E s \in req[h].plan.supplies :
         /\ \A c \in req[h].plan.supplies : ReservePrice[s] <= ReservePrice[c]
         /\ supply' = [supply EXCEPT ![s] = "ALLOCATED"]
         /\ req' = [req EXCEPT ![h].plan.supplies = @ \ {s}]
    /\ UNCHANGED <<slotVars, bidVars, chainVars>>

SettleTimeslot(h) ==
    /\ At(h, "execute")
    /\ req[h].plan.bids = {} /\ req[h].plan.supplies = {}
    /\ status' = [status EXCEPT ![req[h].on] = "SETTLED"]
    /\ clearingPrice' = [clearingPrice EXCEPT ![req[h].on] = req[h].plan.price]
    /\ SlotWriteReturns(h)
    /\ UNCHANGED <<expired, bidVars, supply, chainVars>>

-----------------------------------------------------------------------------
(* Failing calls, the chain, the clock, restarts *)

\* The next call is the update of the timeslot's row.
WritesSlot(h) ==
    \/ At(h, "seal")
    \/ At(h, "execute") /\ req[h].plan.bids = {} /\ req[h].plan.supplies = {}

\* A call that fails before it has changed anything, at a step whose caller
\* only passes the error on; the update of a timeslot fails in its last attempt.
\* Rows already written stay as they are.
RequestFails(h) ==
    /\ req[h].step \in Faults \ {"idle", "submit", "confirming", "confirm"}
    /\ WritesSlot(h) => req[h].tries + 1 = MaxRetries
    /\ Finish(h)
    /\ UNCHANGED <<slotVars, bidVars, supply, chainVars>>

\* executeWithRetry: the update of the timeslot fails and is tried again.
SlotWriteRetried(h) ==
    /\ req[h].step \in Faults
    /\ WritesSlot(h)
    /\ req[h].tries + 1 < MaxRetries
    /\ req' = [req EXCEPT ![h].tries = @ + 1]
    /\ UNCHANGED <<slotVars, bidVars, supply, chainVars>>

\* The chain executes a transfer that was sent, or lets it expire; one sent by
\* another attempt may still be undecided.
TransferLands(b) ==
    /\ b \in inDoubt
    /\ inDoubt' \in {inDoubt, inDoubt \ {b}}
    /\ paid' = paid \cup {b}
    /\ UNCHANGED <<slotVars, bidVars, supply, req>>

TransferDropped(b) ==
    /\ b \in inDoubt
    /\ inDoubt' = inDoubt \ {b}
    /\ UNCHANGED <<slotVars, bidVars, supply, paid, req>>

SlotEnds(t) ==
    /\ t \notin expired
    /\ expired' = expired \cup {t}
    /\ UNCHANGED <<status, clearingPrice, bidVars, supply, chainVars, req>>

\* The process stops: requests in flight are gone, the rows stay.
Crash ==
    /\ Crashes
    /\ \E h \in Handlers : req[h] # Idle
    /\ req' = [h \in Handlers |-> Idle]
    /\ UNCHANGED <<slotVars, bidVars, supply, chainVars>>

-----------------------------------------------------------------------------
BeginRequest(h) ==
    \/ \E b \in Bids : BeginPlaceBid(h, b) \/ BeginCancelBid(h, b)
    \/ \E s \in Supplies : BeginCancelSupply(h, s)
    \/ \E t \in Timeslots : BeginSeal(h, t) \/ BeginSettle(h, t)

HandlerStep(h) ==
    \/ FindDuplicate(h) \/ InsufficientBalance(h) \/ CreateBid(h)
    \/ PrepareFails(h) \/ SendTransfer(h) \/ TransferConfirmed(h) \/ SubmitGivesUp(h)
    \/ MarkConfirmed(h) \/ MarkConfirmedFails(h) \/ UndoBid(h)
    \/ CancelBid(h)
    \/ CancelSupplyTransfer(h) \/ CancelSupply(h)
    \/ SealTimeslot(h)
    \/ FetchBids(h) \/ FetchSupplies(h) \/ ClearMarket(h)
    \/ MatchBid(h) \/ AllocateSupply(h) \/ SettleTimeslot(h)
    \/ RequestFails(h) \/ SlotWriteRetried(h)

Environment ==
    \/ \E b \in Bids : TransferLands(b) \/ TransferDropped(b) \/ UpdateBidStatus(b)
    \/ \E s \in Supplies : UpdateSupplyStatus(s)
    \/ \E t \in Timeslots : SlotEnds(t)
    \/ Crash

Next ==
    \/ \E h \in Handlers : BeginRequest(h) \/ HandlerStep(h)
    \/ Environment

\* The event loop runs every handler whose awaited call has been answered, and
\* every call is answered: the RPC waits race a timer, the database driver
\* times out.  Nothing obliges a client to send a request or the chain to act.
Fairness == \A h \in Handlers : WF_vars(HandlerStep(h))

Spec == Init /\ [][Next]_vars
FairSpec == Spec /\ Fairness

-----------------------------------------------------------------------------
(* Properties *)

\* Types of all state; by Requests, every handler works on a row its step is about.
TypeOK ==
    /\ status \in [Timeslots -> TimeslotStatus]
    /\ clearingPrice \in [Timeslots -> Nat \cup {NoPrice}]
    /\ expired \subseteq Timeslots
    /\ bid \in [Bids -> BidStatus \cup {"NONE"}]
    /\ signed \subseteq Bids
    /\ supply \in [Supplies -> SupplyStatus]
    /\ inDoubt \subseteq Bids
    /\ paid \subseteq Bids
    /\ req \in [Handlers -> Requests]

\* Only a bid whose row holds a signature and whose transfer has landed in
\* escrow is made CONFIRMED (bid.service.ts:95-108), through timeouts, lost
\* replies, cancellations and restarts, unless an operator writes the status.
ConfirmedWhenPaid ==
    [][\A b \in Bids :
         bid[b] # "CONFIRMED" /\ bid'[b] = "CONFIRMED" =>
            b \in signed' \cap paid \/ UpdateBidStatus(b)]_vars

\* Inductive: the handler about to write CONFIRMED works on a paid bid.
PaymentInv ==
    \A h \in Handlers : req[h].step = "confirm" => req[h].on \in paid

\* A transfer is sent only for a bid that has its row: whatever becomes of the
\* insert, of the transfer or of the process, a payment can be traced to a bid
\* (bid.service.ts:78-98).
TransfersHaveRows ==
    \A b \in inDoubt \cup paid : bid[b] # "NONE"

\* Inductive: a placement past its insert has a row.
RowInv ==
    /\ TransfersHaveRows
    /\ \A h \in Handlers :
         req[h].step \in PlaceSteps \ {"duplicate", "create"} => bid[req[h].on] # "NONE"

\* Nothing is matched or allocated in a timeslot still open for bids
\* (timeslot.service.ts:221-226), however long ago the handler read it, unless
\* an operator writes the status of the bid.
MatchedWhenSealed ==
    [][/\ \A b \in Bids :
            bid[b] # "MATCHED" /\ bid'[b] = "MATCHED" =>
               status[BidSlot[b]] # "OPEN" \/ UpdateBidStatus(b)
       /\ \A s \in Supplies :
            supply[s] # "ALLOCATED" /\ supply'[s] = "ALLOCATED" =>
               status[SupplySlot[s]] # "OPEN"]_vars

\* A settled timeslot carries the price of a clearing, and an open one none
\* (prisma.service.ts:296-306).
SettledHasPrice ==
    \A t \in Timeslots :
        /\ status[t] = "SETTLED" => clearingPrice[t] # NoPrice
        /\ status[t] = "OPEN" => clearingPrice[t] = NoPrice

\* Inductive: who settles a timeslot found it sealed, and marks only rows of it.
SealInv ==
    /\ SettledHasPrice
    /\ \A h \in Handlers :
         /\ req[h].step \in SettleSteps => status[req[h].on] # "OPEN"
         /\ req[h].step \notin SettleSteps => req[h].plan = NoPlan
         /\ \A b \in req[h].plan.bids : BidSlot[b] = req[h].on
         /\ \A s \in req[h].plan.supplies : SupplySlot[s] = req[h].on

\* A PENDING row belongs to a placement in flight that will still decide it,
\* unless an operator wrote it, or the insert's own reply or the catch block's
\* update is lost: nothing else that fails leaves one behind
\* (bid.service.ts:78-132).
PendingIsInFlight ==
    \A b \in Bids \ Leftover :
        bid[b] = "PENDING" =>
            \E h \in Handlers : req[h].on = b /\ req[h].step \in PlaceSteps

\* A bid no longer in play that no handler will write: its placement is over
\* and no settlement has it in its plan.
Withdrawn(b) ==
    /\ bid[b] \in {"CANCELLED", "EXPIRED"}
    /\ \A h \in Handlers :
         /\ ~ (req[h].on = b /\ req[h].step \in PlaceSteps)
         /\ b \notin req[h].plan.bids

\* Such a bid is out for good: no later placement, cancellation, clearing or
\* retry takes it up again (bid.service.ts:79, 276, clearing-price.service.ts:137),
\* only an operator can.
WithdrawnIsFinal ==
    [][\A b \in Bids : Withdrawn(b) => Withdrawn(b)' \/ UpdateBidStatus(b)]_vars

\* Every request comes to an end: no wait is unbounded and every retry loop
\* stops (blockchain-transaction.service.ts:105-168, prisma.service.ts:50-67).
RequestReturns ==
    \A h \in Handlers : req[h] # Idle ~> req[h] = Idle

\* A user has at most one PENDING or CONFIRMED bid in a timeslot
\* (bid.service.ts:57-70).
OneActiveBid ==
    \A b, c \in Bids :
        /\ Bidder[b] = Bidder[c] /\ BidSlot[b] = BidSlot[c]
        /\ bid[b] \in Active /\ bid[c] \in Active
        => b = c

\* Once a timeslot is settled nothing takes it back to SEALED or prices it
\* again: only open timeslots are sealed and only sealed ones are settled
\* (timeslot.service.ts:196-200, 221-229).
SettledIsFinal ==
    [][\A t \in Timeslots :
         status[t] = "SETTLED" =>
            status'[t] = "SETTLED" /\ clearingPrice'[t] = clearingPrice[t]]_vars

MatchedIn(t) == {b \in Bids : BidSlot[b] = t /\ bid[b] = "MATCHED"}
AllocatedIn(t) == {s \in Supplies : SupplySlot[s] = t /\ supply[s] = "ALLOCATED"}

\* A clearing takes up every active bid of its timeslot
\* (clearing-price.service.ts:45).
ClearingSeesActiveBids ==
    [][\A h \in Handlers : FetchBids(h) =>
         {b \in Bids : BidSlot[b] = req[h].on /\ bid[b] \in Active} \subseteq req'[h].plan.bids]_vars

\* Once a timeslot is settled, who was matched in it does not change.
SettledBookIsFinal ==
    [][\A t \in Timeslots :
         status[t] = "SETTLED" =>
            MatchedIn(t)' = MatchedIn(t) /\ AllocatedIn(t)' = AllocatedIn(t)]_vars

\* In a settled timeslot no matched bid offered less than the recorded price
\* and no allocated supply asked for more (clearing-price.service.ts:267, 294).
MatchedWithinPrices ==
    \A t \in Timeslots : status[t] = "SETTLED" =>
        /\ \A b \in MatchedIn(t) : BidPrice[b] >= clearingPrice[t]
        /\ \A s \in AllocatedIn(t) : ReservePrice[s] <= clearingPrice[t]

\* In a settled timeslot the allocated supply covers the matched demand.
MatchedDemandCovered ==
    \A t \in Timeslots : status[t] = "SETTLED" =>
        MapThenSumSet(LAMBDA b : BidQuantity[b], MatchedIn(t))
            <= MapThenSumSet(LAMBDA s : SupplyQuantity[s], AllocatedIn(t))

\* The rows as the market shows them: what a settlement under way has marked
\* counts once the timeslot is settled.
ShownBid ==
    [b \in Bids |-> IF bid[b] = "MATCHED" /\ status[BidSlot[b]] # "SETTLED" THEN "PENDING" ELSE bid[b]]

ShownSupply ==
    [s \in Supplies |->
        IF supply[s] = "ALLOCATED" /\ status[SupplySlot[s]] # "SETTLED" THEN "COMMITTED" ELSE supply[s]]

\* The timeslot a request is about.
SlotOf(r) ==
    CASE r.step \in BidSteps    -> BidSlot[r.on]
      [] r.step \in SupplySteps -> SupplySlot[r.on]
      [] OTHER                  -> r.on

\* No two requests in flight are about one timeslot.
Apart ==
    \A g, h \in Handlers :
        req[g] # Idle /\ req[h] # Idle /\ SlotOf(req[g]) = SlotOf(req[h]) => g = h

\* While requests about one timeslot do not overlap, and the settlement's updates
\* do not fail half-way, every step is one of a market in which requests take effect
\* at once, or changes nothing of it: checks made before an await still hold at
\* the write (bid.service.ts:48-95, 276-281, timeslot.service.ts:196-231), and a
\* settlement of many updates is one clearing of the book (timeslot.service.ts:276).
Promise == INSTANCE Market WITH bid <- ShownBid, supply <- ShownSupply
ImplementsMarket == Promise!Spec
===============================================================================
