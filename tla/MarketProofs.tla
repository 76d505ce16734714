----------------------------- MODULE MarketProofs -----------------------------
(* What Auction guarantees of the market when requests do not interfere:      *)
(*  - one request at a time: from BookInv, FitInv and CoverInv, settled books  *)
(*    are final, priced for everybody in them and covered by the supply;       *)
(*  - requests about different timeslots, in any number: from MarketInv, the  *)
(*    whole implements the abstract specification Market.                     *)
EXTENDS AuctionProofs, MarketClearingProofs

-----------------------------------------------------------------------------
(* One request at a time: the settled book *)

\* What a request has found of its row still holds, or the request is about to
\* repeat the last update of its settlement.
BookOK(r) ==
  /\ r.step \in BidSteps => bid[r.on] # "MATCHED"
  /\ r.step \in SupplySteps => supply[r.on] # "ALLOCATED"
  /\ r.step = "seal" => status[r.on] # "SETTLED"
  /\ r.step \in SettleSteps =>
       \/ status[r.on] = "SEALED"
       \/ r.step = "execute" /\ "execute" \in Faults /\ r.plan.bids = {} /\ r.plan.supplies = {}

BookInv == \A h \in Handlers : BookOK(req[h])

LEMMA IdleBook == BookOK(Idle) /\ BookOK(Idle)'
BY DEF BookOK, Idle, BidSteps, PlaceSteps, SupplySteps, SettleSteps

LEMMA Kinds ==
  /\ BidSteps \cap SupplySteps = {} /\ BidSteps \cap SettleSteps = {}
  /\ SupplySteps \cap SettleSteps = {}
  /\ "seal" \notin BidSteps \cup SupplySteps \cup SettleSteps
  /\ PlaceSteps \subseteq BidSteps /\ "cancel" \in BidSteps
  /\ "cancelSupply" \in SupplySteps /\ "release" \in SupplySteps
  /\ SupplySteps = {"cancelSupply", "release"}
  /\ SettleSteps = {"fetch", "fetchBids", "fetchSupplies", "clear", "execute"}
BY DEF BidSteps, PlaceSteps, SupplySteps, SettleSteps

LEMMA BookBegins ==
  ASSUME TypeOK, NEW h \in Handlers, BeginRequest(h)
  PROVE  BookOK(req[h])'
<1> USE Kinds DEF bidVars, slotVars, BookOK, TypeOK
<1>1. ASSUME NEW b \in Bids, BeginPlaceBid(h, b)
      PROVE  BookOK(req[h])'
  <2>1. req'[h].step = "duplicate" /\ req'[h].on = b /\ bid'[b] = "NONE"
    BY <1>1, Begins DEF BeginPlaceBid
  <2> QED BY <2>1
<1>2. ASSUME NEW b \in Bids, BeginCancelBid(h, b)
      PROVE  BookOK(req[h])'
  <2>1. req'[h].step = "cancel" /\ req'[h].on = b /\ bid'[b] # "MATCHED"
    BY <1>2, Begins DEF BeginCancelBid, Active
  <2> QED BY <2>1
<1>3. ASSUME NEW s \in Supplies, BeginCancelSupply(h, s)
      PROVE  BookOK(req[h])'
  <2>1. req'[h].step = "cancelSupply" /\ req'[h].on = s /\ supply'[s] # "ALLOCATED"
    BY <1>3, Begins DEF BeginCancelSupply
  <2> QED BY <2>1
<1>4. ASSUME NEW t \in Timeslots, BeginSeal(h, t)
      PROVE  BookOK(req[h])'
  <2>1. req'[h].step = "seal" /\ req'[h].on = t /\ status'[t] # "SETTLED"
    BY <1>4, Begins DEF BeginSeal
  <2> QED BY <2>1
<1>5. ASSUME NEW t \in Timeslots, BeginSettle(h, t)
      PROVE  BookOK(req[h])'
  <2>1. req'[h].step = "fetch" /\ req'[h].on = t /\ status'[t] = "SEALED"
    BY <1>5, Begins DEF BeginSettle
  <2> QED BY <2>1
<1> QED BY <1>1, <1>2, <1>3, <1>4, <1>5 DEF BeginRequest

LEMMA BookSteps ==
  ASSUME TypeOK, NEW h \in Handlers, BookOK(req[h]), HandlerStep(h)
  PROVE  BookOK(req[h])'
<1> USE DEF bidVars, slotVars, At
<1>1. req[h] \in Requests
  BY DEF TypeOK
<1>2. ASSUME Finish(h) PROVE BookOK(req[h])'
  <2>1. req'[h] = Idle
    BY <1>2, OwnRequest
  <2> QED BY <2>1, IdleBook
\* A request that keeps its kind of row, where that row keeps its state.
<1>3. ASSUME bid' = bid, supply' = supply, status' = status, NEW s,
             req'[h].step = s, req'[h].on = req[h].on,
             \/ s \in BidSteps /\ req[h].step \in BidSteps
             \/ s \in SupplySteps /\ req[h].step \in SupplySteps
             \/ s \in SettleSteps /\ req[h].step \in SettleSteps \ {"execute"}
             \/ s = req[h].step /\ req'[h].plan = req[h].plan
      PROVE  BookOK(req[h])'
  BY <1>3, Kinds DEF BookOK
<1>4. CASE FindDuplicate(h) \/ InsufficientBalance(h) \/ PrepareFails(h) \/ TransferConfirmed(h)
           \/ SubmitGivesUp(h) \/ MarkConfirmedFails(h)
  <2>1. Finish(h) \/ \E s \in PlaceSteps : Go(h, s)
    BY <1>4 DEF FindDuplicate, InsufficientBalance, PrepareFails, TransferConfirmed, SubmitGivesUp,
       MarkConfirmedFails, PlaceSteps
  <2>2. req[h].step \in PlaceSteps /\ bid' = bid /\ supply' = supply /\ status' = status
    BY <1>4 DEF FindDuplicate, InsufficientBalance, PrepareFails, TransferConfirmed, SubmitGivesUp,
       MarkConfirmedFails, PlaceSteps
  <2> QED BY <1>2, <1>3, <2>1, <2>2, OwnRequest, Kinds
<1>5. CASE SendTransfer(h)
  <2>1. /\ req[h].step \in PlaceSteps /\ req'[h].step = "confirming" /\ req'[h].on = req[h].on
        /\ bid' = bid /\ supply' = supply /\ status' = status
    BY <1>1, <1>5 DEF SendTransfer, PlaceSteps, TypeOK, Requests
  <2>2. "confirming" \in BidSteps
    BY DEF BidSteps, PlaceSteps
  <2> QED BY <1>3, <2>1, <2>2, Kinds
<1>6. CASE CreateBid(h) \/ MarkConfirmed(h)
  <2>1. /\ req[h].step \in {"create", "confirm"}
        /\ bid' = [bid EXCEPT ![req[h].on] = IF req[h].step = "create" THEN "PENDING" ELSE "CONFIRMED"]
        /\ Finish(h) \/ Go(h, "submit") \/ Go(h, "undo")
    BY <1>6 DEF CreateBid, MarkConfirmed
  <2>2. req[h].on \in Bids
    BY <1>1, <2>1, FitsAlong DEF BidSteps, PlaceSteps
  <2>3. bid'[req[h].on] # "MATCHED"
    BY <2>1, <2>2 DEF TypeOK
  <2>4. Go(h, "submit") \/ Go(h, "undo") => BookOK(req[h])'
    <3>1. "submit" \in BidSteps /\ "undo" \in BidSteps
      BY DEF BidSteps, PlaceSteps
    <3> QED BY <2>3, <3>1, OwnRequest, Kinds DEF BookOK
  <2> QED BY <1>2, <2>1, <2>4
<1>7. CASE UndoBid(h) \/ CancelBid(h) \/ CancelSupply(h) \/ RequestFails(h)
  BY <1>2, <1>7 DEF UndoBid, CancelBid, CancelSupply, RequestFails
<1>8. CASE CancelSupplyTransfer(h)
  <2>1. /\ Finish(h) \/ Go(h, "release")
        /\ req[h].step = "cancelSupply" /\ bid' = bid /\ supply' = supply /\ status' = status
    BY <1>8 DEF CancelSupplyTransfer
  <2> QED BY <1>2, <1>3, <2>1, OwnRequest, Kinds
<1>9. CASE SealTimeslot(h)
  <2>1. req[h].step = "seal" /\ req[h].on \in Timeslots
    BY <1>1, <1>9, FitsAlong DEF SealTimeslot, SlotSteps
  <2>2. status'[req[h].on] # "SETTLED"
    BY <1>9, <2>1 DEF SealTimeslot, TypeOK
  <2>3. req'[h] = Idle \/ (req'[h].step = "seal" /\ req'[h].on = req[h].on)
    BY <1>9, <2>1, OwnRequest DEF SealTimeslot
  <2> QED BY <2>2, <2>3, IdleBook, Kinds DEF BookOK
<1>10. CASE FetchBids(h) \/ FetchSupplies(h)
  <2>1. /\ req[h].step \in SettleSteps \ {"execute"} /\ req'[h].on = req[h].on
        /\ req'[h].step \in SettleSteps
        /\ bid' = bid /\ supply' = supply /\ status' = status
    BY <1>1, <1>10 DEF FetchBids, FetchSupplies, SettleSteps, TypeOK, Requests
  <2> QED BY <1>3, <2>1
<1>11. CASE ClearMarket(h)
  <2>1. /\ req[h].step \in SettleSteps \ {"execute"} /\ req'[h].on = req[h].on
        /\ req'[h].step \in SettleSteps
        /\ bid' = bid /\ supply' = supply /\ status' = status
    BY <1>1, <1>11 DEF ClearMarket, SettleSteps, TypeOK, Requests
  <2> QED BY <1>3, <2>1
<1>12. CASE MatchBid(h) \/ AllocateSupply(h)
  <2>1. /\ req[h].step = "execute" /\ req'[h].step = "execute" /\ req'[h].on = req[h].on
        /\ req[h].plan.bids # {} \/ req[h].plan.supplies # {}
        /\ status' = status
    BY <1>1, <1>12 DEF MatchBid, AllocateSupply, TypeOK, Requests
  <2>2. status[req[h].on] = "SEALED"
    BY <2>1, Kinds DEF BookOK
  <2> QED BY <2>1, <2>2, Kinds DEF BookOK
<1>13. CASE SettleTimeslot(h)
  <2>1. req[h].step = "execute" /\ req[h].plan.bids = {} /\ req[h].plan.supplies = {}
    BY <1>13 DEF SettleTimeslot
  <2>2. ASSUME ~ Finish(h)
        PROVE  /\ "execute" \in Faults /\ req'[h].step = "execute"
               /\ req'[h].plan = req[h].plan
    BY <1>1, <1>13, <2>1, <2>2 DEF SettleTimeslot, SlotWriteReturns, TypeOK, Requests
  <2>3. CASE ~ Finish(h)
    BY <2>1, <2>2, <2>3, Kinds DEF BookOK
  <2> QED BY <1>2, <2>3
<1>14. CASE SlotWriteRetried(h)
  <2>1. /\ bid' = bid /\ supply' = supply /\ status' = status
        /\ req'[h].step = req[h].step /\ req'[h].on = req[h].on /\ req'[h].plan = req[h].plan
    BY <1>1, <1>14 DEF SlotWriteRetried, TypeOK, Requests
  <2> QED BY <1>3, <2>1
<1> QED BY <1>4, <1>5, <1>6, <1>7, <1>8, <1>9, <1>10, <1>11, <1>12, <1>13, <1>14 DEF HandlerStep

\* Operators do not set ALLOCATED.
LEMMA NoneAllocated == "ALLOCATED" \notin EventStatuses
BY FaultAssumption DEF BidStatus

LEMMA BookStep ==
  ASSUME \A g, h \in Handlers : g = h, "MATCHED" \notin EventStatuses,
         TypeOK, BookInv, [Next]_vars
  PROVE  BookInv'
<1>1. CASE UNCHANGED vars
  BY <1>1 DEF vars, BookInv, BookOK
<1>2. CASE Environment
  <2>1. CASE Crash
    BY <2>1, IdleBook DEF Crash, BookInv
  <2>2. CASE ~ Crash
    <3>1. req' = req /\ status' = status
      BY <1>2, <2>2 DEF Environment, TransferLands, TransferDropped, UpdateBidStatus,
         UpdateSupplyStatus, SlotEnds, slotVars
    <3>2. \A b \in Bids : bid'[b] = "MATCHED" => bid[b] = "MATCHED"
      BY <1>2, EnvironmentWrites
    <3>3. \A s \in Supplies : supply'[s] = "ALLOCATED" => supply[s] = "ALLOCATED"
      BY <1>2, <2>2, NoneAllocated DEF Environment, TransferLands, TransferDropped,
         UpdateBidStatus, UpdateSupplyStatus, SlotEnds, TypeOK
    <3>4. \A h \in Handlers : /\ req[h].step \in BidSteps => req[h].on \in Bids
                              /\ req[h].step \in SupplySteps => req[h].on \in Supplies
      BY FitsAlong DEF TypeOK
    <3> QED BY <3>1, <3>2, <3>3, <3>4 DEF BookInv, BookOK
  <2> QED BY <2>1, <2>2
<1>3. ASSUME NEW h \in Handlers, HandlerStep(h) \/ BeginRequest(h)
      PROVE  BookInv'
  <2>1. BookOK(req[h])'
    BY <1>3, BookBegins, BookSteps DEF BookInv
  <2>2. \A g \in Handlers : g = h
    OBVIOUS
  <2> QED BY <2>1, <2>2 DEF BookInv
<1> QED BY <1>1, <1>2, <1>3 DEF Next

LEMMA InitBook == Init => BookInv
BY IdleBook DEF Init, BookInv

\* Which steps write an offer's row.
LEMMA SupplyWrites ==
  ASSUME TypeOK, NEW h \in Handlers, HandlerStep(h) \/ BeginRequest(h), NEW s \in Supplies
  PROVE  \/ supply'[s] = supply[s]
         \/ s = req[h].on /\ req[h].step = "release" /\ supply'[s] = "CANCELLED"
         \/ s \in req[h].plan.supplies /\ req[h].step = "execute" /\ supply'[s] = "ALLOCATED"
<1> USE DEF TypeOK, At
<1>1. CASE BeginRequest(h)
  BY <1>1 DEF BeginRequest, BeginPlaceBid, BeginCancelBid, BeginCancelSupply, BeginSeal, BeginSettle
<1>2. CASE CancelSupply(h) \/ AllocateSupply(h)
  BY <1>2 DEF CancelSupply, AllocateSupply
<1>3. CASE HandlerStep(h) /\ ~ (CancelSupply(h) \/ AllocateSupply(h))
  BY <1>3 DEF HandlerStep, FindDuplicate, InsufficientBalance, CreateBid, PrepareFails, SendTransfer,
     TransferConfirmed, SubmitGivesUp, MarkConfirmed, MarkConfirmedFails, UndoBid, CancelBid,
     CancelSupplyTransfer, SealTimeslot, FetchBids, FetchSupplies, ClearMarket, MatchBid,
     SettleTimeslot, RequestFails, SlotWriteRetried
<1> QED BY <1>1, <1>2, <1>3

\* What a request with a plan still to mark says of a timeslot.
LEMMA PlannedIsSealed ==
  ASSUME TypeOK, BookInv, SealInv, NEW h \in Handlers, req[h].step = "execute"
  PROVE  /\ \A b \in req[h].plan.bids : b \in Bids /\ BidSlot[b] = req[h].on
         /\ \A s \in req[h].plan.supplies : s \in Supplies /\ SupplySlot[s] = req[h].on
         /\ req[h].plan.bids # {} \/ req[h].plan.supplies # {} \/ "execute" \notin Faults =>
              status[req[h].on] = "SEALED"
<1>1. req[h].plan \in Plans
  BY DEF TypeOK, Requests
<1>2. BookOK(req[h])
  BY DEF BookInv
<1> QED BY <1>1, <1>2, Kinds DEF Plans, SealInv, BookOK

LEMMA SettledStays ==
  ASSUME EventStatuses = {}, TypeOK, BookInv, SealInv, [Next]_vars,
         NEW t \in Timeslots, status[t] = "SETTLED"
  PROVE  MatchedIn(t)' = MatchedIn(t) /\ AllocatedIn(t)' = AllocatedIn(t)
<1>1. SUFFICES /\ \A b \in Bids : BidSlot[b] = t =>
                    (bid'[b] = "MATCHED" <=> bid[b] = "MATCHED")
               /\ \A s \in Supplies : SupplySlot[s] = t =>
                    (supply'[s] = "ALLOCATED" <=> supply[s] = "ALLOCATED")
  BY DEF MatchedIn, AllocatedIn
<1>2. CASE UNCHANGED vars
  BY <1>2 DEF vars
<1>3. CASE Environment
  BY <1>3 DEF Environment, TransferLands, TransferDropped, UpdateBidStatus, UpdateSupplyStatus,
     SlotEnds, Crash, bidVars
<1>4. ASSUME NEW h \in Handlers, HandlerStep(h) \/ BeginRequest(h)
      PROVE  /\ \A b \in Bids : BidSlot[b] = t =>
                  (bid'[b] = "MATCHED" <=> bid[b] = "MATCHED")
             /\ \A s \in Supplies : SupplySlot[s] = t =>
                  (supply'[s] = "ALLOCATED" <=> supply[s] = "ALLOCATED")
  <2>1. BookOK(req[h])
    BY DEF BookInv
  <2>2. ASSUME NEW b \in Bids, BidSlot[b] = t
        PROVE  bid'[b] = "MATCHED" <=> bid[b] = "MATCHED"
    <3>1. ~ (b \in req[h].plan.bids /\ req[h].step = "execute")
      BY <2>2, PlannedIsSealed
    <3>2. {"create", "confirm", "undo", "cancel"} \subseteq BidSteps
      BY DEF BidSteps, PlaceSteps
    <3> QED BY <1>4, <2>1, <3>1, <3>2, BidWrites DEF BookOK
  <2>3. ASSUME NEW s \in Supplies, SupplySlot[s] = t
        PROVE  supply'[s] = "ALLOCATED" <=> supply[s] = "ALLOCATED"
    <3>1. ~ (s \in req[h].plan.supplies /\ req[h].step = "execute")
      BY <2>3, PlannedIsSealed
    <3> QED BY <1>4, <2>1, <3>1, Kinds, SupplyWrites DEF BookOK
  <2> QED BY <2>2, <2>3
<1> QED BY <1>2, <1>3, <1>4 DEF Next

\* A server that serves one request at a time, and whose operator rewrites no
\* statuses, never changes who was matched in a settled timeslot: not by a late
\* cancellation, not by a seal or a settlement repeated after a lost reply, not
\* after a restart.
THEOREM OneHandlerSettledBooks ==
  ASSUME \A g, h \in Handlers : g = h,
         EventStatuses = {}
  PROVE  Spec => SettledBookIsFinal
<1>1. TypeOK /\ BookInv /\ SealInv /\ [Next]_vars =>
        [\A t \in Timeslots : status[t] = "SETTLED" =>
           MatchedIn(t)' = MatchedIn(t) /\ AllocatedIn(t)' = AllocatedIn(t)]_vars
  BY SettledStays
<1>2. TypeOK /\ BookInv /\ [Next]_vars => BookInv'
  BY BookStep
<1> QED BY <1>1, <1>2, InitTypeOK, NextTypeOK, InitSeal, SealStep, InitBook, PTL
        DEF Spec, SettledBookIsFinal

-----------------------------------------------------------------------------
(* One request at a time: the price fits everybody matched at it *)

\* A clearing marks only bids that offer its price and offers that accept it.
LEMMA OutcomeFits ==
  ASSUME NEW B, NEW S, NEW r \in ClearingOutcomes(B, S)
  PROVE  /\ \A m \in r.matchedBids : \E b \in B : m.id = b.id /\ b.price >= r.clearingPrice
         /\ \A m \in r.matchedSupplies :
              \E s \in S : m.id = s.id /\ s.reservePrice <= r.clearingPrice
<1>1. PICK bs \in SortedBids(B), ss \in SortedSupplies(S) :
        \/ \E i \in DOMAIN bs, j \in DOMAIN ss : r = ClearedAt(bs, ss, i, j)
        \/ r = NothingCleared(B, S)
  BY SMTT(30) DEF ClearingOutcomes
<1>2. /\ \A i \in DOMAIN bs : bs[i] \in B
      /\ \A j \in DOMAIN ss : ss[j] \in S
  BY DEF SortedBids, SortedSupplies, Listings
<1>3. CASE r = NothingCleared(B, S)
  BY <1>3 DEF NothingCleared
<1>4. CASE \E i \in DOMAIN bs, j \in DOMAIN ss : r = ClearedAt(bs, ss, i, j)
  <2>1. PICK i \in DOMAIN bs, j \in DOMAIN ss : r = ClearedAt(bs, ss, i, j)
    BY <1>4
  <2>2. ASSUME NEW s, NEW ok, NEW q, NEW m \in Served(s, ok, q)
        PROVE  \E n \in ok : m.id = s[n].id
    BY <2>2 DEF Served
  <2>3. r.clearingPrice = ss[j].reservePrice
    BY <2>1 DEF ClearedAt
  <2>4. \A m \in r.matchedBids : \E n \in DOMAIN bs : m.id = bs[n].id /\ bs[n].price >= ss[j].reservePrice
    BY <2>1, <2>2 DEF ClearedAt
  <2>5. \A m \in r.matchedSupplies :
          \E n \in DOMAIN ss : m.id = ss[n].id /\ ss[n].reservePrice <= ss[j].reservePrice
    BY <2>1, <2>2 DEF ClearedAt
  <2> QED BY <1>2, <2>3, <2>4, <2>5
<1> QED BY <1>1, <1>3, <1>4

\* A plan of rows that the price suits.
PlanFits(plan) ==
  /\ \A b \in plan.bids : BidPrice[b] >= plan.price
  /\ \A s \in plan.supplies : ReservePrice[s] <= plan.price

LEMMA PlanSuits ==
  ASSUME NEW B, NEW S, NEW p \in Clearings(B, S)
  PROVE  PlanFits(p)
<1>1. PICK r \in ClearingOutcomes(BidData(B), SupplyData(S)) :
        p = [bids     |-> {m.id : m \in r.matchedBids},
             supplies |-> {m.id : m \in r.matchedSupplies},
             price    |-> r.clearingPrice]
  BY DEF Clearings
<1>2. \A m \in r.matchedBids : BidPrice[m.id] >= r.clearingPrice
  BY OutcomeFits DEF BidData
<1>3. \A m \in r.matchedSupplies : ReservePrice[m.id] <= r.clearingPrice
  BY OutcomeFits DEF SupplyData
<1> QED BY <1>1, <1>2, <1>3 DEF PlanFits

\* What is matched in a timeslot not settled yet was matched by the settlement
\* under way, at the price that it is about to record.
FitInv ==
  /\ MatchedWithinPrices
  /\ \A h \in Handlers : req[h].step = "execute" => PlanFits(req[h].plan)
  /\ \A t \in Timeslots : status[t] # "SETTLED" =>
       /\ \A b \in MatchedIn(t) : \E h \in Handlers :
            req[h].step = "execute" /\ req[h].on = t /\ BidPrice[b] >= req[h].plan.price
       /\ \A s \in AllocatedIn(t) : \E h \in Handlers :
            req[h].step = "execute" /\ req[h].on = t /\ ReservePrice[s] <= req[h].plan.price

LEMMA InitFits == Init => FitInv
<1> SUFFICES ASSUME Init PROVE FitInv
  OBVIOUS
<1>1. \A t \in Timeslots : MatchedIn(t) = {} /\ AllocatedIn(t) = {} /\ status[t] # "SETTLED"
  BY DEF Init, MatchedIn, AllocatedIn
<1>2. \A h \in Handlers : req[h].step # "execute"
  BY DEF Init, Idle
<1> QED BY <1>1, <1>2 DEF FitInv, MatchedWithinPrices

\* A step that marks nothing, settles nothing and leaves a settlement's price.
LEMMA FitFrame ==
  ASSUME FitInv,
         \A b \in Bids : bid'[b] = "MATCHED" => bid[b] = "MATCHED",
         \A s \in Supplies : supply'[s] = "ALLOCATED" => supply[s] = "ALLOCATED",
         \A t \in Timeslots : status'[t] = "SETTLED" <=> status[t] = "SETTLED",
         clearingPrice' = clearingPrice,
         \A h \in Handlers :
            /\ req'[h].step = "execute" <=> req[h].step = "execute"
            /\ req[h].step = "execute" => req'[h].on = req[h].on /\ req'[h].plan = req[h].plan
  PROVE  FitInv'
<1>1. \A t \in Timeslots : /\ MatchedIn(t)' \subseteq MatchedIn(t)
                           /\ AllocatedIn(t)' \subseteq AllocatedIn(t)
  BY DEF MatchedIn, AllocatedIn
<1>2. MatchedWithinPrices'
  BY <1>1 DEF FitInv, MatchedWithinPrices
<1>3. \A h \in Handlers : req'[h].step = "execute" => PlanFits(req'[h].plan)
  BY DEF FitInv, PlanFits
<1>4. ASSUME NEW t \in Timeslots, status'[t] # "SETTLED", NEW b \in MatchedIn(t)'
      PROVE  \E h \in Handlers :
               req'[h].step = "execute" /\ req'[h].on = t /\ BidPrice[b] >= req'[h].plan.price
  BY <1>1, <1>4 DEF FitInv
<1>5. ASSUME NEW t \in Timeslots, status'[t] # "SETTLED", NEW s \in AllocatedIn(t)'
      PROVE  \E h \in Handlers :
               req'[h].step = "execute" /\ req'[h].on = t /\ ReservePrice[s] <= req'[h].plan.price
  BY <1>1, <1>5 DEF FitInv
<1> QED BY <1>2, <1>3, <1>4, <1>5 DEF FitInv, PlanFits

\* The settlement's own steps keep the rows marked so far within its price.
LEMMA FitSettles ==
  ASSUME \A g, h \in Handlers : g = h,
         "execute" \notin Faults,
         TypeOK, BookInv, SealInv, FitInv,
         NEW h \in Handlers,
         ClearMarket(h) \/ MatchBid(h) \/ AllocateSupply(h) \/ SettleTimeslot(h)
  PROVE  FitInv'
<1> USE DEF At, bidVars, slotVars
<1>1. \A g \in Handlers : g = h
  OBVIOUS
<1>2. req[h] \in Requests /\ req \in [Handlers -> Requests]
  BY DEF TypeOK
<1>3. CASE ClearMarket(h)
  <2>1. /\ bid' = bid /\ supply' = supply /\ status' = status /\ clearingPrice' = clearingPrice
        /\ req[h].step = "clear"
    BY <1>3 DEF ClearMarket
  <2>2. PICK p \in Clearings(req[h].plan.bids, req[h].plan.supplies) :
          req' = [req EXCEPT ![h].step = "execute", ![h].plan = p]
    BY <1>3 DEF ClearMarket
  <2>3. req'[h].plan = p
    BY <1>2, <2>2 DEF Requests
  <2>5. PlanFits(req'[h].plan)
    BY <2>3, PlanSuits
  <2>6. \A t \in Timeslots : status[t] # "SETTLED" => MatchedIn(t) = {} /\ AllocatedIn(t) = {}
    BY <1>1, <2>1 DEF FitInv
  <2>7. \A t \in Timeslots : MatchedIn(t)' = MatchedIn(t) /\ AllocatedIn(t)' = AllocatedIn(t)
    BY <2>1 DEF MatchedIn, AllocatedIn
  <2>8. MatchedWithinPrices'
    BY <2>1, <2>7 DEF FitInv, MatchedWithinPrices
  <2> QED BY <1>1, <2>1, <2>5, <2>6, <2>7, <2>8 DEF FitInv, PlanFits
<1>4. CASE MatchBid(h) \/ AllocateSupply(h)
  <2>1. req[h].step = "execute" /\ status' = status /\ clearingPrice' = clearingPrice
    BY <1>4 DEF MatchBid, AllocateSupply
  <2>2. status[req[h].on] = "SEALED" /\ PlanFits(req[h].plan)
    BY <2>1, PlannedIsSealed DEF FitInv
  <2>3. /\ req'[h].step = "execute" /\ req'[h].on = req[h].on
        /\ req'[h].plan.price = req[h].plan.price
        /\ req'[h].plan.bids \subseteq req[h].plan.bids
        /\ req'[h].plan.supplies \subseteq req[h].plan.supplies
    BY <1>2, <1>4, <2>1 DEF MatchBid, AllocateSupply, Requests, Plans
  <2>4. \A b \in Bids : \/ bid'[b] = bid[b]
                        \/ BidSlot[b] = req[h].on /\ BidPrice[b] >= req[h].plan.price
    BY <1>4, <2>1, <2>2, PlannedIsSealed, SMTT(30) DEF MatchBid, AllocateSupply, PlanFits, TypeOK
  <2>5. \A s \in Supplies : \/ supply'[s] = supply[s]
                            \/ SupplySlot[s] = req[h].on /\ ReservePrice[s] <= req[h].plan.price
    BY <1>4, <2>1, <2>2, PlannedIsSealed, SMTT(30) DEF MatchBid, AllocateSupply, PlanFits, TypeOK
  <2>6. ASSUME NEW t \in Timeslots, NEW b \in MatchedIn(t)'
        PROVE  b \in MatchedIn(t) \/ (t = req[h].on /\ BidPrice[b] >= req[h].plan.price)
    BY <2>4, <2>6 DEF MatchedIn
  <2>7. ASSUME NEW t \in Timeslots, NEW s \in AllocatedIn(t)'
        PROVE  s \in AllocatedIn(t) \/ (t = req[h].on /\ ReservePrice[s] <= req[h].plan.price)
    BY <2>5, <2>7 DEF AllocatedIn
  <2>8. MatchedWithinPrices'
    BY <2>1, <2>2, <2>6, <2>7 DEF FitInv, MatchedWithinPrices
  <2>9. PlanFits(req'[h].plan)
    BY <2>2, <2>3 DEF PlanFits
  <2>10. ASSUME NEW t \in Timeslots, status'[t] # "SETTLED"
         PROVE  /\ \A b \in MatchedIn(t)' : req'[h].on = t /\ BidPrice[b] >= req'[h].plan.price
                /\ \A s \in AllocatedIn(t)' : req'[h].on = t /\ ReservePrice[s] <= req'[h].plan.price
    <3>1. /\ \A b \in MatchedIn(t) : req[h].on = t /\ BidPrice[b] >= req[h].plan.price
          /\ \A s \in AllocatedIn(t) : req[h].on = t /\ ReservePrice[s] <= req[h].plan.price
      BY <1>1, <2>1, <2>10 DEF FitInv
    <3> QED BY <2>3, <2>6, <2>7, <3>1
  <2> QED BY <1>1, <2>3, <2>8, <2>9, <2>10 DEF FitInv, PlanFits
<1>5. CASE SettleTimeslot(h)
  <2>1. /\ req[h].step = "execute" /\ bid' = bid /\ supply' = supply
        /\ status' = [status EXCEPT ![req[h].on] = "SETTLED"]
        /\ clearingPrice' = [clearingPrice EXCEPT ![req[h].on] = req[h].plan.price]
    BY <1>5 DEF SettleTimeslot
  <2>2. status[req[h].on] = "SEALED"
    BY <2>1, PlannedIsSealed
  <2>3. req'[h] = Idle
    BY <1>2, <1>5 DEF SettleTimeslot, SlotWriteReturns, Finish
  <2>4. \A t \in Timeslots : /\ MatchedIn(t)' = MatchedIn(t)
                             /\ AllocatedIn(t)' = AllocatedIn(t)
    BY <2>1 DEF MatchedIn, AllocatedIn
  <2>5. ASSUME NEW t \in Timeslots, t # req[h].on
        PROVE  status'[t] = status[t] /\ clearingPrice'[t] = clearingPrice[t]
    BY <2>1, <2>5 DEF TypeOK
  <2>6. req[h].on \in Timeslots /\ status'[req[h].on] = "SETTLED"
        /\ clearingPrice'[req[h].on] = req[h].plan.price
    BY <1>2, <2>1, Kinds DEF TypeOK, Requests, Fits, SlotSteps
  <2>7. /\ \A b \in MatchedIn(req[h].on) : BidPrice[b] >= req[h].plan.price
        /\ \A s \in AllocatedIn(req[h].on) : ReservePrice[s] <= req[h].plan.price
    BY <1>1, <2>2, <2>6 DEF FitInv
  <2>8. MatchedWithinPrices'
    <3>1. ASSUME NEW t \in Timeslots, status'[t] = "SETTLED"
          PROVE  /\ \A b \in MatchedIn(t) : BidPrice[b] >= clearingPrice'[t]
                 /\ \A s \in AllocatedIn(t) : ReservePrice[s] <= clearingPrice'[t]
      <4>1. CASE t = req[h].on
        BY <2>6, <2>7, <4>1
      <4>2. CASE t # req[h].on
        BY <2>5, <3>1, <4>2 DEF FitInv, MatchedWithinPrices
      <4> QED BY <4>1, <4>2
    <3> QED BY <2>4, <3>1 DEF MatchedWithinPrices
  <2>9. ASSUME NEW t \in Timeslots, status'[t] # "SETTLED"
        PROVE  MatchedIn(t) = {} /\ AllocatedIn(t) = {}
    BY <1>1, <2>5, <2>6, <2>9 DEF FitInv
  <2>10. \A g \in Handlers : req'[g].step # "execute"
    BY <1>1, <2>3 DEF Idle
  <2> QED BY <2>4, <2>8, <2>9, <2>10 DEF FitInv
<1> QED BY <1>3, <1>4, <1>5

\* A handler's step outside the execution of a settlement marks no row, settles
\* no timeslot and starts no execution.
LEMMA QuietStep ==
  ASSUME "execute" \notin Faults,
         TypeOK, BookInv, NEW h \in Handlers, HandlerStep(h) \/ BeginRequest(h),
         ~ (ClearMarket(h) \/ MatchBid(h) \/ AllocateSupply(h) \/ SettleTimeslot(h))
  PROVE  /\ clearingPrice' = clearingPrice
         /\ \A t \in Timeslots : status'[t] = "SETTLED" <=> status[t] = "SETTLED"
         /\ req[h].step # "execute" /\ req'[h].step # "execute"
         /\ \A b \in Bids : bid'[b] = "MATCHED" => bid[b] = "MATCHED"
         /\ \A s \in Supplies : supply'[s] = "ALLOCATED" => supply[s] = "ALLOCATED"
<1> USE DEF At, bidVars, slotVars
<1>1. BookOK(req[h]) /\ req[h] \in Requests
  BY DEF BookInv, TypeOK
<1>2. /\ clearingPrice' = clearingPrice
      /\ \A t \in Timeslots : status'[t] = "SETTLED" <=> status[t] = "SETTLED"
  <2>1. CASE SealTimeslot(h)
    <3>1. req[h].step = "seal" /\ req[h].on \in Timeslots /\ status[req[h].on] # "SETTLED"
      BY <1>1, <2>1, FitsAlong DEF SealTimeslot, SlotSteps, BookOK
    <3> QED BY <2>1, <3>1 DEF SealTimeslot, TypeOK
  <2>2. CASE ~ SealTimeslot(h)
    BY <2>2 DEF HandlerStep, FindDuplicate, InsufficientBalance, CreateBid, PrepareFails,
       SendTransfer, TransferConfirmed, SubmitGivesUp, MarkConfirmed, MarkConfirmedFails, UndoBid,
       CancelBid, CancelSupplyTransfer, CancelSupply, FetchBids, FetchSupplies,
       RequestFails, SlotWriteRetried, BeginRequest, BeginPlaceBid, BeginCancelBid,
       BeginCancelSupply, BeginSeal, BeginSettle
  <2> QED BY <2>1, <2>2
<1>3. req[h].step # "execute" /\ req'[h].step # "execute"
  <2>1. CASE BeginRequest(h)
    BY <2>1, BeginsWith DEF Idle
  <2>2. CASE HandlerStep(h)
    <3>1. req[h].step # "execute"
      BY <2>2 DEF HandlerStep, FindDuplicate, InsufficientBalance, CreateBid,
         PrepareFails, SendTransfer, TransferConfirmed, SubmitGivesUp, MarkConfirmed,
         MarkConfirmedFails, UndoBid, CancelBid, CancelSupplyTransfer, CancelSupply, SealTimeslot,
         FetchBids, FetchSupplies, RequestFails, SlotWriteRetried
    <3>2. CASE FindDuplicate(h) \/ InsufficientBalance(h) \/ CreateBid(h) \/ PrepareFails(h)
               \/ TransferConfirmed(h) \/ SubmitGivesUp(h) \/ MarkConfirmed(h)
               \/ MarkConfirmedFails(h) \/ UndoBid(h) \/ CancelBid(h)
               \/ CancelSupplyTransfer(h) \/ CancelSupply(h) \/ SealTimeslot(h) \/ RequestFails(h)
      <4>1. \/ Finish(h) \/ SlotWriteReturns(h)
            \/ \E s \in Steps \ {"execute"} : Go(h, s)
        BY <3>2 DEF FindDuplicate, InsufficientBalance, CreateBid,
         PrepareFails, TransferConfirmed, SubmitGivesUp, MarkConfirmed,
         MarkConfirmedFails, UndoBid, CancelBid, CancelSupplyTransfer, CancelSupply, SealTimeslot,
         RequestFails, Steps, BidSteps, PlaceSteps, SupplySteps
      <4> QED BY <3>1, <4>1, OwnRequest DEF Idle
    <3>3. CASE SendTransfer(h) \/ FetchBids(h) \/ FetchSupplies(h) \/ SlotWriteRetried(h)
      BY <1>1, <3>1, <3>3 DEF SendTransfer, FetchBids, FetchSupplies, SlotWriteRetried, TypeOK, Requests
    <3> QED BY <2>2, <3>2, <3>3 DEF HandlerStep
  <2> QED BY <2>1, <2>2
<1>4. \A b \in Bids : bid'[b] = "MATCHED" => bid[b] = "MATCHED"
  BY <1>3, BidWrites
<1>5. \A s \in Supplies : supply'[s] = "ALLOCATED" => supply[s] = "ALLOCATED"
  BY <1>3, SupplyWrites
<1> QED BY <1>2, <1>3, <1>4, <1>5

LEMMA FitStep ==
  ASSUME \A g, h \in Handlers : g = h,
         "execute" \notin Faults, ~ Crashes, "MATCHED" \notin EventStatuses,
         TypeOK, BookInv, SealInv, FitInv, [Next]_vars
  PROVE  FitInv'
<1> USE DEF At, bidVars, slotVars
<1>1. CASE UNCHANGED vars
  BY <1>1, FitFrame DEF vars
<1>2. CASE Environment
  <2>1. req' = req /\ status' = status /\ clearingPrice' = clearingPrice
    BY <1>2 DEF Environment, TransferLands, TransferDropped, UpdateBidStatus, UpdateSupplyStatus,
       SlotEnds, Crash
  <2>2. \A b \in Bids : bid'[b] = "MATCHED" => bid[b] = "MATCHED"
    BY <1>2, EnvironmentWrites
  <2>3. \A s \in Supplies : supply'[s] = "ALLOCATED" => supply[s] = "ALLOCATED"
    BY <1>2, NoneAllocated DEF Environment, TransferLands, TransferDropped,
       UpdateBidStatus, UpdateSupplyStatus, SlotEnds, Crash, TypeOK
  <2> QED BY <2>1, <2>2, <2>3, FitFrame
<1>3. ASSUME NEW h \in Handlers, HandlerStep(h) \/ BeginRequest(h),
             ~ (ClearMarket(h) \/ MatchBid(h) \/ AllocateSupply(h) \/ SettleTimeslot(h))
      PROVE  FitInv'
  <2>1. \A g \in Handlers : g = h
    OBVIOUS
  <2> QED BY <1>3, <2>1, QuietStep, FitFrame
<1> QED BY <1>1, <1>2, <1>3, FitSettles DEF Next

\* A server that serves one request at a time, is not restarted, whose
\* settlements do not fail half-way and whose operators mark no bid as matched
\* themselves, matches nobody at a price worse than asked:
\* matched bids offer the recorded price, allocated offers accept it.
THEOREM OneHandlerPrices ==
  ASSUME \A g, h \in Handlers : g = h,
         "execute" \notin Faults, ~ Crashes, "MATCHED" \notin EventStatuses
  PROVE  Spec => []MatchedWithinPrices
<1>1. FitInv => MatchedWithinPrices
  BY DEF FitInv
<1>2. TypeOK /\ BookInv /\ [Next]_vars => BookInv'
  BY BookStep
<1>3. TypeOK /\ BookInv /\ SealInv /\ FitInv /\ [Next]_vars => FitInv'
  BY FitStep
<1> QED BY <1>1, <1>2, <1>3, InitTypeOK, NextTypeOK, InitSeal, SealStep, InitBook, InitFits, PTL
        DEF Spec

-----------------------------------------------------------------------------
(* One request at a time: the allocated supply covers the matched demand *)

\* The supply offers in S have what the bids in B ask for.
Covers(B, S) == Total(BidQuantity, B) <= Total(SupplyQuantity, S)

\* A settlement in progress has marked what it no longer plans to mark; in a
\* timeslot that is not settled and that nobody is settling nothing is marked.
CoverInv ==
  /\ \A t \in Timeslots : status[t] = "SETTLED" => Covers(MatchedIn(t), AllocatedIn(t))
  /\ \A h \in Handlers, t \in Timeslots : req[h].step = "execute" /\ req[h].on = t =>
       Covers(MatchedIn(t) \cup req[h].plan.bids, AllocatedIn(t) \cup req[h].plan.supplies)
  /\ \A t \in Timeslots :
       /\ status[t] # "SETTLED"
       /\ ~ \E h \in Handlers : req[h].step = "execute" /\ req[h].on = t
       => MatchedIn(t) = {} /\ AllocatedIn(t) = {}

\* The totals the invariant compares are those of finite sets of rows.
LEMMA RowTotals ==
  /\ \A B \in SUBSET Bids : /\ IsFiniteSet(B) /\ Total(BidQuantity, B) \in Nat
                            /\ \A b \in B : BidQuantity[b] \in Nat
  /\ \A S \in SUBSET Supplies : /\ IsFiniteSet(S) /\ Total(SupplyQuantity, S) \in Nat
                                /\ \A s \in S : SupplyQuantity[s] \in Nat
<1>1. ASSUME NEW B \in SUBSET Bids
      PROVE  /\ IsFiniteSet(B) /\ Total(BidQuantity, B) \in Nat
             /\ \A b \in B : BidQuantity[b] \in Nat
  <2>1. IsFiniteSet(B)
    BY SetsAssumption, FS_Subset
  <2>2. \A b \in B : BidQuantity[b] \in Nat
    BY OffersAssumption
  <2> QED BY <2>1, <2>2, TotalFacts
<1>2. ASSUME NEW S \in SUBSET Supplies
      PROVE  /\ IsFiniteSet(S) /\ Total(SupplyQuantity, S) \in Nat
             /\ \A s \in S : SupplyQuantity[s] \in Nat
  <2>1. IsFiniteSet(S)
    BY SetsAssumption, FS_Subset
  <2>2. \A s \in S : SupplyQuantity[s] \in Nat
    BY OffersAssumption
  <2> QED BY <2>1, <2>2, TotalFacts
<1> QED BY <1>1, <1>2

LEMMA NothingToCover == Covers({}, {})
<1>1. Total(BidQuantity, {}) = 0 /\ Total(SupplyQuantity, {}) = 0
  BY FS_EmptySet, TotalFacts
<1> QED BY <1>1 DEF Covers

\* Fewer bids are covered all the more.
LEMMA FewerCovered ==
  ASSUME NEW B \in SUBSET Bids, NEW S \in SUBSET Supplies, Covers(B, S), NEW C \in SUBSET B
  PROVE  Covers(C, S)
<1>1. Total(BidQuantity, C) <= Total(BidQuantity, B)
  BY RowTotals, TotalMonotone
<1>2. /\ Total(BidQuantity, C) \in Nat /\ Total(BidQuantity, B) \in Nat
      /\ Total(SupplyQuantity, S) \in Nat
  BY RowTotals
<1> QED BY <1>1, <1>2 DEF Covers

\* Rows told apart by the members of a finite set they are for are finitely many.
LEMMA FiniteRows ==
  ASSUME NEW D, NEW I, IsFiniteSet(I),
         \A x \in D : x.id \in I,
         \A x, y \in D : x.id = y.id => x = y
  PROVE  IsFiniteSet(D)
<1> DEFINE f == [x \in D |-> x.id]
<1>1. f \in Injection(D, I)
  BY DEF Injection, IsInjective
<1> QED BY <1>1, FS_Injection

\* What a clearing plans to mark is covered by the offers it plans to mark.
LEMMA PlanCovered ==
  ASSUME NEW B \in SUBSET Bids, NEW S \in SUBSET Supplies,
         NEW p \in Clearings(B, S)
  PROVE  Covers(p.bids, p.supplies)
<1> DEFINE bd == BidData(B)
           sd == SupplyData(S)
<1>1. IsFiniteSet(B) /\ IsFiniteSet(S)
  BY RowTotals
<1> DEFINE BidRow(b) == [id |-> b, price |-> BidPrice[b], quantity |-> BidQuantity[b]]
           Offer(s) == [id |-> s, reservePrice |-> ReservePrice[s], quantity |-> SupplyQuantity[s]]
<1>3. /\ \A b \in bd : b.id \in B /\ b = BidRow(b.id)
      /\ \A s \in sd : s.id \in S /\ s = Offer(s.id)
  BY DEF BidData, SupplyData
<1>4. /\ \A b \in bd : /\ b.price \in Nat \ {0} /\ b.quantity \in Nat \ {0}
                       /\ BidQuantity[b.id] = b.quantity
      /\ \A s \in sd : /\ s.reservePrice \in Nat \ {0} /\ s.quantity \in Nat \ {0}
                       /\ SupplyQuantity[s.id] = s.quantity
  <2> HIDE DEF bd, sd
  <2>1. ASSUME NEW b \in bd
        PROVE  /\ b.price \in Nat \ {0} /\ b.quantity \in Nat \ {0}
               /\ BidQuantity[b.id] = b.quantity
    <3>1. b.id \in Bids /\ b.price = BidPrice[b.id] /\ b.quantity = BidQuantity[b.id]
      BY <1>3
    <3> QED BY <3>1, OffersAssumption
  <2>2. ASSUME NEW s \in sd
        PROVE  /\ s.reservePrice \in Nat \ {0} /\ s.quantity \in Nat \ {0}
               /\ SupplyQuantity[s.id] = s.quantity
    <3>1. /\ s.id \in Supplies
          /\ s.reservePrice = ReservePrice[s.id] /\ s.quantity = SupplyQuantity[s.id]
      BY <1>3
    <3> QED BY <3>1, OffersAssumption
  <2> QED BY <2>1, <2>2
<1> HIDE DEF bd, sd, BidRow, Offer
<1>5. /\ \A b, c \in bd : b.id = c.id => b = c
      /\ \A s, t \in sd : s.id = t.id => s = t
  BY <1>3
<1>2. IsFiniteSet(bd) /\ IsFiniteSet(sd)
  BY <1>1, <1>3, <1>5, FiniteRows
<1>6. IsBook(bd, sd)
  BY <1>2, <1>4, <1>5 DEF IsBook
<1>7. /\ \A b \in bd : BidQuantity[b.id] = b.quantity
      /\ \A s \in sd : SupplyQuantity[s.id] = s.quantity
  BY <1>4
<1>8. PICK r \in ClearingOutcomes(bd, sd) :
        p = [bids     |-> IdsOf(r.matchedBids),
             supplies |-> IdsOf(r.matchedSupplies),
             price    |-> r.clearingPrice]
  BY DEF bd, sd, Clearings, IdsOf
<1>9. Total(BidQuantity, IdsOf(r.matchedBids)) <= Total(SupplyQuantity, IdsOf(r.matchedSupplies))
  BY <1>6, <1>7, RowsCovered
<1> QED BY <1>8, <1>9 DEF Covers

LEMMA InitCover == Init => CoverInv
<1> SUFFICES ASSUME Init PROVE CoverInv
  OBVIOUS
<1>1. \A t \in Timeslots : MatchedIn(t) = {} /\ AllocatedIn(t) = {} /\ status[t] # "SETTLED"
  BY DEF Init, MatchedIn, AllocatedIn
<1>2. \A h \in Handlers : req[h].step # "execute"
  BY DEF Init, Idle
<1> QED BY <1>1, <1>2 DEF CoverInv

\* A step that marks nothing, takes nothing allocated back and settles nothing.
LEMMA CoverFrame ==
  ASSUME TypeOK, CoverInv,
         \A b \in Bids : bid'[b] = "MATCHED" => bid[b] = "MATCHED",
         \A s \in Supplies : supply'[s] = "ALLOCATED" <=> supply[s] = "ALLOCATED",
         \A t \in Timeslots : status'[t] = "SETTLED" <=> status[t] = "SETTLED",
         \A h \in Handlers :
            /\ req'[h].step = "execute" <=> req[h].step = "execute"
            /\ req[h].step = "execute" => req'[h].on = req[h].on /\ req'[h].plan = req[h].plan
  PROVE  CoverInv'
<1>1. \A t : /\ MatchedIn(t)' \in SUBSET MatchedIn(t) /\ MatchedIn(t) \in SUBSET Bids
             /\ AllocatedIn(t)' = AllocatedIn(t) /\ AllocatedIn(t) \in SUBSET Supplies
  BY DEF MatchedIn, AllocatedIn
<1>2. ASSUME NEW t \in Timeslots, status'[t] = "SETTLED"
      PROVE  Covers(MatchedIn(t)', AllocatedIn(t)')
  <2>1. Covers(MatchedIn(t), AllocatedIn(t))
    BY <1>2 DEF CoverInv
  <2> QED BY <1>1, <2>1, FewerCovered
<1>3. ASSUME NEW h \in Handlers, NEW t \in Timeslots,
             req'[h].step = "execute", req'[h].on = t
      PROVE  Covers(MatchedIn(t)' \cup req'[h].plan.bids,
                    AllocatedIn(t)' \cup req'[h].plan.supplies)
  <2> DEFINE B == req[h].plan.bids
             S == req[h].plan.supplies
  <2>1. /\ req[h].step = "execute" /\ req[h].on = t
        /\ req'[h].plan.bids = B /\ req'[h].plan.supplies = S
    BY <1>3
  <2>2. B \in SUBSET Bids /\ S \in SUBSET Supplies
    BY DEF TypeOK, Requests, Plans
  <2>3. Covers(MatchedIn(t) \cup B, AllocatedIn(t) \cup S)
    BY <2>1 DEF CoverInv
  <2> HIDE DEF B, S
  <2>4. /\ MatchedIn(t)' \cup B \in SUBSET (MatchedIn(t) \cup B)
        /\ MatchedIn(t) \cup B \in SUBSET Bids /\ AllocatedIn(t) \cup S \in SUBSET Supplies
    BY <1>1, <2>2
  <2>5. Covers(MatchedIn(t)' \cup B, AllocatedIn(t) \cup S)
    BY <2>3, <2>4, FewerCovered
  <2> QED BY <1>1, <2>1, <2>5
<1>4. ASSUME NEW t \in Timeslots, status'[t] # "SETTLED",
             ~ \E h \in Handlers : req'[h].step = "execute" /\ req'[h].on = t
      PROVE  MatchedIn(t)' = {} /\ AllocatedIn(t)' = {}
  <2>1. MatchedIn(t) = {} /\ AllocatedIn(t) = {}
    BY <1>4 DEF CoverInv
  <2> QED BY <1>1, <2>1
<1> QED BY <1>2, <1>3, <1>4 DEF CoverInv, Covers

\* The steps of a settlement: the clearing plans, one row after the other goes
\* from the plan to the marked ones, and with an empty plan the book is covered.
LEMMA CoverSettles ==
  ASSUME \A g, h \in Handlers : g = h,
         "execute" \notin Faults,
         TypeOK, BookInv, SealInv, CoverInv,
         NEW h \in Handlers,
         ClearMarket(h) \/ MatchBid(h) \/ AllocateSupply(h) \/ SettleTimeslot(h)
  PROVE  CoverInv'
<1> USE DEF At, bidVars, slotVars
<1>1. \A g \in Handlers : g = h
  OBVIOUS
<1>2. req[h] \in Requests /\ req \in [Handlers -> Requests]
  BY DEF TypeOK
<1>3. req[h].on \in Timeslots /\ status[req[h].on] = "SEALED"
  <2>1. req[h].step \in {"clear", "execute"}
    BY DEF ClearMarket, MatchBid, AllocateSupply, SettleTimeslot
  <2>2. BookOK(req[h])
    BY DEF BookInv
  <2>3. req[h].step \in SettleSteps /\ req[h].step \in SlotSteps
    BY <2>1 DEF SettleSteps, SlotSteps
  <2> QED BY <1>2, <2>2, <2>3 DEF BookOK, Requests, Fits
<1>4. CASE ClearMarket(h)
  <2>1. bid' = bid /\ supply' = supply /\ status' = status /\ req[h].step = "clear"
    BY <1>4 DEF ClearMarket
  <2>2. \A t \in Timeslots : status[t] # "SETTLED" => MatchedIn(t) = {} /\ AllocatedIn(t) = {}
    BY <1>1, <2>1 DEF CoverInv
  <2>3. \A t \in Timeslots : MatchedIn(t)' = MatchedIn(t) /\ AllocatedIn(t)' = AllocatedIn(t)
    BY <2>1 DEF MatchedIn, AllocatedIn
  <2>4. req[h].plan.bids \in SUBSET Bids /\ req[h].plan.supplies \in SUBSET Supplies
    BY <1>2 DEF Requests, Plans
  <2>5. PICK p \in Clearings(req[h].plan.bids, req[h].plan.supplies) :
          req' = [req EXCEPT ![h].step = "execute", ![h].plan = p]
    BY <1>4 DEF ClearMarket
  <2>6. Covers(p.bids, p.supplies)
    BY <2>4, PlanCovered
  <2>9. req'[h].plan = p /\ req'[h].on = req[h].on
    BY <1>2, <2>5 DEF Requests
  <2>10. ASSUME NEW t \in Timeslots, req'[h].on = t
         PROVE  Covers(MatchedIn(t)' \cup req'[h].plan.bids,
                       AllocatedIn(t)' \cup req'[h].plan.supplies)
    <3>1. MatchedIn(t)' = {} /\ AllocatedIn(t)' = {}
      BY <1>3, <2>2, <2>3, <2>9, <2>10
    <3> QED BY <2>6, <2>9, <3>1
  <2>11. ASSUME NEW t \in Timeslots, status'[t] = "SETTLED"
         PROVE  Covers(MatchedIn(t)', AllocatedIn(t)')
    BY <2>1, <2>3, <2>11 DEF CoverInv
  <2>12. ASSUME NEW t \in Timeslots, status'[t] # "SETTLED"
         PROVE  MatchedIn(t)' = {} /\ AllocatedIn(t)' = {}
    BY <2>1, <2>2, <2>3, <2>12
  <2> QED BY <1>1, <2>10, <2>11, <2>12 DEF CoverInv, Covers
<1>5. CASE MatchBid(h) \/ AllocateSupply(h)
  <2>1. req[h].step = "execute" /\ status' = status
    BY <1>5 DEF MatchBid, AllocateSupply
  <2> PICK T \in Timeslots : T = req[h].on
    BY <1>3
  <2>2. Covers(MatchedIn(T) \cup req[h].plan.bids, AllocatedIn(T) \cup req[h].plan.supplies)
    BY <1>3, <2>1 DEF CoverInv
  <2>3. /\ \A b \in req[h].plan.bids : b \in Bids /\ BidSlot[b] = T
        /\ \A s \in req[h].plan.supplies : s \in Supplies /\ SupplySlot[s] = T
    BY <2>1, PlannedIsSealed
  <2>4. /\ req'[h].step = "execute" /\ req'[h].on = T
        /\ MatchedIn(T)' \cup req'[h].plan.bids = MatchedIn(T) \cup req[h].plan.bids
        /\ AllocatedIn(T)' \cup req'[h].plan.supplies = AllocatedIn(T) \cup req[h].plan.supplies
        /\ \A t \in Timeslots : t # T => MatchedIn(t)' = MatchedIn(t) /\ AllocatedIn(t)' = AllocatedIn(t)
    <3>1. CASE MatchBid(h)
      <4>1. PICK b \in req[h].plan.bids : /\ bid' = [bid EXCEPT ![b] = "MATCHED"]
                                          /\ req' = [req EXCEPT ![h].plan.bids = @ \ {b}]
        BY <3>1 DEF MatchBid
      <4>2. b \in Bids /\ BidSlot[b] = T
        BY <2>3
      <4>3. /\ req'[h].step = "execute" /\ req'[h].on = T
            /\ req'[h].plan.bids = req[h].plan.bids \ {b}
            /\ req'[h].plan.supplies = req[h].plan.supplies
        BY <1>2, <2>1, <4>1 DEF Requests, Plans
      <4>4. bid'[b] = "MATCHED" /\ \A c \in Bids : c # b => bid'[c] = bid[c]
        BY <4>1, <4>2 DEF TypeOK
      <4>5. MatchedIn(T)' = MatchedIn(T) \cup {b}
        BY <4>2, <4>4 DEF MatchedIn
      <4>6. \A t \in Timeslots : t # T => MatchedIn(t)' = MatchedIn(t)
        BY <4>2, <4>4 DEF MatchedIn
      <4>7. \A t \in Timeslots : AllocatedIn(t)' = AllocatedIn(t)
        BY <3>1 DEF MatchBid, AllocatedIn
      <4> QED BY <1>3, <4>3, <4>5, <4>6, <4>7
    <3>2. CASE AllocateSupply(h)
      <4>1. PICK s \in req[h].plan.supplies : /\ supply' = [supply EXCEPT ![s] = "ALLOCATED"]
                                              /\ req' = [req EXCEPT ![h].plan.supplies = @ \ {s}]
        BY <3>2 DEF AllocateSupply
      <4>2. s \in Supplies /\ SupplySlot[s] = T
        BY <2>3
      <4>3. /\ req'[h].step = "execute" /\ req'[h].on = T
            /\ req'[h].plan.supplies = req[h].plan.supplies \ {s}
            /\ req'[h].plan.bids = req[h].plan.bids
        BY <1>2, <2>1, <4>1 DEF Requests, Plans
      <4>4. supply'[s] = "ALLOCATED" /\ \A c \in Supplies : c # s => supply'[c] = supply[c]
        BY <4>1, <4>2 DEF TypeOK
      <4>5. AllocatedIn(T)' = AllocatedIn(T) \cup {s}
        BY <4>2, <4>4 DEF AllocatedIn
      <4>6. \A t \in Timeslots : t # T => AllocatedIn(t)' = AllocatedIn(t)
        BY <4>2, <4>4 DEF AllocatedIn
      <4>7. \A t \in Timeslots : MatchedIn(t)' = MatchedIn(t)
        BY <3>2 DEF AllocateSupply, MatchedIn
      <4> QED BY <1>3, <4>3, <4>5, <4>6, <4>7
    <3> QED BY <1>5, <3>1, <3>2
  <2>5. ASSUME NEW t \in Timeslots, status'[t] = "SETTLED"
        PROVE  Covers(MatchedIn(t)', AllocatedIn(t)')
    BY <1>3, <2>1, <2>4, <2>5 DEF CoverInv
  <2>6. ASSUME NEW t \in Timeslots, req'[h].on = t
        PROVE  Covers(MatchedIn(t)' \cup req'[h].plan.bids,
                      AllocatedIn(t)' \cup req'[h].plan.supplies)
    BY <2>2, <2>4, <2>6
  <2>7. ASSUME NEW t \in Timeslots, status'[t] # "SETTLED", t # T
        PROVE  MatchedIn(t)' = {} /\ AllocatedIn(t)' = {}
    BY <1>1, <2>1, <2>4, <2>7 DEF CoverInv
  <2> QED BY <1>1, <2>4, <2>5, <2>6, <2>7 DEF CoverInv, Covers
<1>6. CASE SettleTimeslot(h)
  <2>1. /\ req[h].step = "execute" /\ bid' = bid /\ supply' = supply
        /\ req[h].plan.bids = {} /\ req[h].plan.supplies = {}
        /\ status' = [status EXCEPT ![req[h].on] = "SETTLED"]
    BY <1>6 DEF SettleTimeslot
  <2>2. req'[h] = Idle
    BY <1>2, <1>6 DEF SettleTimeslot, SlotWriteReturns, Finish
  <2>3. \A t \in Timeslots : MatchedIn(t)' = MatchedIn(t) /\ AllocatedIn(t)' = AllocatedIn(t)
    BY <2>1 DEF MatchedIn, AllocatedIn
  <2>4. ASSUME NEW t \in Timeslots, t # req[h].on
        PROVE  status'[t] = status[t]
    BY <2>1, <2>4 DEF TypeOK
  <2>5. Covers(MatchedIn(req[h].on), AllocatedIn(req[h].on))
    <3>1. Covers(MatchedIn(req[h].on) \cup {}, AllocatedIn(req[h].on) \cup {})
      BY <1>3, <2>1 DEF CoverInv
    <3>2. /\ MatchedIn(req[h].on) \cup {} = MatchedIn(req[h].on)
          /\ AllocatedIn(req[h].on) \cup {} = AllocatedIn(req[h].on)
      OBVIOUS
    <3> QED BY <3>1, <3>2
  <2>6. ASSUME NEW t \in Timeslots, status'[t] = "SETTLED"
        PROVE  Covers(MatchedIn(t)', AllocatedIn(t)')
    <3>1. CASE t = req[h].on
      BY <2>3, <2>5, <3>1
    <3>2. CASE t # req[h].on
      BY <2>3, <2>4, <2>6, <3>2 DEF CoverInv
    <3> QED BY <3>1, <3>2
  <2>7. ASSUME NEW t \in Timeslots, status'[t] # "SETTLED"
        PROVE  MatchedIn(t)' = {} /\ AllocatedIn(t)' = {}
    <3>1. t # req[h].on
      BY <1>3, <2>1, <2>7 DEF TypeOK
    <3> QED BY <1>1, <2>3, <2>4, <2>7, <3>1 DEF CoverInv
  <2>8. \A g \in Handlers : req'[g].step # "execute"
    BY <1>1, <2>2 DEF Idle
  <2> QED BY <2>6, <2>7, <2>8 DEF CoverInv, Covers
<1> QED BY <1>4, <1>5, <1>6

LEMMA CoverStep ==
  ASSUME \A g, h \in Handlers : g = h,
         "execute" \notin Faults, ~ Crashes, EventStatuses \subseteq {"PENDING", "EXPIRED"},
         TypeOK, BookInv, SealInv, CoverInv, [Next]_vars
  PROVE  CoverInv'
<1> USE DEF At, bidVars, slotVars
<1>1. CASE UNCHANGED vars
  BY <1>1, CoverFrame DEF vars
<1>2. CASE Environment
  <2>1. req' = req /\ status' = status
    BY <1>2 DEF Environment, TransferLands, TransferDropped, UpdateBidStatus, UpdateSupplyStatus,
       SlotEnds, Crash
  <2>2. \A b \in Bids : bid'[b] = "MATCHED" => bid[b] = "MATCHED"
    BY <1>2, EnvironmentWrites
  <2>3. supply' = supply
    <3>1. EventStatuses \cap SupplyStatus = {}
      BY DEF SupplyStatus
    <3> QED BY <1>2, <3>1 DEF Environment, TransferLands, TransferDropped, UpdateBidStatus,
               UpdateSupplyStatus, SlotEnds, Crash
  <2> QED BY <2>1, <2>2, <2>3, CoverFrame
<1>3. ASSUME NEW h \in Handlers, HandlerStep(h) \/ BeginRequest(h),
             ~ (ClearMarket(h) \/ MatchBid(h) \/ AllocateSupply(h) \/ SettleTimeslot(h))
      PROVE  CoverInv'
  <2>1. \A g \in Handlers : g = h
    OBVIOUS
  <2>2. /\ \A t \in Timeslots : status'[t] = "SETTLED" <=> status[t] = "SETTLED"
        /\ req[h].step # "execute" /\ req'[h].step # "execute"
        /\ \A b \in Bids : bid'[b] = "MATCHED" => bid[b] = "MATCHED"
    BY <1>3, QuietStep
  <2>3. \A s \in Supplies : supply'[s] = "ALLOCATED" <=> supply[s] = "ALLOCATED"
    <3>1. BookOK(req[h])
      BY DEF BookInv
    <3>2. req[h].step = "release" => supply[req[h].on] # "ALLOCATED"
      BY <3>1 DEF BookOK, SupplySteps
    <3> QED BY <1>3, <2>2, <3>2, SupplyWrites
  <2> QED BY <2>1, <2>2, <2>3, CoverFrame
<1> QED BY <1>1, <1>2, <1>3, CoverSettles DEF Next

\* A server that serves one request at a time, is not restarted and whose
\* settlements do not fail half-way never promises more energy than it has: in a
\* settled timeslot the allocated offers have at least the quantity of the matched
\* bids, whatever the books (clearing-price.service.ts:256, timeslot.service.ts:276).
\* The hypothesis on the operators keeps updateSupplyStatus from writing over an
\* allocated offer and updateBidStatus from adding matched demand.
THEOREM OneHandlerCovers ==
  ASSUME \A g, h \in Handlers : g = h,
         "execute" \notin Faults, ~ Crashes, EventStatuses \subseteq {"PENDING", "EXPIRED"}
  PROVE  Spec => []MatchedDemandCovered
<1>1. CoverInv => MatchedDemandCovered
  BY DEF CoverInv, Covers, Total, MatchedDemandCovered
<1>2. TypeOK /\ BookInv /\ [Next]_vars => BookInv'
  BY BookStep
<1>3. TypeOK /\ BookInv /\ SealInv /\ CoverInv /\ [Next]_vars => CoverInv'
  BY CoverStep
<1> QED BY <1>1, <1>2, <1>3, InitTypeOK, NextTypeOK, InitSeal, SealStep, InitBook, InitCover, PTL
        DEF Spec

-----------------------------------------------------------------------------
(* Requests about different timeslots: one market *)

PendingIn(t) == {b \in Bids : BidSlot[b] = t /\ bid[b] = "PENDING"}
OfferedIn(t) == {s \in Supplies : SupplySlot[s] = t /\ supply[s] = "COMMITTED"}

\* What a settlement has marked and what it plans to mark are the result of
\* clearing the book as it was before the first row was marked.
Planned(r) ==
  \E p \in Clearings(PendingIn(r.on) \cup MatchedIn(r.on), OfferedIn(r.on) \cup AllocatedIn(r.on)) :
     /\ p.bids = MatchedIn(r.on) \cup r.plan.bids
     /\ p.supplies = AllocatedIn(r.on) \cup r.plan.supplies
     /\ p.price = r.plan.price

\* What a request has read still holds.
RequestOK(r) ==
  /\ r.step \in BidSteps => status[BidSlot[r.on]] = "OPEN"
  /\ r.step \in {"duplicate", "create"} => bid[r.on] = "NONE"
  /\ r.step = "create" =>
       \A c \in Bids : Bidder[c] = Bidder[r.on] /\ BidSlot[c] = BidSlot[r.on] => bid[c] \notin Active
  /\ r.step \in {"submit", "confirming", "confirm"} => bid[r.on] = "PENDING"
  /\ r.step \in {"undo", "cancel"} => bid[r.on] \in Active
  /\ r.step \in SupplySteps => supply[r.on] \in {"COMMITTED", "CONFIRMED"}
  /\ r.step = "seal" => status[r.on] # "SETTLED"
  /\ r.step \in SettleSteps => status[r.on] = "SEALED"
  /\ r.step \in {"fetchSupplies", "clear"} => r.plan.bids = PendingIn(r.on)
  /\ r.step \in {"fetchBids", "clear"} => r.plan.supplies = OfferedIn(r.on)
  /\ r.step = "execute" => Planned(r)

\* Inductive while requests about one timeslot do not overlap: no request has
\* read anything stale, and rows are marked only under a settlement.
MarketInv ==
  /\ \A h \in Handlers, r \in Requests : req[h] = r => RequestOK(r)
  /\ \A t \in Timeslots :
       /\ status[t] # "SETTLED"
       /\ \A h \in Handlers : ~ (req[h].step = "execute" /\ req[h].on = t)
       => MatchedIn(t) = {} /\ AllocatedIn(t) = {}

LEMMA IdleOK == RequestOK(Idle) /\ RequestOK(Idle)'
BY DEF RequestOK, Idle, BidSteps, PlaceSteps, SupplySteps, SettleSteps

LEMMA InitMarket == Init => MarketInv
<1> SUFFICES ASSUME Init PROVE MarketInv
  OBVIOUS
<1>1. \A t \in Timeslots : MatchedIn(t) = {} /\ AllocatedIn(t) = {}
  BY DEF Init, MatchedIn, AllocatedIn
<1> QED BY <1>1, IdleOK DEF Init, MarketInv

\* What a request has read of its row is in particular what BookInv asks for.
LEMMA MarketBook == TypeOK /\ MarketInv => BookInv
<1> SUFFICES ASSUME TypeOK, MarketInv, NEW h \in Handlers PROVE BookOK(req[h])
  BY DEF BookInv
<1>1. PICK r \in Requests : r = req[h]
  BY DEF TypeOK
<1>2. RequestOK(r)
  BY <1>1 DEF MarketInv
<1>3. BookOK(r)
  BY <1>2, Kinds DEF BookOK, RequestOK, BidSteps, PlaceSteps, Active
<1> QED BY <1>1, <1>3

\* The timeslot of a request, by the kind of its step.
LEMMA Slots ==
  ASSUME NEW r \in Requests
  PROVE  /\ r.step \in BidSteps => SlotOf(r) = BidSlot[r.on] /\ SlotOf(r) \in Timeslots
         /\ r.step \in SupplySteps => SlotOf(r) = SupplySlot[r.on] /\ SlotOf(r) \in Timeslots
         /\ r.step \in SlotSteps => SlotOf(r) = r.on /\ SlotOf(r) \in Timeslots
<1>1. /\ r.step \in BidSteps => r.step \notin SupplySteps \cup SlotSteps
      /\ r.step \in SupplySteps => r.step \notin SlotSteps
  BY DEF BidSteps, PlaceSteps, SupplySteps, SlotSteps, SettleSteps
<1>2. /\ r.step \in BidSteps => r.on \in Bids
      /\ r.step \in SupplySteps => r.on \in Supplies
      /\ r.step \in SlotSteps => r.on \in Timeslots
  BY FitsAlong
<1> QED BY <1>1, <1>2, OffersAssumption DEF SlotOf

\* A handler writes only rows of the timeslot its request is about.
LEMMA OwnSlot ==
  ASSUME TypeOK, SealInv, NEW h \in Handlers, HandlerStep(h)
  PROVE  /\ \A b \in Bids : bid'[b] # bid[b] => BidSlot[b] = SlotOf(req[h])
         /\ \A s \in Supplies : supply'[s] # supply[s] => SupplySlot[s] = SlotOf(req[h])
         /\ \A t \in Timeslots : status'[t] # status[t] => t = SlotOf(req[h])
<1>1. PICK r \in Requests : r = req[h]
  BY DEF TypeOK
<1>2. /\ \A b \in r.plan.bids : BidSlot[b] = r.on
      /\ \A s \in r.plan.supplies : SupplySlot[s] = r.on
  BY <1>1 DEF SealInv
<1>3. /\ {"create", "confirm", "undo", "cancel"} \subseteq BidSteps
      /\ "release" \in SupplySteps /\ {"execute", "seal"} \subseteq SlotSteps
  BY DEF BidSteps, PlaceSteps, SupplySteps, SlotSteps, SettleSteps
<1>4. ASSUME NEW b \in Bids, bid'[b] # bid[b]
      PROVE  BidSlot[b] = SlotOf(r)
  <2>1. \/ b = r.on /\ r.step \in BidSteps
        \/ b \in r.plan.bids /\ r.step \in SlotSteps
    BY <1>1, <1>3, <1>4, BidWrites
  <2> QED BY <1>2, <2>1, Slots
<1>5. ASSUME NEW s \in Supplies, supply'[s] # supply[s]
      PROVE  SupplySlot[s] = SlotOf(r)
  <2>1. \/ s = r.on /\ r.step \in SupplySteps
        \/ s \in r.plan.supplies /\ r.step \in SlotSteps
    BY <1>1, <1>3, <1>5, SupplyWrites
  <2> QED BY <1>2, <2>1, Slots
<1>6. ASSUME NEW t \in Timeslots, status'[t] # status[t]
      PROVE  t = SlotOf(r)
  <2>1. SealTimeslot(h) \/ SettleTimeslot(h)
    BY <1>6 DEF HandlerStep, FindDuplicate, InsufficientBalance, CreateBid, PrepareFails,
       SendTransfer, TransferConfirmed, SubmitGivesUp, MarkConfirmed, MarkConfirmedFails, UndoBid,
       CancelBid, CancelSupplyTransfer, CancelSupply, FetchBids, FetchSupplies, ClearMarket,
       MatchBid, AllocateSupply, RequestFails, SlotWriteRetried, slotVars
  <2>2. r.step \in SlotSteps /\ t = r.on
    BY <1>1, <1>3, <1>6, <2>1 DEF SealTimeslot, SettleTimeslot, At, TypeOK
  <2> QED BY <2>2, Slots
<1> QED BY <1>1, <1>4, <1>5, <1>6

\* A request is not disturbed by a step that leaves its timeslot alone.
LEMMA RequestFrame ==
  ASSUME TypeOK, NEW r \in Requests, RequestOK(r),
         \A b \in Bids : BidSlot[b] = SlotOf(r) => bid'[b] = bid[b],
         \A s \in Supplies : SupplySlot[s] = SlotOf(r) => supply'[s] = supply[s],
         \A t \in Timeslots : t = SlotOf(r) => status'[t] = status[t]
  PROVE  RequestOK(r)'
<1>1. CASE r.step \in BidSteps
  <2>1. /\ r.on \in Bids /\ status'[BidSlot[r.on]] = status[BidSlot[r.on]]
        /\ \A b \in Bids : BidSlot[b] = BidSlot[r.on] => bid'[b] = bid[b]
    BY <1>1, Slots, FitsAlong
  <2>2. /\ r.step \notin SupplySteps \cup SettleSteps \cup {"seal"}
        /\ r.step \notin {"fetchSupplies", "fetchBids", "clear", "execute"}
    BY <1>1, Kinds
  <2> QED BY <2>1, <2>2 DEF RequestOK
<1>2. CASE r.step \in SupplySteps
  <2>1. supply'[r.on] = supply[r.on]
    BY <1>2, Slots, FitsAlong
  <2> QED BY <1>2, <2>1, Kinds DEF RequestOK
<1>3. CASE r.step \in SlotSteps
  <2>1. r.on \in Timeslots /\ r.on = SlotOf(r)
    BY <1>3, Slots
  <2>2. /\ PendingIn(r.on)' = PendingIn(r.on) /\ MatchedIn(r.on)' = MatchedIn(r.on)
        /\ OfferedIn(r.on)' = OfferedIn(r.on) /\ AllocatedIn(r.on)' = AllocatedIn(r.on)
        /\ status'[r.on] = status[r.on]
    BY <2>1 DEF PendingIn, MatchedIn, OfferedIn, AllocatedIn
  <2>3. Planned(r) => Planned(r)'
    BY <2>2 DEF Planned
  <2>4. r.step \notin BidSteps \cup SupplySteps
        /\ r.step \notin {"duplicate", "create", "submit", "confirming", "confirm", "undo", "cancel"}
    BY <1>3, Kinds DEF SlotSteps, SettleSteps
  <2> QED BY <2>2, <2>3, <2>4 DEF RequestOK
<1>4. CASE r.step = "idle"
  BY <1>4 DEF RequestOK, BidSteps, PlaceSteps, SupplySteps, SettleSteps
<1> QED BY <1>1, <1>2, <1>3, <1>4 DEF Requests, Steps, SlotSteps

\* What a handler reads when it begins a request holds as it begins.
LEMMA BeginsOK ==
  ASSUME TypeOK, NEW h \in Handlers, BeginRequest(h), NEW r \in Requests, req'[h] = r
  PROVE  RequestOK(r)'
<1> USE DEF slotVars, bidVars
<1>1. ASSUME NEW b \in Bids, BeginPlaceBid(h, b)
      PROVE  RequestOK(r)'
  <2>1. r.step = "duplicate" /\ r.on = b
    BY <1>1, Begins DEF BeginPlaceBid
  <2> QED BY <1>1, <2>1, Kinds DEF BeginPlaceBid, RequestOK
<1>2. ASSUME NEW b \in Bids, BeginCancelBid(h, b)
      PROVE  RequestOK(r)'
  <2>1. r.step = "cancel" /\ r.on = b
    BY <1>2, Begins DEF BeginCancelBid
  <2> QED BY <1>2, <2>1, Kinds DEF BeginCancelBid, RequestOK
<1>3. ASSUME NEW s \in Supplies, BeginCancelSupply(h, s)
      PROVE  RequestOK(r)'
  <2>1. r.step = "cancelSupply" /\ r.on = s
    BY <1>3, Begins DEF BeginCancelSupply
  <2> QED BY <1>3, <2>1, Kinds DEF BeginCancelSupply, RequestOK
<1>4. ASSUME NEW t \in Timeslots, BeginSeal(h, t) \/ BeginSettle(h, t)
      PROVE  RequestOK(r)'
  <2>1. /\ r.on = t
        /\ \/ r.step = "seal" /\ status[t] = "OPEN"
           \/ r.step = "fetch" /\ status[t] = "SEALED"
    <3>1. CASE BeginSeal(h, t)
      BY <3>1, Begins DEF BeginSeal
    <3>2. CASE BeginSettle(h, t)
      BY <3>2, Begins DEF BeginSettle
    <3> QED BY <1>4, <3>1, <3>2
  <2>2. status' = status
    BY <1>4 DEF BeginSeal, BeginSettle
  <2> QED BY <2>1, <2>2, Kinds DEF RequestOK, BidSteps, PlaceSteps
<1> QED BY <1>1, <1>2, <1>3, <1>4 DEF BeginRequest

\* A request goes on with what it has read, as long as nobody else touches its rows.
LEMMA PlacesOK ==
  ASSUME TypeOK, NEW h \in Handlers, NEW q \in Requests, q = req[h], RequestOK(q),
         NEW r \in Requests, r = req'[h],
         \/ FindDuplicate(h) \/ InsufficientBalance(h) \/ CreateBid(h) \/ PrepareFails(h)
         \/ SendTransfer(h) \/ TransferConfirmed(h) \/ SubmitGivesUp(h) \/ MarkConfirmed(h)
         \/ MarkConfirmedFails(h) \/ UndoBid(h) \/ CancelBid(h) \/ CancelSupplyTransfer(h)
         \/ CancelSupply(h)
  PROVE  RequestOK(r)'
<1> USE DEF slotVars, bidVars, At
<1>1. SUFFICES ASSUME r # Idle PROVE RequestOK(r)'
  BY IdleOK
<1>2. CASE FindDuplicate(h)
  <2>1. /\ q.step = "duplicate" /\ r.step = "create" /\ r.on = q.on
        /\ bid' = bid /\ status' = status
        /\ ~ \E c \in Bids : /\ Bidder[c] = Bidder[q.on] /\ BidSlot[c] = BidSlot[q.on]
                             /\ bid[c] \in Active
    BY <1>1, <1>2, OwnRequest DEF FindDuplicate
  <2>2. status[BidSlot[q.on]] = "OPEN" /\ bid[q.on] = "NONE"
    BY <2>1, Stages DEF RequestOK, BidSteps, PlaceSteps
  <2> QED BY <2>1, <2>2, Kinds DEF RequestOK
<1>3. CASE CreateBid(h)
  <2>1. /\ q.step = "create" /\ r.step = "submit" /\ r.on = q.on
        /\ bid' = [bid EXCEPT ![q.on] = "PENDING"] /\ status' = status
    BY <1>1, <1>3, OwnRequest DEF CreateBid
  <2>2. status[BidSlot[q.on]] = "OPEN" /\ q.on \in Bids
    BY <2>1, FitsAlong DEF RequestOK, BidSteps, PlaceSteps
  <2>3. bid'[q.on] = "PENDING"
    BY <2>1, <2>2 DEF TypeOK
  <2> QED BY <2>1, <2>2, <2>3, Kinds DEF RequestOK
<1>4. CASE PrepareFails(h) \/ SendTransfer(h) \/ TransferConfirmed(h) \/ SubmitGivesUp(h)
           \/ MarkConfirmedFails(h)
  <2>1. /\ q.step \in {"submit", "confirming", "confirm"}
        /\ r.step \in {"confirming", "confirm", "undo"} /\ r.on = q.on
        /\ bid' = bid /\ status' = status
    <3>1. CASE SendTransfer(h)
      BY <3>1 DEF SendTransfer, TypeOK, Requests
    <3>2. CASE PrepareFails(h) \/ TransferConfirmed(h) \/ SubmitGivesUp(h) \/ MarkConfirmedFails(h)
      BY <3>2, OwnRequest DEF PrepareFails, TransferConfirmed, SubmitGivesUp, MarkConfirmedFails
    <3> QED BY <1>4, <3>1, <3>2
  <2>2. status[BidSlot[q.on]] = "OPEN" /\ bid[q.on] = "PENDING"
    BY <2>1 DEF RequestOK, BidSteps, PlaceSteps
  <2> QED BY <2>1, <2>2, Kinds DEF RequestOK, Active
<1>5. CASE MarkConfirmed(h)
  <2>1. /\ q.step = "confirm" /\ r.step = "undo" /\ r.on = q.on
        /\ bid' = [bid EXCEPT ![q.on] = "CONFIRMED"] /\ status' = status
    BY <1>1, <1>5, OwnRequest DEF MarkConfirmed
  <2>2. status[BidSlot[q.on]] = "OPEN" /\ q.on \in Bids
    BY <2>1, FitsAlong DEF RequestOK, BidSteps, PlaceSteps
  <2>3. bid'[q.on] = "CONFIRMED"
    BY <2>1, <2>2 DEF TypeOK
  <2> QED BY <2>1, <2>2, <2>3, Kinds DEF RequestOK, Active
<1>6. CASE InsufficientBalance(h) \/ UndoBid(h) \/ CancelBid(h) \/ CancelSupply(h)
  BY <1>1, <1>6, OwnRequest DEF InsufficientBalance, UndoBid, CancelBid, CancelSupply
<1>7. CASE CancelSupplyTransfer(h)
  <2>1. /\ q.step = "cancelSupply" /\ r.step = "release" /\ r.on = q.on /\ supply' = supply
    BY <1>1, <1>7, OwnRequest DEF CancelSupplyTransfer
  <2>2. supply[q.on] \in {"COMMITTED", "CONFIRMED"}
    BY <2>1, Kinds DEF RequestOK
  <2> QED BY <2>1, <2>2, Kinds DEF RequestOK
<1> QED BY <1>2, <1>3, <1>4, <1>5, <1>6, <1>7

LEMMA SettlesOK ==
  ASSUME "execute" \notin Faults,
         TypeOK, SealInv, NEW h \in Handlers, NEW q \in Requests, q = req[h], RequestOK(q),
         NEW r \in Requests, r = req'[h],
         q.step = "clear" => MatchedIn(q.on) = {} /\ AllocatedIn(q.on) = {},
         \/ SealTimeslot(h) \/ FetchBids(h) \/ FetchSupplies(h) \/ ClearMarket(h)
         \/ MatchBid(h) \/ AllocateSupply(h) \/ SettleTimeslot(h)
         \/ RequestFails(h) \/ SlotWriteRetried(h)
  PROVE  RequestOK(r)'
<1> USE DEF slotVars, bidVars, At
<1>1. SUFFICES ASSUME r # Idle PROVE RequestOK(r)'
  BY IdleOK
<1>2. CASE SealTimeslot(h)
  <2>1. /\ q.step = "seal" /\ r.step = "seal" /\ r.on = q.on
        /\ status' = [status EXCEPT ![q.on] = "SEALED"]
    BY <1>1, <1>2, OwnRequest DEF SealTimeslot
  <2>2. status'[q.on] = "SEALED"
    BY <2>1, FitsAlong DEF TypeOK, SlotSteps
  <2> QED BY <2>1, <2>2, Kinds DEF RequestOK, BidSteps, PlaceSteps
<1>3. CASE FetchBids(h) \/ FetchSupplies(h)
  <2> DEFINE T == q.on
  <2>1. /\ q.step \in {"fetch", "fetchBids", "fetchSupplies"} /\ r.on = T
        /\ bid' = bid /\ supply' = supply /\ status' = status
    BY <1>3 DEF FetchBids, FetchSupplies, TypeOK, Requests
  <2>2. \/ /\ r.step = "fetchSupplies" /\ r.plan.bids = PendingIn(T)
        \/ /\ r.step = "fetchBids" /\ r.plan.supplies = OfferedIn(T)
        \/ /\ r.step = "clear" /\ r.plan.bids = PendingIn(T) /\ r.plan.supplies = OfferedIn(T)
    <3>1. CASE FetchBids(h)
      <4>1. /\ r.plan.bids = PendingIn(T) /\ r.plan.supplies = q.plan.supplies
            /\ \/ r.step = "fetchSupplies"
               \/ r.step = "clear" /\ q.step = "fetchBids"
        BY <3>1 DEF FetchBids, TypeOK, Requests, Plans, PendingIn
      <4> QED BY <4>1 DEF RequestOK
    <3>2. CASE FetchSupplies(h)
      <4>1. /\ r.plan.supplies = OfferedIn(T) /\ r.plan.bids = q.plan.bids
            /\ \/ r.step = "fetchBids"
               \/ r.step = "clear" /\ q.step = "fetchSupplies"
        BY <3>2 DEF FetchSupplies, TypeOK, Requests, Plans, OfferedIn
      <4> QED BY <4>1 DEF RequestOK
    <3> QED BY <1>3, <3>1, <3>2
  <2>3. status'[T] = "SEALED"
    BY <2>1, Kinds DEF RequestOK
  <2>4. PendingIn(T)' = PendingIn(T) /\ OfferedIn(T)' = OfferedIn(T)
    BY <2>1 DEF PendingIn, OfferedIn
  <2> HIDE DEF T
  <2> QED BY <2>1, <2>2, <2>3, <2>4, Kinds DEF RequestOK, BidSteps, PlaceSteps
<1>4. CASE ClearMarket(h)
  <2> DEFINE T == q.on
  <2>1. PICK p \in Clearings(q.plan.bids, q.plan.supplies) :
          req' = [req EXCEPT ![h].step = "execute", ![h].plan = p]
    BY <1>4 DEF ClearMarket
  <2>2. /\ q.step = "clear" /\ r.on = T /\ r.step = "execute" /\ r.plan = p
        /\ bid' = bid /\ supply' = supply /\ status' = status
    BY <1>4, <2>1 DEF ClearMarket, TypeOK, Requests
  <2>3. /\ q.plan.bids = PendingIn(T) /\ q.plan.supplies = OfferedIn(T) /\ status[T] = "SEALED"
        /\ MatchedIn(T) = {} /\ AllocatedIn(T) = {}
    BY <2>2, Kinds DEF RequestOK
  <2>4. /\ PendingIn(T)' = PendingIn(T) /\ OfferedIn(T)' = OfferedIn(T)
        /\ MatchedIn(T)' = MatchedIn(T) /\ AllocatedIn(T)' = AllocatedIn(T)
    BY <2>2 DEF PendingIn, OfferedIn, MatchedIn, AllocatedIn
  <2> HIDE DEF T
  <2>5. Planned(r)'
    BY <2>2, <2>3, <2>4 DEF Planned
  <2> QED BY <2>2, <2>3, <2>5, Kinds DEF RequestOK, BidSteps, PlaceSteps
<1>5. CASE MatchBid(h) \/ AllocateSupply(h)
  <2> DEFINE T == q.on
  <2>1. /\ q.step = "execute" /\ r.step = "execute" /\ r.on = T /\ status' = status
        /\ r.plan.price = q.plan.price
    BY <1>5 DEF MatchBid, AllocateSupply, TypeOK, Requests, Plans
  <2>2. status[T] = "SEALED" /\ Planned(q)
    BY <2>1, Kinds DEF RequestOK
  <2>3. PICK p \in Clearings(PendingIn(T) \cup MatchedIn(T), OfferedIn(T) \cup AllocatedIn(T)) :
          /\ p.bids = MatchedIn(T) \cup q.plan.bids
          /\ p.supplies = AllocatedIn(T) \cup q.plan.supplies
          /\ p.price = q.plan.price
    BY <2>2 DEF Planned
  <2>4. p.bids \subseteq PendingIn(T) \cup MatchedIn(T)
        /\ p.supplies \subseteq OfferedIn(T) \cup AllocatedIn(T)
    <3> DEFINE B == PendingIn(T) \cup MatchedIn(T)
               S == OfferedIn(T) \cup AllocatedIn(T)
    <3>1. B \in SUBSET Bids /\ S \in SUBSET Supplies
      BY DEF PendingIn, MatchedIn, OfferedIn, AllocatedIn
    <3>2. p \in Clearings(B, S)
      BY <2>3
    <3> HIDE DEF B, S
    <3>3. p.bids \subseteq B /\ p.supplies \subseteq S
      BY ONLY <3>1, <3>2, ClearedPlan
    <3> QED BY <3>3 DEF B, S
  <2>5. /\ PendingIn(T)' \cup MatchedIn(T)' = PendingIn(T) \cup MatchedIn(T)
        /\ OfferedIn(T)' \cup AllocatedIn(T)' = OfferedIn(T) \cup AllocatedIn(T)
        /\ MatchedIn(T)' \cup r.plan.bids = MatchedIn(T) \cup q.plan.bids
        /\ AllocatedIn(T)' \cup r.plan.supplies = AllocatedIn(T) \cup q.plan.supplies
    <3>1. CASE MatchBid(h)
      <4>1. PICK b \in q.plan.bids : /\ bid' = [bid EXCEPT ![b] = "MATCHED"]
                                     /\ req' = [req EXCEPT ![h].plan.bids = @ \ {b}]
        BY <3>1 DEF MatchBid
      <4>2. b \in Bids /\ BidSlot[b] = T /\ b \in PendingIn(T) \cup MatchedIn(T)
        BY <2>3, <2>4 DEF PendingIn, MatchedIn
      <4>3. r.plan.bids = q.plan.bids \ {b} /\ r.plan.supplies = q.plan.supplies
        BY <4>1 DEF TypeOK, Requests, Plans
      <4>4. bid'[b] = "MATCHED" /\ \A c \in Bids : c # b => bid'[c] = bid[c]
        BY <4>1, <4>2 DEF TypeOK
      <4>5. MatchedIn(T)' = MatchedIn(T) \cup {b} /\ PendingIn(T)' = PendingIn(T) \ {b}
        BY <4>2, <4>4 DEF MatchedIn, PendingIn
      <4>6. OfferedIn(T)' = OfferedIn(T) /\ AllocatedIn(T)' = AllocatedIn(T)
        BY <3>1 DEF MatchBid, OfferedIn, AllocatedIn
      <4> QED BY <4>2, <4>3, <4>5, <4>6
    <3>2. CASE AllocateSupply(h)
      <4>1. PICK s \in q.plan.supplies : /\ supply' = [supply EXCEPT ![s] = "ALLOCATED"]
                                         /\ req' = [req EXCEPT ![h].plan.supplies = @ \ {s}]
        BY <3>2 DEF AllocateSupply
      <4>2. s \in Supplies /\ SupplySlot[s] = T /\ s \in OfferedIn(T) \cup AllocatedIn(T)
        BY <2>3, <2>4 DEF OfferedIn, AllocatedIn
      <4>3. r.plan.supplies = q.plan.supplies \ {s} /\ r.plan.bids = q.plan.bids
        BY <4>1 DEF TypeOK, Requests, Plans
      <4>4. supply'[s] = "ALLOCATED" /\ \A c \in Supplies : c # s => supply'[c] = supply[c]
        BY <4>1, <4>2 DEF TypeOK
      <4>5. AllocatedIn(T)' = AllocatedIn(T) \cup {s} /\ OfferedIn(T)' = OfferedIn(T) \ {s}
        BY <4>2, <4>4 DEF AllocatedIn, OfferedIn
      <4>6. PendingIn(T)' = PendingIn(T) /\ MatchedIn(T)' = MatchedIn(T)
        BY <3>2 DEF AllocateSupply, PendingIn, MatchedIn
      <4> QED BY <4>2, <4>3, <4>5, <4>6
    <3> QED BY <1>5, <3>1, <3>2
  <2> HIDE DEF T
  <2>6. Planned(r)'
    BY <2>1, <2>3, <2>5 DEF Planned
  <2> QED BY <2>1, <2>2, <2>6, Kinds DEF RequestOK, BidSteps, PlaceSteps
<1>6. CASE SettleTimeslot(h) \/ RequestFails(h)
  BY <1>1, <1>6, OwnRequest DEF SettleTimeslot, RequestFails, SlotWriteReturns
<1>7. CASE SlotWriteRetried(h)
  <2>1. /\ q.step = "seal" /\ r.step = "seal" /\ r.on = q.on /\ status' = status
    BY <1>7 DEF SlotWriteRetried, WritesSlot, TypeOK, Requests
  <2> QED BY <2>1, Kinds DEF RequestOK, BidSteps, PlaceSteps
<1> QED BY <1>2, <1>3, <1>4, <1>5, <1>6, <1>7

LEMMA StepBusy ==
  ASSUME NEW h \in Handlers, HandlerStep(h)
  PROVE  req[h] # Idle
BY DEF HandlerStep, FindDuplicate, InsufficientBalance, CreateBid, PrepareFails, SendTransfer,
   TransferConfirmed, SubmitGivesUp, MarkConfirmed, MarkConfirmedFails, UndoBid, CancelBid,
   CancelSupplyTransfer, CancelSupply, SealTimeslot, FetchBids, FetchSupplies, ClearMarket,
   MatchBid, AllocateSupply, SettleTimeslot, RequestFails, SlotWriteRetried, WritesSlot, At, Idle

\* The beginning of a request and the chain and the clock write no row that is sold or bought.
LEMMA NoRowWritten ==
  ASSUME EventStatuses = {},
         \/ Environment
         \/ \E h \in Handlers : BeginRequest(h)
         \/ UNCHANGED vars
  PROVE  bid' = bid /\ supply' = supply /\ status' = status /\ clearingPrice' = clearingPrice
<1> USE DEF slotVars, bidVars
<1>1. CASE Environment
  BY <1>1 DEF Environment, TransferLands, TransferDropped, UpdateBidStatus, UpdateSupplyStatus,
     SlotEnds, Crash
<1>2. CASE \E h \in Handlers : BeginRequest(h)
  BY <1>2 DEF BeginRequest, BeginPlaceBid, BeginCancelBid, BeginCancelSupply, BeginSeal, BeginSettle
<1>3. CASE UNCHANGED vars
  BY <1>3 DEF vars
<1> QED BY <1>1, <1>2, <1>3

\* Requests other than the one that takes the step keep what they have read.
LEMMA OthersOK ==
  ASSUME EventStatuses = {}, TypeOK, TypeOK', SealInv, MarketInv, Apart,
         NEW h \in Handlers, HandlerStep(h) \/ BeginRequest(h),
         NEW g \in Handlers, g # h, NEW r \in Requests, req'[g] = r
  PROVE  RequestOK(r)'
<1>1. req[g] = r /\ RequestOK(r)
  <2>1. req'[g] = req[g]
    BY OthersUnchanged
  <2> QED BY <2>1 DEF MarketInv
<1>2. CASE r = Idle
  BY <1>2, IdleOK
<1>3. CASE BeginRequest(h)
  BY <1>1, <1>3, NoRowWritten, RequestFrame
<1>4. CASE HandlerStep(h) /\ r # Idle
  <2>1. SlotOf(req[h]) # SlotOf(r)
    BY <1>1, <1>4, StepBusy DEF Apart
  <2> QED BY <1>1, <1>4, <2>1, OwnSlot, RequestFrame
<1> QED BY <1>2, <1>3, <1>4

\* Nobody else settles a timeslot while a request about it is in flight.
LEMMA AloneInSlot ==
  ASSUME TypeOK, Apart, NEW h \in Handlers, req[h].step \in SlotSteps,
         NEW g \in Handlers, req[g].step = "execute", req[g].on = req[h].on
  PROVE  g = h
<1>1. PICK q \in Requests, r \in Requests : q = req[h] /\ r = req[g]
  BY DEF TypeOK
<1>2. r.step \in SlotSteps
  BY <1>1 DEF SlotSteps, SettleSteps
<1>3. SlotOf(q) = SlotOf(r)
  BY <1>1, <1>2, Slots
<1>4. q # Idle /\ r # Idle
  BY <1>1, <1>2 DEF Idle, SlotSteps, SettleSteps
<1> QED BY <1>1, <1>3, <1>4 DEF Apart

LEMMA OwnOK ==
  ASSUME "execute" \notin Faults, TypeOK, SealInv, MarketInv, Apart,
         NEW h \in Handlers, HandlerStep(h) \/ BeginRequest(h),
         NEW r \in Requests, req'[h] = r
  PROVE  RequestOK(r)'
<1>1. PICK q \in Requests : q = req[h]
  BY DEF TypeOK
<1>2. RequestOK(q)
  BY <1>1 DEF MarketInv
<1>3. q.step = "clear" => MatchedIn(q.on) = {} /\ AllocatedIn(q.on) = {}
  <2> SUFFICES ASSUME q.step = "clear" PROVE MatchedIn(q.on) = {} /\ AllocatedIn(q.on) = {}
    OBVIOUS
  <2>1. q.step \in SlotSteps /\ q.on \in Timeslots
    BY FitsAlong DEF SlotSteps, SettleSteps
  <2>2. status[q.on] = "SEALED"
    BY <1>2, Kinds DEF RequestOK
  <2>3. \A g \in Handlers : ~ (req[g].step = "execute" /\ req[g].on = q.on)
    BY <1>1, <2>1, AloneInSlot
  <2> QED BY <2>1, <2>2, <2>3 DEF MarketInv
<1> QED BY <1>1, <1>2, <1>3, BeginsOK, PlacesOK, SettlesOK DEF HandlerStep

\* Rows are marked only in timeslots that are settled or being settled.
LEMMA MarksStep ==
  ASSUME "execute" \notin Faults, TypeOK, TypeOK', SealInv, MarketInv, Apart,
         NEW h \in Handlers, HandlerStep(h) \/ BeginRequest(h),
         NEW t \in Timeslots, status'[t] # "SETTLED",
         \A g \in Handlers : ~ (req'[g].step = "execute" /\ req'[g].on = t)
  PROVE  MatchedIn(t)' = {} /\ AllocatedIn(t)' = {}
<1> USE DEF At, slotVars, bidVars
<1>1. \A g \in Handlers : g # h => req'[g] = req[g]
  BY OthersUnchanged
<1>2. CASE ~ (ClearMarket(h) \/ MatchBid(h) \/ AllocateSupply(h) \/ SettleTimeslot(h))
  <2>1. /\ status[t] # "SETTLED"
        /\ req[h].step # "execute"
        /\ \A b \in Bids : bid'[b] = "MATCHED" => bid[b] = "MATCHED"
        /\ \A s \in Supplies : supply'[s] = "ALLOCATED" => supply[s] = "ALLOCATED"
    BY <1>2, MarketBook, QuietStep
  <2>2. MatchedIn(t) = {} /\ AllocatedIn(t) = {}
    BY <1>1, <2>1 DEF MarketInv
  <2> QED BY <2>1, <2>2 DEF MatchedIn, AllocatedIn
<1>3. CASE ClearMarket(h)
  <2>1. req[h].step = "clear" /\ bid' = bid /\ supply' = supply /\ status' = status
    BY <1>3 DEF ClearMarket
  <2>2. MatchedIn(t) = {} /\ AllocatedIn(t) = {}
    BY <1>1, <2>1 DEF MarketInv
  <2> QED BY <2>1, <2>2 DEF MatchedIn, AllocatedIn
<1>4. CASE MatchBid(h) \/ AllocateSupply(h) \/ SettleTimeslot(h)
  <2>1. HandlerStep(h) /\ req[h].step = "execute" /\ req[h] \in Requests
    BY <1>4 DEF HandlerStep, MatchBid, AllocateSupply, SettleTimeslot, TypeOK
  <2>2. req[h].on \in Timeslots /\ SlotOf(req[h]) = req[h].on
    BY <2>1, Slots DEF SlotSteps, SettleSteps
  <2>3. t # req[h].on
    <3>1. CASE MatchBid(h) \/ AllocateSupply(h)
      <4>1. req'[h].step = "execute" /\ req'[h].on = req[h].on
        BY <2>1, <3>1 DEF MatchBid, AllocateSupply, TypeOK, Requests
      <4> QED BY <4>1
    <3>2. CASE SettleTimeslot(h)
      BY <2>2, <3>2 DEF SettleTimeslot, TypeOK
    <3> QED BY <1>4, <3>1, <3>2
  <2>4. /\ status'[t] = status[t]
        /\ \A b \in Bids : BidSlot[b] = t => bid'[b] = bid[b]
        /\ \A s \in Supplies : SupplySlot[s] = t => supply'[s] = supply[s]
    BY <2>1, <2>2, <2>3, OwnSlot
  <2>5. MatchedIn(t) = {} /\ AllocatedIn(t) = {}
    BY <1>1, <2>3, <2>4 DEF MarketInv
  <2> QED BY <2>4, <2>5 DEF MatchedIn, AllocatedIn
<1> QED BY <1>2, <1>3, <1>4

LEMMA MarketStep ==
  ASSUME "execute" \notin Faults, ~ Crashes, EventStatuses = {},
         TypeOK, TypeOK', SealInv, MarketInv, Apart, [Next]_vars
  PROVE  MarketInv'
<1>1. CASE Environment \/ UNCHANGED vars
  <2>1. bid' = bid /\ supply' = supply /\ status' = status
    BY <1>1, NoRowWritten
  <2>2. req' = req
    BY <1>1 DEF vars, Environment, TransferLands, TransferDropped, UpdateBidStatus,
       UpdateSupplyStatus, SlotEnds, Crash
  <2>3. ASSUME NEW h \in Handlers, NEW r \in Requests, req'[h] = r
        PROVE  RequestOK(r)'
    <3>1. RequestOK(r)
      BY <2>2, <2>3 DEF MarketInv
    <3> QED BY <2>1, <3>1, RequestFrame
  <2>4. ASSUME NEW t \in Timeslots, status'[t] # "SETTLED",
               \A h \in Handlers : ~ (req'[h].step = "execute" /\ req'[h].on = t)
        PROVE  MatchedIn(t)' = {} /\ AllocatedIn(t)' = {}
    BY <2>1, <2>2, <2>4 DEF MarketInv, MatchedIn, AllocatedIn
  <2> QED BY <2>3, <2>4 DEF MarketInv
<1>2. ASSUME NEW h \in Handlers, HandlerStep(h) \/ BeginRequest(h)
      PROVE  MarketInv'
  <2>1. ASSUME NEW g \in Handlers, NEW r \in Requests, req'[g] = r
        PROVE  RequestOK(r)'
    BY <1>2, <2>1, OwnOK, OthersOK
  <2>2. ASSUME NEW t \in Timeslots, status'[t] # "SETTLED",
               \A g \in Handlers : ~ (req'[g].step = "execute" /\ req'[g].on = t)
        PROVE  MatchedIn(t)' = {} /\ AllocatedIn(t)' = {}
    BY <1>2, <2>2, MarksStep
  <2> QED BY <2>1, <2>2 DEF MarketInv
<1> QED BY <1>1, <1>2 DEF Next

-----------------------------------------------------------------------------
(* Every step is one of the market, or none *)

shown == <<status, clearingPrice, ShownBid, ShownSupply>>

LEMMA SameShown ==
  ASSUME bid' = bid, supply' = supply, status' = status, clearingPrice' = clearingPrice
  PROVE  UNCHANGED shown
BY DEF shown, ShownBid, ShownSupply

\* A bid of an open timeslot is shown as it is, and so is what is written to it.
LEMMA OpenShown ==
  ASSUME TypeOK, NEW b \in Bids, status[BidSlot[b]] = "OPEN", MatchedIn(BidSlot[b]) = {}
  PROVE  /\ ShownBid[b] = bid[b]
         /\ \A c \in Bids : BidSlot[c] = BidSlot[b] => ShownBid[c] = bid[c]
         /\ \A x \in Active \cup {"CANCELLED"} :
              status' = status /\ supply' = supply /\ bid' = [bid EXCEPT ![b] = x]
                => /\ ShownBid' = [ShownBid EXCEPT ![b] = x]
                   /\ ShownSupply' = ShownSupply
<1>1. \A c \in Bids : BidSlot[c] = BidSlot[b] => ShownBid[c] = bid[c]
  BY DEF MatchedIn, ShownBid
<1>2. ASSUME NEW x \in Active \cup {"CANCELLED"}, status' = status, supply' = supply,
             bid' = [bid EXCEPT ![b] = x]
      PROVE  /\ ShownBid' = [ShownBid EXCEPT ![b] = x]
             /\ ShownSupply' = ShownSupply
  <2>1. x # "MATCHED"
    BY DEF Active
  <2>2. bid'[b] = x /\ \A c \in Bids : c # b => bid'[c] = bid[c]
    BY <1>2 DEF TypeOK
  <2>3. ShownBid' = [c \in Bids |-> IF c = b THEN x ELSE ShownBid[c]]
    BY <1>2, <2>1, <2>2 DEF ShownBid
  <2>4. [ShownBid EXCEPT ![b] = x] = [c \in Bids |-> IF c = b THEN x ELSE ShownBid[c]]
    BY DEF ShownBid
  <2>5. ShownSupply' = ShownSupply
    BY <1>2 DEF ShownSupply
  <2> QED BY <2>3, <2>4, <2>5
<1> QED BY <1>1, <1>2

\* Placements and cancellations of bids happen in the market as they happen.
LEMMA BidsSimulated ==
  ASSUME TypeOK, SealInv, MarketInv,
         NEW h \in Handlers, NEW q \in Requests, q = req[h], RequestOK(q),
         CreateBid(h) \/ MarkConfirmed(h) \/ UndoBid(h) \/ CancelBid(h)
  PROVE  Promise!Next
<1> USE DEF At
<1> DEFINE b == q.on
<1>1. /\ q.step \in {"create", "confirm", "undo", "cancel"} /\ q.step \in BidSteps /\ b \in Bids
      /\ status' = status /\ clearingPrice' = clearingPrice /\ supply' = supply
  <2>1. q.step \in {"create", "confirm", "undo", "cancel"}
    BY DEF CreateBid, MarkConfirmed, UndoBid, CancelBid
  <2>2. q.step \in BidSteps
    BY <2>1 DEF BidSteps, PlaceSteps
  <2> QED BY <2>1, <2>2, FitsAlong DEF CreateBid, MarkConfirmed, UndoBid, CancelBid, slotVars
<1>2. status[BidSlot[b]] = "OPEN"
  BY <1>1 DEF RequestOK
\* Nobody settles an open timeslot, so nothing in it is marked.
<1>3. MatchedIn(BidSlot[b]) = {}
  <2>1. BidSlot[b] \in Timeslots
    BY <1>1, OffersAssumption
  <2>2. \A g \in Handlers : ~ (req[g].step = "execute" /\ req[g].on = BidSlot[b])
    BY <1>2, PlansAreSealed
  <2> QED BY <1>2, <2>1, <2>2 DEF MarketInv
<1> HIDE DEF b
<1>4. ShownBid[b] = bid[b] /\ \A c \in Bids : BidSlot[c] = BidSlot[b] => ShownBid[c] = bid[c]
  BY <1>1, <1>2, <1>3, OpenShown
<1>5. ASSUME NEW x \in Active \cup {"CANCELLED"}, bid' = [bid EXCEPT ![b] = x]
      PROVE  ShownBid' = [ShownBid EXCEPT ![b] = x] /\ ShownSupply' = ShownSupply
  BY <1>1, <1>2, <1>3, <1>5, OpenShown
<1>6. CASE CreateBid(h)
  <2>1. q.step = "create" /\ bid' = [bid EXCEPT ![b] = "PENDING"]
    BY <1>6 DEF CreateBid, b
  <2>2. /\ bid[b] = "NONE"
        /\ \A c \in Bids : Bidder[c] = Bidder[b] /\ BidSlot[c] = BidSlot[b] => bid[c] \notin Active
    BY <2>1 DEF RequestOK, b
  <2>3. ShownBid' = [ShownBid EXCEPT ![b] = "PENDING"] /\ ShownSupply' = ShownSupply
    BY <1>5, <2>1 DEF Active
  <2>4. Promise!PlaceBid(b)
    BY <1>1, <1>2, <1>4, <2>2, <2>3 DEF Promise!PlaceBid, Active
  <2> QED BY <1>1, <2>4 DEF Promise!Next
<1>7. CASE MarkConfirmed(h)
  <2>1. q.step = "confirm" /\ bid' = [bid EXCEPT ![b] = "CONFIRMED"]
    BY <1>7 DEF MarkConfirmed, b
  <2>2. bid[b] = "PENDING"
    BY <2>1 DEF RequestOK, b
  <2>3. ShownBid' = [ShownBid EXCEPT ![b] = "CONFIRMED"] /\ ShownSupply' = ShownSupply
    BY <1>5, <2>1 DEF Active
  <2>4. Promise!ConfirmBid(b)
    BY <1>1, <1>2, <1>4, <2>2, <2>3 DEF Promise!ConfirmBid
  <2> QED BY <1>1, <2>4 DEF Promise!Next
<1>8. CASE UndoBid(h) \/ CancelBid(h)
  <2>1. q.step \in {"undo", "cancel"} /\ bid' = [bid EXCEPT ![b] = "CANCELLED"]
    BY <1>8 DEF UndoBid, CancelBid, b
  <2>2. bid[b] \in {"PENDING", "CONFIRMED"}
    BY <2>1 DEF RequestOK, Active, b
  <2>3. ShownBid' = [ShownBid EXCEPT ![b] = "CANCELLED"] /\ ShownSupply' = ShownSupply
    BY <1>5, <2>1
  <2>4. Promise!WithdrawBid(b)
    BY <1>1, <1>2, <1>4, <2>2, <2>3 DEF Promise!WithdrawBid
  <2> QED BY <1>1, <2>4 DEF Promise!Next
<1> QED BY <1>6, <1>7, <1>8

\* So do the cancellations of offers.
LEMMA SupplySimulated ==
  ASSUME TypeOK, NEW h \in Handlers, NEW q \in Requests, q = req[h], RequestOK(q), CancelSupply(h)
  PROVE  Promise!Next
<1> DEFINE s == q.on
<1>1. /\ q.step = "release" /\ supply' = [supply EXCEPT ![s] = "CANCELLED"]
      /\ bid' = bid /\ status' = status /\ clearingPrice' = clearingPrice
  BY DEF CancelSupply, At, bidVars, slotVars
<1>2. s \in Supplies /\ supply[s] \in {"COMMITTED", "CONFIRMED"}
  BY <1>1, Kinds, FitsAlong DEF RequestOK
<1> HIDE DEF s
<1>3. supply'[s] = "CANCELLED" /\ \A c \in Supplies : c # s => supply'[c] = supply[c]
  BY <1>1, <1>2 DEF TypeOK
<1>4. ShownSupply[s] = supply[s] /\ ShownBid' = ShownBid
  BY <1>1, <1>2 DEF ShownSupply, ShownBid
<1>5. ShownSupply' = [ShownSupply EXCEPT ![s] = "CANCELLED"]
  <2>1. ShownSupply' = [c \in Supplies |-> IF c = s THEN "CANCELLED" ELSE ShownSupply[c]]
    BY <1>1, <1>2, <1>3 DEF ShownSupply
  <2>2. [ShownSupply EXCEPT ![s] = "CANCELLED"]
          = [c \in Supplies |-> IF c = s THEN "CANCELLED" ELSE ShownSupply[c]]
    BY DEF ShownSupply
  <2> QED BY <2>1, <2>2
<1>6. Promise!WithdrawSupply(s)
  BY <1>1, <1>2, <1>4, <1>5 DEF Promise!WithdrawSupply
<1> QED BY <1>2, <1>6 DEF Promise!Next

\* A seal is made once; when its update is repeated nothing changes.
LEMMA SealSimulated ==
  ASSUME TypeOK, NEW h \in Handlers, NEW q \in Requests, q = req[h], RequestOK(q), SealTimeslot(h)
  PROVE  Promise!Next \/ UNCHANGED shown
<1> DEFINE t == q.on
<1>1. /\ q.step = "seal" /\ status' = [status EXCEPT ![t] = "SEALED"]
      /\ bid' = bid /\ supply' = supply /\ clearingPrice' = clearingPrice
  BY DEF SealTimeslot, At, bidVars
<1>2. t \in Timeslots /\ status[t] \in {"OPEN", "SEALED"}
  BY <1>1, FitsAlong DEF RequestOK, SlotSteps, TypeOK, TimeslotStatus
<1> HIDE DEF t
<1>3. status'[t] = "SEALED" /\ \A u \in Timeslots : u # t => status'[u] = status[u]
  BY <1>1, <1>2 DEF TypeOK
<1>4. ShownBid' = ShownBid /\ ShownSupply' = ShownSupply
  <2>1. \A u \in Timeslots : status'[u] # "SETTLED" <=> status[u] # "SETTLED"
    BY <1>2, <1>3
  <2> QED BY <1>1, <2>1, OffersAssumption DEF ShownBid, ShownSupply
<1>5. CASE status[t] = "OPEN"
  <2>1. Promise!SealTimeslot(t)
    BY <1>1, <1>4, <1>5 DEF Promise!SealTimeslot
  <2> QED BY <1>2, <2>1 DEF Promise!Next
<1>6. CASE status[t] = "SEALED"
  <2>1. status' = status
    BY <1>1, <1>6 DEF TypeOK
  <2> QED BY <1>1, <1>4, <2>1 DEF shown
<1> QED BY <1>2, <1>5, <1>6

\* A row marked by a settlement under way is shown as it was before.
LEMMA MarkSimulated ==
  ASSUME TypeOK, SealInv, NEW h \in Handlers, NEW q \in Requests, q = req[h], RequestOK(q),
         MatchBid(h) \/ AllocateSupply(h)
  PROVE  UNCHANGED shown
<1> USE DEF At, slotVars, bidVars
<1> DEFINE T == q.on
<1>1. q.step = "execute" /\ status' = status /\ clearingPrice' = clearingPrice
  BY DEF MatchBid, AllocateSupply
<1>2. status[T] = "SEALED" /\ Planned(q)
  BY <1>1, Kinds DEF RequestOK
<1>3. /\ q.plan.bids \subseteq PendingIn(T) \cup MatchedIn(T)
      /\ q.plan.supplies \subseteq OfferedIn(T) \cup AllocatedIn(T)
  <2> DEFINE B == PendingIn(T) \cup MatchedIn(T)
             S == OfferedIn(T) \cup AllocatedIn(T)
  <2>1. B \in SUBSET Bids /\ S \in SUBSET Supplies
    BY DEF PendingIn, MatchedIn, OfferedIn, AllocatedIn
  <2>2. PICK p \in Clearings(B, S) : q.plan.bids \subseteq p.bids /\ q.plan.supplies \subseteq p.supplies
    BY <1>2 DEF Planned
  <2> HIDE DEF B, S
  <2>3. p.bids \subseteq B /\ p.supplies \subseteq S
    BY ONLY <2>1, p \in Clearings(B, S), ClearedPlan
  <2> QED BY <2>2, <2>3 DEF B, S
<1> HIDE DEF T
<1>4. CASE MatchBid(h)
  <2>1. PICK b \in q.plan.bids : bid' = [bid EXCEPT ![b] = "MATCHED"]
    BY <1>4 DEF MatchBid
  <2>2. b \in Bids /\ BidSlot[b] = T /\ bid[b] \in {"PENDING", "MATCHED"}
    BY <1>3 DEF PendingIn, MatchedIn
  <2>3. bid'[b] = "MATCHED" /\ \A c \in Bids : c # b => bid'[c] = bid[c]
    BY <2>1, <2>2 DEF TypeOK
  <2>4. ShownBid' = ShownBid
    BY <1>1, <1>2, <2>2, <2>3 DEF ShownBid
  <2>5. ShownSupply' = ShownSupply
    BY <1>1, <1>4 DEF MatchBid, ShownSupply
  <2> QED BY <1>1, <2>4, <2>5 DEF shown
<1>5. CASE AllocateSupply(h)
  <2>1. PICK s \in q.plan.supplies : supply' = [supply EXCEPT ![s] = "ALLOCATED"]
    BY <1>5 DEF AllocateSupply
  <2>2. s \in Supplies /\ SupplySlot[s] = T /\ supply[s] \in {"COMMITTED", "ALLOCATED"}
    BY <1>3 DEF OfferedIn, AllocatedIn
  <2>3. supply'[s] = "ALLOCATED" /\ \A c \in Supplies : c # s => supply'[c] = supply[c]
    BY <2>1, <2>2 DEF TypeOK
  <2>4. ShownSupply' = ShownSupply
    BY <1>1, <1>2, <2>2, <2>3 DEF ShownSupply
  <2>5. ShownBid' = ShownBid
    BY <1>1, <1>5 DEF AllocateSupply, ShownBid
  <2> QED BY <1>1, <2>4, <2>5 DEF shown
<1> QED BY <1>4, <1>5

\* When the timeslot becomes SETTLED the whole of its clearing shows at once.
LEMMA SettleSimulated ==
  ASSUME TypeOK, SealInv, NEW h \in Handlers, NEW q \in Requests, q = req[h], RequestOK(q),
         SettleTimeslot(h)
  PROVE  Promise!Next
<1> DEFINE T == q.on
<1>1. /\ q.step = "execute" /\ q.plan.bids = {} /\ q.plan.supplies = {}
      /\ status' = [status EXCEPT ![T] = "SETTLED"]
      /\ clearingPrice' = [clearingPrice EXCEPT ![T] = q.plan.price]
      /\ bid' = bid /\ supply' = supply
  BY DEF SettleTimeslot, At, bidVars
<1>2. T \in Timeslots /\ status[T] = "SEALED" /\ Planned(q)
  BY <1>1, Kinds, FitsAlong DEF RequestOK, SlotSteps
<1>3. PICK p \in Clearings(PendingIn(T) \cup MatchedIn(T), OfferedIn(T) \cup AllocatedIn(T)) :
        p.bids = MatchedIn(T) /\ p.supplies = AllocatedIn(T) /\ p.price = q.plan.price
  BY <1>1, <1>2 DEF Planned
<1> HIDE DEF T
<1>4. /\ Promise!PendingIn(T) = PendingIn(T) \cup MatchedIn(T)
      /\ Promise!OfferedIn(T) = OfferedIn(T) \cup AllocatedIn(T)
  BY <1>2 DEF Promise!PendingIn, Promise!OfferedIn, PendingIn, MatchedIn, OfferedIn, AllocatedIn,
              ShownBid, ShownSupply
<1>5. status'[T] = "SETTLED" /\ \A t \in Timeslots : t # T => status'[t] = status[t]
  BY <1>1, <1>2 DEF TypeOK
<1>6. ShownBid' = [b \in Bids |-> IF b \in p.bids THEN "MATCHED" ELSE ShownBid[b]]
  BY <1>1, <1>2, <1>3, <1>5, OffersAssumption DEF ShownBid, MatchedIn
<1>7. ShownSupply' = [s \in Supplies |-> IF s \in p.supplies THEN "ALLOCATED" ELSE ShownSupply[s]]
  BY <1>1, <1>2, <1>3, <1>5, OffersAssumption DEF ShownSupply, AllocatedIn
<1>8. Promise!SettleTimeslot(T)
  BY <1>1, <1>2, <1>3, <1>4, <1>6, <1>7 DEF Promise!SettleTimeslot
<1> QED BY <1>2, <1>8 DEF Promise!Next

LEMMA Simulated ==
  ASSUME "execute" \notin Faults, EventStatuses = {}, TypeOK, SealInv, MarketInv, [Next]_vars
  PROVE  [Promise!Next]_shown
<1>1. CASE Environment \/ (\E h \in Handlers : BeginRequest(h)) \/ UNCHANGED vars
  BY <1>1, NoRowWritten, SameShown
<1>2. ASSUME NEW h \in Handlers, HandlerStep(h)
      PROVE  Promise!Next \/ UNCHANGED shown
  <2>1. PICK q \in Requests : q = req[h]
    BY DEF TypeOK
  <2>2. RequestOK(q)
    BY <2>1 DEF MarketInv
  <2>3. CASE \/ FindDuplicate(h) \/ InsufficientBalance(h) \/ PrepareFails(h) \/ SendTransfer(h)
             \/ TransferConfirmed(h) \/ SubmitGivesUp(h) \/ MarkConfirmedFails(h)
             \/ CancelSupplyTransfer(h) \/ FetchBids(h) \/ FetchSupplies(h) \/ ClearMarket(h)
             \/ RequestFails(h) \/ SlotWriteRetried(h)
    <3>1. bid' = bid /\ supply' = supply /\ status' = status /\ clearingPrice' = clearingPrice
      BY <2>3 DEF FindDuplicate, InsufficientBalance, PrepareFails, SendTransfer, TransferConfirmed,
         SubmitGivesUp, MarkConfirmedFails, CancelSupplyTransfer, FetchBids, FetchSupplies,
         ClearMarket, RequestFails, SlotWriteRetried, slotVars, bidVars
    <3> QED BY <3>1, SameShown
  <2>4. CASE CreateBid(h) \/ MarkConfirmed(h) \/ UndoBid(h) \/ CancelBid(h)
    BY <2>1, <2>2, <2>4, BidsSimulated
  <2>5. CASE CancelSupply(h)
    BY <2>1, <2>2, <2>5, SupplySimulated
  <2>6. CASE SealTimeslot(h)
    BY <2>1, <2>2, <2>6, SealSimulated
  <2>7. CASE MatchBid(h) \/ AllocateSupply(h)
    BY <2>1, <2>2, <2>7, MarkSimulated
  <2>8. CASE SettleTimeslot(h)
    BY <2>1, <2>2, <2>8, SettleSimulated
  <2> QED BY <1>2, <2>3, <2>4, <2>5, <2>6, <2>7, <2>8 DEF HandlerStep
<1> QED BY <1>1, <1>2 DEF Next

\* As long as requests about one timeslot do not overlap, the services are a
\* market: any number of requests about different timeslots, their checks, calls
\* and failures amount to placing, confirming and withdrawing bids in open
\* timeslots, one seal and one clearing of each (bid.service.ts:41-135, 268-296,
\* supply.service.ts:264-300, timeslot.service.ts:190-241).
THEOREM ApartRequestsMakeAMarket ==
  ASSUME "execute" \notin Faults, ~ Crashes, EventStatuses = {}
  PROVE  Spec /\ []Apart => ImplementsMarket
<1>1. Init => Promise!Init
  BY DEF Init, Promise!Init, ShownBid, ShownSupply, NoPrice
<1>2. TypeOK /\ TypeOK' /\ SealInv /\ MarketInv /\ Apart /\ [Next]_vars => MarketInv'
  BY MarketStep
<1>3. TypeOK /\ SealInv /\ MarketInv /\ [Next]_vars => [Promise!Next]_shown
  BY Simulated
<1> QED BY <1>1, <1>2, <1>3, InitTypeOK, NextTypeOK, InitSeal, SealStep, InitMarket, PTL
        DEF Spec, ImplementsMarket, Promise!Spec, shown

\* In particular a server that serves one request at a time is one.
THEOREM OneHandlerMakesAMarket ==
  ASSUME \A g, h \in Handlers : g = h,
         "execute" \notin Faults, ~ Crashes, EventStatuses = {}
  PROVE  Spec => ImplementsMarket
<1>1. Apart
  BY DEF Apart
<1> QED BY <1>1, ApartRequestsMakeAMarket, PTL

-----------------------------------------------------------------------------
(* What follows from the promise *)

LEMMA ShownRows ==
  /\ ShownBid = [b \in Bids |-> ShownBid[b]]
  /\ ShownSupply = [s \in Supplies |-> ShownSupply[s]]
BY DEF ShownBid, ShownSupply

LEMMA MarketInit ==
  ASSUME Promise!Init, \A b, c \in Leftover : SameOffer(b, c) => b = c
  PROVE  Promise!OneActiveBid /\ Promise!BooksAreCleared
<1>1. /\ status = [t \in Timeslots |-> "OPEN"]
      /\ ShownBid = [b \in Bids |-> IF b \in Leftover THEN "PENDING" ELSE "NONE"]
      /\ ShownSupply = [s \in Supplies |-> "COMMITTED"]
  BY DEF Promise!Init
<1>2. Promise!OneActiveBid
  BY <1>1 DEF Promise!OneActiveBid, SameOffer
<1>3. Promise!BooksAreCleared
  BY <1>1 DEF Promise!BooksAreCleared, Promise!MatchedIn, Promise!AllocatedIn
<1> QED BY <1>2, <1>3

LEMMA OneActiveKept ==
  ASSUME Promise!OneActiveBid, [Promise!Next]_shown
  PROVE  Promise!OneActiveBid'
<1> DEFINE active == {"PENDING", "CONFIRMED"}
<1>1. CASE \E b \in Bids : Promise!PlaceBid(b)
  <2>1. PICK b \in Bids : Promise!PlaceBid(b)
    BY <1>1
  <2>2. /\ \A c \in Bids : Bidder[c] = Bidder[b] /\ BidSlot[c] = BidSlot[b] => ShownBid[c] \notin active
        /\ \A c \in Bids : c # b => ShownBid'[c] = ShownBid[c]
    BY <2>1, ShownRows DEF Promise!PlaceBid
  <2> QED BY <2>2 DEF Promise!OneActiveBid
<1>2. CASE \A b \in Bids : ShownBid'[b] \in active => ShownBid[b] \in active
  BY <1>2 DEF Promise!OneActiveBid
<1>3. ASSUME NEW b \in Bids, Promise!ConfirmBid(b) \/ Promise!WithdrawBid(b)
      PROVE  Promise!OneActiveBid'
  BY <1>2, <1>3, ShownRows DEF Promise!ConfirmBid, Promise!WithdrawBid
<1>4. ASSUME NEW s \in Supplies, Promise!WithdrawSupply(s)
      PROVE  Promise!OneActiveBid'
  BY <1>2, <1>4 DEF Promise!WithdrawSupply
<1>5. ASSUME NEW t \in Timeslots, Promise!SealTimeslot(t)
      PROVE  Promise!OneActiveBid'
  BY <1>2, <1>5 DEF Promise!SealTimeslot
<1>6. ASSUME NEW t \in Timeslots, Promise!SettleTimeslot(t)
      PROVE  Promise!OneActiveBid'
  BY <1>2, <1>6 DEF Promise!SettleTimeslot
<1>7. CASE UNCHANGED shown
  BY <1>2, <1>7 DEF shown
<1> QED BY <1>1, <1>3, <1>4, <1>5, <1>6, <1>7 DEF Promise!Next

\* The outcome of settling a timeslot is about rows of that timeslot.
LEMMA SettlesOwnRows ==
  ASSUME NEW t \in Timeslots, NEW r \in Clearings(Promise!PendingIn(t), Promise!OfferedIn(t))
  PROVE  /\ r.bids \subseteq {b \in Bids : BidSlot[b] = t /\ ShownBid[b] = "PENDING"}
         /\ r.supplies \subseteq {s \in Supplies : SupplySlot[s] = t /\ ShownSupply[s] = "COMMITTED"}
<1>1. Promise!PendingIn(t) \in SUBSET Bids /\ Promise!OfferedIn(t) \in SUBSET Supplies
  BY DEF Promise!PendingIn, Promise!OfferedIn
<1>2. r.bids \subseteq Promise!PendingIn(t) /\ r.supplies \subseteq Promise!OfferedIn(t)
  BY <1>1, ClearedPlan
<1> QED BY <1>2 DEF Promise!PendingIn, Promise!OfferedIn

SameBook(t) ==
  /\ status'[t] = "SETTLED" <=> status[t] = "SETTLED"
  /\ clearingPrice'[t] = clearingPrice[t]
  /\ Promise!MatchedIn(t)' = Promise!MatchedIn(t)
  /\ Promise!AllocatedIn(t)' = Promise!AllocatedIn(t)

\* The book of a timeslot changes only in its own settlement.
LEMMA OnlySettlingMarks ==
  ASSUME TypeOK, [Promise!Next]_shown, NEW t \in Timeslots, ~ Promise!SettleTimeslot(t)
  PROVE  SameBook(t)
<1>1. ASSUME \A b \in Bids : BidSlot[b] = t => (ShownBid'[b] = "MATCHED" <=> ShownBid[b] = "MATCHED"),
             \A s \in Supplies : SupplySlot[s] = t =>
                (ShownSupply'[s] = "ALLOCATED" <=> ShownSupply[s] = "ALLOCATED")
      PROVE  /\ Promise!MatchedIn(t)' = Promise!MatchedIn(t)
             /\ Promise!AllocatedIn(t)' = Promise!AllocatedIn(t)
  BY <1>1 DEF Promise!MatchedIn, Promise!AllocatedIn
<1>2. ASSUME NEW b \in Bids, Promise!PlaceBid(b) \/ Promise!ConfirmBid(b) \/ Promise!WithdrawBid(b)
      PROVE  SameBook(t)
  <2>1. /\ status' = status /\ clearingPrice' = clearingPrice /\ ShownSupply' = ShownSupply
        /\ \A c \in Bids : ShownBid'[c] = "MATCHED" <=> ShownBid[c] = "MATCHED"
    BY <1>2, ShownRows DEF Promise!PlaceBid, Promise!ConfirmBid, Promise!WithdrawBid
  <2> QED BY <1>1, <2>1 DEF SameBook
<1>3. ASSUME NEW s \in Supplies, Promise!WithdrawSupply(s)
      PROVE  SameBook(t)
  <2>1. /\ status' = status /\ clearingPrice' = clearingPrice /\ ShownBid' = ShownBid
        /\ \A c \in Supplies : ShownSupply'[c] = "ALLOCATED" <=> ShownSupply[c] = "ALLOCATED"
    BY <1>3, ShownRows DEF Promise!WithdrawSupply
  <2> QED BY <1>1, <2>1 DEF SameBook
<1>4. ASSUME NEW u \in Timeslots, Promise!SealTimeslot(u)
      PROVE  SameBook(t)
  <2>1. /\ clearingPrice' = clearingPrice /\ ShownBid' = ShownBid /\ ShownSupply' = ShownSupply
        /\ status'[t] = "SETTLED" <=> status[t] = "SETTLED"
    BY <1>4 DEF Promise!SealTimeslot, TypeOK
  <2> QED BY <1>1, <2>1 DEF SameBook
<1>5. ASSUME NEW u \in Timeslots, Promise!SettleTimeslot(u)
      PROVE  SameBook(t)
  <2>1. u # t
    BY <1>5
  <2>2. PICK r \in Clearings(Promise!PendingIn(u), Promise!OfferedIn(u)) :
          /\ ShownBid' = [b \in Bids |-> IF b \in r.bids THEN "MATCHED" ELSE ShownBid[b]]
          /\ ShownSupply' = [s \in Supplies |-> IF s \in r.supplies THEN "ALLOCATED" ELSE ShownSupply[s]]
          /\ clearingPrice' = [clearingPrice EXCEPT ![u] = r.price]
    BY <1>5 DEF Promise!SettleTimeslot
  <2>3. /\ \A b \in Bids : BidSlot[b] = t => b \notin r.bids
        /\ \A s \in Supplies : SupplySlot[s] = t => s \notin r.supplies
    BY <2>1, SettlesOwnRows
  <2>4. clearingPrice'[t] = clearingPrice[t] /\ status'[t] = status[t]
    BY <1>5, <2>1, <2>2 DEF Promise!SettleTimeslot, TypeOK
  <2> QED BY <1>1, <2>2, <2>3, <2>4 DEF SameBook
<1>6. CASE UNCHANGED shown
  BY <1>1, <1>6 DEF shown, SameBook
<1> QED BY <1>2, <1>3, <1>4, <1>5, <1>6 DEF Promise!Next

LEMMA SettledKept ==
  ASSUME TypeOK, [Promise!Next]_shown
  PROVE  Promise!SettledStays
<1>1. \A t \in Timeslots : status[t] = "SETTLED" => SameBook(t)
  BY OnlySettlingMarks DEF Promise!SettleTimeslot
<1> QED BY <1>1 DEF SameBook, Promise!SettledStays


LEMMA ClearedKept ==
  ASSUME TypeOK, Promise!BooksAreCleared, [Promise!Next]_shown
  PROVE  Promise!BooksAreCleared'
<1> SUFFICES ASSUME NEW t \in Timeslots
             PROVE  /\ status'[t] # "SETTLED" =>
                         Promise!MatchedIn(t)' = {} /\ Promise!AllocatedIn(t)' = {}
                    /\ status'[t] = "SETTLED" =>
                         \E B \in SUBSET {b \in Bids : BidSlot[b] = t},
                            S \in SUBSET {s \in Supplies : SupplySlot[s] = t} :
                           \E r \in Clearings(B, S) :
                              /\ Promise!MatchedIn(t)' = r.bids
                              /\ Promise!AllocatedIn(t)' = r.supplies
                              /\ clearingPrice'[t] = r.price
  BY DEF Promise!BooksAreCleared
<1>1. CASE ~ Promise!SettleTimeslot(t)
  <2>1. SameBook(t)
    BY <1>1, OnlySettlingMarks
  <2> QED BY <2>1 DEF SameBook, Promise!BooksAreCleared
<1>2. CASE Promise!SettleTimeslot(t)
  <2>1. PICK r \in Clearings(Promise!PendingIn(t), Promise!OfferedIn(t)) :
          /\ ShownBid' = [b \in Bids |-> IF b \in r.bids THEN "MATCHED" ELSE ShownBid[b]]
          /\ ShownSupply' = [s \in Supplies |-> IF s \in r.supplies THEN "ALLOCATED" ELSE ShownSupply[s]]
          /\ clearingPrice' = [clearingPrice EXCEPT ![t] = r.price]
    BY <1>2 DEF Promise!SettleTimeslot
  <2>2. status[t] = "SEALED" /\ status'[t] = "SETTLED" /\ clearingPrice'[t] = r.price
    BY <1>2, <2>1 DEF Promise!SettleTimeslot, TypeOK
  <2>3. Promise!MatchedIn(t) = {} /\ Promise!AllocatedIn(t) = {}
    BY <2>2 DEF Promise!BooksAreCleared
  <2>4. Promise!MatchedIn(t)' = r.bids
    BY <2>1, <2>3, SettlesOwnRows DEF Promise!MatchedIn
  <2>5. Promise!AllocatedIn(t)' = r.supplies
    BY <2>1, <2>3, SettlesOwnRows DEF Promise!AllocatedIn
  <2>6. /\ Promise!PendingIn(t) \in SUBSET {b \in Bids : BidSlot[b] = t}
        /\ Promise!OfferedIn(t) \in SUBSET {s \in Supplies : SupplySlot[s] = t}
    BY DEF Promise!PendingIn, Promise!OfferedIn
  <2> QED BY <2>2, <2>4, <2>5, <2>6
<1> QED BY <1>1, <1>2

\* A settled book reads the same in the market and in the database.
LEMMA SettledShows ==
  ASSUME NEW t \in Timeslots, status[t] = "SETTLED"
  PROVE  Promise!MatchedIn(t) = MatchedIn(t) /\ Promise!AllocatedIn(t) = AllocatedIn(t)
BY DEF Promise!MatchedIn, Promise!AllocatedIn, MatchedIn, AllocatedIn, ShownBid, ShownSupply

\* A book that is one clearing is priced for everybody in it and covered.
LEMMA ClearedBooksAreSound ==
  Promise!BooksAreCleared => MatchedWithinPrices /\ MatchedDemandCovered
<1> SUFFICES ASSUME Promise!BooksAreCleared, NEW t \in Timeslots, status[t] = "SETTLED"
             PROVE  /\ \A b \in MatchedIn(t) : BidPrice[b] >= clearingPrice[t]
                    /\ \A s \in AllocatedIn(t) : ReservePrice[s] <= clearingPrice[t]
                    /\ Covers(MatchedIn(t), AllocatedIn(t))
  BY DEF MatchedWithinPrices, MatchedDemandCovered, Covers, Total
<1>1. PICK B \in SUBSET {b \in Bids : BidSlot[b] = t},
           S \in SUBSET {s \in Supplies : SupplySlot[s] = t} :
         \E r \in Clearings(B, S) :
            /\ MatchedIn(t) = r.bids
            /\ AllocatedIn(t) = r.supplies
            /\ clearingPrice[t] = r.price
  BY SettledShows DEF Promise!BooksAreCleared
<1>2. PICK r \in Clearings(B, S) :
            MatchedIn(t) = r.bids /\ AllocatedIn(t) = r.supplies /\ clearingPrice[t] = r.price
  BY <1>1
<1>3. B \in SUBSET Bids /\ S \in SUBSET Supplies
  OBVIOUS
<1>4. PlanFits(r) /\ Covers(r.bids, r.supplies)
  BY <1>3, PlanSuits, PlanCovered
<1> QED BY <1>2, <1>4 DEF PlanFits

LEMMA OneActiveShows == Promise!OneActiveBid => OneActiveBid
BY DEF Promise!OneActiveBid, OneActiveBid, ShownBid, Active

\* As long as requests about one timeslot do not overlap, however many are
\* served at a time, no user has two active bids in a timeslot, and every
\* settled book is priced for everybody in it and covered by its supply: all of
\* it follows from the market (bid.service.ts:57-70, clearing-price.service.ts:41-129).
THEOREM ApartRequestsKeepTheRules ==
  ASSUME "execute" \notin Faults, ~ Crashes, EventStatuses = {},
         \A b, c \in Leftover : SameOffer(b, c) => b = c
  PROVE  Spec /\ []Apart => [](OneActiveBid /\ MatchedWithinPrices /\ MatchedDemandCovered)
<1>1. Promise!Init => Promise!OneActiveBid /\ Promise!BooksAreCleared
  BY MarketInit
<1>2. /\ TypeOK /\ Promise!OneActiveBid /\ Promise!BooksAreCleared /\ [Promise!Next]_shown
      => Promise!OneActiveBid' /\ Promise!BooksAreCleared'
  BY OneActiveKept, ClearedKept
<1>3. Promise!OneActiveBid /\ Promise!BooksAreCleared
        => OneActiveBid /\ MatchedWithinPrices /\ MatchedDemandCovered
  BY OneActiveShows, ClearedBooksAreSound
<1> QED BY <1>1, <1>2, <1>3, ApartRequestsMakeAMarket, InitTypeOK, NextTypeOK, PTL
        DEF Spec, ImplementsMarket, Promise!Spec, shown

LEMMA SettledShowsNext ==
  ASSUME NEW t \in Timeslots, status'[t] = "SETTLED"
  PROVE  Promise!MatchedIn(t)' = MatchedIn(t)' /\ Promise!AllocatedIn(t)' = AllocatedIn(t)'
BY DEF Promise!MatchedIn, Promise!AllocatedIn, MatchedIn, AllocatedIn, ShownBid, ShownSupply

\* Under the same condition a settled timeslot is final, status, price and book:
\* the late seal that shows otherwise needs a settlement of the same timeslot to
\* overlap it (timeslot.service.ts:196-231).
THEOREM ApartSettlementsAreFinal ==
  ASSUME "execute" \notin Faults, ~ Crashes, EventStatuses = {}
  PROVE  Spec /\ []Apart => SettledIsFinal /\ SettledBookIsFinal
<1>1. TypeOK /\ [Promise!Next]_shown =>
        /\ \A t \in Timeslots : status[t] = "SETTLED" =>
             status'[t] = "SETTLED" /\ clearingPrice'[t] = clearingPrice[t]
        /\ \A t \in Timeslots : status[t] = "SETTLED" =>
             MatchedIn(t)' = MatchedIn(t) /\ AllocatedIn(t)' = AllocatedIn(t)
  <2> SUFFICES ASSUME TypeOK, [Promise!Next]_shown, NEW t \in Timeslots, status[t] = "SETTLED"
               PROVE  /\ status'[t] = "SETTLED" /\ clearingPrice'[t] = clearingPrice[t]
                      /\ MatchedIn(t)' = MatchedIn(t) /\ AllocatedIn(t)' = AllocatedIn(t)
    OBVIOUS
  <2>1. /\ status'[t] = "SETTLED" /\ clearingPrice'[t] = clearingPrice[t]
        /\ Promise!MatchedIn(t)' = Promise!MatchedIn(t)
        /\ Promise!AllocatedIn(t)' = Promise!AllocatedIn(t)
    BY SettledKept DEF Promise!SettledStays
  <2> QED BY <2>1, SettledShows, SettledShowsNext
<1> QED BY <1>1, ApartRequestsMakeAMarket, InitTypeOK, NextTypeOK, PTL
        DEF Spec, ImplementsMarket, Promise!Spec, shown, SettledIsFinal, SettledBookIsFinal

===============================================================================
