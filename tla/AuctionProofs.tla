----------------------------- MODULE AuctionProofs -----------------------------
(* Theorems about Auction, for every set of handlers, bids, supply offers and *)
(* timeslots, every book of prices, and with failing calls and restarts: its  *)
(* types; from the inductive invariants PaymentInv, RowInv, SealInv, SoleInv  *)
(* and PlacementInv the safety of its payments, of its timeslots and of the   *)
(* bids that are being placed.                                                *)
EXTENDS Auction, TLAPS

-----------------------------------------------------------------------------
(* Requests *)

LEMMA IdleType == Idle \in Requests
BY FaultAssumption
   DEF Idle, Requests, Fits, NoPlan, Plans, Steps, BidSteps, PlaceSteps, SupplySteps,
       SlotSteps, SettleSteps

LEMMA NewRequestType ==
  ASSUME NEW step \in Steps, NEW on \in Bids \cup Supplies \cup Timeslots, Fits(step, on)
  PROVE  [Idle EXCEPT !.step = step, !.on = on] \in Requests
BY IdleType DEF Idle, Requests

LEMMA StepType ==
  ASSUME NEW r \in Requests, NEW step \in Steps, Fits(step, r.on)
  PROVE  [r EXCEPT !.step = step] \in Requests
BY DEF Requests

LEMMA TriesType ==
  ASSUME NEW r \in Requests, NEW n \in 0..MaxRetries
  PROVE  [r EXCEPT !.tries = n] \in Requests
BY DEF Requests

LEMMA PlanType ==
  ASSUME NEW r \in Requests, NEW p \in Plans
  PROVE  [r EXCEPT !.plan = p] \in Requests
BY DEF Requests

LEMMA FitsAlong ==
  ASSUME NEW r \in Requests
  PROVE  /\ r.step \in BidSteps => r.on \in Bids
         /\ r.step \in SupplySteps => r.on \in Supplies
         /\ r.step \in SlotSteps => r.on \in Timeslots
         /\ \A s \in BidSteps : r.step \in BidSteps => Fits(s, r.on)
         /\ \A s \in SupplySteps : r.step \in SupplySteps => Fits(s, r.on)
         /\ \A s \in SlotSteps : r.step \in SlotSteps => Fits(s, r.on)
BY DEF Requests, Fits, Steps, BidSteps, PlaceSteps, SupplySteps, SlotSteps, SettleSteps

-----------------------------------------------------------------------------
(* Results of a clearing *)

\* A clearing marks only bids and offers of the book it was given, at a price
\* that is a whole number.
LEMMA OutcomeType ==
  ASSUME NEW B, NEW S, \A s \in S : s.reservePrice \in Nat,
         NEW r \in ClearingOutcomes(B, S)
  PROVE  /\ \A m \in r.matchedBids : \E b \in B : m.id = b.id
         /\ \A m \in r.matchedSupplies : \E s \in S : m.id = s.id
         /\ r.clearingPrice \in Nat
<1>1. PICK bs \in SortedBids(B), ss \in SortedSupplies(S) :
        \/ \E i \in DOMAIN bs, j \in DOMAIN ss : r = ClearedAt(bs, ss, i, j)
        \/ r = NothingCleared(B, S)
  BY SMTT(30) DEF ClearingOutcomes
<1>2. /\ \A i \in DOMAIN bs : bs[i] \in B
      /\ \A j \in DOMAIN ss : ss[j] \in S
  BY DEF SortedBids, SortedSupplies, Listings
<1>3. CASE r = NothingCleared(B, S)
  BY <1>3 DEF NothingCleared
<1>4. CASE \E i \in DOMAIN bs, j \in DOMAIN ss : r = ClearedAt(bs, ss, i, j)
  <2>1. PICK i \in DOMAIN bs, j \in DOMAIN ss : r = ClearedAt(bs, ss, i, j)
    BY <1>4
  <2>2. ASSUME NEW s, NEW ok \in SUBSET (DOMAIN s), NEW q, NEW m \in Served(s, ok, q)
        PROVE  \E n \in DOMAIN s : m.id = s[n].id
    BY <2>2 DEF Served
  <2>3. \A m \in r.matchedBids : \E n \in DOMAIN bs : m.id = bs[n].id
    BY <2>1, <2>2 DEF ClearedAt
  <2>4. \A m \in r.matchedSupplies : \E n \in DOMAIN ss : m.id = ss[n].id
    BY <2>1, <2>2 DEF ClearedAt
  <2>5. r.clearingPrice = ss[j].reservePrice
    BY <2>1 DEF ClearedAt
  <2> QED BY <1>2, <2>3, <2>4, <2>5
<1> QED BY <1>1, <1>3, <1>4

\* The plan made by ClearMarket marks only what was fetched.
LEMMA ClearedPlan ==
  ASSUME NEW B \in SUBSET Bids, NEW S \in SUBSET Supplies,
         NEW p \in Clearings(B, S)
  PROVE  /\ p \in Plans
         /\ p.bids \subseteq B /\ p.supplies \subseteq S
<1>1. \A s \in SupplyData(S) : s.reservePrice \in Nat /\ s.id \in S
  BY OffersAssumption DEF SupplyData
<1>2. \A b \in BidData(B) : b.id \in B
  BY DEF BidData
<1>3. PICK r \in ClearingOutcomes(BidData(B), SupplyData(S)) :
        p = [bids     |-> {m.id : m \in r.matchedBids},
             supplies |-> {m.id : m \in r.matchedSupplies},
             price    |-> r.clearingPrice]
  BY DEF Clearings
<1>4. /\ {m.id : m \in r.matchedBids} \subseteq B
      /\ {m.id : m \in r.matchedSupplies} \subseteq S
      /\ r.clearingPrice \in Nat
  BY <1>1, <1>2, OutcomeType
<1> QED BY <1>3, <1>4 DEF Plans

-----------------------------------------------------------------------------
(* Types *)

LEMMA InitTypeOK == Init => TypeOK
BY IdleType, SetsAssumption DEF Init, TypeOK, TimeslotStatus, BidStatus, SupplyStatus

LEMMA BeginTypeOK ==
  ASSUME TypeOK, NEW h \in Handlers, BeginRequest(h)
  PROVE  TypeOK'
<1> USE DEF slotVars, bidVars, chainVars
<1>1. ASSUME NEW step \in Steps, NEW on \in Bids \cup Supplies \cup Timeslots, Fits(step, on),
             Begin(h, step, on)
      PROVE  req' \in [Handlers -> Requests]
  BY <1>1, NewRequestType DEF Begin, TypeOK
<1>2. /\ \A b \in Bids : Fits("duplicate", b) /\ Fits("cancel", b)
      /\ \A s \in Supplies : Fits("cancelSupply", s)
      /\ \A t \in Timeslots : Fits("seal", t) /\ Fits("fetch", t)
      /\ {"duplicate", "cancel", "cancelSupply", "seal", "fetch"} \subseteq Steps
  BY DEF Fits, Steps, BidSteps, PlaceSteps, SupplySteps, SlotSteps, SettleSteps
<1>3. CASE \E b \in Bids : BeginPlaceBid(h, b)
  BY <1>1, <1>2, <1>3 DEF BeginPlaceBid, TypeOK
<1>4. CASE \E b \in Bids : BeginCancelBid(h, b)
  BY <1>1, <1>2, <1>4 DEF BeginCancelBid, TypeOK
<1>5. CASE \E s \in Supplies : BeginCancelSupply(h, s)
  BY <1>1, <1>2, <1>5 DEF BeginCancelSupply, TypeOK
<1>6. CASE \E t \in Timeslots : BeginSeal(h, t)
  BY <1>1, <1>2, <1>6 DEF BeginSeal, TypeOK
<1>7. CASE \E t \in Timeslots : BeginSettle(h, t)
  BY <1>1, <1>2, <1>7 DEF BeginSettle, TypeOK
<1> QED BY <1>3, <1>4, <1>5, <1>6, <1>7 DEF BeginRequest

\* Ways a handler's step changes its own request.
LEMMA RequestChange ==
  ASSUME TypeOK, NEW h \in Handlers
  PROVE  /\ Finish(h) => req' \in [Handlers -> Requests]
         /\ \A s \in Steps : Fits(s, req[h].on) /\ Go(h, s) => req' \in [Handlers -> Requests]
         /\ SlotWriteReturns(h) => req' \in [Handlers -> Requests]
<1>1. req[h] \in Requests
  BY DEF TypeOK
<1>2. Finish(h) => req' \in [Handlers -> Requests]
  BY IdleType DEF Finish, TypeOK
<1>3. ASSUME NEW s \in Steps, Fits(s, req[h].on), Go(h, s)
      PROVE  req' \in [Handlers -> Requests]
  BY <1>1, <1>3, StepType DEF Go, TypeOK
<1>4. ASSUME req[h].tries + 1 < MaxRetries, req' = [req EXCEPT ![h].tries = @ + 1]
      PROVE  req' \in [Handlers -> Requests]
  <2>1. req[h].tries + 1 \in 0..MaxRetries
    BY <1>1, <1>4, FaultAssumption DEF Requests
  <2>2. [req[h] EXCEPT !.tries = req[h].tries + 1] \in Requests
    BY <1>1, <2>1, TriesType
  <2> QED BY <1>4, <2>2 DEF TypeOK
<1> QED BY <1>2, <1>3, <1>4 DEF SlotWriteReturns

LEMMA PlaceTypeOK ==
  ASSUME TypeOK, NEW h \in Handlers,
         \/ FindDuplicate(h) \/ InsufficientBalance(h) \/ CreateBid(h)
         \/ PrepareFails(h) \/ SendTransfer(h) \/ TransferConfirmed(h) \/ SubmitGivesUp(h)
         \/ MarkConfirmed(h) \/ MarkConfirmedFails(h) \/ UndoBid(h)
  PROVE  TypeOK'
<1> USE DEF slotVars, bidVars, chainVars
<1>1. req[h] \in Requests
  BY DEF TypeOK
<1>2. /\ req[h].step \in PlaceSteps
      /\ req[h].on \in Bids
  <2>1. req[h].step \in PlaceSteps
    BY DEF FindDuplicate, InsufficientBalance, CreateBid, PrepareFails, SendTransfer,
           TransferConfirmed, SubmitGivesUp, MarkConfirmed, MarkConfirmedFails, UndoBid, At, PlaceSteps
  <2> QED BY <1>1, <2>1, FitsAlong DEF BidSteps
<1>3. \A s \in PlaceSteps : s \in Steps /\ Fits(s, req[h].on)
  BY <1>1, <1>2, FitsAlong DEF Steps, BidSteps
<1>4. \A s \in PlaceSteps : Go(h, s) => req' \in [Handlers -> Requests]
  BY <1>3, RequestChange
<1>5. Finish(h) => req' \in [Handlers -> Requests]
  BY RequestChange
<1>6. {"create", "submit", "confirming", "confirm", "undo"} \subseteq PlaceSteps
  BY DEF PlaceSteps
<1>7. \A s \in BidStatus : [bid EXCEPT ![req[h].on] = s] \in [Bids -> BidStatus \cup {"NONE"}]
  BY DEF TypeOK
<1>8. {"PENDING", "CONFIRMED", "CANCELLED"} \subseteq BidStatus
  BY DEF BidStatus
<1>9. CASE SendTransfer(h)
  <2>1. req[h].tries + 1 \in 0..MaxRetries
    BY <1>1, <1>9, FaultAssumption DEF SendTransfer, Requests
  <2>2. [[req[h] EXCEPT !.step = "confirming"] EXCEPT !.tries = req[h].tries + 1] \in Requests
    BY <1>1, <1>3, <1>6, <2>1, StepType, TriesType DEF Requests
  <2>3. req' = [req EXCEPT ![h] = [[req[h] EXCEPT !.step = "confirming"] EXCEPT !.tries = req[h].tries + 1]]
    BY <1>9 DEF SendTransfer, TypeOK, Requests
  <2> QED BY <1>2, <1>9, <2>2, <2>3 DEF SendTransfer, TypeOK
<1>10. CASE FindDuplicate(h)
  BY <1>4, <1>5, <1>6, <1>10 DEF FindDuplicate, TypeOK
<1>11. CASE InsufficientBalance(h)
  BY <1>5, <1>11 DEF InsufficientBalance, TypeOK
<1>12. CASE CreateBid(h)
  BY <1>4, <1>5, <1>6, <1>7, <1>8, <1>12 DEF CreateBid, TypeOK
<1>13. CASE PrepareFails(h) \/ TransferConfirmed(h) \/ SubmitGivesUp(h) \/ MarkConfirmedFails(h)
  BY <1>4, <1>6, <1>13
     DEF PrepareFails, TransferConfirmed, SubmitGivesUp, MarkConfirmedFails, TypeOK
<1>14. CASE MarkConfirmed(h)
  BY <1>2, <1>4, <1>5, <1>6, <1>7, <1>8, <1>14 DEF MarkConfirmed, TypeOK
<1>15. CASE UndoBid(h)
  BY <1>5, <1>7, <1>8, <1>15 DEF UndoBid, TypeOK
<1> QED BY <1>9, <1>10, <1>11, <1>12, <1>13, <1>14, <1>15

LEMMA CancelTypeOK ==
  ASSUME TypeOK, NEW h \in Handlers,
         CancelBid(h) \/ CancelSupplyTransfer(h) \/ CancelSupply(h) \/ RequestFails(h)
  PROVE  TypeOK'
<1> USE DEF slotVars, bidVars, chainVars
<1>1. req[h] \in Requests
  BY DEF TypeOK
<1>2. Finish(h) => req' \in [Handlers -> Requests]
  BY RequestChange
<1>3. CASE CancelBid(h)
  BY <1>1, <1>2, <1>3 DEF CancelBid, TypeOK, BidStatus
<1>4. CASE CancelSupplyTransfer(h)
  <2>1. "release" \in Steps /\ Fits("release", req[h].on)
    BY <1>1, <1>4, FitsAlong DEF CancelSupplyTransfer, At, Steps, SupplySteps
  <2>2. Go(h, "release") => req' \in [Handlers -> Requests]
    BY <2>1, RequestChange
  <2> QED BY <1>2, <1>4, <2>2 DEF CancelSupplyTransfer, TypeOK
<1>5. CASE CancelSupply(h)
  BY <1>1, <1>2, <1>5 DEF CancelSupply, TypeOK, SupplyStatus
<1>6. CASE RequestFails(h)
  BY <1>2, <1>6 DEF RequestFails, TypeOK
<1> QED BY <1>3, <1>4, <1>5, <1>6

LEMMA SettleTypeOK ==
  ASSUME TypeOK, NEW h \in Handlers,
         \/ SealTimeslot(h) \/ FetchBids(h) \/ FetchSupplies(h) \/ ClearMarket(h)
         \/ MatchBid(h) \/ AllocateSupply(h) \/ SettleTimeslot(h) \/ SlotWriteRetried(h)
  PROVE  TypeOK'
<1> USE DEF slotVars, bidVars, chainVars
<1>1. req[h] \in Requests
  BY DEF TypeOK
<1>2. /\ req[h].step \in SlotSteps
      /\ req[h].on \in Timeslots
  <2>1. req[h].step \in SlotSteps
    BY DEF SealTimeslot, FetchBids, FetchSupplies, ClearMarket, MatchBid, AllocateSupply,
           SettleTimeslot, SlotWriteRetried, WritesSlot, At, SlotSteps, SettleSteps
  <2> QED BY <1>1, <2>1, FitsAlong
<1>3. \A s \in SlotSteps : s \in Steps /\ Fits(s, req[h].on)
  BY <1>1, <1>2, FitsAlong DEF Steps
<1>4. SlotWriteReturns(h) => req' \in [Handlers -> Requests]
  BY RequestChange
<1>5. ASSUME NEW p \in Plans, NEW s \in SlotSteps,
             req' = [req EXCEPT ![h] = [[req[h] EXCEPT !.plan = p] EXCEPT !.step = s]]
      PROVE  req' \in [Handlers -> Requests]
  <2>1. [req[h] EXCEPT !.plan = p] \in Requests /\ [req[h] EXCEPT !.plan = p].on = req[h].on
    BY <1>1, PlanType DEF Requests
  <2>2. [[req[h] EXCEPT !.plan = p] EXCEPT !.step = s] \in Requests
    BY <1>3, <2>1, StepType
  <2> QED BY <1>5, <2>2 DEF TypeOK
<1>6. ASSUME NEW p \in Plans, req' = [req EXCEPT ![h] = [req[h] EXCEPT !.plan = p]]
      PROVE  req' \in [Handlers -> Requests]
  BY <1>1, <1>6, PlanType DEF TypeOK
<1>7. req[h].plan \in Plans
  BY <1>1 DEF Requests
<1>8. CASE SealTimeslot(h)
  BY <1>2, <1>4, <1>8 DEF SealTimeslot, TypeOK, TimeslotStatus
<1>9. CASE FetchBids(h)
  <2> DEFINE p == [req[h].plan EXCEPT !.bids = {b \in Bids : BidSlot[b] = req[h].on /\ bid[b] = "PENDING"}]
             s == IF At(h, "fetch") THEN "fetchSupplies" ELSE "clear"
  <2>1. p \in Plans /\ s \in SlotSteps
    BY <1>7 DEF Plans, SlotSteps, SettleSteps
  <2>2. req' = [req EXCEPT ![h] = [[req[h] EXCEPT !.plan = p] EXCEPT !.step = s]]
    BY <1>1, <1>9 DEF FetchBids, TypeOK, Requests, Plans
  <2>3. req' \in [Handlers -> Requests]
    BY <1>5, <2>1, <2>2
  <2> QED BY <1>9, <2>3 DEF FetchBids, TypeOK
<1>10. CASE FetchSupplies(h)
  <2> DEFINE p == [req[h].plan EXCEPT !.supplies =
                     {t \in Supplies : SupplySlot[t] = req[h].on /\ supply[t] = "COMMITTED"}]
             s == IF At(h, "fetch") THEN "fetchBids" ELSE "clear"
  <2>1. p \in Plans /\ s \in SlotSteps
    BY <1>7 DEF Plans, SlotSteps, SettleSteps
  <2>2. req' = [req EXCEPT ![h] = [[req[h] EXCEPT !.plan = p] EXCEPT !.step = s]]
    BY <1>1, <1>10 DEF FetchSupplies, TypeOK, Requests, Plans
  <2>3. req' \in [Handlers -> Requests]
    BY <1>5, <2>1, <2>2
  <2> QED BY <1>10, <2>3 DEF FetchSupplies, TypeOK
<1>11. CASE ClearMarket(h)
  <2>1. PICK p \in Clearings(req[h].plan.bids, req[h].plan.supplies) :
          req' = [req EXCEPT ![h].step = "execute", ![h].plan = p]
    BY <1>11 DEF ClearMarket
  <2>2. req[h].plan.bids \in SUBSET Bids /\ req[h].plan.supplies \in SUBSET Supplies
    BY <1>7 DEF Plans
  <2>3. p \in Plans
    BY <2>2, ClearedPlan
  <2>4. "execute" \in SlotSteps
    BY DEF SlotSteps, SettleSteps
  <2>5. req' = [req EXCEPT ![h] = [[req[h] EXCEPT !.plan = p] EXCEPT !.step = "execute"]]
    BY <1>1, <2>1 DEF TypeOK, Requests
  <2>6. req' \in [Handlers -> Requests]
    BY <1>5, <2>3, <2>4, <2>5
  <2> QED BY <1>11, <2>6 DEF ClearMarket, TypeOK
<1>12. CASE MatchBid(h)
  <2>1. PICK b \in req[h].plan.bids :
          /\ bid' = [bid EXCEPT ![b] = "MATCHED"]
          /\ req' = [req EXCEPT ![h].plan.bids = @ \ {b}]
    BY <1>12 DEF MatchBid
  <2> DEFINE p == [req[h].plan EXCEPT !.bids = req[h].plan.bids \ {b}]
  <2>2. p \in Plans /\ b \in Bids
    BY <1>7 DEF Plans
  <2>3. req' = [req EXCEPT ![h] = [req[h] EXCEPT !.plan = p]]
    BY <1>1, <2>1 DEF TypeOK, Requests, Plans
  <2>4. req' \in [Handlers -> Requests]
    BY <1>6, <2>2, <2>3
  <2> QED BY <1>12, <2>1, <2>2, <2>4 DEF MatchBid, TypeOK, BidStatus
<1>13. CASE AllocateSupply(h)
  <2>1. PICK s \in req[h].plan.supplies :
          /\ supply' = [supply EXCEPT ![s] = "ALLOCATED"]
          /\ req' = [req EXCEPT ![h].plan.supplies = @ \ {s}]
    BY <1>13 DEF AllocateSupply
  <2> DEFINE p == [req[h].plan EXCEPT !.supplies = req[h].plan.supplies \ {s}]
  <2>2. p \in Plans /\ s \in Supplies
    BY <1>7 DEF Plans
  <2>3. req' = [req EXCEPT ![h] = [req[h] EXCEPT !.plan = p]]
    BY <1>1, <2>1 DEF TypeOK, Requests, Plans
  <2>4. req' \in [Handlers -> Requests]
    BY <1>6, <2>2, <2>3
  <2> QED BY <1>13, <2>1, <2>2, <2>4 DEF AllocateSupply, TypeOK, SupplyStatus
<1>14. CASE SettleTimeslot(h)
  <2>1. req[h].plan.price \in Nat
    BY <1>7 DEF Plans
  <2> QED BY <1>2, <1>4, <1>14, <2>1 DEF SettleTimeslot, TypeOK, TimeslotStatus
<1>15. CASE SlotWriteRetried(h)
  <2>1. SlotWriteReturns(h)
    BY <1>15 DEF SlotWriteRetried, SlotWriteReturns
  <2> QED BY <1>4, <1>15, <2>1 DEF SlotWriteRetried, TypeOK
<1> QED BY <1>8, <1>9, <1>10, <1>11, <1>12, <1>13, <1>14, <1>15

LEMMA EnvironmentTypeOK ==
  ASSUME TypeOK, Environment
  PROVE  TypeOK'
<1> USE DEF slotVars, bidVars, chainVars
<1>1. CASE \E b \in Bids : TransferLands(b) \/ TransferDropped(b)
  BY <1>1 DEF TransferLands, TransferDropped, TypeOK
<1>2. CASE \E b \in Bids : UpdateBidStatus(b)
  BY <1>2 DEF UpdateBidStatus, TypeOK, BidStatus
<1>3. CASE \E s \in Supplies : UpdateSupplyStatus(s)
  BY <1>3 DEF UpdateSupplyStatus, TypeOK
<1>4. CASE \E t \in Timeslots : SlotEnds(t)
  BY <1>4 DEF SlotEnds, TypeOK
<1>5. CASE Crash
  BY <1>5, IdleType DEF Crash, TypeOK
<1> QED BY <1>1, <1>2, <1>3, <1>4, <1>5 DEF Environment

LEMMA NextTypeOK == TypeOK /\ [Next]_vars => TypeOK'
<1> SUFFICES ASSUME TypeOK, [Next]_vars PROVE TypeOK'
  OBVIOUS
<1>1. CASE UNCHANGED vars
  BY <1>1 DEF vars, TypeOK
<1>2. CASE \E h \in Handlers : BeginRequest(h)
  BY <1>2, BeginTypeOK
<1>3. CASE \E h \in Handlers : HandlerStep(h)
  BY <1>3, PlaceTypeOK, CancelTypeOK, SettleTypeOK DEF HandlerStep
<1>4. CASE Environment
  BY <1>4, EnvironmentTypeOK
<1> QED BY <1>1, <1>2, <1>3, <1>4 DEF Next

\* Every reachable state has the types of TypeOK: whatever is lost, repeated
\* or overtaken, a handler works on a row of the kind its step is about, and
\* no retry loop passes its limit.
THEOREM TypeCorrect == Spec => []TypeOK
<1> QED BY InitTypeOK, NextTypeOK, PTL DEF Spec

-----------------------------------------------------------------------------
(* What a step leaves of the requests *)

\* A handler's step changes no other handler's request.
LEMMA OthersUnchanged ==
  ASSUME TypeOK, NEW h \in Handlers, HandlerStep(h) \/ BeginRequest(h)
  PROVE  \A g \in Handlers \ {h} : req'[g] = req[g]
<1>1. CASE HandlerStep(h)
  BY <1>1 DEF HandlerStep, FindDuplicate, InsufficientBalance, CreateBid, PrepareFails,
     SendTransfer, TransferConfirmed, SubmitGivesUp, MarkConfirmed, MarkConfirmedFails, UndoBid,
     CancelBid, CancelSupplyTransfer, CancelSupply, SealTimeslot, FetchBids, FetchSupplies,
     ClearMarket, MatchBid, AllocateSupply, SettleTimeslot, RequestFails, SlotWriteRetried,
     SlotWriteReturns, Finish, Go, TypeOK
<1>2. CASE BeginRequest(h)
  BY <1>2 DEF BeginRequest, BeginPlaceBid, BeginCancelBid, BeginCancelSupply, BeginSeal,
     BeginSettle, Begin, TypeOK
<1> QED BY <1>1, <1>2

\* The step and the subject of an own request after each way to change it.
LEMMA OwnRequest ==
  ASSUME TypeOK, NEW h \in Handlers
  PROVE  /\ Finish(h) => req'[h] = Idle
         /\ \A s : Go(h, s) => /\ req'[h].step = s
                               /\ req'[h].on = req[h].on
                               /\ req'[h].plan = req[h].plan
         /\ SlotWriteReturns(h) => \/ req'[h] = Idle
                                   \/ /\ req'[h].step = req[h].step
                                      /\ req'[h].on = req[h].on
                                      /\ req'[h].plan = req[h].plan
<1>1. req[h] \in Requests
  BY DEF TypeOK
<1>2. Finish(h) => req'[h] = Idle
  BY DEF Finish, TypeOK
<1>3. ASSUME NEW s, Go(h, s)
      PROVE  req'[h].step = s /\ req'[h].on = req[h].on /\ req'[h].plan = req[h].plan
  BY <1>1, <1>3 DEF Go, TypeOK, Requests
<1>4. ASSUME req' = [req EXCEPT ![h].tries = @ + 1]
      PROVE  req'[h].step = req[h].step /\ req'[h].on = req[h].on /\ req'[h].plan = req[h].plan
  BY <1>1, <1>4 DEF TypeOK, Requests
<1> QED BY <1>2, <1>3, <1>4 DEF SlotWriteReturns

-----------------------------------------------------------------------------
(* Payments *)

\* A handler's step neither forgets a payment nor comes to write CONFIRMED,
\* the confirmation of the transfer and the write itself apart.
LEMMA PaymentFrame ==
  ASSUME TypeOK, NEW h \in Handlers, HandlerStep(h) \/ BeginRequest(h),
         ~ MarkConfirmed(h), ~ TransferConfirmed(h)
  PROVE  /\ paid' = paid
         /\ \A b \in Bids : bid'[b] = "CONFIRMED" => bid[b] = "CONFIRMED"
         /\ req'[h].step # "confirm"
<1> USE DEF slotVars, bidVars, chainVars
<1>1. /\ Finish(h) => req'[h].step # "confirm"
      /\ \A s : Go(h, s) => req'[h].step = s
      /\ SlotWriteReturns(h) /\ req[h].step # "confirm" => req'[h].step # "confirm"
  BY OwnRequest DEF Idle
<1>2. CASE BeginRequest(h)
  <2>1. /\ UNCHANGED <<paid, bid>>
        /\ \E s \in {"duplicate", "cancel", "cancelSupply", "seal", "fetch"} : \E on : Begin(h, s, on)
    BY <1>2 DEF BeginRequest, BeginPlaceBid, BeginCancelBid, BeginCancelSupply, BeginSeal, BeginSettle
  <2>2. req'[h].step # "confirm"
    BY <2>1 DEF Begin, Idle, TypeOK
  <2> QED BY <2>1, <2>2
<1>3. CASE \/ FindDuplicate(h) \/ InsufficientBalance(h) \/ CreateBid(h) \/ PrepareFails(h)
           \/ SubmitGivesUp(h) \/ MarkConfirmedFails(h) \/ UndoBid(h)
  BY <1>1, <1>3 DEF FindDuplicate, InsufficientBalance, CreateBid, PrepareFails, SubmitGivesUp,
     MarkConfirmedFails, UndoBid, TypeOK
<1>4. CASE SendTransfer(h)
  BY <1>4 DEF SendTransfer, TypeOK, Requests
<1>5. CASE CancelBid(h) \/ CancelSupplyTransfer(h) \/ CancelSupply(h) \/ RequestFails(h)
  BY <1>1, <1>5 DEF CancelBid, CancelSupplyTransfer, CancelSupply, RequestFails, TypeOK
<1>6. CASE SealTimeslot(h) \/ SettleTimeslot(h)
  BY <1>1, <1>6 DEF SealTimeslot, SettleTimeslot, At, TypeOK
<1>7. CASE FetchBids(h) \/ FetchSupplies(h)
  BY <1>7 DEF FetchBids, FetchSupplies, TypeOK, Requests
<1>8. CASE ClearMarket(h)
  BY <1>8 DEF ClearMarket, TypeOK, Requests
<1>9. CASE MatchBid(h) \/ AllocateSupply(h)
  BY <1>9 DEF MatchBid, AllocateSupply, At, TypeOK, Requests
<1>10. CASE SlotWriteRetried(h)
  BY <1>10 DEF SlotWriteRetried, WritesSlot, At, TypeOK, Requests
<1> QED BY <1>2, <1>3, <1>4, <1>5, <1>6, <1>7, <1>8, <1>9, <1>10 DEF HandlerStep

LEMMA PaymentStep == TypeOK /\ PaymentInv /\ [Next]_vars => PaymentInv'
<1> SUFFICES ASSUME TypeOK, PaymentInv, [Next]_vars PROVE PaymentInv'
  OBVIOUS
<1> USE DEF slotVars, bidVars, chainVars
<1>1. ASSUME paid \subseteq paid',
             \A g \in Handlers : req'[g].step = "confirm" => req'[g] = req[g]
      PROVE  PaymentInv'
  BY <1>1 DEF PaymentInv
<1>2. CASE UNCHANGED vars
  BY <1>1, <1>2 DEF vars
<1>3. CASE Environment
  <2>1. CASE Crash
    BY <1>1, <2>1 DEF Crash, Idle
  <2>2. CASE ~ Crash
    BY <1>1, <1>3, <2>2 DEF Environment, TransferLands, TransferDropped, UpdateBidStatus,
       UpdateSupplyStatus, SlotEnds
  <2> QED BY <2>1, <2>2
<1>4. ASSUME NEW h \in Handlers, HandlerStep(h) \/ BeginRequest(h)
      PROVE  PaymentInv'
  <2>1. \A g \in Handlers \ {h} : req'[g] = req[g]
    BY <1>4, OthersUnchanged
  <2>2. CASE MarkConfirmed(h)
    \* The handler moves on.
    <3>1. req'[h].step # "confirm"
      BY <2>2, OwnRequest DEF MarkConfirmed, Idle
    <3>2. paid' = paid
      BY <2>2 DEF MarkConfirmed
    <3> QED BY <2>1, <3>1, <3>2 DEF PaymentInv
  <2>3. CASE TransferConfirmed(h)
    \* The handler comes to "confirm" with a transfer the chain reports landed.
    <3>1. req'[h].on = req[h].on /\ req[h].on \in paid /\ paid' = paid
      BY <2>3, OwnRequest DEF TransferConfirmed
    <3> QED BY <2>1, <3>1 DEF PaymentInv
  <2>4. CASE ~ MarkConfirmed(h) /\ ~ TransferConfirmed(h)
    BY <1>1, <1>4, <2>1, <2>4, PaymentFrame
  <2> QED BY <2>2, <2>3, <2>4
<1> QED BY <1>2, <1>3, <1>4 DEF Next

LEMMA InitPayment == Init => PaymentInv
BY DEF Init, PaymentInv, Idle

\* A row comes to read CONFIRMED by the handler that works on it or by an
\* operator.
LEMMA ConfirmedByPayment ==
  ASSUME TypeOK, PaymentInv, [Next]_vars,
         NEW b \in Bids, bid[b] # "CONFIRMED", bid'[b] = "CONFIRMED"
  PROVE  b \in signed' \cap paid \/ UpdateBidStatus(b)
<1>1. CASE UNCHANGED vars
  BY <1>1 DEF vars
<1>2. CASE Environment
  <2>1. CASE \E c \in Bids : UpdateBidStatus(c)
    BY <2>1 DEF UpdateBidStatus, TypeOK
  <2>2. CASE ~ \E c \in Bids : UpdateBidStatus(c)
    BY <1>2, <2>2 DEF Environment, TransferLands, TransferDropped, UpdateSupplyStatus, SlotEnds,
       Crash, bidVars
  <2> QED BY <2>1, <2>2
<1>3. ASSUME NEW h \in Handlers, HandlerStep(h) \/ BeginRequest(h)
      PROVE  b \in signed' \cap paid
  <2>1. ~ TransferConfirmed(h)
    BY DEF TransferConfirmed, bidVars
  <2>2. MarkConfirmed(h)
    BY <1>3, <2>1, PaymentFrame
  <2>3. b = req[h].on /\ b \in signed' /\ req[h].step = "confirm"
    BY <2>2 DEF MarkConfirmed, At, TypeOK
  <2> QED BY <2>3 DEF PaymentInv
<1> QED BY <1>1, <1>2, <1>3 DEF Next

\* However handlers overlap, however calls fail, time out or are repeated, and
\* wherever the process stops: a bid becomes CONFIRMED with a signature and a
\* landed payment, or because an operator writes it.
THEOREM ConfirmedBidsArePaid == Spec => ConfirmedWhenPaid
<1>1. TypeOK /\ PaymentInv /\ [Next]_vars =>
        [\A b \in Bids : bid[b] # "CONFIRMED" /\ bid'[b] = "CONFIRMED" =>
           b \in signed' \cap paid \/ UpdateBidStatus(b)]_vars
  BY ConfirmedByPayment
<1> QED BY <1>1, InitTypeOK, NextTypeOK, InitPayment, PaymentStep, PTL
        DEF Spec, ConfirmedWhenPaid

-----------------------------------------------------------------------------
(* Timeslots *)

LEMMA SealedStays ==
  ASSUME TypeOK, [Next]_vars, NEW t \in Timeslots, status[t] # "OPEN"
  PROVE  status'[t] # "OPEN"
<1> USE DEF slotVars
<1>1. CASE UNCHANGED vars
  BY <1>1 DEF vars
<1>2. CASE Environment
  BY <1>2 DEF Environment, TransferLands, TransferDropped, UpdateBidStatus, UpdateSupplyStatus, SlotEnds, Crash
<1>3. ASSUME NEW h \in Handlers, BeginRequest(h)
      PROVE  status' = status
  BY <1>3 DEF BeginRequest, BeginPlaceBid, BeginCancelBid, BeginCancelSupply, BeginSeal, BeginSettle
<1>4. ASSUME NEW h \in Handlers, HandlerStep(h)
      PROVE  status'[t] # "OPEN"
  <2>1. CASE SealTimeslot(h) \/ SettleTimeslot(h)
    BY <2>1 DEF SealTimeslot, SettleTimeslot, TypeOK
  <2>2. CASE ~ SealTimeslot(h) /\ ~ SettleTimeslot(h)
    BY <1>4, <2>2 DEF HandlerStep, FindDuplicate, InsufficientBalance, CreateBid, PrepareFails,
       SendTransfer, TransferConfirmed, SubmitGivesUp, MarkConfirmed, MarkConfirmedFails, UndoBid,
       CancelBid, CancelSupplyTransfer, CancelSupply, FetchBids, FetchSupplies, ClearMarket,
       MatchBid, AllocateSupply, RequestFails, SlotWriteRetried
  <2> QED BY <2>1, <2>2
<1> QED BY <1>1, <1>2, <1>3, <1>4 DEF Next

\* A row newly marked was in the plan of a handler that executes a clearing, or
\* is a bid's that an operator writes.
LEMMA MarkedByPlan ==
  ASSUME TypeOK, [Next]_vars
  PROVE  /\ \A b \in Bids : bid'[b] = "MATCHED" =>
              \/ bid[b] = "MATCHED"
              \/ \E h \in Handlers : req[h].step = "execute" /\ b \in req[h].plan.bids
              \/ UpdateBidStatus(b)
         /\ \A s \in Supplies : supply'[s] = "ALLOCATED" =>
              \/ supply[s] = "ALLOCATED"
              \/ \E h \in Handlers : req[h].step = "execute" /\ s \in req[h].plan.supplies
<1> USE DEF bidVars
<1>1. CASE UNCHANGED vars
  BY <1>1 DEF vars
<1>2. CASE Environment
  <2>1. CASE \E c \in Bids : UpdateBidStatus(c)
    BY <2>1 DEF UpdateBidStatus, TypeOK
  <2>2. CASE \E s \in Supplies : UpdateSupplyStatus(s)
    <3>1. "ALLOCATED" \notin EventStatuses
      BY FaultAssumption DEF BidStatus
    <3> QED BY <2>2, <3>1 DEF UpdateSupplyStatus, TypeOK
  <2>3. CASE ~ (\E c \in Bids : UpdateBidStatus(c)) /\ ~ (\E s \in Supplies : UpdateSupplyStatus(s))
    BY <1>2, <2>3 DEF Environment, TransferLands, TransferDropped, SlotEnds, Crash
  <2> QED BY <2>1, <2>2, <2>3
<1>3. CASE \E h \in Handlers : BeginRequest(h)
  BY <1>3 DEF BeginRequest, BeginPlaceBid, BeginCancelBid, BeginCancelSupply, BeginSeal, BeginSettle
<1>4. ASSUME NEW h \in Handlers, HandlerStep(h), ~ MatchBid(h), ~ AllocateSupply(h)
      PROVE  /\ \A b \in Bids : bid'[b] = "MATCHED" => bid[b] = "MATCHED"
             /\ \A s \in Supplies : supply'[s] = "ALLOCATED" => supply[s] = "ALLOCATED"
  BY <1>4 DEF HandlerStep, FindDuplicate, InsufficientBalance, CreateBid, PrepareFails,
     SendTransfer, TransferConfirmed, SubmitGivesUp, MarkConfirmed, MarkConfirmedFails, UndoBid,
     CancelBid, CancelSupplyTransfer, CancelSupply, SealTimeslot, FetchBids, FetchSupplies,
     ClearMarket, SettleTimeslot, RequestFails, SlotWriteRetried, TypeOK
<1>5. ASSUME NEW h \in Handlers, MatchBid(h)
      PROVE  /\ \A b \in Bids : bid'[b] = "MATCHED" => bid[b] = "MATCHED" \/ b \in req[h].plan.bids
             /\ req[h].step = "execute" /\ supply' = supply
  BY <1>5 DEF MatchBid, At, TypeOK
<1>6. ASSUME NEW h \in Handlers, AllocateSupply(h)
      PROVE  /\ \A s \in Supplies : supply'[s] = "ALLOCATED" =>
                    supply[s] = "ALLOCATED" \/ s \in req[h].plan.supplies
             /\ req[h].step = "execute" /\ bid' = bid
  BY <1>6 DEF AllocateSupply, At, TypeOK
<1> QED BY <1>1, <1>2, <1>3, <1>4, <1>5, <1>6 DEF Next

\* A price is written, and a timeslot becomes SETTLED, only by a handler that
\* executes its clearing.
LEMMA PricedBySettlement ==
  ASSUME TypeOK, [Next]_vars, NEW t \in Timeslots
  PROVE  \/ clearingPrice'[t] = clearingPrice[t] /\ (status'[t] = "SETTLED" => status[t] = "SETTLED")
         \/ /\ clearingPrice'[t] \in Nat
            /\ \E h \in Handlers : req[h].step = "execute" /\ req[h].on = t
<1> USE DEF slotVars
<1>1. CASE UNCHANGED vars
  BY <1>1 DEF vars
<1>2. CASE Environment
  BY <1>2 DEF Environment, TransferLands, TransferDropped, UpdateBidStatus, UpdateSupplyStatus, SlotEnds, Crash
<1>3. CASE \E h \in Handlers : BeginRequest(h)
  BY <1>3 DEF BeginRequest, BeginPlaceBid, BeginCancelBid, BeginCancelSupply, BeginSeal, BeginSettle
<1>4. ASSUME NEW h \in Handlers, HandlerStep(h), ~ SealTimeslot(h), ~ SettleTimeslot(h)
      PROVE  UNCHANGED <<status, clearingPrice>>
  BY <1>4 DEF HandlerStep, FindDuplicate, InsufficientBalance, CreateBid, PrepareFails,
     SendTransfer, TransferConfirmed, SubmitGivesUp, MarkConfirmed, MarkConfirmedFails, UndoBid,
     CancelBid, CancelSupplyTransfer, CancelSupply, FetchBids, FetchSupplies, ClearMarket,
     MatchBid, AllocateSupply, RequestFails, SlotWriteRetried
<1>5. ASSUME NEW h \in Handlers, SealTimeslot(h)
      PROVE  clearingPrice' = clearingPrice /\ (status'[t] = "SETTLED" => status[t] = "SETTLED")
  BY <1>5 DEF SealTimeslot, TypeOK
<1>6. ASSUME NEW h \in Handlers, SettleTimeslot(h)
      PROVE  \/ clearingPrice'[t] = clearingPrice[t] /\ status'[t] = status[t]
             \/ /\ clearingPrice'[t] \in Nat
                /\ req[h].step = "execute" /\ req[h].on = t
  <2>1. req[h].plan.price \in Nat
    BY DEF TypeOK, Requests, Plans
  <2> QED BY <1>6, <2>1 DEF SettleTimeslot, At, TypeOK
<1> QED BY <1>1, <1>2, <1>3, <1>4, <1>5, <1>6 DEF Next

\* What SealInv says of one request.
SealedRequest(r) ==
    /\ r.step \in SettleSteps => status[r.on] # "OPEN"
    /\ r.step \notin SettleSteps => r.plan = NoPlan
    /\ \A b \in r.plan.bids : BidSlot[b] = r.on
    /\ \A s \in r.plan.supplies : SupplySlot[s] = r.on

LEMMA SealedSteps ==
  /\ SettleSteps \cap (PlaceSteps \cup SupplySteps \cup {"idle", "cancel", "seal"}) = {}
  /\ SettleSteps \subseteq SlotSteps
BY DEF SettleSteps, SlotSteps, PlaceSteps, SupplySteps

\* A request that keeps step, row and plan, or is left alone, stays sealed.
LEMMA KeepsSealed ==
  ASSUME TypeOK, [Next]_vars, NEW g \in Handlers, SealedRequest(req[g]),
         req'[g].step = req[g].step, req'[g].on = req[g].on, req'[g].plan = req[g].plan
  PROVE  SealedRequest(req[g])' 
<1>1. req[g].step \in SettleSteps => req[g].on \in Timeslots
  BY FitsAlong, SealedSteps DEF TypeOK
<1>2. req[g].step \in SettleSteps => status'[req[g].on] # "OPEN"
  BY <1>1, SealedStays DEF SealedRequest
<1> QED BY <1>2 DEF SealedRequest

\* The handler that acts keeps what SealInv says of its own request.
LEMMA OwnSealed ==
  ASSUME TypeOK, [Next]_vars, NEW h \in Handlers, SealedRequest(req[h]),
         HandlerStep(h) \/ BeginRequest(h)
  PROVE  SealedRequest(req[h])'
<1>1. /\ req[h] \in Requests
      /\ req[h].step \in SettleSteps => req[h].on \in Timeslots
  BY FitsAlong, SealedSteps DEF TypeOK
<1>2. req[h].step \in SettleSteps => status'[req[h].on] # "OPEN"
  BY <1>1, SealedStays DEF SealedRequest
<1>3. ASSUME req'[h].step \notin SettleSteps, req'[h].plan = NoPlan
      PROVE  SealedRequest(req[h])'
  BY <1>3 DEF SealedRequest, NoPlan
<1>4. ASSUME Finish(h)
      PROVE  SealedRequest(req[h])'
  BY <1>3, <1>4, OwnRequest, SealedSteps DEF Idle
<1>5. ASSUME NEW s \in PlaceSteps \cup SupplySteps, Go(h, s), req[h].step \in PlaceSteps \cup SupplySteps
      PROVE  SealedRequest(req[h])'
  BY <1>3, <1>5, OwnRequest, SealedSteps DEF SealedRequest
<1>6. ASSUME SlotWriteReturns(h)
      PROVE  SealedRequest(req[h])'
  BY <1>3, <1>6, OwnRequest, KeepsSealed, SealedSteps DEF Idle
\* A settling handler stays at its timeslot and marks fewer or newly read rows.
<1>7. ASSUME req[h].step \in SettleSteps, req'[h].on = req[h].on, req'[h].step \in SettleSteps,
             \A b \in req'[h].plan.bids : BidSlot[b] = req[h].on,
             \A s \in req'[h].plan.supplies : SupplySlot[s] = req[h].on
      PROVE  SealedRequest(req[h])'
  BY <1>2, <1>7 DEF SealedRequest
<1>8. CASE BeginRequest(h)
  <2>1. \A step, on : Begin(h, step, on) =>
          req'[h].step = step /\ req'[h].on = on /\ req'[h].plan = NoPlan
    BY DEF Begin, Idle, TypeOK
  <2>2. CASE \E t \in Timeslots : BeginSettle(h, t)
    BY <2>1, <2>2, SealedStays DEF BeginSettle, NoPlan, SealedRequest
  <2>3. CASE ~ \E t \in Timeslots : BeginSettle(h, t)
    <3>1. \E step \in {"duplicate", "cancel", "cancelSupply", "seal"} : \E on : Begin(h, step, on)
      BY <1>8, <2>3 DEF BeginRequest, BeginPlaceBid, BeginCancelBid, BeginCancelSupply, BeginSeal
    <3>2. req'[h].plan = NoPlan /\ req'[h].step \in {"duplicate", "cancel", "cancelSupply", "seal"}
      BY <2>1, <3>1
    <3> QED BY <1>3, <3>2, SealedSteps DEF PlaceSteps, SupplySteps
  <2> QED BY <2>2, <2>3
<1>9. CASE \/ FindDuplicate(h) \/ InsufficientBalance(h) \/ CreateBid(h) \/ PrepareFails(h)
           \/ TransferConfirmed(h) \/ SubmitGivesUp(h)
           \/ MarkConfirmed(h) \/ MarkConfirmedFails(h) \/ UndoBid(h)
  <2>1. /\ req[h].step \in PlaceSteps
        /\ Finish(h) \/ \E s \in PlaceSteps : Go(h, s)
    BY <1>9 DEF FindDuplicate, InsufficientBalance, CreateBid, PrepareFails, TransferConfirmed,
       SubmitGivesUp, MarkConfirmed, MarkConfirmedFails, UndoBid, At, PlaceSteps
  <2> QED BY <1>4, <1>5, <2>1
<1>10. CASE SendTransfer(h)
  <2>1. /\ req[h].step \in PlaceSteps
        /\ req'[h].step = "confirming" /\ req'[h].plan = req[h].plan
    BY <1>1, <1>10 DEF SendTransfer, At, PlaceSteps, TypeOK, Requests
  <2> QED BY <1>3, <2>1, SealedSteps DEF SealedRequest, PlaceSteps
<1>11. CASE CancelBid(h) \/ CancelSupply(h) \/ RequestFails(h)
  BY <1>4, <1>11 DEF CancelBid, CancelSupply, RequestFails
<1>12. CASE CancelSupplyTransfer(h)
  BY <1>4, <1>5, <1>12 DEF CancelSupplyTransfer, At, SupplySteps
<1>13. CASE SealTimeslot(h) \/ SettleTimeslot(h)
  BY <1>6, <1>13 DEF SealTimeslot, SettleTimeslot
<1>14. CASE FetchBids(h)
  <2>1. /\ req[h].step \in SettleSteps /\ req'[h].step \in SettleSteps
        /\ req'[h].on = req[h].on
        /\ req'[h].plan.supplies = req[h].plan.supplies
        /\ \A b \in req'[h].plan.bids : BidSlot[b] = req[h].on
    BY <1>1, <1>14 DEF FetchBids, At, SettleSteps, TypeOK, Requests, Plans
  <2> QED BY <1>7, <2>1 DEF SealedRequest
<1>15. CASE FetchSupplies(h)
  <2>1. /\ req[h].step \in SettleSteps /\ req'[h].step \in SettleSteps
        /\ req'[h].on = req[h].on
        /\ req'[h].plan.bids = req[h].plan.bids
        /\ \A s \in req'[h].plan.supplies : SupplySlot[s] = req[h].on
    BY <1>1, <1>15 DEF FetchSupplies, At, SettleSteps, TypeOK, Requests, Plans
  <2> QED BY <1>7, <2>1 DEF SealedRequest
<1>16. CASE ClearMarket(h)
  <2>1. PICK p \in Clearings(req[h].plan.bids, req[h].plan.supplies) :
          req'[h].on = req[h].on /\ req'[h].step = "execute" /\ req'[h].plan = p
    BY <1>1, <1>16 DEF ClearMarket, TypeOK, Requests
  <2>2. /\ req'[h].plan.bids \subseteq req[h].plan.bids
        /\ req'[h].plan.supplies \subseteq req[h].plan.supplies
    <3>1. req[h].plan.bids \in SUBSET Bids /\ req[h].plan.supplies \in SUBSET Supplies
      BY <1>1 DEF Requests, Plans
    <3>2. p.bids \subseteq req[h].plan.bids /\ p.supplies \subseteq req[h].plan.supplies
      BY <3>1, ClearedPlan
    <3> QED BY <2>1, <3>2
  <2>3. req[h].step \in SettleSteps /\ req'[h].step \in SettleSteps
    BY <1>16, <2>1 DEF ClearMarket, At, SettleSteps
  <2> QED BY <1>7, <2>1, <2>2, <2>3 DEF SealedRequest
<1>17. CASE MatchBid(h) \/ AllocateSupply(h)
  <2>1. /\ req[h].step \in SettleSteps /\ req'[h].step \in SettleSteps
        /\ req'[h].on = req[h].on
        /\ req'[h].plan.bids \subseteq req[h].plan.bids
        /\ req'[h].plan.supplies \subseteq req[h].plan.supplies
    <3>1. CASE MatchBid(h)
      BY <1>1, <3>1 DEF MatchBid, At, SettleSteps, TypeOK, Requests, Plans
    <3>2. CASE AllocateSupply(h)
      BY <1>1, <3>2 DEF AllocateSupply, At, SettleSteps, TypeOK, Requests, Plans
    <3> QED BY <1>17, <3>1, <3>2
  <2> QED BY <1>7, <2>1 DEF SealedRequest
<1>18. CASE SlotWriteRetried(h)
  <2>1. SlotWriteReturns(h)
    BY <1>18 DEF SlotWriteRetried, SlotWriteReturns
  <2> QED BY <1>6, <2>1
<1> QED BY <1>8, <1>9, <1>10, <1>11, <1>12, <1>13, <1>14, <1>15, <1>16, <1>17, <1>18 DEF HandlerStep

LEMMA RequestsSealed ==
  ASSUME TypeOK, [Next]_vars, \A g \in Handlers : SealedRequest(req[g]), NEW g \in Handlers
  PROVE  SealedRequest(req[g])'
<1>1. CASE req'[g] = req[g]
  BY <1>1, KeepsSealed
<1>2. ASSUME NEW h \in Handlers, HandlerStep(h) \/ BeginRequest(h)
      PROVE  SealedRequest(req[g])'
  BY <1>1, <1>2, OthersUnchanged, OwnSealed
<1>3. CASE Environment
  <2>1. CASE Crash
    BY <2>1, SealedSteps DEF Crash, Idle, NoPlan, SealedRequest
  <2>2. CASE ~ Crash
    BY <1>1, <1>3, <2>2 DEF Environment, TransferLands, TransferDropped, UpdateBidStatus, UpdateSupplyStatus, SlotEnds
  <2> QED BY <2>1, <2>2
<1>4. CASE UNCHANGED vars
  BY <1>1, <1>4 DEF vars
<1> QED BY <1>2, <1>3, <1>4 DEF Next

\* The rows a plan marks belong to the timeslot its handler found sealed.
LEMMA PlansAreSealed ==
  ASSUME SealInv, NEW h \in Handlers, req[h].step = "execute"
  PROVE  /\ status[req[h].on] # "OPEN"
         /\ \A b \in req[h].plan.bids : status[BidSlot[b]] # "OPEN"
         /\ \A s \in req[h].plan.supplies : status[SupplySlot[s]] # "OPEN"
BY DEF SealInv, SettleSteps

LEMMA SealStep == TypeOK /\ SealInv /\ [Next]_vars => SealInv'
<1> SUFFICES ASSUME TypeOK, SealInv, [Next]_vars PROVE SealInv'
  OBVIOUS
<1>1. \A g \in Handlers : SealedRequest(req[g])
  BY DEF SealInv, SealedRequest
<1>2. \A g \in Handlers : SealedRequest(req[g])'
  BY <1>1, RequestsSealed
<1>3. \A t \in Timeslots : status[t] # "OPEN" => status'[t] # "OPEN"
  BY SealedStays
<1>4. SettledHasPrice'
  <2>1. SUFFICES ASSUME NEW t \in Timeslots
                 PROVE  /\ status'[t] = "SETTLED" => clearingPrice'[t] # NoPrice
                        /\ status'[t] = "OPEN" => clearingPrice'[t] = NoPrice
    BY DEF SettledHasPrice
  <2>2. /\ status[t] = "SETTLED" => clearingPrice[t] # NoPrice
        /\ status[t] = "OPEN" => clearingPrice[t] = NoPrice
    BY DEF SealInv, SettledHasPrice
  <2>3. \A p \in Nat : p # NoPrice
    BY DEF NoPrice
  <2> QED BY <1>3, <2>2, <2>3, PlansAreSealed, PricedBySettlement
<1> QED BY <1>2, <1>4 DEF SealInv, SealedRequest

LEMMA InitSeal == Init => SealInv
<1> SUFFICES ASSUME Init PROVE SealInv
  OBVIOUS
<1>1. SettledHasPrice
  BY DEF Init, SettledHasPrice
<1>2. \A h \in Handlers : req[h] = Idle
  BY DEF Init
<1>3. Idle.step \notin SettleSteps /\ Idle.plan = NoPlan
  BY SealedSteps DEF Idle
<1>4. NoPlan.bids = {} /\ NoPlan.supplies = {}
  BY DEF NoPlan
<1> QED BY <1>1, <1>2, <1>3, <1>4 DEF SealInv

\* No handler matches a bid or allocates a supply offer in a timeslot that can
\* still take bids, whichever seals, settlements and restarts came in between.
THEOREM NothingMatchedWhileOpen == Spec => MatchedWhenSealed
<1>1. TypeOK /\ SealInv /\ [Next]_vars =>
        [/\ \A b \in Bids :
               bid[b] # "MATCHED" /\ bid'[b] = "MATCHED" =>
                  status[BidSlot[b]] # "OPEN" \/ UpdateBidStatus(b)
         /\ \A s \in Supplies :
               supply[s] # "ALLOCATED" /\ supply'[s] = "ALLOCATED" =>
                  status[SupplySlot[s]] # "OPEN"]_vars
  BY MarkedByPlan, PlansAreSealed
<1> QED BY <1>1, InitTypeOK, NextTypeOK, InitSeal, SealStep, PTL DEF Spec, MatchedWhenSealed

\* A settled timeslot has a price, an open one none.
THEOREM SettledTimeslotsArePriced == Spec => []SettledHasPrice
<1>1. SealInv => SettledHasPrice
  BY DEF SealInv
<1> QED BY <1>1, InitTypeOK, NextTypeOK, InitSeal, SealStep, PTL DEF Spec

-----------------------------------------------------------------------------
(* Withdrawn bids *)

\* The handler of request r will not write bid b.
Leaves(r, b) ==
    /\ ~ (r.on = b /\ r.step \in PlaceSteps)
    /\ b \notin r.plan.bids

LEMMA OwnLeaves ==
  ASSUME TypeOK, NEW h \in Handlers, HandlerStep(h) \/ BeginRequest(h),
         NEW b \in Bids, bid[b] \in {"CANCELLED", "EXPIRED"}, Leaves(req[h], b)
  PROVE  /\ bid'[b] \in {"CANCELLED", "EXPIRED"}
         /\ Leaves(req'[h], b)
<1> USE DEF bidVars
<1>1. req[h] \in Requests
  BY DEF TypeOK
<1>2. /\ Leaves(Idle, b)
      /\ Finish(h) => Leaves(req'[h], b)
  BY OwnRequest DEF Leaves, Idle, NoPlan, PlaceSteps
<1>3. SlotWriteReturns(h) => Leaves(req'[h], b)
  BY <1>2, OwnRequest DEF Leaves
<1>4. CASE BeginRequest(h)
  <2>1. \A step, on : Begin(h, step, on) =>
          req'[h].step = step /\ req'[h].on = on /\ req'[h].plan = NoPlan
    BY DEF Begin, Idle, TypeOK
  <2>2. bid' = bid
    BY <1>4 DEF BeginRequest, BeginPlaceBid, BeginCancelBid, BeginCancelSupply, BeginSeal, BeginSettle
  <2>3. CASE \E c \in Bids : BeginPlaceBid(h, c)
    BY <2>1, <2>2, <2>3 DEF BeginPlaceBid, Leaves, NoPlan
  <2>4. CASE ~ \E c \in Bids : BeginPlaceBid(h, c)
    <3>1. \E step \in {"cancel", "cancelSupply", "seal", "fetch"} : \E on : Begin(h, step, on)
      BY <1>4, <2>4 DEF BeginRequest, BeginCancelBid, BeginCancelSupply, BeginSeal, BeginSettle
    <3> QED BY <2>1, <2>2, <3>1 DEF Leaves, NoPlan, PlaceSteps
  <2> QED BY <2>3, <2>4
<1>5. CASE \/ FindDuplicate(h) \/ InsufficientBalance(h) \/ CreateBid(h) \/ PrepareFails(h)
           \/ TransferConfirmed(h) \/ SubmitGivesUp(h)
           \/ MarkConfirmed(h) \/ MarkConfirmedFails(h) \/ UndoBid(h)
  \* A placement writes its own bid, which is another one.
  <2>1. /\ req[h].step \in PlaceSteps
        /\ Finish(h) \/ \E s \in PlaceSteps : Go(h, s)
    BY <1>5 DEF FindDuplicate, InsufficientBalance, CreateBid, PrepareFails, TransferConfirmed,
       SubmitGivesUp, MarkConfirmed, MarkConfirmedFails, UndoBid, At, PlaceSteps
  <2>2. req[h].on # b
    BY <2>1 DEF Leaves
  <2>3. Leaves(req'[h], b)
    BY <1>2, <2>1, <2>2, OwnRequest DEF Leaves
  <2>4. bid'[b] = bid[b]
    BY <1>5, <2>2 DEF FindDuplicate, InsufficientBalance, CreateBid, PrepareFails, TransferConfirmed,
       SubmitGivesUp, MarkConfirmed, MarkConfirmedFails, UndoBid, TypeOK
  <2> QED BY <2>3, <2>4
<1>6. CASE SendTransfer(h)
  <2>1. /\ req[h].step \in PlaceSteps
        /\ req'[h].on = req[h].on /\ req'[h].plan = req[h].plan
    BY <1>1, <1>6 DEF SendTransfer, At, PlaceSteps, TypeOK, Requests
  <2> QED BY <1>6, <2>1 DEF SendTransfer, Leaves
<1>7. CASE CancelBid(h)
  BY <1>2, <1>7 DEF CancelBid, TypeOK
<1>8. CASE CancelSupply(h) \/ RequestFails(h)
  BY <1>2, <1>8 DEF CancelSupply, RequestFails
<1>9. CASE CancelSupplyTransfer(h)
  BY <1>2, <1>9, OwnRequest DEF CancelSupplyTransfer, Leaves, PlaceSteps
<1>10. CASE SealTimeslot(h) \/ SettleTimeslot(h)
  BY <1>3, <1>10 DEF SealTimeslot, SettleTimeslot
<1>11. CASE FetchBids(h)
  \* A withdrawn bid is not PENDING, so it is not fetched.
  <2>1. /\ req'[h].step \notin PlaceSteps
        /\ req'[h].plan.bids = {c \in Bids : BidSlot[c] = req[h].on /\ bid[c] = "PENDING"}
    BY <1>1, <1>11 DEF FetchBids, At, PlaceSteps, TypeOK, Requests, Plans
  <2> QED BY <1>11, <2>1 DEF FetchBids, Leaves
<1>12. CASE FetchSupplies(h)
  <2>1. /\ req'[h].step \notin PlaceSteps
        /\ req'[h].plan.bids = req[h].plan.bids
    BY <1>1, <1>12 DEF FetchSupplies, At, PlaceSteps, TypeOK, Requests, Plans
  <2> QED BY <1>12, <2>1 DEF FetchSupplies, Leaves
<1>13. CASE ClearMarket(h)
  <2>1. PICK p \in Clearings(req[h].plan.bids, req[h].plan.supplies) :
          req'[h].step = "execute" /\ req'[h].plan = p
    BY <1>1, <1>13 DEF ClearMarket, TypeOK, Requests
  <2>2. req'[h].plan.bids \subseteq req[h].plan.bids
    <3>1. req[h].plan.bids \in SUBSET Bids /\ req[h].plan.supplies \in SUBSET Supplies
      BY <1>1 DEF Requests, Plans
    <3>2. p.bids \subseteq req[h].plan.bids
      BY <3>1, ClearedPlan
    <3> QED BY <2>1, <3>2
  <2> QED BY <1>13, <2>1, <2>2 DEF ClearMarket, Leaves, PlaceSteps
<1>14. CASE MatchBid(h)
  <2>1. PICK c \in req[h].plan.bids :
          /\ bid' = [bid EXCEPT ![c] = "MATCHED"]
          /\ req' = [req EXCEPT ![h].plan.bids = @ \ {c}]
    BY <1>14 DEF MatchBid
  <2>2. /\ req'[h].step = req[h].step /\ req'[h].on = req[h].on
        /\ req'[h].plan.bids \subseteq req[h].plan.bids
    BY <1>1, <2>1 DEF TypeOK, Requests, Plans
  <2>3. c # b
    BY <2>1 DEF Leaves
  <2> QED BY <2>1, <2>2, <2>3 DEF Leaves, TypeOK
<1>15. CASE AllocateSupply(h)
  <2>1. /\ req'[h].step = req[h].step /\ req'[h].on = req[h].on
        /\ req'[h].plan.bids = req[h].plan.bids
    BY <1>1, <1>15 DEF AllocateSupply, TypeOK, Requests, Plans
  <2> QED BY <1>15, <2>1 DEF AllocateSupply, Leaves
<1>16. CASE SlotWriteRetried(h)
  <2>1. SlotWriteReturns(h)
    BY <1>16 DEF SlotWriteRetried, SlotWriteReturns
  <2> QED BY <1>3, <1>16, <2>1 DEF SlotWriteRetried
<1> QED BY <1>4, <1>5, <1>6, <1>7, <1>8, <1>9, <1>10, <1>11, <1>12, <1>13, <1>14, <1>15, <1>16
        DEF HandlerStep

LEMMA WithdrawnStep ==
  ASSUME TypeOK, [Next]_vars, NEW b \in Bids, Withdrawn(b), ~ UpdateBidStatus(b)
  PROVE  Withdrawn(b)'
<1>1. bid[b] \in {"CANCELLED", "EXPIRED"} /\ \A h \in Handlers : Leaves(req[h], b)
  BY DEF Withdrawn, Leaves
<1>2. SUFFICES bid'[b] \in {"CANCELLED", "EXPIRED"} /\ \A g \in Handlers : Leaves(req'[g], b)
  BY DEF Withdrawn, Leaves
<1>3. CASE UNCHANGED vars
  BY <1>1, <1>3 DEF vars
<1>4. ASSUME NEW h \in Handlers, HandlerStep(h) \/ BeginRequest(h)
      PROVE  bid'[b] \in {"CANCELLED", "EXPIRED"} /\ \A g \in Handlers : Leaves(req'[g], b)
  BY <1>1, <1>4, OwnLeaves, OthersUnchanged
<1>5. CASE Environment
  <2>1. CASE \E c \in Bids : UpdateBidStatus(c)
    BY <1>1, <2>1 DEF UpdateBidStatus, TypeOK
  <2>2. CASE Crash
    BY <1>1, <2>2 DEF Crash, Leaves, Idle, NoPlan, PlaceSteps, bidVars
  <2>3. CASE ~ Crash /\ ~ \E c \in Bids : UpdateBidStatus(c)
    BY <1>1, <1>5, <2>3 DEF Environment, TransferLands, TransferDropped, UpdateSupplyStatus, SlotEnds, bidVars
  <2> QED BY <2>1, <2>2, <2>3
<1> QED BY <1>3, <1>4, <1>5 DEF Next

\* A bid cancelled or expired, with no placement or settlement left that has it
\* in hand, stays out for good, unless an operator takes it up again.
THEOREM WithdrawnBidsStayOut == Spec => WithdrawnIsFinal
<1>1. TypeOK /\ [Next]_vars =>
        [\A b \in Bids : Withdrawn(b) => Withdrawn(b)' \/ UpdateBidStatus(b)]_vars
  BY WithdrawnStep
<1> QED BY <1>1, InitTypeOK, NextTypeOK, PTL DEF Spec, WithdrawnIsFinal

-----------------------------------------------------------------------------
(* Which steps write a bid's row *)

LEMMA BidWrites ==
  ASSUME TypeOK, NEW h \in Handlers, HandlerStep(h) \/ BeginRequest(h), NEW b \in Bids
  PROVE  \/ bid'[b] = bid[b]
         \/ b = req[h].on /\ req[h].step = "create" /\ bid'[b] = "PENDING"
         \/ b = req[h].on /\ req[h].step = "confirm" /\ bid'[b] = "CONFIRMED"
         \/ b = req[h].on /\ req[h].step \in {"undo", "cancel"} /\ bid'[b] = "CANCELLED"
         \/ b \in req[h].plan.bids /\ req[h].step = "execute" /\ bid'[b] = "MATCHED"
<1> USE DEF bidVars, TypeOK, At
<1>1. CASE BeginRequest(h)
  BY <1>1 DEF BeginRequest, BeginPlaceBid, BeginCancelBid, BeginCancelSupply, BeginSeal, BeginSettle
<1>2. CASE CreateBid(h) \/ MarkConfirmed(h) \/ UndoBid(h) \/ CancelBid(h)
  BY <1>2 DEF CreateBid, MarkConfirmed, UndoBid, CancelBid
<1>3. CASE MatchBid(h)
  BY <1>3 DEF MatchBid
<1>4. CASE HandlerStep(h) /\ ~ (CreateBid(h) \/ MarkConfirmed(h) \/ UndoBid(h) \/ CancelBid(h) \/ MatchBid(h))
  BY <1>4 DEF HandlerStep, FindDuplicate, InsufficientBalance, PrepareFails, SendTransfer,
     TransferConfirmed, SubmitGivesUp, MarkConfirmedFails, CancelSupplyTransfer, CancelSupply,
     SealTimeslot, FetchBids, FetchSupplies, ClearMarket, AllocateSupply, SettleTimeslot,
     RequestFails, SlotWriteRetried
<1> QED BY <1>1, <1>2, <1>3, <1>4

\* Beside the handlers only operators write a bid's row, one there is.
LEMMA EnvironmentWrites ==
  ASSUME TypeOK, Environment, NEW b \in Bids
  PROVE  bid'[b] = bid[b] \/ (bid[b] # "NONE" /\ bid'[b] \in EventStatuses \cap BidStatus)
BY DEF Environment, TransferLands, TransferDropped, UpdateBidStatus,
   UpdateSupplyStatus, SlotEnds, Crash, bidVars, TypeOK

-----------------------------------------------------------------------------
(* How a request gets to the steps of a placement *)

LEMMA Stages ==
  /\ "execute" \notin BidSteps /\ "cancel" \notin PlaceSteps /\ "idle" \notin BidSteps
  /\ (SlotSteps \cup SupplySteps) \cap BidSteps = {}
BY DEF BidSteps, PlaceSteps, SlotSteps, SupplySteps, SettleSteps

LEMMA Begins ==
  ASSUME TypeOK, NEW h \in Handlers, NEW step, NEW on, Begin(h, step, on)
  PROVE  req[h] = Idle /\ req'[h].step = step /\ req'[h].on = on /\ req'[h].plan = NoPlan
<1>1. req'[h] = [Idle EXCEPT !.step = step, !.on = on]
  BY DEF Begin, TypeOK
<1> QED BY <1>1 DEF Begin, Idle

\* A request that begins is a placement of a bid without a row and without a
\* request, or no placement; where it begins with "cancel" the row is there.
LEMMA BeginsWith ==
  ASSUME TypeOK, NEW h \in Handlers, BeginRequest(h)
  PROVE  /\ bid' = bid /\ req[h] = Idle /\ req'[h].plan = NoPlan
         /\ \/ /\ req'[h].step = "duplicate" /\ req'[h].on \in Bids
               /\ bid[req'[h].on] = "NONE"
               /\ \A g \in Handlers : req[g].on # req'[h].on
            \/ req'[h].step = "cancel" /\ req'[h].on \in Bids /\ bid[req'[h].on] # "NONE"
            \/ req'[h].step \in {"cancelSupply", "seal", "fetch"}
<1> USE DEF bidVars
<1>1. ASSUME NEW b \in Bids, BeginPlaceBid(h, b)
      PROVE  /\ bid' = bid /\ bid[b] = "NONE" /\ \A g \in Handlers : req[g].on # b
             /\ req[h] = Idle
             /\ req'[h].step = "duplicate" /\ req'[h].on = b /\ req'[h].plan = NoPlan
  BY <1>1, Begins DEF BeginPlaceBid
<1>2. ASSUME NEW b \in Bids, BeginCancelBid(h, b)
      PROVE  /\ bid' = bid /\ bid[b] # "NONE" /\ req[h] = Idle
             /\ req'[h].step = "cancel" /\ req'[h].on = b /\ req'[h].plan = NoPlan
  BY <1>2, Begins DEF BeginCancelBid, Active
<1>3. ASSUME NEW s \in Supplies, BeginCancelSupply(h, s)
      PROVE  bid' = bid /\ req[h] = Idle /\ req'[h].step = "cancelSupply" /\ req'[h].plan = NoPlan
  BY <1>3, Begins DEF BeginCancelSupply
<1>4. ASSUME NEW t \in Timeslots, BeginSeal(h, t) \/ BeginSettle(h, t)
      PROVE  bid' = bid /\ req[h] = Idle /\ req'[h].step \in {"seal", "fetch"} /\ req'[h].plan = NoPlan
  BY <1>4, Begins DEF BeginSeal, BeginSettle
<1> QED BY <1>1, <1>2, <1>3, <1>4 DEF BeginRequest

\* A placement begins with a bid that has no row and no request; it goes on with
\* the same bid, and comes to "create" from "duplicate" only.
LEMMA OwnPlacement ==
  ASSUME TypeOK, NEW h \in Handlers, HandlerStep(h) \/ BeginRequest(h),
         req'[h].step \in PlaceSteps
  PROVE  \/ /\ req'[h].step = "duplicate" /\ req'[h].on \in Bids
            /\ bid' = bid /\ bid[req'[h].on] = "NONE"
            /\ \A g \in Handlers : req[g].on # req'[h].on
         \/ /\ req[h].step \in PlaceSteps /\ req'[h].on = req[h].on
            /\ req'[h].step # "duplicate"
            /\ req'[h].step = "create" => req[h].step = "duplicate" /\ bid' = bid
<1> USE DEF bidVars, TypeOK, At
<1>1. /\ req[h] \in Requests
      /\ \A s : Go(h, s) => req'[h].step = s /\ req'[h].on = req[h].on
      /\ ~ Finish(h)
      /\ SlotWriteReturns(h) => req'[h].step = req[h].step
  BY OwnRequest, Stages DEF Idle, BidSteps
<1>2. CASE BeginRequest(h)
  BY <1>2, BeginsWith DEF PlaceSteps
<1>3. CASE FindDuplicate(h)
  BY <1>1, <1>3 DEF FindDuplicate, PlaceSteps
<1>4. CASE CreateBid(h) \/ PrepareFails(h) \/ SubmitGivesUp(h) \/ MarkConfirmed(h)
           \/ MarkConfirmedFails(h) \/ TransferConfirmed(h)
  BY <1>1, <1>4 DEF CreateBid, PrepareFails, SubmitGivesUp, MarkConfirmed, MarkConfirmedFails,
     TransferConfirmed, PlaceSteps
<1>5. CASE SendTransfer(h)
  BY <1>1, <1>5 DEF SendTransfer, Requests, PlaceSteps
<1>6. CASE InsufficientBalance(h) \/ UndoBid(h) \/ CancelBid(h) \/ CancelSupply(h) \/ RequestFails(h)
  BY <1>1, <1>6 DEF InsufficientBalance, UndoBid, CancelBid, CancelSupply, RequestFails
<1>7. CASE CancelSupplyTransfer(h)
  BY <1>1, <1>7 DEF CancelSupplyTransfer, PlaceSteps
<1>8. CASE SealTimeslot(h) \/ SettleTimeslot(h)
  BY <1>1, <1>8 DEF SealTimeslot, SettleTimeslot, PlaceSteps
<1>9. CASE FetchBids(h) \/ FetchSupplies(h)
  BY <1>1, <1>9 DEF FetchBids, FetchSupplies, Requests, PlaceSteps
<1>10. CASE ClearMarket(h)
  BY <1>1, <1>10 DEF ClearMarket, Requests, PlaceSteps
<1>11. CASE MatchBid(h) \/ AllocateSupply(h)
  BY <1>1, <1>11 DEF MatchBid, AllocateSupply, Requests, PlaceSteps
<1>12. CASE SlotWriteRetried(h)
  BY <1>1, <1>12 DEF SlotWriteRetried, WritesSlot, Requests, PlaceSteps
<1> QED BY <1>2, <1>3, <1>4, <1>5, <1>6, <1>7, <1>8, <1>9, <1>10, <1>11, <1>12 DEF HandlerStep

-----------------------------------------------------------------------------
(* One request at a time: no second active bid *)

SameOffer(b, c) == Bidder[b] = Bidder[c] /\ BidSlot[b] = BidSlot[c]

\* A placement past its look for duplicates is about the only bid of its user
\* and timeslot that is, or is to become, active.
SoleInv ==
  /\ OneActiveBid
  /\ \A h \in Handlers : req[h].step \in PlaceSteps \ {"duplicate"} =>
       \A c \in Bids : SameOffer(req[h].on, c) /\ bid[c] \in Active => c = req[h].on

LEMMA InitSole ==
  ASSUME \A b, c \in Leftover : SameOffer(b, c) => b = c, Init
  PROVE  SoleInv
<1>1. \A b \in Bids : bid[b] \in Active => b \in Leftover
  BY DEF Init, Active
<1>2. OneActiveBid
  BY <1>1 DEF OneActiveBid, SameOffer
<1>3. \A h \in Handlers : req[h].step \notin PlaceSteps
  BY Stages DEF Init, Idle, BidSteps
<1> QED BY <1>2, <1>3 DEF SoleInv

\* Where no bid becomes active, and no placement passes its look for duplicates.
LEMMA SoleFrame ==
  ASSUME SoleInv,
         \A b \in Bids : bid'[b] \in Active => bid[b] \in Active,
         \A h \in Handlers : req'[h].step \in PlaceSteps \ {"duplicate"} =>
            req[h].step \in PlaceSteps \ {"duplicate"} /\ req'[h].on = req[h].on
  PROVE  SoleInv'
<1>1. OneActiveBid'
  BY DEF SoleInv, OneActiveBid
<1>2. ASSUME NEW h \in Handlers, req'[h].step \in PlaceSteps \ {"duplicate"},
             NEW c \in Bids, SameOffer(req'[h].on, c), bid'[c] \in Active
      PROVE  c = req'[h].on
  BY <1>2 DEF SoleInv
<1> QED BY <1>1, <1>2 DEF SoleInv, SameOffer

LEMMA SoleStep ==
  ASSUME \A g, h \in Handlers : g = h, EventStatuses \cap Active = {},
         TypeOK, SoleInv, [Next]_vars
  PROVE  SoleInv'
<1>1. CASE UNCHANGED vars
  BY <1>1, SoleFrame DEF vars
<1>2. CASE Environment
  <2>1. \A b \in Bids : bid'[b] \in Active => bid[b] \in Active
    BY <1>2, EnvironmentWrites
  <2>2. \A h \in Handlers : req'[h] = req[h] \/ req'[h] = Idle
    BY <1>2 DEF Environment, TransferLands, TransferDropped, UpdateBidStatus, UpdateSupplyStatus,
       SlotEnds, Crash
  <2>3. "idle" \notin PlaceSteps
    BY DEF PlaceSteps
  <2> QED BY <2>1, <2>2, <2>3, SoleFrame DEF Idle
<1>3. ASSUME NEW h \in Handlers, HandlerStep(h) \/ BeginRequest(h)
      PROVE  SoleInv'
  <2>1. Handlers = {h}
    OBVIOUS
  <2>2. CASE CreateBid(h) \/ MarkConfirmed(h)
    \* The subject becomes active, and no other bid of its user and timeslot is.
    <3>1. req[h].step \in PlaceSteps \ {"duplicate"} /\ req[h] \in Requests
      BY <2>2 DEF CreateBid, MarkConfirmed, At, PlaceSteps, TypeOK
    <3>2. \A c \in Bids : SameOffer(req[h].on, c) /\ bid[c] \in Active => c = req[h].on
      BY <3>1 DEF SoleInv
    <3>3. \A c \in Bids : bid'[c] \in Active => bid[c] \in Active \/ c = req[h].on
      BY <2>2 DEF CreateBid, MarkConfirmed, TypeOK
    <3>4. OneActiveBid'
      BY <3>2, <3>3 DEF SoleInv, OneActiveBid, SameOffer
    <3>5. req'[h].step \in PlaceSteps => req'[h].on = req[h].on
      BY <2>2, OwnRequest, Stages DEF CreateBid, MarkConfirmed, Idle, BidSteps
    <3>6. \A c \in Bids : SameOffer(req[h].on, c) /\ bid'[c] \in Active => c = req[h].on
      BY <3>2, <3>3
    <3> QED BY <2>1, <3>4, <3>5, <3>6 DEF SoleInv, SameOffer
  <2>3. CASE FindDuplicate(h)
    \* The placement goes on only if there is no active bid at all.
    <3>1. bid' = bid
      BY <2>3 DEF FindDuplicate, bidVars
    <3>2. req'[h].step \in PlaceSteps =>
            /\ req'[h].on = req[h].on
            /\ ~ \E c \in Bids : SameOffer(req[h].on, c) /\ bid[c] \in Active
      BY <2>3, OwnRequest, Stages DEF FindDuplicate, SameOffer, Idle, BidSteps
    <3>3. OneActiveBid'
      BY <3>1 DEF SoleInv, OneActiveBid
    <3> QED BY <2>1, <3>1, <3>2, <3>3 DEF SoleInv, SameOffer
  <2>4. CASE ~ CreateBid(h) /\ ~ MarkConfirmed(h) /\ ~ FindDuplicate(h)
    <3>1. \A b \in Bids : bid'[b] \in Active => bid[b] \in Active
      <4>1. CASE BeginRequest(h)
        BY <4>1 DEF BeginRequest, BeginPlaceBid, BeginCancelBid, BeginCancelSupply, BeginSeal,
           BeginSettle, bidVars
      <4>2. CASE UndoBid(h) \/ CancelBid(h) \/ MatchBid(h)
        BY <4>2 DEF UndoBid, CancelBid, MatchBid, Active, TypeOK
      <4>3. CASE HandlerStep(h) /\ ~ (UndoBid(h) \/ CancelBid(h) \/ MatchBid(h))
        BY <2>4, <4>3 DEF HandlerStep, InsufficientBalance, PrepareFails, SendTransfer,
           TransferConfirmed, SubmitGivesUp, MarkConfirmedFails, CancelSupplyTransfer, CancelSupply,
           SealTimeslot, FetchBids, FetchSupplies, ClearMarket, AllocateSupply, SettleTimeslot,
           RequestFails, SlotWriteRetried, bidVars
      <4> QED BY <1>3, <4>1, <4>2, <4>3
    <3>2. req'[h].step \in PlaceSteps \ {"duplicate"} =>
            req[h].step \in PlaceSteps \ {"duplicate"} /\ req'[h].on = req[h].on
      <4>1. CASE BeginRequest(h)
        BY <4>1, BeginsWith DEF PlaceSteps
      <4>2. CASE HandlerStep(h)
        <5>1. req[h].step = "duplicate" => RequestFails(h)
          BY <2>4, <4>2 DEF HandlerStep, InsufficientBalance, PrepareFails, SendTransfer,
             TransferConfirmed, SubmitGivesUp, MarkConfirmedFails, UndoBid, CancelBid,
             CancelSupplyTransfer, CancelSupply, SealTimeslot, FetchBids, FetchSupplies, ClearMarket,
             MatchBid, AllocateSupply, SettleTimeslot, SlotWriteRetried, WritesSlot, At
        <5>2. RequestFails(h) => req'[h].step \notin PlaceSteps
          BY OwnRequest, Stages DEF RequestFails, Idle, BidSteps
        <5> QED BY <1>3, <5>1, <5>2, OwnPlacement
      <4> QED BY <1>3, <4>1, <4>2
    <3> QED BY <2>1, <3>1, <3>2, SoleFrame
  <2> QED BY <2>2, <2>3, <2>4
<1> QED BY <1>1, <1>2, <1>3 DEF Next

\* A server that serves one request at a time, and whose operators make no bid
\* active again, leaves no user with two active bids in a timeslot, whatever else
\* fails or restarts: the check for duplicates is enough as long as requests do
\* not overlap.
THEOREM OneHandlerOneActiveBid ==
  ASSUME \A g, h \in Handlers : g = h, EventStatuses \cap Active = {},
         \A b, c \in Leftover : SameOffer(b, c) => b = c
  PROVE  Spec => []OneActiveBid
<1>1. Init => SoleInv
  BY InitSole
<1>2. TypeOK /\ SoleInv /\ [Next]_vars => SoleInv'
  BY SoleStep
<1>3. SoleInv => OneActiveBid
  BY DEF SoleInv
<1> QED BY <1>1, <1>2, <1>3, InitTypeOK, NextTypeOK, PTL DEF Spec

-----------------------------------------------------------------------------
(* Pending bids have a placement that will decide them *)

\* No bid has two placements; one not inserted yet has no row, one that is
\* cancelled or marked has.
PlacementInv ==
  /\ PendingIsInFlight
  /\ \A g, h \in Handlers :
       req[g].step \in PlaceSteps /\ req[h].step \in PlaceSteps /\ req[g].on = req[h].on => g = h
  /\ \A h \in Handlers :
       /\ req[h].step \in {"duplicate", "create"} => bid[req[h].on] = "NONE"
       /\ req[h].step = "cancel" => bid[req[h].on] # "NONE"
       /\ \A b \in req[h].plan.bids : bid[b] # "NONE"

LEMMA InitPlacement == Init => PlacementInv
BY Stages DEF Init, PlacementInv, PendingIsInFlight, Idle, NoPlan, BidSteps, PlaceSteps

\* A row once inserted stays.
LEMMA RowsStay ==
  ASSUME TypeOK, [Next]_vars, NEW b \in Bids, bid[b] # "NONE"
  PROVE  bid'[b] # "NONE"
BY BidWrites, EnvironmentWrites DEF Next, vars, BidStatus

\* A cancellation and a plan are about rows there are.
LEMMA OwnRows ==
  ASSUME TypeOK, PlacementInv, [Next]_vars, NEW h \in Handlers, HandlerStep(h) \/ BeginRequest(h)
  PROVE  /\ req'[h].step = "cancel" => bid'[req'[h].on] # "NONE"
         /\ \A b \in req'[h].plan.bids : bid'[b] # "NONE"
<1> USE DEF bidVars
<1>1. /\ req[h] \in Requests /\ req[h].plan.bids \subseteq Bids
      /\ "cancel" \in BidSteps
  BY DEF TypeOK, Requests, Plans, BidSteps
<1>2. /\ \A s : Go(h, s) => /\ req'[h].step = s /\ req'[h].on = req[h].on
                            /\ req'[h].plan = req[h].plan
      /\ Finish(h) => req'[h] = Idle
      /\ SlotWriteReturns(h) => req'[h] = Idle \/ (req'[h].step = req[h].step
                                                   /\ req'[h].plan = req[h].plan)
  BY OwnRequest
<1>3. Idle.step # "cancel" /\ Idle.plan.bids = {}
  BY DEF Idle, NoPlan
<1>4. ASSUME req'[h].step # "cancel", req'[h].plan.bids \subseteq req[h].plan.bids
      PROVE  /\ req'[h].step = "cancel" => bid'[req'[h].on] # "NONE"
             /\ \A b \in req'[h].plan.bids : bid'[b] # "NONE"
  BY <1>1, <1>4, RowsStay DEF PlacementInv
<1>5. CASE BeginRequest(h)
  BY <1>5, BeginsWith DEF NoPlan
<1>6. CASE \/ FindDuplicate(h) \/ InsufficientBalance(h) \/ CreateBid(h) \/ PrepareFails(h)
           \/ TransferConfirmed(h) \/ SubmitGivesUp(h) \/ MarkConfirmed(h) \/ MarkConfirmedFails(h)
           \/ UndoBid(h) \/ CancelBid(h) \/ CancelSupplyTransfer(h) \/ CancelSupply(h)
           \/ RequestFails(h)
  BY <1>2, <1>3, <1>4, <1>6 DEF FindDuplicate, InsufficientBalance, CreateBid, PrepareFails,
     TransferConfirmed, SubmitGivesUp, MarkConfirmed, MarkConfirmedFails, UndoBid, CancelBid,
     CancelSupplyTransfer, CancelSupply, RequestFails
<1>7. CASE SendTransfer(h)
  BY <1>1, <1>4, <1>7 DEF SendTransfer, TypeOK, Requests
<1>8. CASE SealTimeslot(h) \/ SettleTimeslot(h)
  BY <1>2, <1>3, <1>4, <1>8 DEF SealTimeslot, SettleTimeslot, At
<1>9. CASE FetchBids(h)
  <2>1. /\ req'[h].step # "cancel"
        /\ \A b \in req'[h].plan.bids : b \in Bids /\ bid[b] = "PENDING"
        /\ bid' = bid
    BY <1>1, <1>9 DEF FetchBids, TypeOK, Requests, Plans
  <2> QED BY <2>1
<1>10. CASE FetchSupplies(h)
  BY <1>1, <1>4, <1>10 DEF FetchSupplies, TypeOK, Requests, Plans
<1>11. CASE ClearMarket(h)
  BY <1>1, <1>4, <1>11, ClearedPlan DEF ClearMarket, TypeOK, Requests, Plans
<1>12. CASE MatchBid(h) \/ AllocateSupply(h)
  BY <1>1, <1>4, <1>12 DEF MatchBid, AllocateSupply, At, TypeOK, Requests, Plans
<1>13. CASE SlotWriteRetried(h)
  BY <1>1, <1>4, <1>13 DEF SlotWriteRetried, WritesSlot, At, TypeOK, Requests, Plans
<1> QED BY <1>5, <1>6, <1>7, <1>8, <1>9, <1>10, <1>11, <1>12, <1>13 DEF HandlerStep

-----------------------------------------------------------------------------
(* No transfer without a row *)

LEMMA InitRows == Init => RowInv
BY Stages, SetsAssumption DEF Init, RowInv, TransfersHaveRows, Idle, BidSteps

\* A transfer is sent by a handler past its insert only.
LEMMA SentByPlacement ==
  ASSUME TypeOK, [Next]_vars, NEW b \in Bids, b \in inDoubt' \cup paid'
  PROVE  \/ b \in inDoubt \cup paid
         \/ \E h \in Handlers : req[h].step \in PlaceSteps \ {"duplicate", "create"} /\ req[h].on = b
<1>1. CASE UNCHANGED vars \/ Environment
  BY <1>1 DEF vars, Environment, TransferLands, TransferDropped, UpdateBidStatus,
     UpdateSupplyStatus, SlotEnds, Crash, chainVars
<1>2. ASSUME NEW h \in Handlers, SendTransfer(h)
      PROVE  /\ paid' = paid /\ inDoubt' = inDoubt \cup {req[h].on}
             /\ req[h].step \in PlaceSteps \ {"duplicate", "create"}
  BY <1>2 DEF SendTransfer, At, PlaceSteps
<1>3. ASSUME NEW h \in Handlers, HandlerStep(h) \/ BeginRequest(h), ~ SendTransfer(h)
      PROVE  inDoubt' = inDoubt /\ paid' = paid
  BY <1>3 DEF HandlerStep, FindDuplicate, InsufficientBalance, CreateBid, PrepareFails,
     TransferConfirmed, SubmitGivesUp, MarkConfirmed, MarkConfirmedFails, UndoBid, CancelBid,
     CancelSupplyTransfer, CancelSupply, SealTimeslot, FetchBids, FetchSupplies, ClearMarket,
     MatchBid, AllocateSupply, SettleTimeslot, RequestFails, SlotWriteRetried, BeginRequest,
     BeginPlaceBid, BeginCancelBid, BeginCancelSupply, BeginSeal, BeginSettle, chainVars
<1> QED BY <1>1, <1>2, <1>3 DEF Next

\* A placement comes past its insert by the insert.
LEMMA InsertedFirst ==
  ASSUME TypeOK, NEW h \in Handlers, HandlerStep(h) \/ BeginRequest(h),
         req'[h].step \in PlaceSteps \ {"duplicate", "create"}
  PROVE  /\ req'[h].on = req[h].on /\ req[h].on \in Bids
         /\ \/ req[h].step \in PlaceSteps \ {"duplicate", "create"}
            \/ bid'[req[h].on] = "PENDING"
<1>1. /\ req[h].step \in PlaceSteps /\ req'[h].on = req[h].on
  BY OwnPlacement
<1>2. /\ req[h] \in Requests /\ req[h].on \in Bids
      /\ Finish(h) => req'[h].step \notin PlaceSteps
      /\ \A s : Go(h, s) => req'[h].step = s
  BY <1>1, FitsAlong, OwnRequest, Stages DEF TypeOK, BidSteps, Idle
<1>3. ~ BeginRequest(h)
  BY <1>1, BeginsWith, Stages DEF Idle, BidSteps
<1>4. CASE req[h].step = "duplicate"
  <2>1. FindDuplicate(h) \/ RequestFails(h)
    BY <1>3, <1>4 DEF HandlerStep, FindDuplicate, InsufficientBalance, CreateBid, PrepareFails,
       SendTransfer, TransferConfirmed, SubmitGivesUp, MarkConfirmed, MarkConfirmedFails, UndoBid,
       CancelBid, CancelSupplyTransfer, CancelSupply, SealTimeslot, FetchBids, FetchSupplies,
       ClearMarket, MatchBid, AllocateSupply, SettleTimeslot, SlotWriteRetried, WritesSlot, At
  <2> QED BY <1>2, <2>1 DEF FindDuplicate, RequestFails
<1>5. CASE req[h].step = "create"
  <2>1. InsufficientBalance(h) \/ CreateBid(h) \/ RequestFails(h)
    BY <1>3, <1>5 DEF HandlerStep, FindDuplicate, InsufficientBalance, CreateBid, PrepareFails,
       SendTransfer, TransferConfirmed, SubmitGivesUp, MarkConfirmed, MarkConfirmedFails, UndoBid,
       CancelBid, CancelSupplyTransfer, CancelSupply, SealTimeslot, FetchBids, FetchSupplies,
       ClearMarket, MatchBid, AllocateSupply, SettleTimeslot, SlotWriteRetried, WritesSlot, At
  <2> QED BY <1>1, <1>2, <2>1 DEF InsufficientBalance, CreateBid, RequestFails, TypeOK
<1> QED BY <1>1, <1>2, <1>4, <1>5

LEMMA RowStep == TypeOK /\ RowInv /\ [Next]_vars => RowInv'
<1> SUFFICES ASSUME TypeOK, RowInv, [Next]_vars PROVE RowInv'
  OBVIOUS
<1>1. \A h \in Handlers : req[h].step \in PlaceSteps => req[h].on \in Bids
  BY FitsAlong DEF TypeOK, BidSteps
<1>2. TransfersHaveRows'
  <2> SUFFICES ASSUME NEW b \in inDoubt' \cup paid' PROVE bid'[b] # "NONE"
    BY DEF TransfersHaveRows
  <2>1. b \in Bids
    BY NextTypeOK DEF TypeOK
  <2>2. bid[b] # "NONE"
    BY <2>1, SentByPlacement DEF RowInv, TransfersHaveRows
  <2> QED BY <2>1, <2>2, RowsStay
<1>3. ASSUME NEW g \in Handlers, req'[g] = req[g],
             req'[g].step \in PlaceSteps \ {"duplicate", "create"}
      PROVE  bid'[req'[g].on] # "NONE"
  BY <1>1, <1>3, RowsStay DEF RowInv
<1>4. ASSUME NEW h \in Handlers, HandlerStep(h) \/ BeginRequest(h), NEW g \in Handlers,
             req'[g].step \in PlaceSteps \ {"duplicate", "create"}
      PROVE  bid'[req'[g].on] # "NONE"
  <2>1. CASE g # h
    BY <1>3, <1>4, <2>1, OthersUnchanged
  <2>2. CASE g = h
    BY <1>4, <2>2, InsertedFirst, RowsStay DEF RowInv
  <2> QED BY <2>1, <2>2
<1>5. ASSUME Environment \/ UNCHANGED vars, NEW g \in Handlers,
             req'[g].step \in PlaceSteps \ {"duplicate", "create"}
      PROVE  bid'[req'[g].on] # "NONE"
  <2>1. req'[g] = req[g] \/ req'[g] = Idle
    BY <1>5 DEF Environment, TransferLands, TransferDropped, UpdateBidStatus, UpdateSupplyStatus,
       SlotEnds, Crash, vars
  <2>2. Idle.step \notin PlaceSteps
    BY Stages DEF Idle, BidSteps
  <2> QED BY <1>3, <1>5, <2>1, <2>2
<1> QED BY <1>2, <1>4, <1>5 DEF RowInv, Next

\* However requests overlap and whatever fails, the insert itself included, no
\* transfer is on its way or landed that belongs to no bid in the table.
THEOREM TransfersAreOfBids == Spec => []TransfersHaveRows
<1>1. RowInv => TransfersHaveRows
  BY DEF RowInv
<1> QED BY <1>1, InitTypeOK, NextTypeOK, InitRows, RowStep, PTL DEF Spec

-----------------------------------------------------------------------------
(* What a placement leaves of its row *)

\* A placement that its request gives up or finishes has no row, or a row that
\* is decided: only a failing insert and a failing catch block leave a bid
\* pending.
LEMMA PlacementDecides ==
  ASSUME Faults \cap {"create", "undo"} = {}, TypeOK, PlacementInv, NEW h \in Handlers,
         HandlerStep(h), req[h].step \in PlaceSteps, bid'[req[h].on] = "PENDING"
  PROVE  req'[h].step \in PlaceSteps /\ req'[h].on = req[h].on
<1> USE DEF At
<1>1. /\ req[h] \in Requests /\ req[h].on \in Bids
      /\ \A s : Go(h, s) => req'[h].step = s /\ req'[h].on = req[h].on
      /\ bid \in [Bids -> BidStatus \cup {"NONE"}]
  BY OwnRequest, Stages DEF TypeOK, Requests, Fits, BidSteps
<1>2. req[h].step \in {"duplicate", "create"} => bid[req[h].on] = "NONE"
  BY DEF PlacementInv
<1>3. CASE FindDuplicate(h) \/ InsufficientBalance(h)
  BY <1>1, <1>2, <1>3 DEF FindDuplicate, InsufficientBalance, bidVars, PlaceSteps
<1>4. CASE CreateBid(h) \/ PrepareFails(h) \/ SubmitGivesUp(h) \/ MarkConfirmedFails(h)
           \/ TransferConfirmed(h)
  BY <1>1, <1>4 DEF CreateBid, PrepareFails, SubmitGivesUp, MarkConfirmedFails,
     TransferConfirmed, PlaceSteps
<1>5. CASE SendTransfer(h)
  <2>1. req'[h] = [req[h] EXCEPT !.step = "confirming", !.tries = req[h].tries + 1]
    BY <1>5 DEF SendTransfer, TypeOK
  <2> QED BY <1>1, <2>1 DEF Requests, PlaceSteps
<1>6. CASE MarkConfirmed(h) \/ UndoBid(h)
  BY <1>1, <1>6 DEF MarkConfirmed, UndoBid
<1>7. CASE RequestFails(h)
  BY <1>2, <1>7 DEF RequestFails, bidVars, PlaceSteps
<1>8. req[h].step \notin {"cancel", "cancelSupply", "release", "seal", "fetch", "fetchBids",
                         "fetchSupplies", "clear", "execute"}
  BY DEF PlaceSteps
<1> QED BY <1>3, <1>4, <1>5, <1>6, <1>7, <1>8
     DEF HandlerStep, CancelBid, CancelSupplyTransfer, CancelSupply, SealTimeslot, FetchBids,
         FetchSupplies, ClearMarket, MatchBid, AllocateSupply, SettleTimeslot, SlotWriteRetried,
         WritesSlot

LEMMA PlacementStep ==
  ASSUME Faults \cap {"create", "undo"} = {}, ~ Crashes, "PENDING" \notin EventStatuses,
         TypeOK, PlacementInv, [Next]_vars
  PROVE  PlacementInv'
<1>1. TypeOK'
  BY NextTypeOK
<1>2. ASSUME NEW h \in Handlers, HandlerStep(h) \/ BeginRequest(h)
      PROVE  PlacementInv'
  <2>1. \A g \in Handlers \ {h} : req'[g] = req[g]
    BY <1>2, OthersUnchanged
  <2>2. PendingIsInFlight'
    <3> SUFFICES ASSUME NEW b \in Bids \ Leftover, bid'[b] = "PENDING"
                 PROVE  \E g \in Handlers : req'[g].on = b /\ req'[g].step \in PlaceSteps
      BY DEF PendingIsInFlight
    <3>1. CASE bid[b] = "PENDING"
      <4>1. PICK g \in Handlers : req[g].on = b /\ req[g].step \in PlaceSteps
        BY <3>1 DEF PlacementInv, PendingIsInFlight
      <4>2. CASE g # h
        BY <2>1, <4>1, <4>2
      <4>3. CASE g = h
        <5>1. ~ BeginRequest(h)
          BY <4>1, <4>3, BeginsWith DEF Idle, PlaceSteps
        <5> QED BY <1>2, <4>1, <4>3, <5>1, PlacementDecides
      <4> QED BY <4>2, <4>3
    <3>2. CASE bid[b] # "PENDING"
      <4>1. b = req[h].on /\ req[h].step = "create"
        BY <1>2, <3>2, BidWrites
      <4>2. HandlerStep(h)
        BY <1>2, <4>1, BeginsWith DEF Idle
      <4>3. req[h].step \in PlaceSteps
        BY <4>1 DEF PlaceSteps
      <4> QED BY <4>1, <4>2, <4>3, PlacementDecides
    <3> QED BY <3>1, <3>2
  <2>3. ASSUME NEW g \in Handlers \ {h}, req[g].step \in PlaceSteps, req'[h].step \in PlaceSteps
        PROVE  req'[h].on # req[g].on
    BY <1>2, <2>3, OwnPlacement DEF PlacementInv
  <2>4. \A f, g \in Handlers :
          req'[f].step \in PlaceSteps /\ req'[g].step \in PlaceSteps /\ req'[f].on = req'[g].on
            => f = g
    BY <2>1, <2>3 DEF PlacementInv
  <2>5. ASSUME NEW g \in Handlers \ {h}, req[g].step \in {"duplicate", "create"}
        PROVE  bid'[req[g].on] = "NONE"
    <3>1. /\ req[g].step \in PlaceSteps /\ req[g].on \in Bids /\ bid[req[g].on] = "NONE"
          /\ req[h].step \in PlaceSteps => req[h].on # req[g].on
      BY <2>5 DEF PlacementInv, PlaceSteps, BidSteps, TypeOK, Requests, Fits
    <3>2. /\ req[h].step = "cancel" => req[h].on # req[g].on
          /\ req[g].on \notin req[h].plan.bids
      BY <3>1 DEF PlacementInv
    <3>3. {"create", "confirm", "undo"} \subseteq PlaceSteps
      BY DEF PlaceSteps
    <3> QED BY <1>2, <3>1, <3>2, <3>3, BidWrites
  <2>6. req'[h].step \in {"duplicate", "create"} => bid'[req'[h].on] = "NONE"
    <3>1. {"duplicate", "create"} \subseteq PlaceSteps
      BY DEF PlaceSteps
    <3> QED BY <1>2, <3>1, OwnPlacement DEF PlacementInv
  <2>7. ASSUME NEW g \in Handlers \ {h}
        PROVE  /\ req[g].step = "cancel" => bid'[req[g].on] # "NONE"
               /\ \A b \in req[g].plan.bids : bid'[b] # "NONE"
    <3>1. /\ req[g].step = "cancel" => req[g].on \in Bids
          /\ req[g].plan.bids \subseteq Bids
      BY DEF TypeOK, Requests, Plans, Fits, BidSteps
    <3> QED BY <3>1, RowsStay DEF PlacementInv
  <2> QED BY <1>2, <2>1, <2>2, <2>4, <2>5, <2>6, <2>7, OwnRows DEF PlacementInv
<1>3. CASE Environment \/ UNCHANGED vars
  <2>1. req' = req
    BY <1>3 DEF Environment, TransferLands, TransferDropped, UpdateBidStatus, UpdateSupplyStatus,
       SlotEnds, Crash, vars
  <2>2. \A b \in Bids : /\ bid'[b] = "PENDING" => bid[b] = "PENDING"
                        /\ bid'[b] = "NONE" <=> bid[b] = "NONE"
    BY <1>3, EnvironmentWrites DEF vars, BidStatus
  <2>3. \A h \in Handlers :
          /\ req[h].step \in {"duplicate", "create", "cancel"} => req[h].on \in Bids
          /\ req[h].plan.bids \subseteq Bids
    BY DEF TypeOK, Requests, Plans, Fits, BidSteps, PlaceSteps
  <2> QED BY <2>1, <2>2, <2>3 DEF PlacementInv, PendingIsInFlight
<1> QED BY <1>2, <1>3 DEF Next

\* As long as the process keeps running, neither the insert nor the update of
\* the catch block fails and no operator writes PENDING, no bid is left PENDING
\* without a placement that will decide it, however many requests overlap and
\* whatever else fails.
THEOREM PendingBidsAreInFlight ==
  ASSUME Faults \cap {"create", "undo"} = {}, ~ Crashes, "PENDING" \notin EventStatuses
  PROVE  Spec => []PendingIsInFlight
<1>1. TypeOK /\ PlacementInv /\ [Next]_vars => PlacementInv'
  BY PlacementStep
<1>2. PlacementInv => PendingIsInFlight
  BY DEF PlacementInv
<1> QED BY <1>1, <1>2, InitPlacement, InitTypeOK, NextTypeOK, PTL DEF Spec
================================================================================
