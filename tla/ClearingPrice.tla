----------------------------- MODULE ClearingPrice -----------------------------
(***************************************************************************)
(* calculateClearingPrice of src/services/clearing-price.service.ts, loop  *)
(* by loop: sort the book, build both curves, look for the intersection,   *)
(* serve the bids and then the supply offers.  One action is one iteration *)
(* or the step from one loop to the next.                                  *)
(***************************************************************************)
EXTENDS MarketClearing, Sequences

CONSTANTS BidData,      \* bids that can be fetched: records id, price, quantity
          SupplyData,   \* supply offers: records id, reservePrice, quantity
          Books,        \* the books to clear: pairs of a set of each
          NoResult

ASSUME DataAssumption ==
    /\ \A b \in BidData : b.price \in Nat \ {0} /\ b.quantity \in Nat \ {0}
    /\ \A s \in SupplyData : s.reservePrice \in Nat \ {0} /\ s.quantity \in Nat \ {0}
    /\ \A B \in Books : /\ B[1] \subseteq BidData /\ IsFiniteSet(B[1])
                        /\ B[2] \subseteq SupplyData /\ IsFiniteSet(B[2])

\* The primary keys of the tables.
ASSUME KeysAssumption ==
    \A B \in Books :
        /\ \A b, c \in B[1] : b.id = c.id => b = c
        /\ \A s, t \in B[2] : s.id = t.id => s = t

VARIABLES
    bids, supplies,                 \* the rows fetched
    pc,                             \* the loop being run
    sortedBids, sortedSupplies,
    k,                              \* entries of that loop already done
    cumulativeQuantity,
    demandCurve, supplyCurve,
    intersection,                   \* price and quantity, once found
    remainingQuantity,
    matchedBids, matchedSupplies,
    unmetDemand, unmetSupply,
    result

book == <<bids, supplies>>
sorted == <<sortedBids, sortedSupplies>>
curves == <<cumulativeQuantity, demandCurve, supplyCurve>>
allocation == <<remainingQuantity, matchedBids, matchedSupplies, unmetDemand, unmetSupply>>
vars == <<book, pc, sorted, k, curves, intersection, allocation, result>>

NoIntersection == [price |-> 0, quantity |-> 0]

Init ==
    /\ \E B \in Books : bids = B[1] /\ supplies = B[2]
    /\ pc = "sort"
    /\ sortedBids = <<>> /\ sortedSupplies = <<>>
    /\ k = 0
    /\ cumulativeQuantity = 0
    /\ demandCurve = <<>> /\ supplyCurve = <<>>
    /\ intersection = NoIntersection
    /\ remainingQuantity = 0
    /\ matchedBids = <<>> /\ matchedSupplies = <<>>
    /\ unmetDemand = 0 /\ unmetSupply = 0
    /\ result = NoResult

Enter(loop) == pc' = loop /\ k' = 0

\* An empty side, or no intersection: everything stays unmet.
ReturnNothing ==
    /\ Enter("done")
    /\ result' = NothingCleared(bids, supplies)

EmptyBook ==
    /\ pc = "sort"
    /\ bids = {} \/ supplies = {}
    /\ ReturnNothing
    /\ UNCHANGED <<book, sorted, curves, intersection, allocation>>

\* Mutant: bids are sorted like supplies, the lowest price first.
SortBookAscending ==
    /\ pc = "sort"
    /\ bids # {} /\ supplies # {}
    /\ sortedBids' \in
         {s \in Listings(bids) : \A i, j \in DOMAIN s : i < j => s[i].price <= s[j].price}
    /\ sortedSupplies' \in SortedSupplies(supplies)
    /\ Enter("demand")
    /\ UNCHANGED <<book, curves, intersection, allocation, result>>

SortBook ==
    /\ pc = "sort"
    /\ bids # {} /\ supplies # {}
    /\ sortedBids' \in SortedBids(bids)
    /\ sortedSupplies' \in SortedSupplies(supplies)
    /\ Enter("demand")
    /\ UNCHANGED <<book, curves, intersection, allocation, result>>

BuildDemandCurve ==
    /\ pc = "demand"
    /\ IF k < Len(sortedBids)
       THEN LET b == sortedBids[k + 1]
                q == cumulativeQuantity + b.quantity
            IN  /\ cumulativeQuantity' = q
                /\ demandCurve' = Append(demandCurve, [price |-> b.price, cumulativeQuantity |-> q])
                /\ k' = k + 1
                /\ UNCHANGED pc
       ELSE Enter("supply") /\ cumulativeQuantity' = 0 /\ UNCHANGED demandCurve
    /\ UNCHANGED <<book, sorted, supplyCurve, intersection, allocation, result>>

BuildSupplyCurve ==
    /\ pc = "supply"
    /\ IF k < Len(sortedSupplies)
       THEN LET s == sortedSupplies[k + 1]
                q == cumulativeQuantity + s.quantity
            IN  /\ cumulativeQuantity' = q
                /\ supplyCurve' = Append(supplyCurve, [price |-> s.reservePrice, cumulativeQuantity |-> q])
                /\ k' = k + 1
                /\ UNCHANGED pc
       ELSE Enter("search") /\ cumulativeQuantity' = 0 /\ UNCHANGED supplyCurve
    /\ UNCHANGED <<book, sorted, demandCurve, intersection, allocation, result>>

\* Mutant: the last supply point that is still below the quantity.
CoversFromBelow(j, q) ==
    /\ j \in DOMAIN supplyCurve
    /\ supplyCurve[j].cumulativeQuantity <= q
    /\ \A i \in DOMAIN supplyCurve : i > j => supplyCurve[i].cumulativeQuantity > q

\* supplyCurve.find: the first supply point that covers the quantity q.
Covers(j, q) ==
    /\ j \in DOMAIN supplyCurve
    /\ supplyCurve[j].cumulativeQuantity >= q
    /\ \A i \in 1..(j - 1) : supplyCurve[i].cumulativeQuantity < q

\* Demand point k + 1 meets supply point j.
MeetsAt(j) ==
    /\ Covers(j, demandCurve[k + 1].cumulativeQuantity)
    /\ demandCurve[k + 1].price >= supplyCurve[j].price

\* Mutant: the market clears at the demand price.
FindDemandPrice ==
    /\ pc = "search"
    /\ k < Len(demandCurve)
    /\ \E j \in DOMAIN supplyCurve :
         /\ MeetsAt(j)
         /\ intersection' = [price    |-> demandCurve[k + 1].price,
                             quantity |-> Smaller(demandCurve[k + 1].cumulativeQuantity,
                                                  supplyCurve[j].cumulativeQuantity)]
         /\ remainingQuantity' = intersection'.quantity
    /\ Enter("bids")
    /\ UNCHANGED <<book, sorted, curves, matchedBids, matchedSupplies, unmetDemand, unmetSupply, result>>

FindIntersection ==
    /\ pc = "search"
    /\ k < Len(demandCurve)
    /\ \E j \in DOMAIN supplyCurve :
         /\ MeetsAt(j)
         /\ intersection' = [price    |-> supplyCurve[j].price,
                             quantity |-> Smaller(demandCurve[k + 1].cumulativeQuantity,
                                                  supplyCurve[j].cumulativeQuantity)]
         /\ remainingQuantity' = intersection'.quantity
    /\ Enter("bids")
    /\ UNCHANGED <<book, sorted, curves, matchedBids, matchedSupplies, unmetDemand, unmetSupply, result>>

\* Mutant: the loop over the demand curve does not advance.
SameDemandPoint ==
    /\ pc = "search"
    /\ k < Len(demandCurve)
    /\ ~ \E j \in DOMAIN supplyCurve : MeetsAt(j)
    /\ UNCHANGED vars

NextDemandPoint ==
    /\ pc = "search"
    /\ k < Len(demandCurve)
    /\ ~ \E j \in DOMAIN supplyCurve : MeetsAt(j)
    /\ k' = k + 1
    /\ UNCHANGED <<book, pc, sorted, curves, intersection, allocation, result>>

\* findIntersection throws, and the caller returns a result without volume.
NoMarketIntersection ==
    /\ pc = "search"
    /\ k = Len(demandCurve)
    /\ ReturnNothing
    /\ UNCHANGED <<book, sorted, curves, intersection, allocation>>

\* Mutant: a bid gets all it asks for.
AllocateWholeBid ==
    /\ pc = "bids"
    /\ k < Len(sortedBids)
    /\ LET b == sortedBids[k + 1]
           q == IF b.price >= intersection.price THEN b.quantity ELSE 0
       IN  /\ matchedBids' = IF q > 0 THEN Append(matchedBids, [id |-> b.id, quantity |-> q])
                                       ELSE matchedBids
           /\ remainingQuantity' = remainingQuantity - q
           /\ unmetDemand' = unmetDemand + (b.quantity - q)
    /\ k' = k + 1
    /\ UNCHANGED <<book, pc, sorted, curves, intersection, matchedSupplies, unmetSupply, result>>

AllocateBid ==
    /\ pc = "bids"
    /\ k < Len(sortedBids)
    /\ LET b == sortedBids[k + 1]
           q == IF b.price >= intersection.price THEN Smaller(b.quantity, remainingQuantity) ELSE 0
       IN  /\ matchedBids' = IF q > 0 THEN Append(matchedBids, [id |-> b.id, quantity |-> q])
                                       ELSE matchedBids
           /\ remainingQuantity' = remainingQuantity - q
           /\ unmetDemand' = unmetDemand + (b.quantity - q)
    /\ k' = k + 1
    /\ UNCHANGED <<book, pc, sorted, curves, intersection, matchedSupplies, unmetSupply, result>>

\* Mutant: the quantity left is not reset between the two sides.
BidsAllocatedUnreset ==
    /\ pc = "bids"
    /\ k = Len(sortedBids)
    /\ Enter("supplies")
    /\ UNCHANGED <<book, sorted, curves, intersection, allocation, result>>

BidsAllocated ==
    /\ pc = "bids"
    /\ k = Len(sortedBids)
    /\ remainingQuantity' = intersection.quantity
    /\ Enter("supplies")
    /\ UNCHANGED <<book, sorted, curves, intersection, matchedBids, matchedSupplies, unmetDemand, unmetSupply, result>>

AllocateSupply ==
    /\ pc = "supplies"
    /\ k < Len(sortedSupplies)
    /\ LET s == sortedSupplies[k + 1]
           q == IF s.reservePrice <= intersection.price THEN Smaller(s.quantity, remainingQuantity) ELSE 0
       IN  /\ matchedSupplies' = IF q > 0 THEN Append(matchedSupplies, [id |-> s.id, quantity |-> q])
                                           ELSE matchedSupplies
           /\ remainingQuantity' = remainingQuantity - q
           /\ unmetSupply' = unmetSupply + (s.quantity - q)
    /\ k' = k + 1
    /\ UNCHANGED <<book, pc, sorted, curves, intersection, matchedBids, unmetDemand, result>>

Entries(s) == {s[i] : i \in DOMAIN s}

ReturnResult ==
    /\ pc = "supplies"
    /\ k = Len(sortedSupplies)
    /\ Enter("done")
    /\ result' = [clearingPrice   |-> intersection.price,
                  totalVolume     |-> intersection.quantity,
                  matchedBids     |-> Entries(matchedBids),
                  matchedSupplies |-> Entries(matchedSupplies),
                  unmetDemand     |-> unmetDemand,
                  unmetSupply     |-> unmetSupply]
    /\ UNCHANGED <<book, sorted, curves, intersection, allocation>>

Next ==
    \/ EmptyBook \/ SortBook
    \/ BuildDemandCurve \/ BuildSupplyCurve
    \/ FindIntersection \/ NextDemandPoint \/ NoMarketIntersection
    \/ AllocateBid \/ BidsAllocated \/ AllocateSupply \/ ReturnResult

\* The computation runs to its end without giving up control.
Spec == Init /\ [][Next]_vars /\ WF_vars(Next)

-----------------------------------------------------------------------------
(* Properties *)

Loops == {"sort", "demand", "supply", "search", "bids", "supplies", "done"}
CurvePoints == [price : Nat, cumulativeQuantity : Nat]
Shares(D) == [id : {d.id : d \in D}, quantity : Nat \ {0}]

\* Types of all state.
TypeOK ==
    /\ bids \subseteq BidData /\ supplies \subseteq SupplyData
    /\ pc \in Loops
    /\ sortedBids \in Seq(BidData) /\ sortedSupplies \in Seq(SupplyData)
    /\ k \in Nat /\ cumulativeQuantity \in Nat
    /\ demandCurve \in Seq(CurvePoints) /\ supplyCurve \in Seq(CurvePoints)
    /\ intersection \in [price : Nat, quantity : Nat]
    /\ remainingQuantity \in Nat
    /\ matchedBids \in Seq(Shares(BidData)) /\ matchedSupplies \in Seq(Shares(SupplyData))
    /\ unmetDemand \in Nat /\ unmetSupply \in Nat

\* The loops compute a merit-order clearing of the book they were given
\* (clearing-price.service.ts:41-129).
Reference == INSTANCE ClearingResult
ImplementsReference == Reference!Spec

\* A matched bid is served whole.  The row's MATCHED status, all that
\* executeMarketClearing stores of it (lines 328-333), has no place for a part.
MatchedBidsAreWhole ==
    \A m \in Entries(matchedBids) : \E b \in bids : b.id = m.id /\ b.quantity = m.quantity

\* Nobody is passed over: an unserved bid offers no more than any served one,
\* and an unserved supply offer asks for no less (lines 69-72, 261, 288).
MeritOrder ==
    pc = "done" =>
        /\ \A b, c \in bids :
             /\ b.id \in {m.id : m \in result.matchedBids}
             /\ c.id \notin {m.id : m \in result.matchedBids}
             => c.price <= b.price
        /\ \A s, t \in supplies :
             /\ s.id \in {m.id : m \in result.matchedSupplies}
             /\ t.id \notin {m.id : m \in result.matchedSupplies}
             => t.reservePrice >= s.reservePrice

\* The energy balances: the matched bids take what the matched supply offers
\* give, and each side of the book is either matched or counted as unmet
\* (lines 256-309).
EnergyBalance ==
    pc = "done" =>
        /\ QuantityOf(result.matchedBids) = result.totalVolume
        /\ QuantityOf(result.matchedSupplies) = result.totalVolume
        /\ result.totalVolume + result.unmetDemand = QuantityOf(bids)
        /\ result.totalVolume + result.unmetSupply = QuantityOf(supplies)

\* Every computation comes to a result.
Terminates == <>(pc = "done")

===============================================================================
