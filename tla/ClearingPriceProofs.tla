-------------------------- MODULE ClearingPriceProofs --------------------------
(* Theorems about ClearingPrice, for every book of bids and supply offers: the *)
(* loops serve bids whole and pass nobody over.                               *)
EXTENDS ClearingPrice, SequenceTheorems, MarketClearingProofs

-----------------------------------------------------------------------------
(* Sorting *)

\* A listing of a side of the book is a sequence with every entry in it.
LEMMA ListingIsSeq ==
  ASSUME NEW S, IsFiniteSet(S), NEW s \in Listings(S)
  PROVE  /\ s \in Seq(S) /\ DOMAIN s = 1..Len(s)
         /\ \A x \in S : \E i \in 1..Len(s) : s[i] = x
<1> DEFINE n == Cardinality(S)
<1>1. n \in Nat
  BY FS_CardinalityType
<1>2. s \in [1..n -> S] /\ \A i, j \in 1..n : s[i] = s[j] => i = j
  BY DEF Listings
<1>3. s \in Seq(S) /\ Len(s) = n
  BY <1>1, <1>2
<1>4. Cardinality(1..n) = n
  BY <1>1, FS_Interval
<1>5. s \in Injection(1..n, S)
  BY <1>2 DEF Injection, IsInjective
<1>6. s \in Surjection(1..n, S)
  BY <1>4, <1>5, FS_Injection
<1>7. \A x \in S : \E i \in 1..n : s[i] = x
  BY <1>6 DEF Surjection
<1> QED BY <1>2, <1>3, <1>7

-----------------------------------------------------------------------------
(* Types, and what holds of the book throughout *)

BookInv ==
  /\ IsFiniteSet(bids) /\ IsFiniteSet(supplies)
  /\ \A b, c \in bids : b.id = c.id => b = c
  /\ \A s, t \in supplies : s.id = t.id => s = t

LEMMA SmallerType ==
  ASSUME NEW a \in Nat, NEW b \in Nat
  PROVE  Smaller(a, b) \in Nat /\ Smaller(a, b) <= a /\ Smaller(a, b) <= b
BY DEF Smaller

LEMMA ClearingInit == Init => TypeOK /\ BookInv
<1> SUFFICES ASSUME Init PROVE TypeOK /\ BookInv
  OBVIOUS
<1>1. \A S : <<>> \in Seq(S)
  BY EmptySeq
<1> QED BY <1>1, DataAssumption, KeysAssumption DEF Init, TypeOK, BookInv, Loops, NoIntersection

\* One of the entries a loop is at.
LEMMA Entry ==
  ASSUME TypeOK
  PROVE  /\ k < Len(sortedBids) =>
              /\ sortedBids[k + 1] \in BidData
              /\ sortedBids[k + 1].price \in Nat \ {0}
              /\ sortedBids[k + 1].quantity \in Nat \ {0}
         /\ k < Len(sortedSupplies) =>
              /\ sortedSupplies[k + 1] \in SupplyData
              /\ sortedSupplies[k + 1].reservePrice \in Nat \ {0}
              /\ sortedSupplies[k + 1].quantity \in Nat \ {0}
         /\ k < Len(demandCurve) => demandCurve[k + 1] \in CurvePoints
<1>1. /\ sortedBids \in Seq(BidData) /\ sortedSupplies \in Seq(SupplyData) /\ k \in Nat
      /\ demandCurve \in Seq(CurvePoints)
  BY DEF TypeOK
<1>2. k < Len(sortedBids) => sortedBids[k + 1] \in BidData
  BY <1>1, ElementOfSeq, LenProperties
<1>3. k < Len(sortedSupplies) => sortedSupplies[k + 1] \in SupplyData
  BY <1>1, ElementOfSeq, LenProperties
<1>4. k < Len(demandCurve) => demandCurve[k + 1] \in CurvePoints
  BY <1>1, ElementOfSeq, LenProperties
<1> QED BY <1>2, <1>3, <1>4, DataAssumption

LEMMA ClearingTypes ==
  ASSUME TypeOK, BookInv, [Next]_vars
  PROVE  TypeOK' /\ BookInv'
<1> USE DEF book, sorted, curves, allocation, Enter, ReturnNothing
<1>1. BookInv' /\ bids' = bids /\ supplies' = supplies
  BY DEF BookInv, Next, vars, EmptyBook, SortBook, BuildDemandCurve, BuildSupplyCurve,
     FindIntersection, NextDemandPoint, NoMarketIntersection, AllocateBid, BidsAllocated,
     AllocateSupply, ReturnResult
<1> SUFFICES TypeOK'
  BY <1>1
<1>2. CASE UNCHANGED vars
  BY <1>2 DEF vars, TypeOK
<1>3. CASE EmptyBook \/ NoMarketIntersection \/ ReturnResult
  <2>1. /\ UNCHANGED <<sorted, curves, intersection, allocation>>
        /\ k' = 0 /\ pc' = "done" /\ bids' = bids /\ supplies' = supplies
    BY <1>1, <1>3 DEF EmptyBook, NoMarketIntersection, ReturnResult
  <2>2. 0 \in Nat /\ "done" \in Loops
    BY DEF Loops
  <2> QED BY <2>1, <2>2 DEF TypeOK
<1>4. CASE SortBook
  <2>1. sortedBids' \in Seq(bids) /\ sortedSupplies' \in Seq(supplies)
    BY <1>4, ListingIsSeq DEF SortBook, SortedBids, SortedSupplies, BookInv
  <2>2. sortedBids' \in Seq(BidData) /\ sortedSupplies' \in Seq(SupplyData)
    BY <2>1, SeqMonotonic DEF TypeOK
  <2> QED BY <1>4, <2>2 DEF SortBook, TypeOK, Loops
<1>5. CASE BuildDemandCurve
  <2>1. CASE k < Len(sortedBids)
    <3> DEFINE q == cumulativeQuantity + sortedBids[k + 1].quantity
               p == [price |-> sortedBids[k + 1].price, cumulativeQuantity |-> q]
    <3>1. q \in Nat /\ p \in CurvePoints /\ k + 1 \in Nat
      <4>1. cumulativeQuantity \in Nat /\ k \in Nat
        BY DEF TypeOK
      <4>2. sortedBids[k + 1].price \in Nat /\ sortedBids[k + 1].quantity \in Nat
        BY <2>1, Entry
      <4> QED BY <4>1, <4>2 DEF CurvePoints
    <3>2. demandCurve' = Append(demandCurve, p) /\ cumulativeQuantity' = q /\ k' = k + 1
      BY <1>5, <2>1 DEF BuildDemandCurve
    <3> HIDE DEF q, p
    <3>3. demandCurve' \in Seq(CurvePoints)
      BY <3>1, <3>2, AppendProperties DEF TypeOK
    <3> QED BY <1>5, <2>1, <3>1, <3>2, <3>3 DEF BuildDemandCurve, TypeOK
  <2>2. CASE ~ k < Len(sortedBids)
    BY <1>5, <2>2 DEF BuildDemandCurve, TypeOK, Loops
  <2> QED BY <2>1, <2>2
<1>6. CASE BuildSupplyCurve
  <2>1. CASE k < Len(sortedSupplies)
    <3> DEFINE q == cumulativeQuantity + sortedSupplies[k + 1].quantity
               p == [price |-> sortedSupplies[k + 1].reservePrice, cumulativeQuantity |-> q]
    <3>1. q \in Nat /\ p \in CurvePoints /\ k + 1 \in Nat
      <4>1. cumulativeQuantity \in Nat /\ k \in Nat
        BY DEF TypeOK
      <4>2. sortedSupplies[k + 1].reservePrice \in Nat /\ sortedSupplies[k + 1].quantity \in Nat
        BY <2>1, Entry
      <4> QED BY <4>1, <4>2 DEF CurvePoints
    <3>2. supplyCurve' = Append(supplyCurve, p) /\ cumulativeQuantity' = q /\ k' = k + 1
      BY <1>6, <2>1 DEF BuildSupplyCurve
    <3> HIDE DEF q, p
    <3>3. supplyCurve' \in Seq(CurvePoints)
      BY <3>1, <3>2, AppendProperties DEF TypeOK
    <3> QED BY <1>6, <2>1, <3>1, <3>2, <3>3 DEF BuildSupplyCurve, TypeOK
  <2>2. CASE ~ k < Len(sortedSupplies)
    BY <1>6, <2>2 DEF BuildSupplyCurve, TypeOK, Loops
  <2> QED BY <2>1, <2>2
<1>7. CASE FindIntersection
  <2>1. PICK j \in DOMAIN supplyCurve :
          /\ intersection' = [price    |-> supplyCurve[j].price,
                              quantity |-> Smaller(demandCurve[k + 1].cumulativeQuantity,
                                                   supplyCurve[j].cumulativeQuantity)]
          /\ remainingQuantity' = intersection'.quantity
    BY <1>7 DEF FindIntersection
  <2>2. supplyCurve[j] \in CurvePoints
    BY ElementOfSeq, LenProperties DEF TypeOK
  <2>3. demandCurve[k + 1] \in CurvePoints
    BY <1>7, Entry DEF FindIntersection
  <2>4. Smaller(demandCurve[k + 1].cumulativeQuantity, supplyCurve[j].cumulativeQuantity) \in Nat
    BY <2>2, <2>3, SmallerType DEF CurvePoints
  <2>5. intersection' \in [price : Nat, quantity : Nat] /\ remainingQuantity' \in Nat
    BY <2>1, <2>2, <2>4 DEF CurvePoints
  <2> QED BY <1>7, <2>5 DEF FindIntersection, TypeOK, Loops
<1>8. CASE NextDemandPoint \/ BidsAllocated
  <2>1. CASE NextDemandPoint
    BY <2>1, SMTT(30) DEF NextDemandPoint, TypeOK, Loops
  <2>2. CASE BidsAllocated
    BY <2>2, SMTT(30) DEF BidsAllocated, TypeOK, Loops
  <2> QED BY <1>8, <2>1, <2>2
<1>9. CASE AllocateBid
  <2> DEFINE b == sortedBids[k + 1]
             q == IF b.price >= intersection.price THEN Smaller(b.quantity, remainingQuantity) ELSE 0
  <2>1. /\ b \in BidData /\ b.quantity \in Nat
        /\ remainingQuantity \in Nat /\ unmetDemand \in Nat
    BY <1>9, Entry DEF AllocateBid, TypeOK
  <2>2. q \in Nat /\ q <= remainingQuantity /\ q <= b.quantity
    BY <2>1 DEF Smaller
  <2>3. /\ matchedBids' = IF q > 0 THEN Append(matchedBids, [id |-> b.id, quantity |-> q])
                                    ELSE matchedBids
        /\ remainingQuantity' = remainingQuantity - q
        /\ unmetDemand' = unmetDemand + (b.quantity - q)
    BY <1>9 DEF AllocateBid
  <2> HIDE DEF b, q
  <2>4. remainingQuantity' \in Nat /\ unmetDemand' \in Nat
    BY <2>1, <2>2, <2>3
  <2>5. matchedBids' \in Seq(Shares(BidData))
    <3>1. q > 0 => [id |-> b.id, quantity |-> q] \in Shares(BidData)
      BY <2>1, <2>2 DEF Shares
    <3> QED BY <2>3, <3>1, AppendProperties DEF TypeOK
  <2> QED BY <1>9, <2>4, <2>5, SMTT(30) DEF AllocateBid, TypeOK
<1>10. CASE AllocateSupply
  <2> DEFINE s == sortedSupplies[k + 1]
             q == IF s.reservePrice <= intersection.price
                  THEN Smaller(s.quantity, remainingQuantity) ELSE 0
  <2>1. /\ s \in SupplyData /\ s.quantity \in Nat
        /\ remainingQuantity \in Nat /\ unmetSupply \in Nat
    BY <1>10, Entry DEF AllocateSupply, TypeOK
  <2>2. q \in Nat /\ q <= remainingQuantity /\ q <= s.quantity
    BY <2>1 DEF Smaller
  <2>3. /\ matchedSupplies' = IF q > 0 THEN Append(matchedSupplies, [id |-> s.id, quantity |-> q])
                                        ELSE matchedSupplies
        /\ remainingQuantity' = remainingQuantity - q
        /\ unmetSupply' = unmetSupply + (s.quantity - q)
    BY <1>10 DEF AllocateSupply
  <2> HIDE DEF s, q
  <2>4. remainingQuantity' \in Nat /\ unmetSupply' \in Nat
    BY <2>1, <2>2, <2>3
  <2>5. matchedSupplies' \in Seq(Shares(SupplyData))
    <3>1. q > 0 => [id |-> s.id, quantity |-> q] \in Shares(SupplyData)
      BY <2>1, <2>2 DEF Shares
    <3> QED BY <2>3, <3>1, AppendProperties DEF TypeOK
  <2> QED BY <1>10, <2>4, <2>5, SMTT(30) DEF AllocateSupply, TypeOK
<1> QED BY <1>1, <1>2, <1>3, <1>4, <1>5, <1>6, <1>7, <1>8, <1>9, <1>10 DEF Next

-----------------------------------------------------------------------------
(* The sorted book *)

SortInv ==
  /\ pc = "sort" => sortedBids = <<>> /\ sortedSupplies = <<>>
  /\ \A i \in 1..Len(sortedBids) : sortedBids[i] \in bids
  /\ \A i, j \in 1..Len(sortedBids) : i < j => sortedBids[i].price >= sortedBids[j].price
  /\ sortedBids # <<>> => \A b \in bids : \E i \in 1..Len(sortedBids) : sortedBids[i] = b
  /\ \A i \in 1..Len(sortedSupplies) : sortedSupplies[i] \in supplies
  /\ \A i, j \in 1..Len(sortedSupplies) :
       i < j => sortedSupplies[i].reservePrice <= sortedSupplies[j].reservePrice
  /\ sortedSupplies # <<>> =>
       \A s \in supplies : \E i \in 1..Len(sortedSupplies) : sortedSupplies[i] = s

LEMMA SortInit == Init => SortInv
BY DEF Init, SortInv

LEMMA SortStep ==
  ASSUME TypeOK, BookInv, SortInv, [Next]_vars
  PROVE  SortInv'
<1> USE DEF book, sorted, curves, allocation
<1>1. CASE SortBook
  <2>1. sortedBids' \in Listings(bids) /\ sortedSupplies' \in Listings(supplies)
    BY <1>1 DEF SortBook, SortedBids, SortedSupplies
  <2>2. /\ sortedBids' \in Seq(bids) /\ DOMAIN sortedBids' = 1..Len(sortedBids')
        /\ \A b \in bids : \E i \in 1..Len(sortedBids') : sortedBids'[i] = b
    BY <2>1, ListingIsSeq DEF BookInv
  <2>3. /\ sortedSupplies' \in Seq(supplies) /\ DOMAIN sortedSupplies' = 1..Len(sortedSupplies')
        /\ \A s \in supplies : \E i \in 1..Len(sortedSupplies') : sortedSupplies'[i] = s
    BY <2>1, ListingIsSeq DEF BookInv
  <2>4. /\ \A i, j \in 1..Len(sortedBids') :
             i < j => sortedBids'[i].price >= sortedBids'[j].price
        /\ \A i, j \in 1..Len(sortedSupplies') :
             i < j => sortedSupplies'[i].reservePrice <= sortedSupplies'[j].reservePrice
    BY <1>1, <2>2, <2>3 DEF SortBook, SortedBids, SortedSupplies
  <2>5. /\ \A i \in 1..Len(sortedBids') : sortedBids'[i] \in bids
        /\ \A i \in 1..Len(sortedSupplies') : sortedSupplies'[i] \in supplies
    BY <2>2, <2>3, ElementOfSeq
  <2>6. bids' = bids /\ supplies' = supplies /\ pc' = "demand"
    BY <1>1 DEF SortBook, Enter
  <2> QED BY <2>2, <2>3, <2>4, <2>5, <2>6 DEF SortInv
<1>2. CASE ~ SortBook
  <2>1. /\ sortedBids' = sortedBids /\ sortedSupplies' = sortedSupplies
        /\ bids' = bids /\ supplies' = supplies
        /\ pc' = "sort" => pc = "sort"
    BY <1>2 DEF Next, vars, EmptyBook, BuildDemandCurve, BuildSupplyCurve, FindIntersection,
       NextDemandPoint, NoMarketIntersection, AllocateBid, BidsAllocated, AllocateSupply,
       ReturnResult, Enter, ReturnNothing
  <2> QED BY <2>1 DEF SortInv
<1> QED BY <1>1, <1>2

-----------------------------------------------------------------------------
(* The demand curve *)

UpTo(c, n) == IF n = 0 THEN 0 ELSE c[n].cumulativeQuantity

CurveInv ==
  /\ pc = "sort" => demandCurve = <<>> /\ cumulativeQuantity = 0
  /\ Len(demandCurve) <= Len(sortedBids)
  /\ \A n \in 1..Len(demandCurve) :
       /\ demandCurve[n].price = sortedBids[n].price
       /\ UpTo(demandCurve, n) = UpTo(demandCurve, n - 1) + sortedBids[n].quantity
  /\ \A m, n \in 0..Len(demandCurve) : m <= n => UpTo(demandCurve, m) <= UpTo(demandCurve, n)
  /\ pc = "demand" => k = Len(demandCurve) /\ cumulativeQuantity = UpTo(demandCurve, k)
  /\ pc \in {"supply", "search", "bids"} => Len(demandCurve) = Len(sortedBids)

LEMMA CurveInit == Init => CurveInv
<1> SUFFICES ASSUME Init PROVE CurveInv
  OBVIOUS
<1>1. Len(demandCurve) = 0 /\ Len(sortedBids) = 0 /\ pc = "sort" /\ demandCurve = <<>>
      /\ cumulativeQuantity = 0
  BY EmptySeq DEF Init
<1> QED BY <1>1 DEF CurveInv, UpTo

LEMMA CurveStep ==
  ASSUME TypeOK, SortInv, CurveInv, [Next]_vars
  PROVE  CurveInv'
<1> USE DEF book, sorted, curves, allocation
<1>1. /\ demandCurve \in Seq(CurvePoints) /\ Len(demandCurve) \in Nat
      /\ sortedBids \in Seq(BidData) /\ Len(sortedBids) \in Nat
      /\ k \in Nat /\ cumulativeQuantity \in Nat
  BY LenProperties DEF TypeOK
<1>2. CASE SortBook
  <2>1. demandCurve = <<>> /\ demandCurve' = <<>> /\ cumulativeQuantity' = 0 /\ k' = 0 /\ pc' = "demand"
    BY <1>2 DEF SortBook, Enter, CurveInv
  <2>2. Len(sortedBids') \in Nat
    BY <1>2, ListingIsSeq, LenProperties, ClearingTypes DEF TypeOK
  <2>3. Len(demandCurve') = 0
    BY <2>1, EmptySeq
  <2> QED BY <2>1, <2>2, <2>3 DEF CurveInv, UpTo
<1>3. CASE BuildDemandCurve /\ k < Len(sortedBids)
  <2> DEFINE b == sortedBids[k + 1]
             q == cumulativeQuantity + b.quantity
             p == [price |-> b.price, cumulativeQuantity |-> q]
  <2>1. b.quantity \in Nat /\ b.price \in Nat
    BY <1>3, Entry
  <2>2. q \in Nat /\ p \in CurvePoints /\ p.cumulativeQuantity = q /\ p.price = b.price
    BY <1>1, <2>1 DEF CurvePoints
  <2>3. /\ demandCurve' = Append(demandCurve, p) /\ cumulativeQuantity' = q /\ k' = k + 1
        /\ pc = "demand" /\ pc' = "demand" /\ sortedBids' = sortedBids
    BY <1>3 DEF BuildDemandCurve
  <2>4. k = Len(demandCurve) /\ cumulativeQuantity = UpTo(demandCurve, k)
    BY <2>3 DEF CurveInv
  <2> HIDE DEF p
  <2>5. /\ Len(demandCurve') = k + 1
        /\ \A i \in 1..k : demandCurve'[i] = demandCurve[i]
        /\ demandCurve'[k + 1] = p
    BY <1>1, <2>2, <2>3, <2>4, AppendProperties
  <2>6. /\ \A n \in 0..k : UpTo(demandCurve', n) = UpTo(demandCurve, n)
        /\ UpTo(demandCurve', k + 1) = q
    BY <1>1, <2>2, <2>5 DEF UpTo
  <2>7. q = UpTo(demandCurve, k) + b.quantity
    BY <2>4
  <2>8. \A n \in 0..k : UpTo(demandCurve, n) \in Nat
    <3>1. ASSUME NEW n \in 1..k PROVE demandCurve[n] \in CurvePoints
      BY <1>1, <2>4, ElementOfSeq
    <3>2. \A n \in 1..k : demandCurve[n].cumulativeQuantity \in Nat
      BY <3>1 DEF CurvePoints
    <3> QED BY <1>1, <3>2 DEF UpTo
  <2> HIDE DEF q, b
  <2>9. \A n \in 1..(k + 1) :
          /\ demandCurve'[n].price = sortedBids[n].price
          /\ UpTo(demandCurve', n) = UpTo(demandCurve', n - 1) + sortedBids[n].quantity
    <3>1. ASSUME NEW n \in 1..k
          PROVE  /\ demandCurve'[n].price = sortedBids[n].price
                 /\ UpTo(demandCurve', n) = UpTo(demandCurve', n - 1) + sortedBids[n].quantity
      <4>1. n \in 0..k /\ n - 1 \in 0..k
        BY <1>1
      <4>2. /\ demandCurve[n].price = sortedBids[n].price
            /\ UpTo(demandCurve, n) = UpTo(demandCurve, n - 1) + sortedBids[n].quantity
        BY <2>4 DEF CurveInv
      <4>3. /\ demandCurve'[n] = demandCurve[n]
            /\ UpTo(demandCurve', n) = UpTo(demandCurve, n)
            /\ UpTo(demandCurve', n - 1) = UpTo(demandCurve, n - 1)
        BY <2>5, <2>6, <4>1
      <4> QED BY <4>2, <4>3
    <3>2. /\ demandCurve'[k + 1].price = sortedBids[k + 1].price
          /\ UpTo(demandCurve', k + 1) = UpTo(demandCurve', k) + sortedBids[k + 1].quantity
      BY <1>1, <2>2, <2>5, <2>6, <2>7 DEF b
    <3>3. \A n \in 1..(k + 1) : n \in 1..k \/ (n = k + 1 /\ n - 1 = k)
      BY <1>1
    <3> QED BY <3>1, <3>2, <3>3
  <2>10. \A m, n \in 0..(k + 1) : m <= n => UpTo(demandCurve', m) <= UpTo(demandCurve', n)
    <3>1. \A m \in 0..k : UpTo(demandCurve, m) <= UpTo(demandCurve, k)
      BY <1>1, <2>4 DEF CurveInv
    <3>2. \A m \in 0..k : UpTo(demandCurve, m) <= q
      BY <1>1, <2>1, <2>7, <2>8, <3>1
    <3>3. \A m, n \in 0..k : m <= n => UpTo(demandCurve', m) <= UpTo(demandCurve', n)
      BY <2>4, <2>6 DEF CurveInv
    <3>4. \A n \in 0..(k + 1) : n \in 0..k \/ n = k + 1
      BY <1>1
    <3>5. \A n \in 0..k : ~ k + 1 <= n
      BY <1>1
    <3> QED BY <1>1, <2>2, <2>6, <3>2, <3>3, <3>4, <3>5
  <2> QED BY <1>1, <1>3, <2>3, <2>5, <2>6, <2>9, <2>10 DEF CurveInv
<1>4. CASE BuildDemandCurve /\ ~ k < Len(sortedBids)
  <2>1. /\ demandCurve' = demandCurve /\ sortedBids' = sortedBids /\ pc = "demand"
        /\ pc' = "supply"
    BY <1>4 DEF BuildDemandCurve, Enter
  <2>2. Len(demandCurve) = Len(sortedBids)
    BY <1>1, <1>4, <2>1 DEF CurveInv
  <2> QED BY <2>1, <2>2 DEF CurveInv, UpTo
<1>5. CASE ~ SortBook /\ ~ BuildDemandCurve
  <2>1. /\ demandCurve' = demandCurve /\ sortedBids' = sortedBids
        /\ pc' \in {"sort", "demand"} => pc' = pc /\ k' = k /\ cumulativeQuantity' = cumulativeQuantity
        /\ pc' \in {"supply", "search", "bids"} => pc \in {"supply", "search", "bids"}
    <3>1. CASE EmptyBook \/ NoMarketIntersection \/ ReturnResult \/ UNCHANGED vars
      BY <3>1, SMTT(30) DEF EmptyBook, NoMarketIntersection, ReturnResult, vars, Enter, ReturnNothing
    <3>2. CASE BuildSupplyCurve \/ FindIntersection \/ NextDemandPoint
      BY <3>2, SMTT(30) DEF BuildSupplyCurve, FindIntersection, NextDemandPoint, Enter
    <3>3. CASE AllocateBid \/ BidsAllocated \/ AllocateSupply
      BY <3>3, SMTT(30) DEF AllocateBid, BidsAllocated, AllocateSupply, Enter
    <3> QED BY <1>5, <3>1, <3>2, <3>3 DEF Next
  <2> QED BY <2>1 DEF CurveInv, UpTo
<1> QED BY <1>2, <1>3, <1>4, <1>5

-----------------------------------------------------------------------------
(* The pass over the bids *)

\* The first n bids, and no others, are matched, each with all its quantity.
ServedWhole(n) ==
  /\ Len(matchedBids) = n
  /\ \A p \in 1..n : /\ matchedBids[p].id = sortedBids[p].id
                     /\ matchedBids[p].quantity = sortedBids[p].quantity

\* The volume is what the first i bids ask for, and the price suits all of them.
ClearsAt(i) ==
  /\ intersection.quantity = UpTo(demandCurve, i)
  /\ intersection.price <= sortedBids[i].price

BidsInv ==
  /\ pc \in {"sort", "demand", "supply", "search"} => matchedBids = <<>>
  /\ pc = "bids" =>
       /\ k <= Len(sortedBids)
       /\ \E i \in 1..Len(sortedBids) :
            /\ ClearsAt(i)
            /\ remainingQuantity =
                 IF k <= i THEN UpTo(demandCurve, i) - UpTo(demandCurve, k) ELSE 0
            /\ ServedWhole(Smaller(k, i))
  /\ pc \in {"supplies", "done"} => \E n \in 0..Len(sortedBids) : ServedWhole(n)

LEMMA BidsInit == Init => BidsInv
BY DEF Init, BidsInv

LEMMA BidsStep ==
  ASSUME TypeOK, SortInv, CurveInv, BidsInv, [Next]_vars
  PROVE  BidsInv'
<1> USE DEF book, sorted, curves, allocation
<1>1. /\ demandCurve \in Seq(CurvePoints) /\ Len(demandCurve) \in Nat
      /\ sortedBids \in Seq(BidData) /\ Len(sortedBids) \in Nat
      /\ matchedBids \in Seq(Shares(BidData)) /\ Len(matchedBids) \in Nat
      /\ k \in Nat /\ remainingQuantity \in Nat
  BY LenProperties DEF TypeOK
<1>2. matchedBids = <<>> => ServedWhole(0)
  BY EmptySeq DEF ServedWhole
<1>3. CASE FindIntersection
  <2>1. PICK j \in DOMAIN supplyCurve :
          /\ MeetsAt(j)
          /\ intersection' = [price    |-> supplyCurve[j].price,
                              quantity |-> Smaller(demandCurve[k + 1].cumulativeQuantity,
                                                   supplyCurve[j].cumulativeQuantity)]
          /\ remainingQuantity' = intersection'.quantity
    BY <1>3 DEF FindIntersection
  <2> DEFINE i == k + 1
  <2>2. /\ pc = "search" /\ pc' = "bids" /\ k' = 0 /\ i \in 1..Len(sortedBids)
        /\ matchedBids' = matchedBids /\ demandCurve' = demandCurve /\ sortedBids' = sortedBids
        /\ Len(demandCurve) = Len(sortedBids)
    BY <1>1, <1>3 DEF FindIntersection, Enter, CurveInv
  <2>3. /\ demandCurve[i].price = sortedBids[i].price
        /\ UpTo(demandCurve, i) = demandCurve[i].cumulativeQuantity
    BY <1>1, <2>2 DEF CurveInv, UpTo
  <2>4. /\ demandCurve[i] \in CurvePoints /\ supplyCurve[j] \in CurvePoints
    BY <1>1, <2>2, ElementOfSeq, LenProperties DEF TypeOK
  <2>5. /\ supplyCurve[j].cumulativeQuantity >= demandCurve[i].cumulativeQuantity
        /\ demandCurve[i].price >= supplyCurve[j].price
    BY <2>1 DEF MeetsAt, Covers
  <2>6. /\ intersection'.quantity = UpTo(demandCurve, i)
        /\ intersection'.price <= sortedBids[i].price
    BY <2>1, <2>3, <2>4, <2>5 DEF Smaller, CurvePoints
  <2>7. UpTo(demandCurve, 0) = 0 /\ UpTo(demandCurve, i) \in Nat
    BY <2>3, <2>4 DEF UpTo, CurvePoints
  <2> HIDE DEF i
  <2>8. remainingQuantity' = UpTo(demandCurve, i) - UpTo(demandCurve, 0)
    BY <2>1, <2>6, <2>7
  <2>9. Smaller(0, i) = 0 /\ 0 <= i
    BY <1>1, <2>2 DEF Smaller
  <2>10. Len(matchedBids) = 0
    BY <2>2, EmptySeq DEF BidsInv
  <2> QED BY <1>1, <2>2, <2>6, <2>8, <2>9, <2>10 DEF BidsInv, ClearsAt, ServedWhole
<1>4. CASE AllocateBid
  <2> DEFINE b == sortedBids[k + 1]
             q == IF b.price >= intersection.price THEN Smaller(b.quantity, remainingQuantity) ELSE 0
             m == [id |-> b.id, quantity |-> q]
  <2>1. /\ pc = "bids" /\ pc' = "bids" /\ k < Len(sortedBids) /\ k' = k + 1
        /\ demandCurve' = demandCurve /\ sortedBids' = sortedBids /\ intersection' = intersection
        /\ matchedBids' = IF q > 0 THEN Append(matchedBids, m) ELSE matchedBids
        /\ remainingQuantity' = remainingQuantity - q
    BY <1>4 DEF AllocateBid
  <2>2. PICK i \in 1..Len(sortedBids) :
          /\ ClearsAt(i)
          /\ remainingQuantity = IF k <= i THEN UpTo(demandCurve, i) - UpTo(demandCurve, k) ELSE 0
          /\ ServedWhole(Smaller(k, i))
    BY <2>1 DEF BidsInv
  <2>3. b \in BidData /\ b.quantity \in Nat \ {0} /\ b.price \in Nat
    BY <2>1, Entry
  <2>4. ClearsAt(i)'
    BY <2>1, <2>2 DEF ClearsAt
  <2>5. Len(demandCurve) = Len(sortedBids)
    BY <2>1 DEF CurveInv
  <2>6. \A n \in 0..Len(demandCurve) : UpTo(demandCurve, n) \in Nat
    <3>1. ASSUME NEW n \in 1..Len(demandCurve) PROVE demandCurve[n] \in CurvePoints
      BY <1>1, ElementOfSeq
    <3>2. \A n \in 1..Len(demandCurve) : demandCurve[n].cumulativeQuantity \in Nat
      BY <3>1 DEF CurvePoints
    <3> QED BY <1>1, <3>2 DEF UpTo
  <2>7. CASE k < i
    <3>1. k \in 0..Len(demandCurve) /\ k + 1 \in 1..Len(demandCurve) /\ i \in 1..Len(demandCurve)
      BY <1>1, <2>1, <2>5
    <3>2. UpTo(demandCurve, k + 1) = UpTo(demandCurve, k) + b.quantity
      BY <1>1, <3>1 DEF CurveInv
    <3>3. UpTo(demandCurve, k + 1) <= UpTo(demandCurve, i)
      BY <1>1, <2>7, <3>1 DEF CurveInv
    <3>4. b.price >= intersection.price
      <4>1. b.price >= sortedBids[i].price
        <5>1. CASE k + 1 = i
          BY <2>3, <5>1
        <5>2. CASE k + 1 # i
          <6>1. k + 1 \in 1..Len(sortedBids) /\ i \in 1..Len(sortedBids) /\ k + 1 < i
            BY <1>1, <2>1, <2>7, <5>2
          <6> QED BY <6>1 DEF SortInv
        <5> QED BY <5>1, <5>2
      <4>2. intersection.price \in Nat /\ sortedBids[i].price \in Nat
        BY <1>1, <2>2, ElementOfSeq, DataAssumption DEF TypeOK
      <4> QED BY <2>2, <2>3, <4>1, <4>2 DEF ClearsAt
    <3>5. remainingQuantity = UpTo(demandCurve, i) - UpTo(demandCurve, k)
      BY <1>1, <2>2, <2>7
    <3>6. q = b.quantity
      BY <2>3, <2>6, <3>1, <3>2, <3>3, <3>4, <3>5, SMTT(30) DEF Smaller
    <3> HIDE DEF b, q
    <3>7. remainingQuantity' = UpTo(demandCurve, i) - UpTo(demandCurve, k + 1)
      <4>1. /\ UpTo(demandCurve, i) \in Nat /\ UpTo(demandCurve, k) \in Nat
            /\ UpTo(demandCurve, k + 1) \in Nat
        BY <2>6, <3>1
      <4> QED BY <2>1, <2>3, <3>2, <3>5, <3>6, <4>1
    <3>8. Smaller(k, i) = k /\ Smaller(k + 1, i) = k + 1 /\ k + 1 <= i
      BY <1>1, <2>7 DEF Smaller
    <3>9. m \in Shares(BidData) /\ m.id = b.id /\ m.quantity = b.quantity
      BY <2>3, <3>6 DEF Shares
    <3>10. matchedBids' = Append(matchedBids, m) /\ Len(matchedBids) = k
      BY <2>1, <2>2, <2>3, <3>6, <3>8 DEF ServedWhole
    <3> HIDE DEF m
    <3>11. /\ Len(matchedBids') = k + 1
           /\ \A p \in 1..k : matchedBids'[p] = matchedBids[p]
           /\ matchedBids'[k + 1] = m
      BY <1>1, <3>9, <3>10, AppendProperties
    <3>12. \A p \in 1..(k + 1) : /\ matchedBids'[p].id = sortedBids'[p].id
                                 /\ matchedBids'[p].quantity = sortedBids'[p].quantity
      <4>1. \A p \in 1..(k + 1) : p \in 1..k \/ p = k + 1
        BY <1>1
      <4>2. \A p \in 1..k : /\ matchedBids[p].id = sortedBids[p].id
                            /\ matchedBids[p].quantity = sortedBids[p].quantity
        BY <2>2, <3>8 DEF ServedWhole
      <4> QED BY <2>1, <3>9, <3>11, <4>1, <4>2 DEF b
    <3> QED BY <1>1, <2>1, <2>4, <3>7, <3>8, <3>11, <3>12 DEF BidsInv, ServedWhole
  <2>8. CASE ~ k < i
    <3>1. remainingQuantity = 0
      <4>1. CASE k = i
        BY <2>2, <2>5, <2>6, <4>1
      <4>2. CASE k # i
        BY <1>1, <2>2, <2>8, <4>2
      <4> QED BY <4>1, <4>2
    <3>2. q = 0
      BY <2>3, <3>1 DEF Smaller
    <3>3. Smaller(k, i) = i /\ Smaller(k + 1, i) = i /\ ~ k + 1 <= i
      BY <1>1, <2>8 DEF Smaller
    <3> HIDE DEF q, m
    <3>4. matchedBids' = matchedBids /\ remainingQuantity' = 0
      BY <2>1, <3>1, <3>2
    <3> QED BY <1>1, <2>1, <2>2, <2>4, <3>3, <3>4 DEF BidsInv, ServedWhole
  <2> QED BY <2>7, <2>8
<1>5. CASE BidsAllocated
  <2>1. /\ pc = "bids" /\ pc' = "supplies" /\ matchedBids' = matchedBids /\ sortedBids' = sortedBids
    BY <1>5 DEF BidsAllocated, Enter
  <2>2. PICK i \in 1..Len(sortedBids) : k <= Len(sortedBids) /\ ServedWhole(Smaller(k, i))
    BY <2>1 DEF BidsInv
  <2>3. Smaller(k, i) \in 0..Len(sortedBids)
    BY <1>1, <2>2 DEF Smaller
  <2> QED BY <2>1, <2>2, <2>3 DEF BidsInv, ServedWhole
<1>6. CASE EmptyBook \/ NoMarketIntersection
  <2>1. /\ matchedBids' = matchedBids /\ sortedBids' = sortedBids /\ pc' = "done"
        /\ matchedBids = <<>>
    BY <1>6 DEF EmptyBook, NoMarketIntersection, ReturnNothing, Enter, BidsInv
  <2> QED BY <1>1, <1>2, <2>1 DEF BidsInv, ServedWhole
<1>7. CASE AllocateSupply \/ ReturnResult
  <2>1. /\ matchedBids' = matchedBids /\ sortedBids' = sortedBids /\ pc = "supplies"
        /\ pc' \in {"supplies", "done"}
    BY <1>7 DEF AllocateSupply, ReturnResult, Enter
  <2> QED BY <2>1 DEF BidsInv, ServedWhole
<1>8. CASE SortBook \/ BuildDemandCurve \/ BuildSupplyCurve \/ NextDemandPoint
  <2>1. /\ matchedBids' = matchedBids
        /\ {pc, pc'} \subseteq {"sort", "demand", "supply", "search"}
    BY <1>8 DEF SortBook, BuildDemandCurve, BuildSupplyCurve, NextDemandPoint, Enter
  <2> QED BY <2>1 DEF BidsInv
<1>9. CASE UNCHANGED vars
  BY <1>9 DEF vars, BidsInv, ServedWhole, ClearsAt
<1> QED BY <1>3, <1>4, <1>5, <1>6, <1>7, <1>8, <1>9 DEF Next

-----------------------------------------------------------------------------
(* The pass over the supply offers *)

\* The first n supply offers, and no others, are matched.
ServedFirst(n) ==
  /\ Len(matchedSupplies) = n
  /\ \A p \in 1..n : matchedSupplies[p].id = sortedSupplies[p].id

\* Nothing is left to serve, or supply offer i asks for more than the price.
PassOver(i) == remainingQuantity = 0 \/ sortedSupplies[i].reservePrice > intersection.price

SuppliesInv ==
  /\ pc \notin {"supplies", "done"} => matchedSupplies = <<>>
  /\ pc = "supplies" =>
       /\ k <= Len(sortedSupplies)
       /\ \E n \in 0..k : ServedFirst(n) /\ (n < k => PassOver(n + 1))
  /\ pc = "done" => \E n \in 0..Len(sortedSupplies) : ServedFirst(n)

LEMMA SuppliesInit == Init => SuppliesInv
BY DEF Init, SuppliesInv

LEMMA SuppliesStep ==
  ASSUME TypeOK, SortInv, SuppliesInv, [Next]_vars
  PROVE  SuppliesInv'
<1> USE DEF book, sorted, curves, allocation
<1>1. /\ sortedSupplies \in Seq(SupplyData) /\ Len(sortedSupplies) \in Nat
      /\ matchedSupplies \in Seq(Shares(SupplyData)) /\ Len(matchedSupplies) \in Nat
      /\ k \in Nat /\ remainingQuantity \in Nat /\ intersection.price \in Nat
  BY LenProperties DEF TypeOK
<1>2. matchedSupplies = <<>> => ServedFirst(0)
  BY EmptySeq DEF ServedFirst
<1>3. CASE BidsAllocated
  <2>1. /\ pc = "bids" /\ pc' = "supplies" /\ k' = 0
        /\ matchedSupplies' = matchedSupplies /\ sortedSupplies' = sortedSupplies
        /\ matchedSupplies = <<>>
    BY <1>3 DEF BidsAllocated, Enter, SuppliesInv
  <2> QED BY <1>1, <1>2, <2>1 DEF SuppliesInv, ServedFirst
<1>4. CASE AllocateSupply
  <2> DEFINE s == sortedSupplies[k + 1]
             q == IF s.reservePrice <= intersection.price
                  THEN Smaller(s.quantity, remainingQuantity) ELSE 0
             m == [id |-> s.id, quantity |-> q]
  <2>1. /\ pc = "supplies" /\ pc' = "supplies" /\ k < Len(sortedSupplies) /\ k' = k + 1
        /\ sortedSupplies' = sortedSupplies /\ intersection' = intersection
        /\ matchedSupplies' = IF q > 0 THEN Append(matchedSupplies, m) ELSE matchedSupplies
        /\ remainingQuantity' = remainingQuantity - q
    BY <1>4 DEF AllocateSupply
  <2>2. PICK n \in 0..k : ServedFirst(n) /\ (n < k => PassOver(n + 1))
    BY <2>1 DEF SuppliesInv
  <2>3. s \in SupplyData /\ s.quantity \in Nat \ {0} /\ s.reservePrice \in Nat
    BY <2>1, Entry
  <2>4. CASE q > 0
    <3>1. remainingQuantity # 0 /\ s.reservePrice <= intersection.price
      BY <1>1, <2>3, <2>4 DEF Smaller
    <3>2. n = k
      <4>1. SUFFICES ASSUME n < k PROVE FALSE
        BY <1>1
      <4>2. n + 1 \in 1..Len(sortedSupplies) /\ k + 1 \in 1..Len(sortedSupplies) /\ n + 1 < k + 1
        BY <1>1, <2>1, <4>1, SMTT(30)
      <4>3. sortedSupplies[n + 1].reservePrice <= s.reservePrice
        BY <4>2 DEF SortInv
      <4>4. sortedSupplies[n + 1].reservePrice > intersection.price
        BY <2>2, <3>1, <4>1 DEF PassOver
      <4>5. sortedSupplies[n + 1].reservePrice \in Nat
        BY <1>1, <4>2, ElementOfSeq, DataAssumption
      <4> QED BY <1>1, <2>3, <3>1, <4>3, <4>4, <4>5
    <3>3. q \in Nat \ {0}
      BY <1>1, <2>3, <2>4 DEF Smaller
    <3> HIDE DEF s, q
    <3>4. m \in Shares(SupplyData) /\ m.id = s.id
      BY <2>3, <3>3 DEF Shares
    <3>5. matchedSupplies' = Append(matchedSupplies, m) /\ Len(matchedSupplies) = k
      BY <2>1, <2>2, <2>4, <3>2 DEF ServedFirst
    <3> HIDE DEF m
    <3>6. /\ Len(matchedSupplies') = k + 1
          /\ \A p \in 1..k : matchedSupplies'[p] = matchedSupplies[p]
          /\ matchedSupplies'[k + 1] = m
      BY <1>1, <3>4, <3>5, AppendProperties
    <3>7. \A p \in 1..(k + 1) : matchedSupplies'[p].id = sortedSupplies'[p].id
      <4>1. \A p \in 1..(k + 1) : p \in 1..k \/ p = k + 1
        BY <1>1
      <4>2. \A p \in 1..k : matchedSupplies[p].id = sortedSupplies[p].id
        BY <2>2, <3>2 DEF ServedFirst
      <4> QED BY <2>1, <3>4, <3>6, <4>1, <4>2 DEF s
    <3>8. ServedFirst(k)'
      BY <2>1, <3>6, <3>7 DEF ServedFirst
    <3>9. k' \in 0..k' /\ ~ k' < k' /\ k' <= Len(sortedSupplies)
      BY <1>1, <2>1
    <3> QED BY <2>1, <3>8, <3>9 DEF SuppliesInv
  <2>5. CASE ~ q > 0
    <3>1. q = 0 /\ PassOver(k + 1)
      BY <1>1, <2>3, <2>5 DEF Smaller, PassOver
    <3> HIDE DEF s, q, m
    <3>2. matchedSupplies' = matchedSupplies /\ remainingQuantity' = remainingQuantity
      BY <1>1, <2>1, <2>5, <3>1
    <3>3. ServedFirst(n)'
      BY <2>1, <2>2, <3>2 DEF ServedFirst
    <3>4. PassOver(n + 1)'
      <4>1. PassOver(n + 1)
        BY <1>1, <2>2, <3>1
      <4> QED BY <2>1, <3>2, <4>1 DEF PassOver
    <3>5. n \in 0..(k + 1) /\ k + 1 <= Len(sortedSupplies)
      BY <1>1, <2>1
    <3> QED BY <2>1, <3>3, <3>4, <3>5 DEF SuppliesInv
  <2> QED BY <2>4, <2>5
<1>5. CASE ReturnResult
  <2>1. /\ pc = "supplies" /\ pc' = "done" /\ k = Len(sortedSupplies)
        /\ matchedSupplies' = matchedSupplies /\ sortedSupplies' = sortedSupplies
    BY <1>5 DEF ReturnResult, Enter
  <2> QED BY <2>1 DEF SuppliesInv, ServedFirst
<1>6. CASE EmptyBook \/ NoMarketIntersection
  <2>1. /\ matchedSupplies' = matchedSupplies /\ sortedSupplies' = sortedSupplies
        /\ pc' = "done" /\ matchedSupplies = <<>>
    BY <1>6 DEF EmptyBook, NoMarketIntersection, ReturnNothing, Enter, SuppliesInv
  <2> QED BY <1>1, <1>2, <2>1 DEF SuppliesInv, ServedFirst
<1>7. CASE SortBook \/ BuildDemandCurve \/ BuildSupplyCurve \/ FindIntersection
           \/ NextDemandPoint \/ AllocateBid
  <2>1. /\ matchedSupplies' = matchedSupplies
        /\ pc \notin {"supplies", "done"} /\ pc' \notin {"supplies", "done"}
    BY <1>7 DEF SortBook, BuildDemandCurve, BuildSupplyCurve, FindIntersection,
       NextDemandPoint, AllocateBid, Enter
  <2> QED BY <2>1 DEF SuppliesInv
<1>8. CASE UNCHANGED vars
  BY <1>8 DEF vars, SuppliesInv, ServedFirst, PassOver
<1> QED BY <1>3, <1>4, <1>5, <1>6, <1>7, <1>8 DEF Next

-----------------------------------------------------------------------------
(* The result *)

ResultInv ==
  pc = "done" => /\ result.matchedBids = Entries(matchedBids)
                 /\ result.matchedSupplies = Entries(matchedSupplies)

LEMMA ResultStep ==
  ASSUME TypeOK, BidsInv, SuppliesInv, ResultInv, [Next]_vars
  PROVE  ResultInv'
<1> USE DEF book, sorted, curves, allocation
<1>1. CASE EmptyBook \/ NoMarketIntersection
  <2>1. /\ matchedBids' = matchedBids /\ matchedSupplies' = matchedSupplies
        /\ matchedBids = <<>> /\ matchedSupplies = <<>>
        /\ result' = NothingCleared(bids, supplies)
    BY <1>1 DEF EmptyBook, NoMarketIntersection, ReturnNothing, BidsInv, SuppliesInv
  <2>2. result'.matchedBids = {} /\ result'.matchedSupplies = {}
    BY <2>1 DEF NothingCleared
  <2>3. Entries(matchedBids) = {} /\ Entries(matchedSupplies) = {}
    <3>1. DOMAIN matchedBids = {} /\ DOMAIN matchedSupplies = {}
      BY <2>1, EmptySeq
    <3> QED BY <3>1 DEF Entries
  <2>4. Entries(matchedBids)' = {} /\ Entries(matchedSupplies)' = {}
    BY <2>1, <2>3 DEF Entries
  <2> QED BY <2>2, <2>4 DEF ResultInv
<1>2. CASE ReturnResult
  BY <1>2 DEF ReturnResult, ResultInv, Entries
<1>3. CASE ~ EmptyBook /\ ~ NoMarketIntersection /\ ~ ReturnResult
  <2>1. pc' # "done" \/ UNCHANGED vars
    BY <1>3 DEF Next, vars, SortBook, BuildDemandCurve, BuildSupplyCurve, FindIntersection,
       NextDemandPoint, AllocateBid, BidsAllocated, AllocateSupply, Enter
  <2> QED BY <2>1 DEF ResultInv, vars, Entries
<1> QED BY <1>1, <1>2, <1>3

-----------------------------------------------------------------------------
(* The book being cleared *)

\* The sorted book is a listing of the rows from the sort to the last pass.
ListedInv ==
  pc \notin {"sort", "done"} =>
    sortedBids \in SortedBids(bids) /\ sortedSupplies \in SortedSupplies(supplies)

LEMMA ListedStep ==
  ASSUME TypeOK, ListedInv, [Next]_vars
  PROVE  ListedInv'
<1> USE DEF book, sorted, curves, allocation
<1>1. CASE SortBook
  BY <1>1 DEF SortBook, ListedInv
<1>2. CASE ~ SortBook
  <2>1. /\ sortedBids' = sortedBids /\ sortedSupplies' = sortedSupplies
        /\ bids' = bids /\ supplies' = supplies
        /\ pc \in {"sort", "done"} => pc' \in {"sort", "done"}
    BY <1>2 DEF Next, vars, EmptyBook, BuildDemandCurve, BuildSupplyCurve, FindIntersection,
       NextDemandPoint, NoMarketIntersection, AllocateBid, BidsAllocated, AllocateSupply,
       ReturnResult, Enter, ReturnNothing
  <2> QED BY <2>1 DEF ListedInv
<1> QED BY <1>1, <1>2

LEMMA BookIsBook ==
  ASSUME TypeOK, BookInv
  PROVE  IsBook(bids, supplies)
BY DataAssumption DEF TypeOK, BookInv, IsBook

\* The two sides, as the theorems about totals and passes have them.
LEMMA SidesListed ==
  ASSUME TypeOK, BookInv, sortedBids \in SortedBids(bids), sortedSupplies \in SortedSupplies(supplies)
  PROVE  /\ Side(sortedBids, Len(sortedBids)) /\ Len(sortedBids) = Cardinality(bids)
         /\ Side(sortedSupplies, Len(sortedSupplies)) /\ Len(sortedSupplies) = Cardinality(supplies)
         /\ DOMAIN sortedBids = 1..Len(sortedBids)
         /\ DOMAIN sortedSupplies = 1..Len(sortedSupplies)
         /\ Len(sortedBids) \in Nat /\ Len(sortedSupplies) \in Nat
<1>1. /\ sortedBids \in Seq(BidData) /\ sortedSupplies \in Seq(SupplyData)
  BY DEF TypeOK
<1>2. /\ Len(sortedBids) \in Nat /\ DOMAIN sortedBids = 1..Len(sortedBids)
      /\ Len(sortedSupplies) \in Nat /\ DOMAIN sortedSupplies = 1..Len(sortedSupplies)
  BY <1>1, LenProperties
<1>3. Side(sortedBids, Cardinality(bids)) /\ Side(sortedSupplies, Cardinality(supplies))
  BY BookIsBook, BidSide, SupplySide
<1>4. Len(sortedBids) = Cardinality(bids)
  <2> DEFINE m == Len(sortedBids)
             n == Cardinality(bids)
  <2>1. 1..m = 1..n /\ m \in Nat /\ n \in Nat
    BY <1>2, <1>3 DEF Side
  <2> HIDE DEF m, n
  <2>2. m = n
    BY <2>1, FS_Interval
  <2> QED BY <2>2 DEF m, n
<1>5. Len(sortedSupplies) = Cardinality(supplies)
  <2> DEFINE m == Len(sortedSupplies)
             n == Cardinality(supplies)
  <2>1. 1..m = 1..n /\ m \in Nat /\ n \in Nat
    BY <1>2, <1>3 DEF Side
  <2> HIDE DEF m, n
  <2>2. m = n
    BY <2>1, FS_Interval
  <2> QED BY <2>2 DEF m, n
<1> QED BY <1>2, <1>3, <1>4, <1>5

-----------------------------------------------------------------------------
(* The curves are those of the sorted book *)

\* The demand curve's points are the totals of the first bids.
LEMMA DemandPoints ==
  ASSUME TypeOK, CurveInv, Side(sortedBids, Len(sortedBids)), NEW n \in 0..Len(demandCurve)
  PROVE  UpTo(demandCurve, n) = Cumulative(sortedBids, n)
<1> DEFINE Good == {m \in Nat : m <= Len(demandCurve) =>
                                  UpTo(demandCurve, m) = Cumulative(sortedBids, m)}
<1>1. /\ Len(demandCurve) \in Nat /\ Len(sortedBids) \in Nat
      /\ Len(demandCurve) <= Len(sortedBids)
      /\ \A m \in 1..Len(demandCurve) :
            UpTo(demandCurve, m) = UpTo(demandCurve, m - 1) + sortedBids[m].quantity
  BY LenProperties DEF TypeOK, CurveInv
<1>2. 0 \in Good
  <2>1. Cumulative(sortedBids, 0) = 0
    <3>1. 0 \in 0..Len(sortedBids)
      BY <1>1
    <3> QED BY <3>1, CurveFacts
  <2> QED BY <2>1 DEF UpTo
<1>3. ASSUME NEW m \in Nat, m \in Good PROVE m + 1 \in Good
  <2> SUFFICES ASSUME m + 1 <= Len(demandCurve)
               PROVE  UpTo(demandCurve, m + 1) = Cumulative(sortedBids, m + 1)
    OBVIOUS
  <2>1. /\ m + 1 \in 1..Len(demandCurve) /\ (m + 1) - 1 = m
        /\ m \in 0..Len(sortedBids) /\ m < Len(sortedBids) /\ m <= Len(demandCurve)
    BY <1>1
  <2>2. UpTo(demandCurve, m + 1) = UpTo(demandCurve, m) + sortedBids[m + 1].quantity
    BY <1>1, <2>1
  <2>3. Cumulative(sortedBids, m + 1) = Cumulative(sortedBids, m) + sortedBids[m + 1].quantity
    BY <2>1, CurveFacts
  <2>4. UpTo(demandCurve, m) = Cumulative(sortedBids, m)
    BY <1>3, <2>1
  <2> QED BY <2>2, <2>3, <2>4
<1> HIDE DEF Good
<1>4. Nat \subseteq Good
  BY <1>2, <1>3, SetInduction
<1>5. n \in Nat /\ n <= Len(demandCurve)
  BY <1>1
<1>6. n \in Good
  BY <1>4, <1>5
<1> QED BY <1>5, <1>6 DEF Good

SupplyCurveInv ==
  /\ pc \in {"sort", "demand"} => supplyCurve = <<>>
  /\ pc \notin {"sort", "done"} =>
       /\ Len(supplyCurve) <= Len(sortedSupplies)
       /\ \A n \in 1..Len(supplyCurve) :
            /\ supplyCurve[n].price = sortedSupplies[n].reservePrice
            /\ supplyCurve[n].cumulativeQuantity = Cumulative(sortedSupplies, n)
  /\ pc = "supply" => /\ k = Len(supplyCurve)
                      /\ cumulativeQuantity = Cumulative(sortedSupplies, k)
  /\ pc \in {"search", "bids", "supplies"} => Len(supplyCurve) = Len(sortedSupplies)

LEMMA SupplyCurveStep ==
  ASSUME TypeOK, BookInv, ListedInv, SupplyCurveInv, [Next]_vars
  PROVE  SupplyCurveInv'
<1> USE DEF book, sorted, curves, allocation
<1>1. /\ supplyCurve \in Seq(CurvePoints) /\ Len(supplyCurve) \in Nat
      /\ sortedSupplies \in Seq(SupplyData) /\ Len(sortedSupplies) \in Nat
      /\ k \in Nat /\ cumulativeQuantity \in Nat
  BY LenProperties DEF TypeOK
<1>2. CASE SortBook
  <2>1. supplyCurve = <<>> /\ supplyCurve' = <<>> /\ pc' = "demand"
    BY <1>2 DEF SortBook, Enter, SupplyCurveInv
  <2>2. Len(supplyCurve') = 0 /\ Len(sortedSupplies') \in Nat
    <3>1. TypeOK'
      BY ClearingTypes
    <3> QED BY <2>1, <3>1, EmptySeq, LenProperties DEF TypeOK
  <2> QED BY <2>1, <2>2 DEF SupplyCurveInv
<1>3. CASE BuildDemandCurve
  <2>1. /\ pc = "demand" /\ pc' \in {"demand", "supply"}
        /\ supplyCurve' = supplyCurve /\ sortedSupplies' = sortedSupplies
        /\ pc' = "supply" => k' = 0 /\ cumulativeQuantity' = 0
    BY <1>3 DEF BuildDemandCurve, Enter
  <2>2. supplyCurve = <<>> /\ Len(supplyCurve) = 0
    BY <2>1, EmptySeq DEF SupplyCurveInv
  <2>3. Cumulative(sortedSupplies, 0) = 0
    <3>1. Side(sortedSupplies, Len(sortedSupplies)) /\ 0 \in 0..Len(sortedSupplies)
      BY <1>1, <2>1, SidesListed DEF ListedInv
    <3> QED BY <3>1, CurveFacts
  <2> QED BY <1>1, <2>1, <2>2, <2>3 DEF SupplyCurveInv
<1>4. CASE BuildSupplyCurve /\ k < Len(sortedSupplies)
  <2> DEFINE s == sortedSupplies[k + 1]
             q == cumulativeQuantity + s.quantity
             p == [price |-> s.reservePrice, cumulativeQuantity |-> q]
  <2>1. /\ supplyCurve' = Append(supplyCurve, p) /\ cumulativeQuantity' = q /\ k' = k + 1
        /\ pc = "supply" /\ pc' = "supply" /\ sortedSupplies' = sortedSupplies
    BY <1>4 DEF BuildSupplyCurve
  <2>2. k = Len(supplyCurve) /\ cumulativeQuantity = Cumulative(sortedSupplies, k)
    BY <2>1 DEF SupplyCurveInv
  <2>3. s.quantity \in Nat /\ s.reservePrice \in Nat
    BY <1>4, Entry
  <2>4. p \in CurvePoints /\ p.price = s.reservePrice /\ p.cumulativeQuantity = q
    BY <1>1, <2>3 DEF CurvePoints
  <2>5. q = Cumulative(sortedSupplies, k + 1)
    <3>1. Side(sortedSupplies, Len(sortedSupplies)) /\ k \in 0..Len(sortedSupplies)
      BY <1>1, <1>4, <2>1, SidesListed DEF ListedInv
    <3> QED BY <1>4, <2>2, <3>1, CurveFacts
  <2> HIDE DEF p, q
  <2>6. /\ Len(supplyCurve') = k + 1
        /\ \A i \in 1..k : supplyCurve'[i] = supplyCurve[i]
        /\ supplyCurve'[k + 1] = p
    BY <1>1, <2>1, <2>2, <2>4, AppendProperties
  <2> HIDE DEF s
  <2>7. \A n \in 1..(k + 1) :
          /\ supplyCurve'[n].price = sortedSupplies[n].reservePrice
          /\ supplyCurve'[n].cumulativeQuantity = Cumulative(sortedSupplies, n)
    <3>1. ASSUME NEW n \in 1..k
          PROVE  /\ supplyCurve'[n].price = sortedSupplies[n].reservePrice
                 /\ supplyCurve'[n].cumulativeQuantity = Cumulative(sortedSupplies, n)
      BY <2>1, <2>2, <2>6 DEF SupplyCurveInv
    <3>2. /\ supplyCurve'[k + 1].price = sortedSupplies[k + 1].reservePrice
          /\ supplyCurve'[k + 1].cumulativeQuantity = Cumulative(sortedSupplies, k + 1)
      BY <2>4, <2>5, <2>6 DEF s
    <3>3. \A n \in 1..(k + 1) : n \in 1..k \/ n = k + 1
      BY <1>1
    <3> QED BY <3>1, <3>2, <3>3
  <2>8. k + 1 <= Len(sortedSupplies)
    BY <1>1, <1>4
  <2> QED BY <2>1, <2>5, <2>6, <2>7, <2>8 DEF SupplyCurveInv
<1>5. CASE BuildSupplyCurve /\ ~ k < Len(sortedSupplies)
  <2>1. /\ supplyCurve' = supplyCurve /\ sortedSupplies' = sortedSupplies
        /\ pc = "supply" /\ pc' = "search"
    BY <1>5 DEF BuildSupplyCurve, Enter
  <2>2. Len(supplyCurve) = Len(sortedSupplies)
    BY <1>1, <1>5, <2>1 DEF SupplyCurveInv
  <2> QED BY <2>1, <2>2 DEF SupplyCurveInv
<1>6. CASE ~ SortBook /\ ~ BuildDemandCurve /\ ~ BuildSupplyCurve
  <2>1. /\ supplyCurve' = supplyCurve /\ sortedSupplies' = sortedSupplies
        /\ pc' \in {"sort", "demand", "supply"} =>
             pc' = pc /\ k' = k /\ cumulativeQuantity' = cumulativeQuantity
        /\ pc' \in {"search", "bids", "supplies"} => pc \in {"search", "bids", "supplies"}
    <3>1. CASE EmptyBook \/ NoMarketIntersection \/ ReturnResult \/ UNCHANGED vars
      BY <3>1, SMTT(30) DEF EmptyBook, NoMarketIntersection, ReturnResult, vars, Enter, ReturnNothing
    <3>2. CASE FindIntersection \/ NextDemandPoint
      BY <3>2, SMTT(30) DEF FindIntersection, NextDemandPoint, Enter
    <3>3. CASE AllocateBid \/ BidsAllocated \/ AllocateSupply
      BY <3>3, SMTT(30) DEF AllocateBid, BidsAllocated, AllocateSupply, Enter
    <3> QED BY <1>6, <3>1, <3>2, <3>3 DEF Next
  <2>2. pc' \in Loops
    BY ClearingTypes DEF TypeOK
  <2> QED BY <2>1, <2>2 DEF SupplyCurveInv, Loops
<1> QED BY <1>2, <1>3, <1>4, <1>5, <1>6

-----------------------------------------------------------------------------
(* The search *)

\* What the search tests is whether the curves of the sorted book meet.
LEMMA MeetsAtIs ==
  ASSUME TypeOK, BookInv, ListedInv, CurveInv, SupplyCurveInv, pc = "search", k < Len(demandCurve),
         NEW j
  PROVE  /\ DOMAIN supplyCurve = DOMAIN sortedSupplies
         /\ k + 1 \in DOMAIN sortedBids
         /\ j \in DOMAIN supplyCurve =>
              /\ MeetsAt(j) <=> Meets(sortedBids, sortedSupplies, k + 1, j)
              /\ supplyCurve[j].price = sortedSupplies[j].reservePrice
              /\ supplyCurve[j].cumulativeQuantity = Cumulative(sortedSupplies, j)
              /\ demandCurve[k + 1].cumulativeQuantity = Cumulative(sortedBids, k + 1)
<1>1. /\ supplyCurve \in Seq(CurvePoints) /\ demandCurve \in Seq(CurvePoints) /\ k \in Nat
      /\ Len(supplyCurve) \in Nat /\ Len(demandCurve) \in Nat /\ DOMAIN supplyCurve = 1..Len(supplyCurve)
  BY LenProperties DEF TypeOK
<1>2. /\ Side(sortedBids, Len(sortedBids))
      /\ DOMAIN sortedBids = 1..Len(sortedBids) /\ DOMAIN sortedSupplies = 1..Len(sortedSupplies)
  BY SidesListed DEF ListedInv
<1>3. Len(supplyCurve) = Len(sortedSupplies) /\ Len(demandCurve) = Len(sortedBids)
  BY DEF SupplyCurveInv, CurveInv
<1>4. k + 1 \in 1..Len(demandCurve) /\ k + 1 \in 0..Len(demandCurve) /\ k + 1 # 0
  BY <1>1
<1>5. demandCurve[k + 1].cumulativeQuantity = Cumulative(sortedBids, k + 1)
  <2>1. UpTo(demandCurve, k + 1) = Cumulative(sortedBids, k + 1)
    BY <1>2, <1>4, DemandPoints
  <2> QED BY <1>4, <2>1 DEF UpTo
<1>6. demandCurve[k + 1].price = sortedBids[k + 1].price
  BY <1>4 DEF CurveInv
<1>7. \A n \in 1..Len(supplyCurve) :
        /\ supplyCurve[n].price = sortedSupplies[n].reservePrice
        /\ supplyCurve[n].cumulativeQuantity = Cumulative(sortedSupplies, n)
  BY DEF SupplyCurveInv
<1>8. ASSUME j \in DOMAIN supplyCurve
      PROVE  MeetsAt(j) <=> Meets(sortedBids, sortedSupplies, k + 1, j)
  <2>1. j \in 1..Len(supplyCurve) /\ \A i \in 1..(j - 1) : i \in 1..Len(supplyCurve)
    BY <1>1, <1>8
  <2>2. \A i \in 1..(j - 1) : supplyCurve[i].cumulativeQuantity = Cumulative(sortedSupplies, i)
    BY <1>7, <2>1
  <2>3. /\ supplyCurve[j].price = sortedSupplies[j].reservePrice
        /\ supplyCurve[j].cumulativeQuantity = Cumulative(sortedSupplies, j)
    BY <1>7, <2>1
  <2> QED BY <1>5, <1>6, <1>8, <2>2, <2>3 DEF MeetsAt, Covers, Meets
<1> QED BY <1>1, <1>2, <1>3, <1>4, <1>5, <1>7, <1>8

\* None of the demand points already tried meets a supply point.
SearchInv ==
  pc = "search" =>
    /\ k <= Len(demandCurve)
    /\ \A i \in 1..k, j \in DOMAIN sortedSupplies : ~ Meets(sortedBids, sortedSupplies, i, j)

LEMMA SearchStep ==
  ASSUME TypeOK, BookInv, ListedInv, CurveInv, SupplyCurveInv, SearchInv, [Next]_vars
  PROVE  SearchInv'
<1> USE DEF book, sorted, curves, allocation
<1>1. k \in Nat /\ Len(demandCurve) \in Nat
  BY LenProperties DEF TypeOK
<1>2. CASE NextDemandPoint
  <2>1. /\ pc = "search" /\ k < Len(demandCurve) /\ k' = k + 1 /\ UNCHANGED <<sorted, demandCurve>>
        /\ ~ \E j \in DOMAIN supplyCurve : MeetsAt(j)
    BY <1>2 DEF NextDemandPoint
  <2>2. ASSUME NEW j \in DOMAIN sortedSupplies
        PROVE  ~ Meets(sortedBids, sortedSupplies, k + 1, j)
    BY <2>1, MeetsAtIs
  <2>3. \A i \in 1..(k + 1) : i \in 1..k \/ i = k + 1
    BY <1>1
  <2>4. k + 1 <= Len(demandCurve)
    BY <1>1, <2>1
  <2>5. \A i \in 1..(k + 1), j \in DOMAIN sortedSupplies : ~ Meets(sortedBids, sortedSupplies, i, j)
    BY <2>1, <2>2, <2>3 DEF SearchInv
  <2> QED BY <2>1, <2>4, <2>5 DEF SearchInv
<1>3. CASE BuildSupplyCurve
  <2>1. pc' = "search" => k' = 0 /\ UNCHANGED <<sorted, demandCurve>>
    BY <1>3 DEF BuildSupplyCurve, Enter
  <2>2. \A i \in 1..0 : FALSE
    OBVIOUS
  <2> QED BY <1>1, <2>1, <2>2 DEF SearchInv
<1>4. CASE ~ NextDemandPoint /\ ~ BuildSupplyCurve
  <2>1. pc' = "search" => UNCHANGED <<pc, k, sorted, demandCurve>>
    <3>1. CASE EmptyBook \/ NoMarketIntersection \/ ReturnResult \/ UNCHANGED vars
      BY <3>1, SMTT(30) DEF EmptyBook, NoMarketIntersection, ReturnResult, vars, Enter, ReturnNothing
    <3>2. CASE SortBook \/ BuildDemandCurve \/ FindIntersection
      BY <3>2, SMTT(30) DEF SortBook, BuildDemandCurve, FindIntersection, Enter
    <3>3. CASE AllocateBid \/ BidsAllocated \/ AllocateSupply
      BY <3>3, SMTT(30) DEF AllocateBid, BidsAllocated, AllocateSupply, Enter
    <3> QED BY <1>4, <3>1, <3>2, <3>3 DEF Next
  <2> QED BY <2>1 DEF SearchInv
<1> QED BY <1>2, <1>3, <1>4

\* The point at which the sorted book clears, as the search left it.
PointAt(i, j) ==
  /\ Intersects(sortedBids, sortedSupplies, i, j)
  /\ intersection = [price    |-> sortedSupplies[j].reservePrice,
                     quantity |-> Smaller(Cumulative(sortedBids, i), Cumulative(sortedSupplies, j))]

PointInv ==
  pc \in {"bids", "supplies"} =>
    \E i \in DOMAIN sortedBids, j \in DOMAIN sortedSupplies : PointAt(i, j)

LEMMA PointFound ==
  ASSUME TypeOK, BookInv, ListedInv, CurveInv, SupplyCurveInv, SearchInv, FindIntersection
  PROVE  PointInv' /\ remainingQuantity' = intersection'.quantity
<1> USE DEF book, sorted, curves, allocation
<1>1. /\ pc = "search" /\ k < Len(demandCurve) /\ UNCHANGED sorted /\ k \in Nat
  BY DEF FindIntersection, TypeOK
<1>2. PICK j \in DOMAIN supplyCurve :
        /\ MeetsAt(j)
        /\ intersection' = [price    |-> supplyCurve[j].price,
                            quantity |-> Smaller(demandCurve[k + 1].cumulativeQuantity,
                                                 supplyCurve[j].cumulativeQuantity)]
        /\ remainingQuantity' = intersection'.quantity
  BY DEF FindIntersection
<1>3. /\ k + 1 \in DOMAIN sortedBids /\ j \in DOMAIN sortedSupplies
      /\ Meets(sortedBids, sortedSupplies, k + 1, j)
      /\ intersection' = [price    |-> sortedSupplies[j].reservePrice,
                          quantity |-> Smaller(Cumulative(sortedBids, k + 1),
                                               Cumulative(sortedSupplies, j))]
  BY <1>1, <1>2, MeetsAtIs
<1>4. \A i \in 1..((k + 1) - 1), l \in DOMAIN sortedSupplies :
        ~ Meets(sortedBids, sortedSupplies, i, l)
  <2>1. (k + 1) - 1 = k
    BY <1>1
  <2> QED BY <1>1, <2>1 DEF SearchInv
<1>5. Intersects(sortedBids, sortedSupplies, k + 1, j)
  BY <1>3, <1>4 DEF Intersects
<1> HIDE DEF sorted
<1>6. /\ sortedBids' = sortedBids /\ sortedSupplies' = sortedSupplies
  BY <1>1 DEF sorted
<1>7. PICK i : i = k + 1
  OBVIOUS
<1>8. /\ i \in DOMAIN sortedBids' /\ j \in DOMAIN sortedSupplies'
      /\ PointAt(i, j)'
  BY <1>3, <1>5, <1>6, <1>7 DEF PointAt
<1> QED BY <1>2, <1>8 DEF PointInv

LEMMA PointStep ==
  ASSUME TypeOK, BookInv, ListedInv, CurveInv, SupplyCurveInv, SearchInv, PointInv, [Next]_vars
  PROVE  PointInv'
<1> USE DEF book, sorted, curves, allocation
<1>1. CASE FindIntersection
  BY <1>1, PointFound
<1>2. CASE ~ FindIntersection
  <2>1. pc' \in {"bids", "supplies"} =>
          pc \in {"bids", "supplies"} /\ UNCHANGED <<sorted, intersection>>
    <3>1. CASE EmptyBook \/ NoMarketIntersection \/ ReturnResult \/ UNCHANGED vars
      BY <3>1, SMTT(30) DEF EmptyBook, NoMarketIntersection, ReturnResult, vars, Enter, ReturnNothing
    <3>2. CASE SortBook \/ BuildDemandCurve \/ BuildSupplyCurve \/ NextDemandPoint
      BY <3>2, SMTT(30) DEF SortBook, BuildDemandCurve, BuildSupplyCurve, NextDemandPoint, Enter
    <3>3. CASE AllocateBid \/ BidsAllocated \/ AllocateSupply
      BY <3>3, SMTT(30) DEF AllocateBid, BidsAllocated, AllocateSupply, Enter
    <3> QED BY <1>2, <3>1, <3>2, <3>3 DEF Next
  <2> QED BY <2>1 DEF PointInv, PointAt
<1> QED BY <1>1, <1>2

-----------------------------------------------------------------------------
(* The passes give what a merit-order clearing gives *)

\* A pass over the side s has come to position i: the entries it has served and
\* the quantity it left unmet so far.
PassedTo(s, ok, q, i, matched, unmet) ==
  Entries(matched) = ServedBefore(s, ok, q, i) /\ unmet = UnmetBefore(s, ok, q, i)

BidsPassed(i) ==
  PassedTo(sortedBids, BidsIn(sortedBids, intersection.price), intersection.quantity, i,
           matchedBids, unmetDemand)

SuppliesPassed(i) ==
  PassedTo(sortedSupplies, OffersIn(sortedSupplies, intersection.price), intersection.quantity, i,
           matchedSupplies, unmetSupply)

PassInv ==
  /\ pc \notin {"bids", "supplies", "done"} => unmetDemand = 0
  /\ pc \notin {"supplies", "done"} => unmetSupply = 0
  /\ pc = "bids" =>
       /\ k <= Len(sortedBids)
       /\ BidsPassed(k + 1)
       /\ remainingQuantity = LeftBefore(sortedBids, BidsIn(sortedBids, intersection.price),
                                         intersection.quantity, k + 1)
  /\ pc = "supplies" =>
       /\ k <= Len(sortedSupplies)
       /\ BidsPassed(Len(sortedBids) + 1)
       /\ SuppliesPassed(k + 1)
       /\ remainingQuantity = LeftBefore(sortedSupplies,
                                         OffersIn(sortedSupplies, intersection.price),
                                         intersection.quantity, k + 1)

\* Appending an entry adds it to the set.
LEMMA EntriesAppend ==
  ASSUME NEW S, NEW s \in Seq(S), NEW e \in S
  PROVE  Entries(Append(s, e)) = Entries(s) \cup {e}
<1> DEFINE a == Append(s, e)
<1>1. /\ Len(s) \in Nat /\ a \in Seq(S) /\ Len(a) = Len(s) + 1
      /\ \A i \in 1..Len(s) : a[i] = s[i]
      /\ a[Len(s) + 1] = e
  BY AppendProperties, LenProperties
<1>2. DOMAIN s = 1..Len(s) /\ DOMAIN a = 1..(Len(s) + 1)
  BY <1>1, LenProperties
<1> HIDE DEF a
<1>3. 1..(Len(s) + 1) = 1..Len(s) \cup {Len(s) + 1}
  BY <1>1
<1>4. Entries(a) = {a[i] : i \in 1..Len(s)} \cup {e}
  BY <1>1, <1>2, <1>3 DEF Entries
<1>5. {a[i] : i \in 1..Len(s)} = Entries(s)
  BY <1>1, <1>2 DEF Entries
<1> QED BY <1>4, <1>5 DEF a

LEMMA EntriesEmpty == Entries(<<>>) = {}
<1>1. DOMAIN <<>> = {}
  BY EmptySeq
<1> QED BY <1>1 DEF Entries

\* One iteration of a pass: the entry's share is appended, and the rest is unmet.
LEMMA PassIteration ==
  ASSUME NEW s, NEW n, Side(s, n), NEW ok \in SUBSET (1..n), NEW q \in Nat,
         NEW i \in 1..n, NEW D, s[i] \in D,
         NEW m \in Seq(Shares(D)), NEW u, PassedTo(s, ok, q, i, m, u), NEW m1,
         Share(s, ok, q, i) > 0 =>
            m1 = Append(m, [id |-> s[i].id, quantity |-> Share(s, ok, q, i)]),
         ~ Share(s, ok, q, i) > 0 => m1 = m
  PROVE  PassedTo(s, ok, q, i + 1, m1, u + (s[i].quantity - Share(s, ok, q, i)))
<1> DEFINE x == Share(s, ok, q, i)
           e == [id |-> s[i].id, quantity |-> x]
           before == ServedBefore(s, ok, q, i)
           after == ServedBefore(s, ok, q, i + 1)
<1>1. x \in Nat /\ UnmetBefore(s, ok, q, i + 1) = u + (s[i].quantity - x)
  BY PassStep DEF PassedTo
<1>2. (x > 0 => after = before \cup {e}) /\ (~ x > 0 => after = before)
  BY ONLY Side(s, n), ok \in SUBSET (1..n), q \in Nat, i \in 1..n, ServedStep
<1>3. x > 0 => e \in Shares(D)
  BY <1>1 DEF Shares
<1>4. (x > 0 => m1 = Append(m, e)) /\ (~ x > 0 => m1 = m) /\ Entries(m) = before
  BY DEF PassedTo
<1> HIDE DEF x, e, before, after
<1>5. x > 0 => Entries(m1) = Entries(m) \cup {e}
  <2> SUFFICES ASSUME x > 0 PROVE Entries(m1) = Entries(m) \cup {e}
    OBVIOUS
  <2>1. e \in Shares(D) /\ m1 = Append(m, e)
    BY <1>3, <1>4
  <2>2. Entries(Append(m, e)) = Entries(m) \cup {e}
    BY <2>1, EntriesAppend
  <2> QED BY <2>1, <2>2
<1>6. Entries(m1) = after
  BY <1>2, <1>4, <1>5
<1> QED BY <1>1, <1>6 DEF PassedTo, after, x

LEMMA PassBegins ==
  ASSUME NEW s, NEW n, Side(s, n), NEW ok \in SUBSET (1..n), NEW q \in Nat
  PROVE  PassedTo(s, ok, q, 1, <<>>, 0) /\ LeftBefore(s, ok, q, 1) = q
BY PassStart, EntriesEmpty DEF PassedTo

\* The positions the passes accept.
LEMMA AcceptedIn ==
  ASSUME NEW s, NEW n, Side(s, n), NEW price
  PROVE  /\ BidsIn(s, price) \in SUBSET (1..n) /\ OffersIn(s, price) \in SUBSET (1..n)
         /\ \A p \in 1..n : /\ p \in BidsIn(s, price) <=> s[p].price >= price
                            /\ p \in OffersIn(s, price) <=> s[p].reservePrice <= price
BY DEF Side, BidsIn, OffersIn

LEMMA BidsPassStep ==
  ASSUME TypeOK, BookInv, ListedInv, PassInv, AllocateBid
  PROVE  PassInv'
<1> USE DEF book, sorted, curves, allocation
<1>1. PICK i : i = k + 1
  OBVIOUS
<1> DEFINE s == sortedBids
           ok == BidsIn(sortedBids, intersection.price)
           q == intersection.quantity
           left == remainingQuantity
           x == IF s[i].price >= intersection.price
                THEN Smaller(s[i].quantity, left) ELSE 0
           row == [id |-> s[i].id, quantity |-> x]
<1>2. /\ pc = "bids" /\ pc' = "bids" /\ k < Len(sortedBids) /\ k' = k + 1
      /\ UNCHANGED <<sorted, intersection, unmetSupply>>
      /\ matchedBids' = IF x > 0 THEN Append(matchedBids, row) ELSE matchedBids
      /\ remainingQuantity' = left - x
      /\ unmetDemand' = unmetDemand + (s[i].quantity - x)
  BY <1>1 DEF AllocateBid
<1>3. /\ k \in Nat /\ q \in Nat /\ matchedBids \in Seq(Shares(BidData))
      /\ s[i] \in BidData
  BY <1>1, <1>2, Entry DEF TypeOK
<1>4. Side(s, Len(s)) /\ Len(s) \in Nat
  BY <1>2, SidesListed, LenProperties DEF ListedInv, TypeOK
<1>5. i \in 1..Len(s) /\ k' <= Len(s) /\ k' + 1 = i + 1
  BY <1>1, <1>2, <1>3, <1>4
<1>6. ok \in SUBSET (1..Len(s)) /\ (i \in ok <=> s[i].price >= intersection.price)
  BY <1>4, <1>5, AcceptedIn
<1>7. /\ PassedTo(s, ok, q, i, matchedBids, unmetDemand)
      /\ left = LeftBefore(s, ok, q, i)
  BY <1>1, <1>2 DEF PassInv, BidsPassed
<1>8. x = Share(s, ok, q, i)
  BY <1>6, <1>7 DEF Share
<1>9. (x > 0 => matchedBids' = Append(matchedBids, row)) /\ (~ x > 0 => matchedBids' = matchedBids)
  BY <1>2
<1> HIDE DEF s, ok, q, x, left
<1>10. remainingQuantity' = LeftBefore(s, ok, q, i + 1)
  <2>1. LeftBefore(s, ok, q, i + 1) = LeftBefore(s, ok, q, i) - Share(s, ok, q, i)
    BY <1>3, <1>4, <1>5, <1>6, PassStep
  <2> QED BY <1>2, <1>7, <1>8, <2>1
<1>11. PassedTo(s, ok, q, i + 1, matchedBids', unmetDemand')
  <2>1. PassedTo(s, ok, q, i + 1, matchedBids', unmetDemand + (s[i].quantity - Share(s, ok, q, i)))
    BY <1>3, <1>4, <1>5, <1>6, <1>7, <1>8, <1>9, PassIteration
  <2> QED BY <1>2, <1>8, <2>1
<1>12. sortedBids' = s /\ BidsIn(sortedBids, intersection.price)' = ok /\ intersection'.quantity = q
  BY <1>2 DEF s, ok, q, BidsIn
<1>13. BidsPassed(i + 1)'
  BY <1>11, <1>12 DEF BidsPassed, PassedTo, Entries
<1>14. remainingQuantity' = LeftBefore(sortedBids', BidsIn(sortedBids', intersection'.price),
                                       intersection'.quantity, i + 1)
  BY <1>10, <1>12 DEF BidsIn
<1>15. unmetSupply' = 0
  BY <1>2 DEF PassInv
<1>16. k' <= Len(sortedBids')
  BY <1>5, <1>12
<1> QED BY <1>2, <1>5, <1>13, <1>14, <1>15, <1>16 DEF PassInv

LEMMA SuppliesPassStep ==
  ASSUME TypeOK, BookInv, ListedInv, PassInv, AllocateSupply
  PROVE  PassInv'
<1> USE DEF book, sorted, curves, allocation
<1>1. PICK i : i = k + 1
  OBVIOUS
<1> DEFINE s == sortedSupplies
           ok == OffersIn(sortedSupplies, intersection.price)
           q == intersection.quantity
           left == remainingQuantity
           x == IF s[i].reservePrice <= intersection.price
                THEN Smaller(s[i].quantity, left) ELSE 0
           row == [id |-> s[i].id, quantity |-> x]
<1>2. /\ pc = "supplies" /\ pc' = "supplies" /\ k < Len(sortedSupplies) /\ k' = k + 1
      /\ UNCHANGED <<sorted, intersection, matchedBids, unmetDemand>>
      /\ matchedSupplies' = IF x > 0 THEN Append(matchedSupplies, row) ELSE matchedSupplies
      /\ remainingQuantity' = left - x
      /\ unmetSupply' = unmetSupply + (s[i].quantity - x)
  BY <1>1 DEF AllocateSupply
<1>3. /\ k \in Nat /\ q \in Nat /\ matchedSupplies \in Seq(Shares(SupplyData))
      /\ s[i] \in SupplyData
  BY <1>1, <1>2, Entry DEF TypeOK
<1>4. Side(s, Len(s)) /\ Len(s) \in Nat
  BY <1>2, SidesListed, LenProperties DEF ListedInv, TypeOK
<1>5. i \in 1..Len(s) /\ k' <= Len(s) /\ k' + 1 = i + 1
  BY <1>1, <1>2, <1>3, <1>4
<1>6. ok \in SUBSET (1..Len(s)) /\ (i \in ok <=> s[i].reservePrice <= intersection.price)
  BY <1>4, <1>5, AcceptedIn
<1>7. /\ PassedTo(s, ok, q, i, matchedSupplies, unmetSupply)
      /\ left = LeftBefore(s, ok, q, i)
  BY <1>1, <1>2 DEF PassInv, SuppliesPassed
<1>8. x = Share(s, ok, q, i)
  BY <1>6, <1>7 DEF Share
<1>9. (x > 0 => matchedSupplies' = Append(matchedSupplies, row)) /\ (~ x > 0 => matchedSupplies' = matchedSupplies)
  BY <1>2
<1> HIDE DEF s, ok, q, x, left
<1>10. remainingQuantity' = LeftBefore(s, ok, q, i + 1)
  <2>1. LeftBefore(s, ok, q, i + 1) = LeftBefore(s, ok, q, i) - Share(s, ok, q, i)
    BY <1>3, <1>4, <1>5, <1>6, PassStep
  <2> QED BY <1>2, <1>7, <1>8, <2>1
<1>11. PassedTo(s, ok, q, i + 1, matchedSupplies', unmetSupply')
  <2>1. PassedTo(s, ok, q, i + 1, matchedSupplies', unmetSupply + (s[i].quantity - Share(s, ok, q, i)))
    BY <1>3, <1>4, <1>5, <1>6, <1>7, <1>8, <1>9, PassIteration
  <2> QED BY <1>2, <1>8, <2>1
<1>12. sortedSupplies' = s /\ OffersIn(sortedSupplies, intersection.price)' = ok /\ intersection'.quantity = q
  BY <1>2 DEF s, ok, q, OffersIn
<1>13. SuppliesPassed(i + 1)'
  BY <1>11, <1>12 DEF SuppliesPassed, PassedTo, Entries
<1>14. remainingQuantity' = LeftBefore(sortedSupplies', OffersIn(sortedSupplies', intersection'.price),
                                       intersection'.quantity, i + 1)
  BY <1>10, <1>12 DEF OffersIn
<1>15. BidsPassed(Len(sortedBids) + 1)'
  <2>1. BidsPassed(Len(sortedBids) + 1)
    BY <1>2 DEF PassInv
  <2> QED BY <1>2, <2>1 DEF BidsPassed, PassedTo, Entries
<1>16. k' <= Len(sortedSupplies')
  BY <1>5, <1>12
<1> QED BY <1>2, <1>5, <1>13, <1>14, <1>15, <1>16 DEF PassInv

\* Where the passes start: nothing is served, and the whole volume is left.
LEMMA BidsPassBegins ==
  ASSUME TypeOK, BookInv, ListedInv, CurveInv, SupplyCurveInv, SearchInv, BidsInv, PassInv,
         FindIntersection
  PROVE  PassInv'
<1> USE DEF book, sorted, curves, allocation
<1> DEFINE s == sortedBids
           ok == BidsIn(sortedBids, intersection'.price)
           q == intersection'.quantity
<1>1. /\ pc = "search" /\ pc' = "bids" /\ k' = 0
      /\ UNCHANGED <<sorted, matchedBids, unmetDemand, unmetSupply>>
  BY DEF FindIntersection, Enter
<1>2. /\ matchedBids' = <<>> /\ unmetDemand' = 0 /\ unmetSupply' = 0
  BY <1>1 DEF BidsInv, PassInv
<1>3. q \in Nat
  <2>1. TypeOK'
    BY ClearingTypes DEF Next
  <2> QED BY <2>1 DEF TypeOK
<1>4. Side(s, Len(s)) /\ Len(s) \in Nat
  BY <1>1, SidesListed DEF ListedInv
<1>5. ok \in SUBSET (1..Len(s))
  BY <1>4, AcceptedIn
<1>6. remainingQuantity' = q
  BY PointFound
<1> HIDE DEF s, ok, q
<1>7. PassedTo(s, ok, q, 1, <<>>, 0) /\ LeftBefore(s, ok, q, 1) = q
  BY <1>3, <1>4, <1>5, PassBegins
<1>8. sortedBids' = s /\ BidsIn(sortedBids, intersection.price)' = ok /\ intersection'.quantity = q
  BY <1>1 DEF s, ok, q, BidsIn
<1>9. PICK i : i = 1
  OBVIOUS
<1>10. BidsPassed(i)'
  BY <1>2, <1>7, <1>8, <1>9 DEF BidsPassed, PassedTo, Entries
<1>11. remainingQuantity' = LeftBefore(sortedBids', BidsIn(sortedBids', intersection'.price),
                                       intersection'.quantity, i)
  BY <1>6, <1>7, <1>8, <1>9 DEF BidsIn
<1>12. k' + 1 = i /\ k' <= Len(sortedBids')
  BY <1>1, <1>4, <1>8, <1>9
<1> QED BY <1>1, <1>2, <1>10, <1>11, <1>12 DEF PassInv

LEMMA SuppliesPassBegins ==
  ASSUME TypeOK, BookInv, ListedInv, SuppliesInv, PassInv, BidsAllocated
  PROVE  PassInv'
<1> USE DEF book, sorted, curves, allocation
<1> DEFINE s == sortedSupplies
           ok == OffersIn(sortedSupplies, intersection.price)
           q == intersection.quantity
<1>1. /\ pc = "bids" /\ pc' = "supplies" /\ k' = 0 /\ k = Len(sortedBids)
      /\ UNCHANGED <<sorted, intersection, matchedBids, matchedSupplies, unmetDemand, unmetSupply>>
      /\ remainingQuantity' = q
  BY DEF BidsAllocated, Enter
<1>2. matchedSupplies' = <<>> /\ unmetSupply' = 0
  BY <1>1 DEF SuppliesInv, PassInv
<1>3. q \in Nat
  BY DEF TypeOK
<1>4. Side(s, Len(s)) /\ Len(s) \in Nat
  BY <1>1, SidesListed DEF ListedInv
<1>5. ok \in SUBSET (1..Len(s))
  BY <1>4, AcceptedIn
<1>6. BidsPassed(Len(sortedBids) + 1)
  BY <1>1 DEF PassInv
<1> HIDE DEF s, ok, q
<1>7. PassedTo(s, ok, q, 1, <<>>, 0) /\ LeftBefore(s, ok, q, 1) = q
  BY <1>3, <1>4, <1>5, PassBegins
<1>8. /\ sortedSupplies' = s /\ OffersIn(sortedSupplies, intersection.price)' = ok
      /\ intersection'.quantity = q
  BY <1>1 DEF s, ok, q, OffersIn
<1>9. PICK i : i = 1
  OBVIOUS
<1>10. SuppliesPassed(i)'
  BY <1>2, <1>7, <1>8, <1>9 DEF SuppliesPassed, PassedTo, Entries
<1>11. remainingQuantity' = LeftBefore(sortedSupplies',
                                       OffersIn(sortedSupplies', intersection'.price),
                                       intersection'.quantity, i)
  BY <1>1, <1>7, <1>8, <1>9 DEF OffersIn
<1>12. k' + 1 = i /\ k' <= Len(sortedSupplies')
  BY <1>1, <1>4, <1>8, <1>9
<1>13. BidsPassed(Len(sortedBids) + 1)'
  BY <1>1, <1>6 DEF BidsPassed, PassedTo, Entries
<1> QED BY <1>1, <1>2, <1>10, <1>11, <1>12, <1>13 DEF PassInv

LEMMA PassesStep ==
  ASSUME TypeOK, BookInv, ListedInv, CurveInv, SupplyCurveInv, SearchInv, BidsInv, SuppliesInv,
         PassInv, [Next]_vars
  PROVE  PassInv'
<1> USE DEF book, sorted, curves, allocation
<1>1. CASE FindIntersection
  BY <1>1, BidsPassBegins
<1>2. CASE AllocateBid
  BY <1>2, BidsPassStep
<1>3. CASE BidsAllocated
  BY <1>3, SuppliesPassBegins
<1>4. CASE AllocateSupply
  BY <1>4, SuppliesPassStep
<1>5. CASE UNCHANGED vars
  BY <1>5 DEF vars, PassInv, BidsPassed, SuppliesPassed, PassedTo, Entries
<1>6. CASE EmptyBook \/ NoMarketIntersection \/ ReturnResult
  <2>1. pc' = "done"
    BY <1>6 DEF EmptyBook, NoMarketIntersection, ReturnResult, ReturnNothing, Enter
  <2> QED BY <2>1 DEF PassInv
<1>7. CASE SortBook \/ BuildDemandCurve \/ BuildSupplyCurve \/ NextDemandPoint
  <2>1. /\ pc \notin {"bids", "supplies", "done"} /\ pc' \notin {"bids", "supplies", "done"}
        /\ unmetDemand' = unmetDemand /\ unmetSupply' = unmetSupply
    BY <1>7, SMTT(30) DEF SortBook, BuildDemandCurve, BuildSupplyCurve, NextDemandPoint, Enter
  <2> QED BY <2>1 DEF PassInv
<1> QED BY <1>1, <1>2, <1>3, <1>4, <1>5, <1>6, <1>7 DEF Next

-----------------------------------------------------------------------------
(* The answer *)

\* The reference is the same clearing, reached through its own module.
LEMMA ReferenceSums ==
  /\ \A M : Reference!QuantityOf(M) = QuantityOf(M)
  /\ \A s, P : Reference!QuantityAt(s, P) = QuantityAt(s, P)
  /\ \A s, n : Reference!Cumulative(s, n) = Cumulative(s, n)
  /\ \A M : Reference!Cardinality(M) = Cardinality(M)
  /\ \A a, b : Reference!Smaller(a, b) = Smaller(a, b)
<1>1. ASSUME NEW M PROVE Reference!QuantityOf(M) = QuantityOf(M)
  BY DEF Reference!MapThenSumSet, MapThenSumSet, Reference!MapThenFoldSet, MapThenFoldSet,
         Reference!QuantityOf, QuantityOf
<1>2. ASSUME NEW s, NEW P PROVE Reference!QuantityAt(s, P) = QuantityAt(s, P)
  BY DEF Reference!MapThenSumSet, MapThenSumSet, Reference!MapThenFoldSet, MapThenFoldSet,
         Reference!QuantityAt, QuantityAt
<1>3. ASSUME NEW s, NEW n PROVE Reference!Cumulative(s, n) = Cumulative(s, n)
  BY <1>2 DEF Reference!Cumulative, Cumulative
<1>4. ASSUME NEW M PROVE Reference!Cardinality(M) = Cardinality(M)
  BY DEF Reference!Cardinality, Cardinality
<1>5. ASSUME NEW a, NEW b PROVE Reference!Smaller(a, b) = Smaller(a, b)
  BY DEF Reference!Smaller, Smaller
<1> QED BY <1>1, <1>2, <1>3, <1>4, <1>5, Zenon

LEMMA ReferenceSorts ==
  /\ \A B : Reference!SortedBids(B) = SortedBids(B)
  /\ \A S : Reference!SortedSupplies(S) = SortedSupplies(S)
<1>1. ASSUME NEW M PROVE Reference!Listings(M) = Listings(M)
  BY ReferenceSums, Zenon DEF Reference!Listings, Listings
<1>2. ASSUME NEW M PROVE Reference!SortedBids(M) = SortedBids(M)
  BY <1>1, Zenon DEF Reference!SortedBids, SortedBids
<1>3. ASSUME NEW M PROVE Reference!SortedSupplies(M) = SortedSupplies(M)
  BY <1>1, Zenon DEF Reference!SortedSupplies, SortedSupplies
<1> QED BY <1>2, <1>3

LEMMA ReferenceMeets ==
  \A bs, ss, i, j : Reference!Intersects(bs, ss, i, j) <=> Intersects(bs, ss, i, j)
<1>1. ASSUME NEW bs, NEW ss, NEW i, NEW j
      PROVE  Reference!Meets(bs, ss, i, j) <=> Meets(bs, ss, i, j)
  BY ReferenceSums DEF Reference!Meets, Meets
<1>2. ASSUME NEW bs, NEW ss, NEW i, NEW j
      PROVE  Reference!Intersects(bs, ss, i, j) <=> Intersects(bs, ss, i, j)
  BY <1>1 DEF Reference!Intersects, Intersects
<1> QED BY <1>2

LEMMA ReferencePasses ==
  /\ \A s, ok, q : Reference!Served(s, ok, q) = Served(s, ok, q)
  /\ \A s, ok, q : Reference!Unmet(s, ok, q) = Unmet(s, ok, q)
<1>1. ASSUME NEW s, NEW ok, NEW q, NEW n
      PROVE  Reference!LeftBefore(s, ok, q, n) = LeftBefore(s, ok, q, n)
  BY ReferenceSums DEF Reference!LeftBefore, LeftBefore
<1>2. ASSUME NEW s, NEW ok, NEW q PROVE Reference!Served(s, ok, q) = Served(s, ok, q)
  BY <1>1, ReferenceSums DEF Reference!Served, Served
<1>3. ASSUME NEW s, NEW ok, NEW q PROVE Reference!Unmet(s, ok, q) = Unmet(s, ok, q)
  BY ReferenceSums DEF Reference!Unmet, Unmet
<1> QED BY <1>2, <1>3

LEMMA ReferenceOutcomes ==
  ASSUME NEW B, NEW S
  PROVE  Reference!ClearingOutcomes(B, S) = ClearingOutcomes(B, S)
<1>1. Reference!NothingCleared(B, S) = NothingCleared(B, S)
  BY ReferenceSums DEF Reference!NothingCleared, NothingCleared
<1>2. ASSUME NEW bs, NEW ss, NEW i, NEW j
      PROVE  Reference!ClearedAt(bs, ss, i, j) = ClearedAt(bs, ss, i, j)
  BY ReferenceSums, ReferencePasses DEF Reference!ClearedAt, ClearedAt
<1> QED BY <1>1, <1>2, ReferenceSorts, ReferenceMeets DEF Reference!ClearingOutcomes, ClearingOutcomes
\* Before the last step nothing has been answered.
PendingInv == pc # "done" => result = NoResult

LEMMA PendingStep ==
  ASSUME PendingInv, [Next]_vars
  PROVE  PendingInv'
<1>1. pc' # "done" => pc # "done" /\ result' = result
  <2>1. CASE EmptyBook \/ NoMarketIntersection \/ ReturnResult \/ UNCHANGED vars
    BY <2>1 DEF EmptyBook, NoMarketIntersection, ReturnResult, vars, Enter, ReturnNothing
  <2>2. CASE SortBook \/ BuildDemandCurve \/ BuildSupplyCurve \/ NextDemandPoint
    BY <2>2, SMTT(30) DEF SortBook, BuildDemandCurve, BuildSupplyCurve, NextDemandPoint, Enter
  <2>3. CASE FindIntersection \/ AllocateBid \/ BidsAllocated \/ AllocateSupply
    BY <2>3, SMTT(30) DEF FindIntersection, AllocateBid, BidsAllocated, AllocateSupply, Enter
  <2> QED BY <2>1, <2>2, <2>3 DEF Next
<1> QED BY <1>1 DEF PendingInv

\* A book with an empty side has no point to clear at.
LEMMA EmptySide ==
  ASSUME NEW s \in Listings({})
  PROVE  DOMAIN s = {}
<1>1. Cardinality({}) = 0
  BY FS_EmptySet
<1>2. s \in [1..0 -> {}]
  BY <1>1 DEF Listings
<1> QED BY <1>2

LEMMA EmptyBookAnswers ==
  ASSUME TypeOK, BookInv, EmptyBook
  PROVE  result' \in ClearingOutcomes(bids, supplies)
<1>1. result' = NothingCleared(bids, supplies) /\ (bids = {} \/ supplies = {})
  BY DEF EmptyBook, ReturnNothing
<1>2. PICK bs \in SortedBids(bids) : TRUE
  BY BookIsBook, BidsCanBeSorted DEF IsBook
<1>3. PICK ss \in SortedSupplies(supplies) : TRUE
  BY BookIsBook, SuppliesCanBeSorted DEF IsBook
<1>4. bs \in Listings(bids) /\ ss \in Listings(supplies)
  BY <1>2, <1>3 DEF SortedBids, SortedSupplies
<1>5. DOMAIN bs = {} \/ DOMAIN ss = {}
  BY <1>1, <1>4, EmptySide
<1>6. ~ \E i \in DOMAIN bs, j \in DOMAIN ss : Intersects(bs, ss, i, j)
  BY <1>5
<1> QED BY <1>1, <1>6, OutcomeWithout

LEMMA NoIntersectionAnswers ==
  ASSUME TypeOK, BookInv, ListedInv, CurveInv, SearchInv, NoMarketIntersection
  PROVE  result' \in ClearingOutcomes(bids, supplies)
<1>1. result' = NothingCleared(bids, supplies) /\ pc = "search" /\ k = Len(demandCurve)
  BY DEF NoMarketIntersection, ReturnNothing
<1>2. sortedBids \in SortedBids(bids) /\ sortedSupplies \in SortedSupplies(supplies)
  BY <1>1 DEF ListedInv
<1>3. DOMAIN sortedBids = 1..k
  BY <1>1, <1>2, SidesListed DEF CurveInv
<1>4. \A i \in 1..k, j \in DOMAIN sortedSupplies : ~ Meets(sortedBids, sortedSupplies, i, j)
  BY <1>1 DEF SearchInv
<1>5. ~ \E i \in DOMAIN sortedBids, j \in DOMAIN sortedSupplies :
          Intersects(sortedBids, sortedSupplies, i, j)
  BY <1>3, <1>4 DEF Intersects
<1> QED BY <1>1, <1>2, <1>5, OutcomeWithout

LEMMA ClearingAnswers ==
  ASSUME TypeOK, BookInv, ListedInv, PointInv, PassInv, ReturnResult
  PROVE  result' \in ClearingOutcomes(bids, supplies)
<1>1. /\ pc = "supplies" /\ k = Len(sortedSupplies)
      /\ result' = [clearingPrice   |-> intersection.price,
                    totalVolume     |-> intersection.quantity,
                    matchedBids     |-> Entries(matchedBids),
                    matchedSupplies |-> Entries(matchedSupplies),
                    unmetDemand     |-> unmetDemand,
                    unmetSupply     |-> unmetSupply]
  BY DEF ReturnResult
<1>2. /\ sortedBids \in SortedBids(bids) /\ sortedSupplies \in SortedSupplies(supplies)
      /\ Side(sortedBids, Len(sortedBids)) /\ Side(sortedSupplies, Len(sortedSupplies))
  BY <1>1, SidesListed DEF ListedInv
<1>3. PICK i \in DOMAIN sortedBids, j \in DOMAIN sortedSupplies : PointAt(i, j)
  BY <1>1 DEF PointInv
<1> DEFINE price == sortedSupplies[j].reservePrice
           volume == Smaller(Cumulative(sortedBids, i), Cumulative(sortedSupplies, j))
           bidsIn == BidsIn(sortedBids, price)
           offersIn == OffersIn(sortedSupplies, price)
<1>4. /\ Intersects(sortedBids, sortedSupplies, i, j)
      /\ intersection.price = price /\ intersection.quantity = volume
  BY <1>3 DEF PointAt
<1>5. volume \in Nat
  BY <1>4 DEF TypeOK
<1>6. bidsIn \in SUBSET (1..Len(sortedBids)) /\ offersIn \in SUBSET (1..Len(sortedSupplies))
  BY <1>2, AcceptedIn
<1>7. /\ PassedTo(sortedBids, bidsIn, volume, Len(sortedBids) + 1, matchedBids, unmetDemand)
      /\ PassedTo(sortedSupplies, offersIn, volume, Len(sortedSupplies) + 1,
                  matchedSupplies, unmetSupply)
  BY <1>1, <1>4 DEF PassInv, BidsPassed, SuppliesPassed
<1>8. ClearedAt(sortedBids, sortedSupplies, i, j)
        = [clearingPrice   |-> price,
           totalVolume     |-> volume,
           matchedBids     |-> Served(sortedBids, bidsIn, volume),
           matchedSupplies |-> Served(sortedSupplies, offersIn, volume),
           unmetDemand     |-> Unmet(sortedBids, bidsIn, volume),
           unmetSupply     |-> Unmet(sortedSupplies, offersIn, volume)]
  BY DEF ClearedAt, BidsIn, OffersIn
<1> HIDE DEF price, volume, bidsIn, offersIn
<1>9. /\ Entries(matchedBids) = Served(sortedBids, bidsIn, volume)
      /\ unmetDemand = Unmet(sortedBids, bidsIn, volume)
  BY <1>2, <1>5, <1>6, <1>7, PassEnd DEF PassedTo
<1>10. /\ Entries(matchedSupplies) = Served(sortedSupplies, offersIn, volume)
       /\ unmetSupply = Unmet(sortedSupplies, offersIn, volume)
  BY <1>2, <1>5, <1>6, <1>7, PassEnd DEF PassedTo
<1>11. result' = ClearedAt(sortedBids, sortedSupplies, i, j)
  BY <1>1, <1>4, <1>8, <1>9, <1>10
<1> QED BY <1>2, <1>3, <1>4, <1>11, OutcomeWithVolume

-----------------------------------------------------------------------------
(* Theorems *)

\* Whatever way the computation ends, its answer is one of the outcomes.
AnswerInv == pc = "done" => result \in ClearingOutcomes(bids, supplies)

LEMMA AnswerStep ==
  ASSUME TypeOK, BookInv, ListedInv, CurveInv, SearchInv, PointInv, PassInv, AnswerInv, [Next]_vars
  PROVE  AnswerInv'
<1>1. CASE EmptyBook \/ NoMarketIntersection \/ ReturnResult
  <2>1. result' \in ClearingOutcomes(bids, supplies)
    BY <1>1, EmptyBookAnswers, NoIntersectionAnswers, ClearingAnswers
  <2>2. bids' = bids /\ supplies' = supplies
    BY <1>1 DEF EmptyBook, NoMarketIntersection, ReturnResult, book
  <2> QED BY <2>1, <2>2 DEF AnswerInv
<1>2. CASE UNCHANGED vars
  BY <1>2 DEF vars, book, AnswerInv
<1>3. CASE SortBook \/ BuildDemandCurve \/ BuildSupplyCurve \/ NextDemandPoint
  <2>1. pc' # "done"
    BY <1>3, SMTT(30) DEF SortBook, BuildDemandCurve, BuildSupplyCurve, NextDemandPoint, Enter
  <2> QED BY <2>1 DEF AnswerInv
<1>4. CASE FindIntersection \/ AllocateBid \/ BidsAllocated \/ AllocateSupply
  <2>1. pc' # "done"
    BY <1>4, SMTT(30) DEF FindIntersection, AllocateBid, BidsAllocated, AllocateSupply, Enter
  <2> QED BY <2>1 DEF AnswerInv
<1> QED BY <1>1, <1>2, <1>3, <1>4 DEF Next

ClearingInv ==
  /\ TypeOK /\ BookInv /\ SortInv /\ CurveInv /\ BidsInv /\ SuppliesInv /\ ResultInv
  /\ ListedInv /\ SupplyCurveInv /\ SearchInv /\ PointInv /\ PassInv /\ PendingInv /\ AnswerInv

LEMMA ClearingInvHolds == Spec => []ClearingInv
<1>1. Init => ClearingInv
  <2>1. Init => ListedInv /\ SearchInv /\ PointInv /\ PassInv /\ PendingInv /\ AnswerInv /\ ResultInv
    BY DEF Init, ListedInv, SearchInv, PointInv, PassInv, PendingInv, AnswerInv, ResultInv
  <2>2. Init => SupplyCurveInv
    BY DEF Init, SupplyCurveInv
  <2> QED BY <2>1, <2>2, ClearingInit, SortInit, CurveInit, BidsInit, SuppliesInit DEF ClearingInv
<1>2. ClearingInv /\ [Next]_vars => ClearingInv'
  <2> SUFFICES ASSUME ClearingInv, [Next]_vars PROVE ClearingInv'
    OBVIOUS
  <2>1. /\ TypeOK /\ BookInv /\ SortInv /\ CurveInv /\ BidsInv /\ SuppliesInv /\ ResultInv
        /\ ListedInv /\ SupplyCurveInv /\ SearchInv /\ PointInv /\ PassInv /\ PendingInv /\ AnswerInv
    BY DEF ClearingInv
  <2>2. TypeOK' /\ BookInv' /\ SortInv' /\ CurveInv'
    BY <2>1, ClearingTypes, SortStep, CurveStep
  <2>3. BidsInv' /\ SuppliesInv' /\ ResultInv'
    BY <2>1, BidsStep, SuppliesStep, ResultStep
  <2>4. ListedInv' /\ SupplyCurveInv' /\ SearchInv'
    BY <2>1, ListedStep, SupplyCurveStep, SearchStep
  <2>5. PointInv' /\ PassInv' /\ PendingInv' /\ AnswerInv'
    BY <2>1, PointStep, PassesStep, PendingStep, AnswerStep
  <2> QED BY <2>2, <2>3, <2>4, <2>5 DEF ClearingInv
<1> QED BY <1>1, <1>2, PTL DEF Spec

\* Every computation stays well typed; in particular the quantity left to give
\* out and what stays unmet never become negative.
THEOREM TypeCorrect == Spec => []TypeOK
<1>1. ClearingInv => TypeOK
  BY DEF ClearingInv
<1> QED BY <1>1, ClearingInvHolds, PTL

\* The pass over the bids serves each of them whole or not at all, for every
\* book: the clearing volume is what the first bids ask for, down to the last unit.
THEOREM BidsServedWhole == Spec => []MatchedBidsAreWhole
<1>1. ClearingInv => MatchedBidsAreWhole
  <2> SUFFICES ASSUME ClearingInv, NEW m \in Entries(matchedBids)
               PROVE  \E b \in bids : b.id = m.id /\ b.quantity = m.quantity
    BY DEF MatchedBidsAreWhole
  <2>1. PICK n \in 0..Len(sortedBids) : ServedWhole(n)
    <3>1. Len(sortedBids) \in Nat /\ k \in Nat
      BY LenProperties DEF ClearingInv, TypeOK
    <3>2. CASE pc \in {"supplies", "done"}
      BY <3>2 DEF ClearingInv, BidsInv
    <3>3. CASE pc = "bids"
      <4>1. PICK i \in 1..Len(sortedBids) : k <= Len(sortedBids) /\ ServedWhole(Smaller(k, i))
        BY <3>3 DEF ClearingInv, BidsInv
      <4>2. Smaller(k, i) \in 0..Len(sortedBids)
        BY <3>1, <4>1 DEF Smaller
      <4> QED BY <4>1, <4>2
    <3>4. CASE pc \in {"sort", "demand", "supply", "search"}
      <4>1. Len(matchedBids) = 0
        BY <3>4, EmptySeq DEF ClearingInv, BidsInv
      <4> QED BY <3>1, <4>1 DEF ServedWhole
    <3> QED BY <3>2, <3>3, <3>4 DEF ClearingInv, TypeOK, Loops
  <2>2. PICK p \in 1..n : matchedBids[p] = m
    <3>1. DOMAIN matchedBids = 1..n
      BY <2>1, LenProperties DEF ServedWhole, ClearingInv, TypeOK
    <3> QED BY <3>1 DEF Entries
  <2>3. p \in 1..Len(sortedBids)
    BY <2>1, LenProperties DEF ClearingInv, TypeOK
  <2>4. sortedBids[p] \in bids
    BY <2>3 DEF ClearingInv, SortInv
  <2>5. sortedBids[p].id = m.id /\ sortedBids[p].quantity = m.quantity
    BY <2>1, <2>2 DEF ServedWhole
  <2> QED BY <2>4, <2>5
<1> QED BY <1>1, ClearingInvHolds, PTL

\* Nobody is passed over, for every book: those served are the first of the
\* sorted bids and the first of the sorted supply offers.
THEOREM MeritOrderKept == Spec => []MeritOrder
<1>1. ClearingInv => MeritOrder
  <2> SUFFICES ASSUME ClearingInv, pc = "done" PROVE MeritOrder
    BY DEF MeritOrder
  <2>1. /\ Len(sortedBids) \in Nat /\ Len(sortedSupplies) \in Nat
        /\ sortedBids \in Seq(BidData) /\ sortedSupplies \in Seq(SupplyData)
    BY LenProperties DEF ClearingInv, TypeOK
  <2>2. PICK n \in 0..Len(sortedBids) : ServedWhole(n)
    BY DEF ClearingInv, BidsInv
  <2>3. PICK o \in 0..Len(sortedSupplies) : ServedFirst(o)
    BY DEF ClearingInv, SuppliesInv
  <2>4. {m.id : m \in result.matchedBids} = {sortedBids[p].id : p \in 1..n}
    <3>1. DOMAIN matchedBids = 1..n
      BY <2>2, LenProperties DEF ServedWhole, ClearingInv, TypeOK
    <3>2. \A p \in 1..n : matchedBids[p].id = sortedBids[p].id
      BY <2>2 DEF ServedWhole
    <3>3. result.matchedBids = {matchedBids[p] : p \in 1..n}
      BY <3>1 DEF ClearingInv, ResultInv, Entries
    <3> QED BY <3>2, <3>3
  <2>5. {m.id : m \in result.matchedSupplies} = {sortedSupplies[p].id : p \in 1..o}
    <3>1. DOMAIN matchedSupplies = 1..o
      BY <2>3, LenProperties DEF ServedFirst, ClearingInv, TypeOK
    <3>2. \A p \in 1..o : matchedSupplies[p].id = sortedSupplies[p].id
      BY <2>3 DEF ServedFirst
    <3>3. result.matchedSupplies = {matchedSupplies[p] : p \in 1..o}
      BY <3>1 DEF ClearingInv, ResultInv, Entries
    <3> QED BY <3>2, <3>3
  <2>6. ASSUME NEW b \in bids, NEW c \in bids,
               b.id \in {m.id : m \in result.matchedBids},
               c.id \notin {m.id : m \in result.matchedBids}
        PROVE  c.price <= b.price
    <3>1. PICK p \in 1..n : sortedBids[p].id = b.id
      BY <2>4, <2>6
    <3>2. p \in 1..Len(sortedBids)
      BY <2>1
    <3>3. sortedBids[p] = b
      BY <3>1, <3>2 DEF ClearingInv, SortInv, BookInv
    <3>4. sortedBids # <<>>
      BY <3>2, EmptySeq
    <3>5. PICK i \in 1..Len(sortedBids) : sortedBids[i] = c
      BY <3>4 DEF ClearingInv, SortInv
    <3>6. i \notin 1..n
      BY <2>4, <2>6, <3>5
    <3>7. p < i
      BY <2>1, <3>6
    <3>8. sortedBids[p].price >= sortedBids[i].price
      BY <3>2, <3>7 DEF ClearingInv, SortInv
    <3>9. b.price \in Nat /\ c.price \in Nat
      BY DataAssumption DEF ClearingInv, TypeOK
    <3> QED BY <3>3, <3>5, <3>8, <3>9
  <2>7. ASSUME NEW s \in supplies, NEW t \in supplies,
               s.id \in {m.id : m \in result.matchedSupplies},
               t.id \notin {m.id : m \in result.matchedSupplies}
        PROVE  t.reservePrice >= s.reservePrice
    <3>1. PICK p \in 1..o : sortedSupplies[p].id = s.id
      BY <2>5, <2>7
    <3>2. p \in 1..Len(sortedSupplies)
      BY <2>1
    <3>3. sortedSupplies[p] = s
      BY <3>1, <3>2 DEF ClearingInv, SortInv, BookInv
    <3>4. sortedSupplies # <<>>
      BY <3>2, EmptySeq
    <3>5. PICK i \in 1..Len(sortedSupplies) : sortedSupplies[i] = t
      BY <3>4 DEF ClearingInv, SortInv
    <3>6. i \notin 1..o
      BY <2>5, <2>7, <3>5
    <3>7. p < i
      BY <2>1, <3>6
    <3>8. sortedSupplies[p].reservePrice <= sortedSupplies[i].reservePrice
      BY <3>2, <3>7 DEF ClearingInv, SortInv
    <3>9. s.reservePrice \in Nat /\ t.reservePrice \in Nat
      BY DataAssumption DEF ClearingInv, TypeOK
    <3> QED BY <3>3, <3>5, <3>8, <3>9
  <2> QED BY <2>6, <2>7 DEF MeritOrder
<1> QED BY <1>1, ClearingInvHolds, PTL

\* The energy balances for every book: what the matched bids take the matched
\* supply offers give, and nothing offered is lost from the accounts.
THEOREM EnergyBalances == Spec => []EnergyBalance
<1>1. ClearingInv => EnergyBalance
  <2> SUFFICES ASSUME ClearingInv, pc = "done" PROVE EnergyBalance
    BY DEF EnergyBalance
  <2>1. IsBook(bids, supplies) /\ result \in ClearingOutcomes(bids, supplies)
    BY BookIsBook DEF ClearingInv, AnswerInv
  <2> QED BY <2>1, ClearingBalances DEF EnergyBalance
<1> QED BY <1>1, ClearingInvHolds, PTL

\* The loops compute a merit-order clearing of the book they were given: of all
\* the steps of a computation the last one alone shows outside, and what it
\* answers is one of the outcomes of the clearing (clearing-price.service.ts:41-129).
THEOREM ClearsByMerit == Spec => ImplementsReference
<1>1. Init => Reference!Init
  BY DataAssumption DEF Init, Reference!Init
<1>2. ClearingInv /\ [Next]_vars => [Reference!Answer]_<<bids, supplies, result>>
  <2> SUFFICES ASSUME ClearingInv, [Next]_vars
               PROVE  [Reference!Answer]_<<bids, supplies, result>>
    OBVIOUS
  <2>1. /\ TypeOK /\ BookInv /\ CurveInv
        /\ ListedInv /\ SearchInv /\ PointInv /\ PassInv /\ PendingInv
    BY DEF ClearingInv
  <2>2. CASE EmptyBook \/ NoMarketIntersection \/ ReturnResult
    <3>1. result' \in ClearingOutcomes(bids, supplies)
      BY <2>1, <2>2, EmptyBookAnswers, NoIntersectionAnswers, ClearingAnswers
    <3>2. result = NoResult /\ UNCHANGED book
      BY <2>1, <2>2 DEF EmptyBook, NoMarketIntersection, ReturnResult, PendingInv
    <3> QED BY <3>1, <3>2, ReferenceOutcomes DEF Reference!Answer, book
  <2>3. CASE SortBook \/ BuildDemandCurve \/ BuildSupplyCurve \/ NextDemandPoint
    BY <2>3, SMTT(30) DEF SortBook, BuildDemandCurve, BuildSupplyCurve, NextDemandPoint, book
  <2>4. CASE FindIntersection \/ AllocateBid \/ BidsAllocated \/ AllocateSupply
    BY <2>4, SMTT(30) DEF FindIntersection, AllocateBid, BidsAllocated, AllocateSupply, book
  <2>5. CASE UNCHANGED vars
    BY <2>5 DEF vars, book
  <2> QED BY <2>2, <2>3, <2>4, <2>5 DEF Next
<1> QED BY <1>1, <1>2, ClearingInvHolds, PTL DEF Spec, ImplementsReference, Reference!Spec

===============================================================================
