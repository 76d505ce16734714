-------------------------------- MODULE MCApart --------------------------------
(* An instance of Auction with a second timeslot, in which requests about one *)
(* timeslot wait for each other: b1, b2 and b3 are bids of two users for t1,  *)
(* b4 is one of the first user for t2, and each timeslot has an offer.        *)
EXTENDS MCAuction

CONSTANTS t2, b4

ApartBidder == Restrict(b1 :> u1 @@ b2 :> u1 @@ b3 :> u2 @@ b4 :> u1, Bids)
ApartBidSlot == Restrict(b1 :> t1 @@ b2 :> t1 @@ b3 :> t1 @@ b4 :> t2, Bids)
ApartBidPrice == Restrict(b1 :> 3 @@ b2 :> 5 @@ b3 :> 4 @@ b4 :> 5, Bids)
ApartBidQuantity == Restrict(b1 :> 1 @@ b2 :> 1 @@ b3 :> 2 @@ b4 :> 1, Bids)
ApartSupplySlot == Restrict(s1 :> t1 @@ s2 :> t2, Supplies)

\* A paid bid whose last update fails, and a seal that is repeated.
ApartFaults == {"confirm", "seal"}

\* The behaviours of Spec in which no two requests in flight are about one timeslot.
ApartSpec == Init /\ [][Next /\ Apart']_vars
===============================================================================
