------------------------------ MODULE MCAuction ------------------------------
(* Small instances of Auction: two users, one timeslot, two supply offers.   *)
(* b1 and b2 are bids of one user.                                           *)
EXTENDS Auction, TLC

CONSTANTS u1, u2, t1, b1, b2, b3, s1, s2

MCBidder == Restrict(b1 :> u1 @@ b2 :> u1 @@ b3 :> u2, Bids)
MCBidSlot == [b \in Bids |-> t1]
MCBidPrice == Restrict(b1 :> 3 @@ b2 :> 5 @@ b3 :> 4, Bids)
MCBidQuantity == Restrict(b1 :> 1 @@ b2 :> 1 @@ b3 :> 2, Bids)
MCSupplySlot == [s \in Supplies |-> t1]
MCReservePrice == Restrict(s1 :> 2 @@ s2 :> 4, Supplies)
MCSupplyQuantity == Restrict(s1 :> 1 @@ s2 :> 2, Supplies)

\* Any call may fail, except the two whose failure leaves a PENDING row behind.
MCFaults == Steps \ {"create", "undo"}

HandlerSymmetry == Permutations(Handlers)
===============================================================================
