-------------------------------- MODULE Market --------------------------------
(***************************************************************************)
(* What the services promise of the books of the timeslots: requests take  *)
(* effect one after the other.  A user has one active bid in a timeslot,   *)
(* bids come and go while it is open, it is sealed once and then settled   *)
(* once, by a merit-order clearing of the pending bids and the committed   *)
(* offers whose price, matched bids and allocated offers appear together.  *)
(***************************************************************************)
EXTENDS Integers

CONSTANTS Timeslots, Bids, Supplies, Bidder, BidSlot, SupplySlot,
          Leftover,        \* bids that are there from the start
          Clearings(_, _)  \* what clearing a set of bids and a set of offers can result in
VARIABLES status, clearingPrice, bid, supply

Init ==
    /\ status = [t \in Timeslots |-> "OPEN"]
    /\ clearingPrice = [t \in Timeslots |-> -1]
    /\ bid = [b \in Bids |-> IF b \in Leftover THEN "PENDING" ELSE "NONE"]
    /\ supply = [s \in Supplies |-> "COMMITTED"]

PlaceBid(b) ==
    /\ status[BidSlot[b]] = "OPEN"
    /\ bid[b] = "NONE"
    /\ \A c \in Bids : Bidder[c] = Bidder[b] /\ BidSlot[c] = BidSlot[b]
                         => bid[c] \notin {"PENDING", "CONFIRMED"}
    /\ bid' = [bid EXCEPT ![b] = "PENDING"]
    /\ UNCHANGED <<status, clearingPrice, supply>>

ConfirmBid(b) ==
    /\ status[BidSlot[b]] = "OPEN"
    /\ bid[b] = "PENDING"
    /\ bid' = [bid EXCEPT ![b] = "CONFIRMED"]
    /\ UNCHANGED <<status, clearingPrice, supply>>

\* By its owner, or because its placement failed.
WithdrawBid(b) ==
    /\ status[BidSlot[b]] = "OPEN"
    /\ bid[b] \in {"PENDING", "CONFIRMED"}
    /\ bid' = [bid EXCEPT ![b] = "CANCELLED"]
    /\ UNCHANGED <<status, clearingPrice, supply>>

\* At any time before it is allocated.
WithdrawSupply(s) ==
    /\ supply[s] \in {"COMMITTED", "CONFIRMED"}
    /\ supply' = [supply EXCEPT ![s] = "CANCELLED"]
    /\ UNCHANGED <<status, clearingPrice, bid>>

SealTimeslot(t) ==
    /\ status[t] = "OPEN"
    /\ status' = [status EXCEPT ![t] = "SEALED"]
    /\ UNCHANGED <<clearingPrice, bid, supply>>

PendingIn(t) == {b \in Bids : BidSlot[b] = t /\ bid[b] = "PENDING"}
OfferedIn(t) == {s \in Supplies : SupplySlot[s] = t /\ supply[s] = "COMMITTED"}

SettleTimeslot(t) ==
    /\ status[t] = "SEALED"
    /\ \E r \in Clearings(PendingIn(t), OfferedIn(t)) :
         /\ bid' = [b \in Bids |-> IF b \in r.bids THEN "MATCHED" ELSE bid[b]]
         /\ supply' = [s \in Supplies |-> IF s \in r.supplies THEN "ALLOCATED" ELSE supply[s]]
         /\ clearingPrice' = [clearingPrice EXCEPT ![t] = r.price]
    /\ status' = [status EXCEPT ![t] = "SETTLED"]

Next ==
    \/ \E b \in Bids : PlaceBid(b) \/ ConfirmBid(b) \/ WithdrawBid(b)
    \/ \E s \in Supplies : WithdrawSupply(s)
    \/ \E t \in Timeslots : SealTimeslot(t) \/ SettleTimeslot(t)

Spec == Init /\ [][Next]_<<status, clearingPrice, bid, supply>>

-----------------------------------------------------------------------------
(* What follows from the promise *)

MatchedIn(t) == {b \in Bids : BidSlot[b] = t /\ bid[b] = "MATCHED"}
AllocatedIn(t) == {s \in Supplies : SupplySlot[s] = t /\ supply[s] = "ALLOCATED"}

\* A user has at most one PENDING or CONFIRMED bid in a timeslot.
OneActiveBid ==
    \A b, c \in Bids :
        /\ Bidder[b] = Bidder[c] /\ BidSlot[b] = BidSlot[c]
        /\ bid[b] \in {"PENDING", "CONFIRMED"} /\ bid[c] \in {"PENDING", "CONFIRMED"}
        => b = c

\* The book of a settled timeslot is the result of one clearing of bids and
\* offers of that timeslot, and no other timeslot has matched anything.
BooksAreCleared ==
    \A t \in Timeslots :
        /\ status[t] # "SETTLED" => MatchedIn(t) = {} /\ AllocatedIn(t) = {}
        /\ status[t] = "SETTLED" =>
             \E B \in SUBSET {b \in Bids : BidSlot[b] = t},
                S \in SUBSET {s \in Supplies : SupplySlot[s] = t} :
               \E r \in Clearings(B, S) :
                  /\ MatchedIn(t) = r.bids
                  /\ AllocatedIn(t) = r.supplies
                  /\ clearingPrice[t] = r.price

\* Once a timeslot is settled, its status, its price and its book stay.
SettledStays ==
    \A t \in Timeslots : status[t] = "SETTLED" =>
        /\ status'[t] = "SETTLED"
        /\ clearingPrice'[t] = clearingPrice[t]
        /\ MatchedIn(t)' = MatchedIn(t)
        /\ AllocatedIn(t)' = AllocatedIn(t)
===============================================================================
