---------------------------- MODULE ClearingResult ----------------------------
(***************************************************************************)
(* What calculateClearingPrice promises: asked for a book, it answers once,*)
(* with one of the results of a merit-order clearing of that book.         *)
(***************************************************************************)
EXTENDS MarketClearing

CONSTANTS BidData, SupplyData,  \* every bid and supply offer that can be in a book
          NoResult
VARIABLES bids, supplies, result

Init ==
    /\ bids \in SUBSET BidData
    /\ supplies \in SUBSET SupplyData
    /\ result = NoResult

Answer ==
    /\ result = NoResult
    /\ result' \in ClearingOutcomes(bids, supplies)
    /\ UNCHANGED <<bids, supplies>>

Spec == Init /\ [][Answer]_<<bids, supplies, result>>
===============================================================================
