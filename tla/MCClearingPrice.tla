---------------------------- MODULE MCClearingPrice ----------------------------
(* All books of at most three bids and two supply offers at a few prices and *)
(* quantities, with ties and empty sides.  Rows are numbered in the order of *)
(* their terms: books that differ only in the numbering behave alike.        *)
EXTENDS ClearingPrice

CONSTANTS MaxBids, MaxSupplies, Prices, Quantities

MCBidData == [id : 1..MaxBids, price : Prices, quantity : Quantities]
MCSupplyData == [id : 1..MaxSupplies, reservePrice : Prices, quantity : Quantities]

\* Up to n rows, each with a price and a quantity, numbered by their terms.
Numbered(n) ==
    {f \in UNION {[1..m -> Prices \X Quantities] : m \in 0..n} :
        \A i, j \in DOMAIN f : i < j =>
            \/ f[i][1] < f[j][1]
            \/ f[i][1] = f[j][1] /\ f[i][2] <= f[j][2]}

MCBooks ==
    LET BidSide(f) == {[id |-> i, price |-> f[i][1], quantity |-> f[i][2]] : i \in DOMAIN f}
        SupplySide(f) == {[id |-> i, reservePrice |-> f[i][1], quantity |-> f[i][2]] : i \in DOMAIN f}
    IN  {<<BidSide(f), SupplySide(g)>> : f \in Numbered(MaxBids), g \in Numbered(MaxSupplies)}
===============================================================================
