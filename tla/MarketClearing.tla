---------------------------- MODULE MarketClearing ----------------------------
(***************************************************************************)
(* The merit-order market clearing of src/services/clearing-price.service.ts*)
(* as a relation between a book and its results.  A bid is a record with   *)
(* fields id, price and quantity, a supply offer one with fields id,       *)
(* reservePrice and quantity.  Prices and quantities are positive whole     *)
(* numbers: the code's Decimal(10,4) columns read as JavaScript numbers,   *)
(* without their rounding.                                                 *)
(*                                                                         *)
(* The database returns the rows in no particular order and the sort keeps *)
(* the order of equal prices, so the result of a book with ties is one of  *)
(* several: ClearingOutcomes is a set.                                     *)
(***************************************************************************)
EXTENDS Integers, FiniteSets, FiniteSetsExt

Smaller(a, b) == IF a <= b THEN a ELSE b

\* All listings of S in which no entry appears twice.
Listings(S) ==
    {s \in [1..Cardinality(S) -> S] : \A i, j \in DOMAIN s : s[i] = s[j] => i = j}

\* Bids, the highest price first; supplies, the lowest reserve price first.
SortedBids(B) ==
    {s \in Listings(B) : \A i, j \in DOMAIN s : i < j => s[i].price >= s[j].price}

SortedSupplies(S) ==
    {s \in Listings(S) :
        \A i, j \in DOMAIN s : i < j => s[i].reservePrice <= s[j].reservePrice}

\* The total quantity of a set of rows.
QuantityOf(M) == MapThenSumSet(LAMBDA m : m.quantity, M)

\* The quantity offered by the entries of s at the positions in P.
QuantityAt(s, P) == MapThenSumSet(LAMBDA i : s[i].quantity, P)

\* The k-th point of the demand or supply curve of a sorted side of the book.
Cumulative(s, k) == QuantityAt(s, 1..k)

\* Mutant: the search for the supply point is off by one unit.
MeetsOneShort(bs, ss, i, j) ==
    /\ Cumulative(ss, j) + 1 >= Cumulative(bs, i)
    /\ \A k \in 1..(j - 1) : Cumulative(ss, k) + 1 < Cumulative(bs, i)
    /\ bs[i].price >= ss[j].reservePrice

\* Supply point j is the first that covers demand point i, and its price fits.
Meets(bs, ss, i, j) ==
    /\ Cumulative(ss, j) >= Cumulative(bs, i)
    /\ \A k \in 1..(j - 1) : Cumulative(ss, k) < Cumulative(bs, i)
    /\ bs[i].price >= ss[j].reservePrice

\* The curves are said to intersect at the first demand point that is met.
Intersects(bs, ss, i, j) ==
    /\ Meets(bs, ss, i, j)
    /\ \A k \in 1..(i - 1), l \in DOMAIN ss : ~ Meets(bs, ss, k, l)

\* What the pass over one side of the book has left to give before position k,
\* when it starts with q and serves the positions in ok.
LeftBefore(s, ok, q, k) ==
    q - Smaller(q, QuantityAt(s, ok \cap 1..(k - 1)))

\* The entries the pass serves, each with its quantity, and what it leaves unmet.
Served(s, ok, q) ==
    {[id |-> s[k].id, quantity |-> Smaller(s[k].quantity, LeftBefore(s, ok, q, k))] :
        k \in {i \in ok : LeftBefore(s, ok, q, i) > 0}}

Unmet(s, ok, q) ==
    Cumulative(s, Cardinality(DOMAIN s)) - Smaller(q, QuantityAt(s, ok))

NothingCleared(B, S) ==
    [clearingPrice   |-> 0,
     totalVolume     |-> 0,
     matchedBids     |-> {},
     matchedSupplies |-> {},
     unmetDemand     |-> QuantityOf(B),
     unmetSupply     |-> QuantityOf(S)]

\* The result when the sorted book bs, ss clears at demand point i, supply point j.
ClearedAt(bs, ss, i, j) ==
    LET price     == ss[j].reservePrice
        volume    == Smaller(Cumulative(bs, i), Cumulative(ss, j))
        bidsIn    == {k \in DOMAIN bs : bs[k].price >= price}
        offersIn  == {k \in DOMAIN ss : ss[k].reservePrice <= price}
    IN  [clearingPrice   |-> price,
         totalVolume     |-> volume,
         matchedBids     |-> Served(bs, bidsIn, volume),
         matchedSupplies |-> Served(ss, offersIn, volume),
         unmetDemand     |-> Unmet(bs, bidsIn, volume),
         unmetSupply     |-> Unmet(ss, offersIn, volume)]

\* Every result calculateClearingPrice can return for the book of bids B and
\* supply offers S.
ClearingOutcomes(B, S) ==
    UNION {IF \E i \in DOMAIN bs, j \in DOMAIN ss : Intersects(bs, ss, i, j)
           THEN {ClearedAt(bs, ss, ij[1], ij[2]) :
                    ij \in {p \in (DOMAIN bs) \X (DOMAIN ss) : Intersects(bs, ss, p[1], p[2])}}
           ELSE {NothingCleared(B, S)} :
           bs \in SortedBids(B), ss \in SortedSupplies(S)}
===============================================================================
