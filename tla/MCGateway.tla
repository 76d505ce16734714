------------------------------ MODULE MCGateway ------------------------------
(* Instances of Gateway for TLC. *)
EXTENDS Gateway

CONSTANTS r1, r2, w1, a1

\* Two requests a window for bidRateLimit, one for the others.
MCMax == [l \in Limiters |-> IF l = "bidRateLimit" THEN 2 ELSE 1]
=============================================================================
