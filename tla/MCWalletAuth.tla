---------------------------- MODULE MCWalletAuth ----------------------------
(* A small instance of WalletAuth: two wallets that may ask for a nonce    *)
(* each, and calls that may fail wherever the code handles it.             *)
EXTENDS WalletAuth, TLC

CONSTANTS w1, w2, n1, n2

MCOwner == (n1 :> w1) @@ (n2 :> w2)

MCFaults == Writes \cup Retried \cup {"lookup", "resolve"}
=============================================================================
