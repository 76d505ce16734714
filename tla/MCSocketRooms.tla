---------------------------- MODULE MCSocketRooms ----------------------------
(* Small instances of SocketRooms: two sockets that sign in and one that    *)
(* does not, and rooms for one or two members.                              *)
EXTENDS SocketRooms, TLC

CONSTANTS a, b, c, w1, w2

MCWalletOf == (a :> w1) @@ (b :> w2) @@ (c :> None)

MCMaxConnections ==
    [global |-> 1, authenticated |-> 2, admin |-> 1, wallet |-> 1, timeslot |-> 2]
==============================================================================
