-------------------------- MODULE SocketRoomsProofs --------------------------
(* Proofs about SocketRooms, for any number of sockets, wallets and timeslots *)
(* and any capacities.                                                        *)
EXTENDS SocketRooms, FiniteSetTheorems, TLAPS

LEMMA RoomFacts ==
  /\ DefaultRooms \subseteq Rooms
  /\ \A w \in Wallets : WalletRoom(w) \in Rooms /\ WalletRoom(w).kind = "wallet"
  /\ \A t \in Timeslots : TimeslotRoom(t) \in Rooms /\ TimeslotRoom(t).kind = "timeslot"
  /\ \A r \in DefaultRooms : r.kind \in {"global", "authenticated", "admin"}
  /\ Room("authenticated", None) \in DefaultRooms
  /\ Room("global", None) \in DefaultRooms
  /\ Room("authenticated", None).kind = "authenticated"
  /\ Room("global", None).kind = "global"
<1>1. \A w \in Wallets : WalletRoom(w) \in Rooms
  BY DEF Rooms
<1>2. \A t \in Timeslots : TimeslotRoom(t) \in Rooms
  BY DEF Rooms
<1>3. \A k \in {"global", "authenticated", "admin"} : Room(k, None) \in DefaultRooms
  BY DEF DefaultRooms
<1>4. \A k, x : Room(k, x).kind = k
  BY DEF Room
<1>5. \A r \in DefaultRooms : r.kind \in {"global", "authenticated", "admin"}
  BY <1>4 DEF DefaultRooms
<1>6. DefaultRooms \subseteq Rooms
  BY DEF Rooms
<1> QED BY <1>1, <1>2, <1>3, <1>4, <1>5, <1>6 DEF WalletRoom, TimeslotRoom

-----------------------------------------------------------------------------
(* Types *)

\* Only sockets with a token wait for its validation.
TokenInv == \A s \in Sockets : phase[s] \in {"validating", "gone"} => WalletOf[s] # None

Typed == TypeOK /\ TokenInv

LEMMA InitTyped == Init => Typed
BY RoomFacts DEF Init, Typed, TokenInv, TypeOK, Phases

LEMMA ConnectingTyped ==
  ASSUME Typed, NEW s \in Sockets,
         \/ ConnectAnonymous(s) \/ Handshake(s) \/ HandshakeRefused(s)
         \/ ClientLeavesEarly(s) \/ RegisterGone(s) \/ Connect(s)
  PROVE  Typed'
<1> USE SocketAssumption DEF bookVars, Typed, TypeOK, TokenInv, Phases
<1>1. CASE ConnectAnonymous(s)
  BY <1>1 DEF ConnectAnonymous, JoinDirectly
<1>2. CASE Handshake(s)
  BY <1>2 DEF Handshake
<1>3. CASE HandshakeRefused(s)
  BY <1>3 DEF HandshakeRefused
<1>4. CASE ClientLeavesEarly(s)
  BY <1>4 DEF ClientLeavesEarly
<1>5. CASE RegisterGone(s)
  BY <1>5 DEF RegisterGone, Register
<1>6. CASE Connect(s)
  BY <1>6, RoomFacts DEF Connect, Register, JoinDirectly
<1> QED BY <1>1, <1>2, <1>3, <1>4, <1>5, <1>6

LEMMA RoomsTyped ==
  ASSUME Typed, NEW s \in Sockets,
         \/ \E r \in Rooms : JoinRoom(s, r) \/ LeaveRoom(s, r)
         \/ \E t \in Timeslots : JoinTimeslot(s, t)
         \/ GoInactive(s) \/ Ping(s)
  PROVE  Typed'
<1> USE DEF bookVars, Typed, TypeOK, TokenInv
<1>1. CASE \E r \in Rooms : JoinRoom(s, r)
  BY <1>1 DEF JoinRoom, Enter
<1>2. CASE \E r \in Rooms : LeaveRoom(s, r)
  BY <1>2 DEF LeaveRoom
<1>3. CASE \E t \in Timeslots : JoinTimeslot(s, t)
  BY <1>3, RoomFacts DEF JoinTimeslot, Enter
<1>4. CASE GoInactive(s)
  BY <1>4 DEF GoInactive
<1>5. CASE Ping(s)
  BY <1>5 DEF Ping
<1> QED BY <1>1, <1>2, <1>3, <1>4, <1>5

\* The default rooms survive the cleaning.
LEMMA CleanKeepsDefaults ==
  ASSUME Typed, NEW left, CleanEmptyRooms(left)
  PROVE  DefaultRooms \subseteq existing' /\ existing' \subseteq existing
BY RoomFacts DEF CleanEmptyRooms, Typed, TypeOK

\* A socket found silent is open.
LEMMA SilentOpen == Silent \subseteq Sockets \cap authenticated /\ \A s \in Silent : phase[s] = "open"
BY DEF Silent, SignedIn

LEMMA DisconnectedTyped ==
  ASSUME Typed, NEW D \in SUBSET Sockets, Disconnected(D),
         DefaultRooms \subseteq existing', existing' \subseteq existing, inactive' \subseteq inactive
  PROVE  Typed'
<1>1. IsFiniteSet(D \cap authenticated)
  BY SocketAssumption, FS_Subset
<1>2. Cardinality(D \cap authenticated) \in Nat
  BY <1>1, FS_CardinalityType
<1> QED BY <1>2 DEF Disconnected, Typed, TypeOK, TokenInv, Phases

LEMMA NextTyped == Typed /\ [Next]_vars => Typed'
<1> SUFFICES ASSUME Typed, [Next]_vars PROVE Typed'
  OBVIOUS
<1>1. CASE UNCHANGED vars
  BY <1>1 DEF vars, Typed, TypeOK, TokenInv
<1>2. ASSUME NEW s \in Sockets, Disconnect(s)
      PROVE  Typed'
  BY <1>2, DisconnectedTyped DEF Disconnect, Typed, TypeOK
<1>3. CASE Interval
  <2>1. PICK left : CleanEmptyRooms(left)
    BY <1>3 DEF Interval
  <2>2. Silent \in SUBSET Sockets
    BY DEF Silent, SignedIn, Typed, TypeOK
  <2> QED BY <1>3, <2>1, <2>2, CleanKeepsDefaults, DisconnectedTyped DEF Interval
<1> QED BY <1>1, <1>2, <1>3, ConnectingTyped, RoomsTyped DEF Next, SocketStep

\* Every state of the server is well typed, the default rooms always exist.
THEOREM TypeCorrect == Spec => []TypeOK
<1>1. Typed => TypeOK
  BY DEF Typed
<1> QED BY <1>1, InitTyped, NextTyped, PTL DEF Spec

LEMMA AlwaysTyped == Spec => []Typed
BY InitTyped, NextTyped, PTL DEF Spec

-----------------------------------------------------------------------------
(* The books of the room service and of socket.io agree *)

Books == MembersAreJoined /\ NoStrangers

LEMMA InitBooks == Init => Books
BY DEF Init, Books, MembersAreJoined, NoStrangers, Rooms

\* Sockets that are not open are nobody's members: their steps disturb nothing.
LEMMA ConnectingBooks ==
  ASSUME Typed, Books, NEW s \in Sockets,
         \/ ConnectAnonymous(s) \/ Handshake(s) \/ HandshakeRefused(s)
         \/ ClientLeavesEarly(s) \/ RegisterGone(s) \/ Connect(s)
  PROVE  Books'
<1>1. phase[s] # "open"
  BY DEF ConnectAnonymous, Handshake, HandshakeRefused, ClientLeavesEarly, RegisterGone, Connect
<1>2. rooms' = rooms /\ userRooms' = userRooms /\ existing \subseteq existing'
  BY DEF ConnectAnonymous, Handshake, HandshakeRefused, ClientLeavesEarly, RegisterGone,
         Connect, bookVars
<1>3. \A x \in Sockets \ {s} : phase'[x] = phase[x]
  BY DEF ConnectAnonymous, Handshake, HandshakeRefused, ClientLeavesEarly, RegisterGone,
         Connect, Typed, TypeOK
<1>4. /\ \A r \in Rooms : joined[r] \subseteq joined'[r]
      /\ \A r \in Rooms : r.kind \in {"admin", "timeslot"} => joined'[r] = joined[r]
  <2>1. WalletOf[s] # None => WalletOf[s] \in Wallets
    BY SocketAssumption
  <2>2. CASE ConnectAnonymous(s)
    BY <2>2, RoomFacts DEF ConnectAnonymous, JoinDirectly
  <2>3. CASE Connect(s)
    <3>1. WalletOf[s] \in Wallets
      BY <2>1, <2>3 DEF Connect, Typed, TokenInv
    <3> QED BY <2>3, <3>1, RoomFacts DEF Connect, JoinDirectly
  <2>4. CASE ~ ConnectAnonymous(s) /\ ~ Connect(s)
    BY <2>4 DEF Handshake, HandshakeRefused, ClientLeavesEarly, RegisterGone
  <2> QED BY <2>2, <2>3, <2>4
<1>5. MembersAreJoined'
  BY <1>1, <1>2, <1>3, <1>4 DEF Books, MembersAreJoined, Open
<1>6. NoStrangers'
  BY <1>2, <1>4 DEF Books, NoStrangers
<1> QED BY <1>5, <1>6 DEF Books

LEMMA RoomsBooks ==
  ASSUME Typed, Books, NEW s \in Sockets,
         \/ \E r \in Rooms : JoinRoom(s, r) \/ LeaveRoom(s, r)
         \/ \E t \in Timeslots : JoinTimeslot(s, t)
         \/ GoInactive(s) \/ Ping(s)
  PROVE  Books'
<1> USE DEF Books, MembersAreJoined, NoStrangers, Open, Typed, TypeOK
<1>1. ASSUME NEW r \in Rooms, Enter(s, r), r \in existing', existing \subseteq existing',
             phase' = phase, phase[s] = "open"
      PROVE  Books'
  <2>1. MembersAreJoined'
    BY <1>1 DEF Enter
  <2>2. NoStrangers'
    BY <1>1 DEF Enter
  <2> QED BY <2>1, <2>2
<1>2. ASSUME NEW r \in Rooms, JoinRoom(s, r)
      PROVE  Books'
  BY <1>1, <1>2 DEF JoinRoom, SignedIn
<1>3. ASSUME NEW t \in Timeslots, JoinTimeslot(s, t)
      PROVE  Books'
  <2>1. TimeslotRoom(t) \in Rooms
    BY RoomFacts
  <2>2. /\ Enter(s, TimeslotRoom(t)) /\ phase' = phase /\ phase[s] = "open"
        /\ existing' = existing \cup {TimeslotRoom(t)}
    BY <1>3 DEF JoinTimeslot, SignedIn
  <2> QED BY <1>1, <2>1, <2>2
<1>4. ASSUME NEW r \in Rooms, LeaveRoom(s, r)
      PROVE  Books'
  <2>1. MembersAreJoined'
    BY <1>4 DEF LeaveRoom
  <2>2. NoStrangers'
    BY <1>4 DEF LeaveRoom
  <2> QED BY <2>1, <2>2
<1>5. CASE GoInactive(s) \/ Ping(s)
  BY <1>5 DEF GoInactive, Ping, bookVars
<1> QED BY <1>2, <1>3, <1>4, <1>5

\* Rooms that a disconnected socket does not leave empty are kept.
LEMMA DisconnectedBooks ==
  ASSUME Typed, Books, NEW D \in SUBSET Sockets, Disconnected(D),
         \A r \in existing : rooms[r] \ D # {} => r \in existing'
  PROVE  Books'
BY DEF Disconnected, Books, MembersAreJoined, NoStrangers, Open, Typed, TypeOK

LEMMA NextBooks == Typed /\ Books /\ [Next]_vars => Books'
<1> SUFFICES ASSUME Typed, Books, [Next]_vars PROVE Books'
  OBVIOUS
<1>1. CASE UNCHANGED vars
  BY <1>1 DEF vars, Books, MembersAreJoined, NoStrangers, Open
<1>2. ASSUME NEW s \in Sockets, Disconnect(s)
      PROVE  Books'
  BY <1>2, DisconnectedBooks DEF Disconnect
<1>3. CASE Interval
  <2>1. Silent \in SUBSET Sockets
    BY DEF Silent, SignedIn, Typed, TypeOK
  <2>2. PICK first : CleanEmptyRooms([r \in Rooms |-> rooms[r] \ {s \in Silent : first[s] = r}])
    BY <1>3 DEF Interval
  <2>3. \A r \in existing : rooms[r] \ Silent # {} => r \in existing'
    BY <2>2 DEF CleanEmptyRooms, Typed, TypeOK
  <2> QED BY <1>3, <2>1, <2>3, DisconnectedBooks DEF Interval
<1> QED BY <1>1, <1>2, <1>3, ConnectingBooks, RoomsBooks DEF Next, SocketStep

LEMMA AlwaysBooks == Spec => []Books
BY AlwaysTyped, InitBooks, NextBooks, PTL DEF Spec

\* Whoever the room service counts in a room is connected, is listed there and
\* receives the room's broadcasts, whatever order sockets come and go in.
THEOREM MembersStayJoined == Spec => []MembersAreJoined
<1>1. Books => MembersAreJoined
  BY DEF Books
<1> QED BY <1>1, AlwaysBooks, PTL

\* Nobody receives the broadcasts of a timeslot's or the administrators' room
\* but the members that the room service let in.
THEOREM RoomsHaveNoStrangers == Spec => []NoStrangers
<1>1. Books => NoStrangers
  BY DEF Books
<1> QED BY <1>1, AlwaysBooks, PTL

-----------------------------------------------------------------------------
(* The count of connections *)

LEMMA InitCounted == Init => ConnectionsCounted
BY FS_EmptySet DEF Init, ConnectionsCounted, Open

\* The registered sockets in D, all open, are counted off.
LEMMA DisconnectedCounted ==
  ASSUME Typed, ConnectionsCounted, NEW D \in SUBSET Sockets, Disconnected(D),
         \A s \in D : phase[s] = "open"
  PROVE  ConnectionsCounted'
<1> DEFINE A == Open \cap authenticated
<1>1. IsFiniteSet(A)
  BY SocketAssumption, FS_Subset DEF Open
<1>2. Cardinality(A \ D) = Cardinality(A) - Cardinality(A \cap D)
  BY <1>1, FS_Difference
<1>3. A \cap D = D \cap authenticated
  BY DEF Open
<1>4. (Open \cap authenticated)' = A \ D
  BY DEF Disconnected, Open, Typed, TypeOK
<1>5. connections' = connections - Cardinality(D \cap authenticated)
  BY DEF Disconnected
<1> QED BY <1>2, <1>3, <1>4, <1>5 DEF ConnectionsCounted

\* Only a connection that is set up adds to those counted.
LEMMA SocketStepCounted ==
  ASSUME Typed, ConnectionsCounted, NEW s \in Sockets, SocketStep(s), ~ Disconnect(s)
  PROVE  ConnectionsCounted'
<1> DEFINE A == Open \cap authenticated
<1>1. CASE Connect(s)
  <2>1. IsFiniteSet(A) /\ s \notin A
    BY <1>1, SocketAssumption, FS_Subset DEF Open, Connect
  <2>2. Cardinality(A \cup {s}) = Cardinality(A) + 1
    BY <2>1, FS_AddElement
  <2>3. (Open \cap authenticated)' = A \cup {s}
    BY <1>1 DEF Connect, Register, Open, Typed, TypeOK
  <2> QED BY <1>1, <2>2, <2>3 DEF Connect, ConnectionsCounted
<1>2. CASE ~ Connect(s)
  <2>1. connections' = connections
    BY <1>2 DEF SocketStep, ConnectAnonymous, Handshake, HandshakeRefused, ClientLeavesEarly,
       RegisterGone, JoinRoom, LeaveRoom, JoinTimeslot, GoInactive, Ping
  <2>2. (Open \cap authenticated)' = A
    <3> USE DEF Open, Typed, TypeOK, TokenInv
    <3>1. CASE ConnectAnonymous(s)
      BY <3>1 DEF ConnectAnonymous
    <3>2. CASE Handshake(s) \/ HandshakeRefused(s) \/ ClientLeavesEarly(s)
      BY <3>2 DEF Handshake, HandshakeRefused, ClientLeavesEarly
    <3>3. CASE RegisterGone(s)
      BY <3>3 DEF RegisterGone, Register
    <3>4. CASE phase' = phase /\ authenticated' = authenticated
      BY <3>4
    <3> QED BY <1>2, <3>1, <3>2, <3>3, <3>4 DEF SocketStep, JoinRoom, LeaveRoom, JoinTimeslot,
              GoInactive, Ping
  <2> QED BY <2>1, <2>2 DEF ConnectionsCounted
<1> QED BY <1>1, <1>2

LEMMA NextCounted == Typed /\ ConnectionsCounted /\ [Next]_vars => ConnectionsCounted'
<1> SUFFICES ASSUME Typed, ConnectionsCounted, [Next]_vars PROVE ConnectionsCounted'
  OBVIOUS
<1>1. CASE UNCHANGED vars
  BY <1>1 DEF vars, ConnectionsCounted, Open
<1>2. ASSUME NEW s \in Sockets, Disconnect(s)
      PROVE  ConnectionsCounted'
  BY <1>2, DisconnectedCounted DEF Disconnect
<1>3. CASE Interval
  <2>1. Silent \in SUBSET Sockets /\ \A s \in Silent : phase[s] = "open"
    BY DEF Silent, SignedIn, Typed, TypeOK
  <2> QED BY <1>3, <2>1, DisconnectedCounted DEF Interval
<1> QED BY <1>1, <1>2, <1>3, SocketStepCounted DEF Next

\* The count of connections that the statistics report is that of the open,
\* signed-in ones, although every way in and out changes it by hand.
THEOREM ConnectionsStayCounted == Spec => []ConnectionsCounted
BY AlwaysTyped, InitCounted, NextCounted, PTL DEF Spec

-----------------------------------------------------------------------------
(* Events reach their clients *)

\* An open socket with a token is registered, and so is everyone in the room of
\* those who signed in.
RegisteredInv ==
  /\ \A s \in Open : WalletOf[s] # None => s \in authenticated
  /\ joined[Room("authenticated", None)] \subseteq authenticated

LEMMA InitRegistered == Init => RegisteredInv
BY RoomFacts DEF Init, RegisteredInv, Open

LEMMA DisconnectedRegistered ==
  ASSUME Typed, RegisteredInv, NEW D \in SUBSET Sockets, Disconnected(D)
  PROVE  RegisteredInv'
BY RoomFacts DEF Disconnected, RegisteredInv, Open, Typed, TypeOK

LEMMA SocketStepRegistered ==
  ASSUME Typed, RegisteredInv, NEW s \in Sockets, SocketStep(s)
  PROVE  RegisteredInv'
<1> USE DEF RegisteredInv, Open, Typed, TypeOK
<1>1. Room("authenticated", None) \in Rooms
  BY RoomFacts
<1>2. CASE ConnectAnonymous(s)
  BY <1>1, <1>2, RoomFacts DEF ConnectAnonymous, JoinDirectly
<1>3. CASE Handshake(s) \/ HandshakeRefused(s) \/ ClientLeavesEarly(s) \/ GoInactive(s) \/ Ping(s)
  BY <1>3 DEF Handshake, HandshakeRefused, ClientLeavesEarly, GoInactive, Ping
<1>4. CASE RegisterGone(s)
  BY <1>4 DEF RegisterGone, Register
<1>5. CASE Connect(s)
  BY <1>1, <1>5 DEF Connect, Register, JoinDirectly
<1>6. CASE \E r \in Rooms : JoinRoom(s, r)
  BY <1>1, <1>6 DEF JoinRoom, SignedIn, Enter
<1>7. CASE \E r \in Rooms : LeaveRoom(s, r)
  BY <1>1, <1>7 DEF LeaveRoom
<1>8. CASE \E t \in Timeslots : JoinTimeslot(s, t)
  BY <1>1, <1>8, RoomFacts DEF JoinTimeslot, SignedIn, Enter
<1>9. CASE Disconnect(s)
  BY <1>9, DisconnectedRegistered DEF Disconnect
<1> QED BY <1>2, <1>3, <1>4, <1>5, <1>6, <1>7, <1>8, <1>9 DEF SocketStep

LEMMA NextRegistered == Typed /\ RegisteredInv /\ [Next]_vars => RegisteredInv'
<1> SUFFICES ASSUME Typed, RegisteredInv, [Next]_vars PROVE RegisteredInv'
  OBVIOUS
<1>1. CASE UNCHANGED vars
  BY <1>1 DEF vars, RegisteredInv, Open
<1>2. CASE Interval
  <2>1. Silent \in SUBSET Sockets
    BY DEF Silent, SignedIn, Typed, TypeOK
  <2> QED BY <1>2, <2>1, DisconnectedRegistered DEF Interval
<1> QED BY <1>1, <1>2, SocketStepRegistered DEF Next

LEMMA ReachingFollows ==
  ASSUME Typed, Books, RegisteredInv
  PROVE  UpdatesReachClients
<1> SUFFICES ASSUME NEW s \in Open, NEW t \in Timeslots
             PROVE  /\ \A w \in Wallets :
                         s \in joined[WalletRoom(w)] /\ WalletOf[s] = w =>
                            WalletRoom(w) \in emitBid(s, t, w) \cap emitSupply(s, t, w)
                                               \cap emitWalletBalanceUpdate(s, w)
                    /\ TimeslotRoom(t) \in userRooms[s] => emitTimeslot(s, t) # {}
                    /\ emitAnnouncement(s) # {} => s \in authenticated
  BY DEF UpdatesReachClients
<1> s \in Sockets
  BY DEF Open
<1>1. ASSUME NEW w \in Wallets, s \in joined[WalletRoom(w)], WalletOf[s] = w
      PROVE  WalletRoom(w) \in emitBid(s, t, w) \cap emitSupply(s, t, w)
                                  \cap emitWalletBalanceUpdate(s, w)
  <2>1. s \in authenticated
    BY <1>1, SocketAssumption DEF RegisteredInv
  <2>2. WalletRoom(w) \in WalletRoomsOf(w)
    BY <1>1, <2>1 DEF WalletRoomsOf
  <2> QED BY <1>1, <2>2 DEF emitBid, emitSupply, emitWalletBalanceUpdate, broadcastBidUpdate,
             broadcastSupplyUpdate, sendWalletNotification, sendUserNotification, Heard
<1>2. ASSUME TimeslotRoom(t) \in userRooms[s]
      PROVE  emitTimeslot(s, t) # {}
  <2>1. s \in joined[TimeslotRoom(t)]
    BY <1>2, RoomFacts DEF Books, MembersAreJoined
  <2> QED BY <2>1 DEF emitTimeslot, broadcastTimeslotUpdate, Heard
<1>3. emitAnnouncement(s) # {} => s \in authenticated
  BY DEF emitAnnouncement, Heard, RegisteredInv
<1> QED BY <1>1, <1>2, <1>3

\* Events about an offer, a wallet or a timeslot reach the clients that stayed in
\* the rooms meant for them, and announcements nobody who did not sign in.
THEOREM EventsReachClients == Spec => []UpdatesReachClients
<1>1. Typed /\ Books /\ RegisteredInv => UpdatesReachClients
  BY ReachingFollows
<1> QED BY <1>1, AlwaysTyped, AlwaysBooks, InitRegistered, NextRegistered, PTL DEF Spec
==============================================================================
