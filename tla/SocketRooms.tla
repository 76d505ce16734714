----------------------------- MODULE SocketRooms -----------------------------
(***************************************************************************)
(* Connections, rooms and broadcasts of the WebSocket server:              *)
(* socket.service.ts, rooms.service.ts and events.service.ts.              *)
(*                                                                         *)
(* Membership is kept twice: by socket.io, which delivers broadcasts by    *)
(* it, and by the room service, which checks capacities by it.  A handler  *)
(* here awaits nothing but promises already settled, so it runs to its end *)
(* before another event is handled: the handshake, which awaits the        *)
(* database, is the one exception, and the cleaning of rooms runs between  *)
(* the first room and the others that a disconnected socket leaves.        *)
(***************************************************************************)
EXTENDS Integers, FiniteSets

CONSTANTS
    Sockets, Wallets, Timeslots,
    None,           \* no wallet: a socket that connects without a token
    WalletOf,       \* the wallet of each socket's token
    Admins,         \* ADMIN_WALLETS
    MaxConnections  \* by kind of room: 1000, 500, 50, 5 and 200 in the code

Kinds == {"global", "authenticated", "admin", "wallet", "timeslot"}

ASSUME SocketAssumption ==
    /\ IsFiniteSet(Sockets)
    /\ None \notin Wallets \cup Timeslots
    /\ WalletOf \in [Sockets -> Wallets \cup {None}]
    /\ Admins \subseteq Wallets
    /\ MaxConnections \in [Kinds -> Nat \ {0}]

VARIABLES
    phase,          \* what became of each socket's connection
    authenticated,  \* keys of authenticatedSockets
    walletSockets,  \* walletToSockets
    existing,       \* rooms with a configuration
    rooms,          \* members of each room, as the room service counts them
    userRooms,      \* the rooms of each socket, as the room service lists them
    joined,         \* members of each room in socket.io
    inactive,       \* sockets whose lastActivity is 30 minutes old
    connections     \* totalConnections of the statistics

vars == <<phase, authenticated, walletSockets, existing, rooms, userRooms, joined,
          inactive, connections>>

Room(kind, of) == [kind |-> kind, of |-> of]
DefaultRooms == {Room(k, None) : k \in {"global", "authenticated", "admin"}}
WalletRoom(w) == Room("wallet", w)
TimeslotRoom(t) == Room("timeslot", t)
Rooms ==
    DefaultRooms \cup {WalletRoom(w) : w \in Wallets} \cup {TimeslotRoom(t) : t \in Timeslots}

\* "gone": the client left while its token was being validated.
Phases == {"new", "validating", "gone", "open", "closed"}

Init ==
    /\ phase = [s \in Sockets |-> "new"]
    /\ authenticated = {}
    /\ walletSockets = [w \in Wallets |-> {}]
    /\ existing = DefaultRooms
    /\ rooms = [r \in Rooms |-> {}]
    /\ userRooms = [s \in Sockets |-> {}]
    /\ joined = [r \in Rooms |-> {}]
    /\ inactive = {}
    /\ connections = 0

bookVars == <<rooms, userRooms>>

-----------------------------------------------------------------------------
(* Connecting *)

\* handleConnection joins socket.io rooms past the room service.
JoinDirectly(s, R) ==
    joined' = [r \in Rooms |-> IF r \in R THEN joined[r] \cup {s} ELSE joined[r]]

ConnectAnonymous(s) ==
    /\ phase[s] = "new" /\ WalletOf[s] = None
    /\ phase' = [phase EXCEPT ![s] = "open"]
    /\ JoinDirectly(s, {Room("global", None)})
    /\ UNCHANGED <<authenticated, walletSockets, existing, bookVars, inactive, connections>>

\* The middleware awaits validateToken.
Handshake(s) ==
    /\ phase[s] = "new" /\ WalletOf[s] # None
    /\ phase' = [phase EXCEPT ![s] = "validating"]
    /\ UNCHANGED <<authenticated, walletSockets, existing, bookVars, joined, inactive, connections>>

HandshakeRefused(s) ==
    /\ phase[s] \in {"validating", "gone"}
    /\ phase' = [phase EXCEPT ![s] = "closed"]
    /\ UNCHANGED <<authenticated, walletSockets, existing, bookVars, joined, inactive, connections>>

ClientLeavesEarly(s) ==
    /\ phase[s] = "validating"
    /\ phase' = [phase EXCEPT ![s] = "gone"]
    /\ UNCHANGED <<authenticated, walletSockets, existing, bookVars, joined, inactive, connections>>

Register(s) ==
    /\ authenticated' = authenticated \cup {s}
    /\ walletSockets' = [walletSockets EXCEPT ![WalletOf[s]] = @ \cup {s}]

\* Mutant: the connection is counted in the middleware, with the registration.
RegisterAndCount(s) ==
    /\ phase[s] = "gone"
    /\ phase' = [phase EXCEPT ![s] = "closed"]
    /\ Register(s)
    /\ connections' = connections + 1
    /\ UNCHANGED <<existing, bookVars, joined, inactive>>

\* The token is valid, but there is no connection any more: the socket stays
\* registered, and no disconnect will ever remove it.
RegisterGone(s) ==
    /\ phase[s] = "gone"
    /\ phase' = [phase EXCEPT ![s] = "closed"]
    /\ Register(s)
    /\ UNCHANGED <<existing, bookVars, joined, inactive, connections>>

\* Mutant: the connection is set up without the registration.
ConnectUnregistered(s) ==
    /\ phase[s] = "validating"
    /\ phase' = [phase EXCEPT ![s] = "open"]
    /\ existing' = existing \cup {WalletRoom(WalletOf[s])}
    /\ JoinDirectly(s, {WalletRoom(WalletOf[s]), Room("authenticated", None)})
    /\ connections' = connections + 1
    /\ UNCHANGED <<authenticated, walletSockets, bookVars, inactive>>

\* The rest of the middleware, and handleConnection in the same tick.
Connect(s) ==
    /\ phase[s] = "validating"
    /\ phase' = [phase EXCEPT ![s] = "open"]
    /\ Register(s)
    /\ existing' = existing \cup {WalletRoom(WalletOf[s])}
    /\ JoinDirectly(s, {WalletRoom(WalletOf[s]), Room("authenticated", None)})
    /\ connections' = connections + 1
    /\ UNCHANGED <<bookVars, inactive>>

-----------------------------------------------------------------------------
(* Rooms *)

\* The checks of joinRoom on a room that exists.  A member of a full room is
\* refused too.
MayJoin(s, r) ==
    /\ r.kind = "admin" => WalletOf[s] \in Admins
    /\ Cardinality(rooms[r]) < MaxConnections[r.kind]

SignedIn(s) == phase[s] = "open" /\ s \in authenticated

Enter(s, r) ==
    /\ rooms' = [rooms EXCEPT ![r] = @ \cup {s}]
    /\ userRooms' = [userRooms EXCEPT ![s] = @ \cup {r}]
    /\ joined' = [joined EXCEPT ![r] = @ \cup {s}]

JoinRoom(s, r) ==
    /\ SignedIn(s)
    /\ r \in existing /\ MayJoin(s, r)
    /\ Enter(s, r)
    /\ UNCHANGED <<phase, authenticated, walletSockets, existing, inactive, connections>>

\* createTimeslotRoom comes first.
JoinTimeslot(s, t) ==
    /\ SignedIn(s)
    /\ existing' = existing \cup {TimeslotRoom(t)}
    /\ MayJoin(s, TimeslotRoom(t))
    /\ Enter(s, TimeslotRoom(t))
    /\ UNCHANGED <<phase, authenticated, walletSockets, inactive, connections>>

\* Mutant: the socket's own list keeps the room.
LeaveRoomListed(s, r) ==
    /\ SignedIn(s)
    /\ rooms' = [rooms EXCEPT ![r] = @ \ {s}]
    /\ joined' = [joined EXCEPT ![r] = @ \ {s}]
    /\ UNCHANGED <<phase, authenticated, walletSockets, existing, userRooms, inactive, connections>>

\* Mutant: the socket stays in the socket.io room.
LeaveRoomDeaf(s, r) ==
    /\ SignedIn(s)
    /\ s \in joined[r]
    /\ rooms' = [rooms EXCEPT ![r] = @ \ {s}]
    /\ userRooms' = [userRooms EXCEPT ![s] = @ \ {r}]
    /\ UNCHANGED <<phase, authenticated, walletSockets, existing, joined, inactive, connections>>

\* leave_room takes any name, that of a room joined by the server included.
LeaveRoom(s, r) ==
    /\ SignedIn(s)
    /\ s \in joined[r]
    /\ rooms' = [rooms EXCEPT ![r] = @ \ {s}]
    /\ userRooms' = [userRooms EXCEPT ![s] = @ \ {r}]
    /\ joined' = [joined EXCEPT ![r] = @ \ {s}]
    /\ UNCHANGED <<phase, authenticated, walletSockets, existing, inactive, connections>>

-----------------------------------------------------------------------------
(* Disconnecting and cleaning up *)

\* handleDisconnect of the sockets D, leaveAllRooms included, after socket.io
\* has taken them out of its rooms.
Disconnected(D) ==
    /\ phase' = [s \in Sockets |-> IF s \in D THEN "closed" ELSE phase[s]]
    /\ authenticated' = authenticated \ D
    /\ walletSockets' = [w \in Wallets |-> walletSockets[w] \ D]
    /\ rooms' = [r \in Rooms |-> rooms[r] \ D]
    /\ userRooms' = [s \in Sockets |-> IF s \in D THEN {} ELSE userRooms[s]]
    /\ joined' = [r \in Rooms |-> joined[r] \ D]
    /\ connections' = connections - Cardinality(D \cap authenticated)

Disconnect(s) ==
    /\ phase[s] = "open"
    /\ Disconnected({s})
    /\ inactive' = inactive \ {s}
    /\ UNCHANGED existing

GoInactive(s) ==
    /\ SignedIn(s) /\ s \notin inactive
    /\ inactive' = inactive \cup {s}
    /\ UNCHANGED <<phase, authenticated, walletSockets, existing, bookVars, joined, connections>>

Ping(s) ==
    /\ SignedIn(s) /\ s \in inactive
    /\ inactive' = inactive \ {s}
    /\ UNCHANGED <<phase, authenticated, walletSockets, existing, bookVars, joined, connections>>

\* Mutant: no room is taken for a timeslot's.
CleanNoRooms(left) == existing' = existing \ {r \in existing : r.kind = "slot" /\ left[r] = {}}

\* cleanupEmptyRooms, when the rooms have the members left.
CleanEmptyRooms(left) ==
    existing' = existing \ {r \in existing : r.kind = "timeslot" /\ left[r] = {}}

\* Mutant: sockets without a room are passed over.
SilentMembers == {s \in inactive : SignedIn(s) /\ userRooms[s] # {}}

\* cleanupInactiveConnections: the sockets it disconnects.
Silent == {s \in inactive : SignedIn(s)}

\* The five minute interval.  Every inactive socket leaves the first of its rooms
\* (a set here, so any of them), then empty rooms are deleted, then the
\* disconnected sockets leave their other rooms.
Interval ==
    /\ Disconnected(Silent)
    /\ inactive' = inactive \ Silent
    /\ \E first \in [Silent -> UNION {userRooms[s] : s \in Silent} \cup {None}] :
         /\ \A s \in Silent : userRooms[s] # {} => first[s] \in userRooms[s]
         /\ CleanEmptyRooms([r \in Rooms |-> rooms[r] \ {s \in Silent : first[s] = r}])

-----------------------------------------------------------------------------
(* Broadcasts: the rooms through which a socket is sent an event *)

Heard(s, R) == {r \in R : s \in joined[r]}

\* broadcastToWallet finds the wallet room of a user through the first of the
\* user's registered sockets.
WalletRoomsOf(owner) ==
    {WalletRoom(WalletOf[x]) : x \in {y \in authenticated : WalletOf[y] = owner}}

\* One message per room: the timeslot's, the owner's and that of all who signed in.
broadcastBidUpdate(s, t, owner) ==
    Heard(s, {TimeslotRoom(t), Room("authenticated", None)} \cup WalletRoomsOf(owner))
broadcastSupplyUpdate(s, t, owner) == broadcastBidUpdate(s, t, owner)
broadcastTimeslotUpdate(s, t) == Heard(s, {TimeslotRoom(t), Room("authenticated", None)})
sendWalletNotification(s, w) == Heard(s, {WalletRoom(w)})

\* The notification is put together and logged, but never sent.
sendUserNotification(s, owner) == {}

emitBid(s, t, owner) == broadcastBidUpdate(s, t, owner) \cup sendUserNotification(s, owner)
emitSupply(s, t, owner) == broadcastSupplyUpdate(s, t, owner) \cup sendUserNotification(s, owner)
emitTimeslot(s, t) == broadcastTimeslotUpdate(s, t)
emitWalletBalanceUpdate(s, w) == sendWalletNotification(s, w)
emitAnnouncement(s) == Heard(s, {Room("authenticated", None)})

-----------------------------------------------------------------------------

SocketStep(s) ==
    \/ ConnectAnonymous(s) \/ Handshake(s) \/ HandshakeRefused(s)
    \/ ClientLeavesEarly(s) \/ RegisterGone(s) \/ Connect(s)
    \/ \E r \in Rooms : JoinRoom(s, r) \/ LeaveRoom(s, r)
    \/ \E t \in Timeslots : JoinTimeslot(s, t)
    \/ Disconnect(s) \/ GoInactive(s) \/ Ping(s)

Next == (\E s \in Sockets : SocketStep(s)) \/ Interval

Spec == Init /\ [][Next]_vars

\* The interval keeps firing; clients owe nothing.
FairSpec == Spec /\ WF_vars(Interval)

-----------------------------------------------------------------------------
(* Properties *)

Open == {s \in Sockets : phase[s] = "open"}

\* Types of all state.
TypeOK ==
    /\ phase \in [Sockets -> Phases]
    /\ authenticated \subseteq {s \in Sockets : WalletOf[s] # None}
    /\ walletSockets \in [Wallets -> SUBSET Sockets]
    /\ DefaultRooms \subseteq existing /\ existing \subseteq Rooms
    /\ rooms \in [Rooms -> SUBSET Sockets]
    /\ userRooms \in [Sockets -> SUBSET Rooms]
    /\ joined \in [Rooms -> SUBSET Sockets]
    /\ inactive \subseteq Sockets
    /\ connections \in Int

\* The room service's two views of who is where agree, only rooms that exist have
\* members, and whoever it counts is connected and gets the room's broadcasts
\* (rooms.service.ts:86-100, 130-143, 169-176, 290-300).
MembersAreJoined ==
    \A r \in Rooms, s \in Sockets :
        /\ s \in rooms[r] <=> r \in userRooms[s]
        /\ s \in rooms[r] => r \in existing /\ s \in joined[r] /\ s \in Open

\* Rooms that nobody enters but through the room service have the members it
\* counts: a broadcast reaches no socket that left or never was let in.
NoStrangers ==
    \A r \in Rooms : r.kind \in {"admin", "timeslot"} => joined[r] = rooms[r]

\* totalConnections counts the open connections that are signed in, however they
\* came and went (rooms.service.ts:178-182, 280-285).
ConnectionsCounted == connections = Cardinality(Open \cap authenticated)

\* The events of an offer and the balance of a wallet reach every connected socket
\* of the owner that has stayed in its wallet room, the events of a timeslot every
\* socket that has joined it, announcements only sockets that signed in
\* (socket.service.ts:280-357).
UpdatesReachClients ==
    \A s \in Open, t \in Timeslots :
        /\ \A w \in Wallets :
             s \in joined[WalletRoom(w)] /\ WalletOf[s] = w =>
                 WalletRoom(w) \in emitBid(s, t, w) \cap emitSupply(s, t, w)
                                    \cap emitWalletBalanceUpdate(s, w)
        /\ TimeslotRoom(t) \in userRooms[s] => emitTimeslot(s, t) # {}
        /\ emitAnnouncement(s) # {} => s \in authenticated

\* An empty timeslot room is deleted, unless somebody joins it.
EmptyRoomsGo ==
    \A t \in Timeslots :
        TimeslotRoom(t) \in existing ~> TimeslotRoom(t) \notin existing \/ rooms[TimeslotRoom(t)] # {}

\* A client that is silent for half an hour is disconnected, unless it pings first.
InactiveDisconnected ==
    \A s \in Sockets : s \in inactive /\ s \in Open ~> s \notin inactive \/ s \notin Open

===============================================================================
