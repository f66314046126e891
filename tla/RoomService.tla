---------------------------- MODULE RoomService ----------------------------
(***************************************************************************)
(* The rendezvous: the signaling server (SignalingDispatcher, RoomService, *)
(* NatProbeService) and the client roles that talk to it over TCP          *)
(* (HostRoleService, GuestRoleService).                                    *)
(*                                                                         *)
(* A connection is one run of a client: once connected it sends Register   *)
(* and CreateRoom, or Register and JoinRoom, without waiting for an        *)
(* answer.  Its public UDP endpoint is named by the connection itself.     *)
(* Answers nobody acts on (Log, Error) are left out.                       *)
(***************************************************************************)
EXTENDS Naturals, Sequences, FiniteSets

CONSTANTS
    Hosts, Guests,      \* the connections, by the role of the client
    Names,              \* user names
    RoomIds,            \* room numbers the server can draw
    None                \* an empty QString, a null pointer, an unset endpoint

Conns == Hosts \cup Guests

ASSUME RolesAssumption == Hosts \cap Guests = {}
ASSUME NoneAssumption == None \notin Conns \cup Names \cup RoomIds
ASSUME RoomIdsAssumption == Cardinality(RoomIds) >= Cardinality(Hosts)

VARIABLES
    open,               \* connections whose socket is connected
    name,               \* clientId_ of each client (None: not started)
    wanted,             \* roomId_ of each client
    unread,             \* requests the server has yet to read, in order
    inbox,              \* answers each client has yet to read, in order
    idTable,            \* RoomService::idTable_
    clientIdByConnection,
    roomIdByClientId,
    rooms,              \* RoomService::roomsById_ (NoRoom: no such key)
    probes,             \* UDP probes in flight
    lostProbes,         \* history: the probes the network lost
    told                \* history: the endpoints each client was told, in order

clientVars == <<name, wanted>>
tableVars == <<idTable, clientIdByConnection, roomIdByClientId>>
udpVars == <<probes, lostProbes>>
vars == <<open, clientVars, unread, inbox, tableVars, rooms, udpVars, told>>

NoPeer == [clientId |-> None, connection |-> None, udpEndpoint |-> None]
NoRoom == [host |-> NoPeer, client |-> NoPeer, peerEndpointNotified |-> FALSE]

\* A message is its type and, where a client uses it, its room number.
Message(type, r) == [type |-> type, roomId |-> r]
Probe(c, r) == [from |-> c, clientId |-> name[c], roomId |-> r]

MessagesOf(types) == [type : types, roomId : RoomIds \cup {None}]
Peers == [clientId : Names \cup {None}, connection : Conns \cup {None},
          udpEndpoint : Conns \cup {None}]

TypeOK ==
    /\ open \subseteq Conns
    /\ name \in [Conns -> Names \cup {None}]
    /\ wanted \in [Conns -> RoomIds \cup {None}]
    /\ unread \in [Conns -> Seq(MessagesOf({"Register", "CreateRoom", "JoinRoom", "ProbeRequest"}))]
    /\ inbox \in [Conns -> Seq(MessagesOf({"RoomCreated", "PeerJoined", "ProbePermitted"}))]
    /\ idTable \subseteq Names
    /\ clientIdByConnection \in [Conns -> Names \cup {None}]
    /\ roomIdByClientId \in [Names \cup {None} -> RoomIds \cup {None}]
    /\ rooms \in [RoomIds -> [host : Peers, client : Peers, peerEndpointNotified : BOOLEAN]]
    /\ probes \cup lostProbes \subseteq [from : Conns, clientId : Names, roomId : RoomIds]
    /\ told \in [Conns -> Seq(Conns)]

Init ==
    /\ open = {}
    /\ name = [c \in Conns |-> None]
    /\ wanted = [c \in Conns |-> None]
    /\ unread = [c \in Conns |-> <<>>]
    /\ inbox = [c \in Conns |-> <<>>]
    /\ idTable = {}
    /\ clientIdByConnection = [c \in Conns |-> None]
    /\ roomIdByClientId = [n \in Names \cup {None} |-> None]
    /\ rooms = [r \in RoomIds |-> NoRoom]
    /\ probes = {}
    /\ lostProbes = {}
    /\ told = [c \in Conns |-> <<>>]

-----------------------------------------------------------------------------
(* The clients. *)

\* onConnected of the host role.
HostConnects(c, n) ==
    /\ c \in Hosts
    /\ name[c] = None
    /\ open' = open \cup {c}
    /\ name' = [name EXCEPT ![c] = n]
    /\ unread' = [unread EXCEPT ![c] = <<Message("Register", None), Message("CreateRoom", None)>>]
    /\ UNCHANGED <<wanted, inbox, tableVars, rooms, udpVars, told>>

\* onConnected of the guest role; its user was given room number r.
GuestConnects(c, n, r) ==
    /\ c \in Guests
    /\ name[c] = None
    /\ open' = open \cup {c}
    /\ name' = [name EXCEPT ![c] = n]
    /\ wanted' = [wanted EXCEPT ![c] = r]
    /\ unread' = [unread EXCEPT ![c] = <<Message("Register", None), Message("JoinRoom", r)>>]
    /\ UNCHANGED <<inbox, tableVars, rooms, udpVars, told>>

\* The client leaves or loses its connection, with or without the requests it
\* sent last.  No slot of the server handles the disconnected signal.
Disconnect(c) ==
    /\ c \in open
    /\ open' = open \ {c}
    /\ unread' \in {unread, [unread EXCEPT ![c] = <<>>]}
    /\ inbox' = [inbox EXCEPT ![c] = <<>>]
    /\ UNCHANGED <<clientVars, tableVars, rooms, udpVars, told>>

ClientReads(c, type) ==
    /\ inbox[c] # <<>>
    /\ Head(inbox[c]).type = type
    /\ inbox' = [inbox EXCEPT ![c] = Tail(@)]
    /\ UNCHANGED <<open, name, tableVars, rooms, lostProbes, told>>

\* A host keeps the room number for the PeerJoined that will come.
OnRoomCreated(c) ==
    /\ ClientReads(c, "RoomCreated")
    /\ wanted' = [wanted EXCEPT ![c] = Head(inbox[c]).roomId]
    /\ UNCHANGED <<unread, probes>>

\* A host answers PeerJoined for its room with ProbeRequest.
OnPeerJoined(c) ==
    /\ ClientReads(c, "PeerJoined")
    /\ unread' = IF wanted[c] # None /\ Head(inbox[c]).roomId = wanted[c]
                 THEN [unread EXCEPT ![c] = Append(@, Message("ProbeRequest", None))]
                 ELSE unread
    /\ UNCHANGED <<wanted, probes>>

\* Either client sends one UDP probe, and never again.
OnProbePermitted(c) ==
    /\ ClientReads(c, "ProbePermitted")
    /\ probes' = probes \cup {Probe(c, Head(inbox[c]).roomId)}
    /\ UNCHANGED <<unread, wanted>>

ClientStep(c) == OnRoomCreated(c) \/ OnPeerJoined(c) \/ OnProbePermitted(c)

-----------------------------------------------------------------------------
(* The server, one action per outcome of a handler; refusals change nothing. *)

ServerReads(c, type) ==
    /\ unread[c] # <<>>
    /\ Head(unread[c]).type = type
    /\ unread' = [unread EXCEPT ![c] = Tail(@)]
    /\ UNCHANGED <<open, clientVars, udpVars, told>>

\* sendMessage reaches a client only while its socket is connected.
Sent(box, c, m) == IF c \in open THEN [box EXCEPT ![c] = Append(@, m)] ELSE box

\* Fault: the name is not looked up first.
MayRegister_Any(c) == TRUE

MayRegister(c) == name[c] \notin idTable

OnRegister(c) ==
    /\ ServerReads(c, "Register")
    /\ IF MayRegister(c)
       THEN /\ idTable' = idTable \cup {name[c]}
            /\ clientIdByConnection' = [clientIdByConnection EXCEPT ![c] = name[c]]
       ELSE UNCHANGED <<idTable, clientIdByConnection>>
    /\ UNCHANGED <<inbox, roomIdByClientId, rooms>>

\* A connection whose Register was refused is not refused a room: it gets one
\* under the empty name, unless that name has one already.
OnCreateRoom(c) ==
    LET clientId == clientIdByConnection[c] IN
    /\ ServerReads(c, "CreateRoom")
    /\ \/ /\ roomIdByClientId[clientId] # None
          /\ UNCHANGED <<inbox, roomIdByClientId, rooms>>
       \/ /\ roomIdByClientId[clientId] = None
          /\ \E r \in RoomIds :
                /\ rooms[r] = NoRoom
                /\ rooms' = [rooms EXCEPT ![r].host.clientId = clientId,
                                          ![r].host.connection = c]
                /\ roomIdByClientId' = [roomIdByClientId EXCEPT ![clientId] = r]
                /\ inbox' = Sent(inbox, c, Message("RoomCreated", r))
    /\ UNCHANGED <<idTable, clientIdByConnection>>

\* Fault: a room that has a client already is not refused.
MayJoin_Full(c, r) ==
    /\ clientIdByConnection[c] # None
    /\ rooms[r] # NoRoom
    /\ rooms[r].host.connection # c
    /\ rooms[r].host.clientId # clientIdByConnection[c]
    /\ roomIdByClientId[clientIdByConnection[c]] = None

MayJoin(c, r) ==
    /\ clientIdByConnection[c] # None
    /\ rooms[r] # NoRoom
    /\ rooms[r].host.connection # c
    /\ rooms[r].host.clientId # clientIdByConnection[c]
    /\ roomIdByClientId[clientIdByConnection[c]] = None
    /\ rooms[r].client.connection = None

OnJoinRoom(c) ==
    LET r == Head(unread[c]).roomId IN
    /\ ServerReads(c, "JoinRoom")
    /\ IF MayJoin(c, r)
       THEN /\ rooms' = [rooms EXCEPT ![r].client.clientId = clientIdByConnection[c],
                                      ![r].client.connection = c]
            /\ roomIdByClientId' = [roomIdByClientId EXCEPT ![clientIdByConnection[c]] = r]
            /\ inbox' = Sent(inbox, rooms[r].host.connection, Message("PeerJoined", r))
       ELSE UNCHANGED <<rooms, roomIdByClientId, inbox>>
    /\ UNCHANGED <<idTable, clientIdByConnection>>

\* Fault: the sender is compared with the wrong party.
MayProbe_Client(c) ==
    LET r == roomIdByClientId[clientIdByConnection[c]] IN
    /\ clientIdByConnection[c] # None
    /\ r # None
    /\ rooms[r].client.connection = c

\* Only the registered host of a room with a client may start the probing.
MayProbe(c) ==
    LET r == roomIdByClientId[clientIdByConnection[c]] IN
    /\ clientIdByConnection[c] # None
    /\ r # None
    /\ rooms[r].host.connection = c
    /\ rooms[r].client.connection # None

OnProbeRequest(c) ==
    LET r == roomIdByClientId[clientIdByConnection[c]] IN
    /\ ServerReads(c, "ProbeRequest")
    /\ inbox' = IF MayProbe(c)
                THEN Sent(Sent(inbox, c, Message("ProbePermitted", r)),
                          rooms[r].client.connection, Message("ProbePermitted", r))
                ELSE inbox
    /\ UNCHANGED <<tableVars, rooms>>

ServerStep(c) == OnRegister(c) \/ OnCreateRoom(c) \/ OnJoinRoom(c) \/ OnProbeRequest(c)

-----------------------------------------------------------------------------
(* UDP. *)

EndpointsReady(room) == room.host.udpEndpoint # None /\ room.client.udpEndpoint # None

\* The room with the endpoint a probe came from stored for its sender.
WithEndpoint(room, p) ==
    IF room.host.clientId = p.clientId THEN [room EXCEPT !.host.udpEndpoint = p.from]
    ELSE IF room.client.clientId = p.clientId THEN [room EXCEPT !.client.udpEndpoint = p.from]
    ELSE room

\* Fault: the notification is not remembered.
ShouldNotify_Again(room) == EndpointsReady(room)

ShouldNotify(room) == EndpointsReady(room) /\ ~room.peerEndpointNotified

\* onSingleUdpEndpointReady with tryNotifyPeerEndpoints; the path may hold a
\* duplicate of the probe.
OnProbe(p) ==
    LET room == WithEndpoint(rooms[p.roomId], p)
        host == room.host.connection
        client == room.client.connection IN
    /\ p \in probes
    /\ probes' \in {probes, probes \ {p}}
    /\ IF ShouldNotify(room)
       THEN /\ rooms' = [rooms EXCEPT ![p.roomId] = [room EXCEPT !.peerEndpointNotified = TRUE]]
            /\ told' = Sent(Sent(told, host, room.client.udpEndpoint),
                            client, room.host.udpEndpoint)
       ELSE /\ rooms' = [rooms EXCEPT ![p.roomId] = room]
            /\ UNCHANGED told
    /\ UNCHANGED <<open, clientVars, unread, inbox, tableVars, lostProbes>>

LoseProbe(p) ==
    /\ p \in probes
    /\ probes' = probes \ {p}
    /\ lostProbes' = lostProbes \cup {p}
    /\ UNCHANGED <<open, clientVars, unread, inbox, tableVars, rooms, told>>

Next ==
    \/ \E c \in Hosts, n \in Names : HostConnects(c, n)
    \/ \E c \in Guests, n \in Names, r \in RoomIds : GuestConnects(c, n, r)
    \/ \E c \in Conns : Disconnect(c) \/ ClientStep(c) \/ ServerStep(c)
    \/ \E p \in probes : OnProbe(p) \/ LoseProbe(p)

Spec == Init /\ [][Next]_vars

\* The event loops of the server and of the clients keep running, and the path
\* delivers a probe unless it loses it.
Fairness ==
    /\ \A c \in Conns : WF_vars(ClientStep(c)) /\ WF_vars(ServerStep(c))
    /\ WF_vars(\E p \in probes : OnProbe(p))

FairSpec == Spec /\ Fairness

-----------------------------------------------------------------------------
Exists(r) == rooms[r] # NoRoom
Full(r) == rooms[r].client.connection # None
Parties(r) == {rooms[r].host.connection, rooms[r].client.connection} \ {None}

\* roomsById_ and roomIdByClientId_ agree after every sequence of requests: a
\* name is mapped to a room exactly when it is that room's host or client.
MembershipAgrees ==
    \A n \in Names \cup {None}, r \in RoomIds :
        roomIdByClientId[n] = r <=>
            /\ Exists(r)
            /\ n = rooms[r].host.clientId \/ (Full(r) /\ n = rooms[r].client.clientId)

\* Whatever names users choose and however their requests interleave, the
\* server never mixes them up: no two connections share a registered name, a
\* room's parties are two connections known under the names it holds, and no
\* connection is in two rooms.
PartiesAreDistinct ==
    /\ \A c, d \in Conns :
        c # d /\ clientIdByConnection[c] # None => clientIdByConnection[c] # clientIdByConnection[d]
    /\ \A r \in RoomIds : Exists(r) =>
        /\ clientIdByConnection[rooms[r].host.connection] = rooms[r].host.clientId
        /\ Full(r) =>
            /\ clientIdByConnection[rooms[r].client.connection] = rooms[r].client.clientId
            /\ rooms[r].client.connection # rooms[r].host.connection
    /\ \A r, q \in RoomIds : r # q => Parties(r) \cap Parties(q) = {}

\* PeerEndpoint goes to both parties of one room, each being told where the
\* other is, and at most once, however often probes are repeated; a party is
\* left out only if its connection is gone.
IntroducedInPairs ==
    \A c \in Conns :
        /\ Len(told[c]) <= 1
        /\ told[c] # <<>> =>
            \E d \in Conns \ {c}, r \in RoomIds :
                /\ told[c] = <<d>>
                /\ Parties(r) = {c, d}
                /\ d \in open => told[d] = <<c>>

\* Once a registered host's room is full both parties are told of each other,
\* unless one disconnects or a probe, which nobody repeats, is lost.
PairIsIntroduced ==
    \A r \in RoomIds :
        Full(r) /\ rooms[r].host.clientId # None ~>
            \/ \A c \in Parties(r) : told[c] # <<>>
            \/ ~(Parties(r) \subseteq open)
            \/ \E p \in lostProbes : p.roomId = r
=============================================================================
