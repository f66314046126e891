------------------------- MODULE RoomServiceProofs -------------------------
(***************************************************************************)
(* Proofs about RoomService, for any number of clients, names and rooms.   *)
(*                                                                         *)
(* The safety properties are not inductive: that no connection gets into   *)
(* two rooms depends on the requests it still has unread, and that each    *)
(* party is told of the other on the probes that are under way.  RInv says *)
(* what travels between the clients and the server.  WayInv, proved on top *)
(* of it, says that the introduction of a pair is always under way.        *)
(***************************************************************************)
EXTENDS RoomService, TLAPS

IsParty(c, r) == rooms[r].host.connection = c \/ rooms[r].client.connection = c
IsFree(c) == \A r \in RoomIds : ~IsParty(c, r)

Once == {"CreateRoom", "JoinRoom"}

\* Register is the first request, and a client asks for one room only; as long
\* as one of the two is unread the client is in no room.
RequestsInOrder ==
    \A c \in Conns :
        /\ \A i \in 1 .. Len(unread[c]) :
            /\ unread[c][i].type = "Register" => i = 1 /\ clientIdByConnection[c] = None
            /\ unread[c][i].type = "JoinRoom" => unread[c][i].roomId \in RoomIds
            /\ unread[c][i].type # "ProbeRequest" => IsFree(c)
        /\ \A i, j \in 1 .. Len(unread[c]) :
            unread[c][i].type \in Once /\ unread[c][j].type \in Once => i = j

\* A client that was never started is unknown to the server.
StrangersAreUnknown ==
    \A c \in Conns : name[c] = None =>
        /\ c \notin open
        /\ unread[c] = <<>> /\ inbox[c] = <<>>
        /\ clientIdByConnection[c] = None
        /\ IsFree(c)

\* A registered connection has its client's name.
NamesAreOwn ==
    \A c \in Conns : clientIdByConnection[c] # None =>
        clientIdByConnection[c] = name[c] /\ name[c] \in idTable

\* A room has a host before it has a client, and their endpoints are their own.
RoomsAreFilled ==
    \A r \in RoomIds :
        /\ Exists(r) => rooms[r].host.connection # None
        /\ Full(r) => Exists(r) /\ rooms[r].client.clientId # None
        /\ ~Full(r) => rooms[r].client = NoPeer /\ ~rooms[r].peerEndpointNotified
        /\ rooms[r].host.udpEndpoint \in {None, rooms[r].host.connection}
        /\ rooms[r].client.udpEndpoint \in {None, rooms[r].client.connection}

\* Only a registered party of a room is allowed to probe, and does.
MayBeProbed(c, r) == r \in RoomIds /\ IsParty(c, r) /\ clientIdByConnection[c] # None

PermitsAreOwn ==
    \A c \in Conns : \A i \in 1 .. Len(inbox[c]) :
        inbox[c][i].type = "ProbePermitted" => MayBeProbed(c, inbox[c][i].roomId)

ProbesAreOwn ==
    \A p \in probes :
        /\ MayBeProbed(p.from, p.roomId)
        /\ clientIdByConnection[p.from] = p.clientId

\* The parties of a room have heard of each other exactly if the room was
\* notified while they were connected; others have heard nothing.
ToldByRoom ==
    /\ \A c \in Conns : IsFree(c) => told[c] = <<>>
    /\ \A r \in RoomIds :
        LET host == rooms[r].host.connection
            client == rooms[r].client.connection
        IN  IF rooms[r].peerEndpointNotified
            THEN /\ told[host] \in {<<>>, <<client>>} /\ (host \in open => told[host] # <<>>)
                 /\ told[client] \in {<<>>, <<host>>} /\ (client \in open => told[client] # <<>>)
            ELSE \A c \in Conns : IsParty(c, r) => told[c] = <<>>

RInv ==
    /\ TypeOK
    /\ RequestsInOrder
    /\ StrangersAreUnknown
    /\ NamesAreOwn
    /\ RoomsAreFilled
    /\ PartiesAreDistinct
    /\ MembershipAgrees
    /\ PermitsAreOwn
    /\ ProbesAreOwn
    /\ ToldByRoom

-----------------------------------------------------------------------------
(* Sequences *)

LEMMA TailEntries ==
    ASSUME NEW S, NEW s \in Seq(S), s # <<>>
    PROVE  /\ 1 \in 1 .. Len(s) /\ Head(s) = s[1] /\ Head(s) \in S
           /\ Tail(s) \in Seq(S)
           /\ \A i \in 1 .. Len(Tail(s)) :
                i > 0 /\ i + 1 \in 1 .. Len(s) /\ Tail(s)[i] = s[i + 1] /\ Tail(s)[i] \in S
OBVIOUS

LEMMA AppendEntries ==
    ASSUME NEW S, NEW s \in Seq(S), NEW e \in S
    PROVE  /\ Append(s, e) \in Seq(S)
           /\ \A i \in 1 .. Len(Append(s, e)) :
                \/ i \in 1 .. Len(s) /\ Append(s, e)[i] = s[i]
                \/ i = Len(s) + 1 /\ Append(s, e)[i] = e
OBVIOUS

Requests == MessagesOf({"Register", "CreateRoom", "JoinRoom", "ProbeRequest"})
Answers == MessagesOf({"RoomCreated", "PeerJoined", "ProbePermitted"})

\* What a box holds after a message was sent: what it held before, and the message.
LEMMA SentEntries ==
    ASSUME NEW S, NEW box \in [Conns -> Seq(S)], NEW c \in Conns, NEW e \in S
    PROVE  /\ Sent(box, c, e) \in [Conns -> Seq(S)]
           /\ \A d \in Conns : \A i \in 1 .. Len(Sent(box, c, e)[d]) :
                \/ i \in 1 .. Len(box[d]) /\ Sent(box, c, e)[d][i] = box[d][i]
                \/ d = c /\ Sent(box, c, e)[d][i] = e
           /\ \A d \in Conns : d \notin open \/ d # c => Sent(box, c, e)[d] = box[d]
<1>1. Append(box[c], e) \in Seq(S)
  BY AppendEntries
<1>2. \A i \in 1 .. Len(Append(box[c], e)) :
        \/ i \in 1 .. Len(box[c]) /\ Append(box[c], e)[i] = box[c][i]
        \/ Append(box[c], e)[i] = e
  BY AppendEntries
<1> QED
  BY <1>1, <1>2 DEF Sent

-----------------------------------------------------------------------------
(* What several requests have in common *)

\* The server has taken the first request of c.
LEMMA OrderAfterRead ==
    ASSUME RInv, NEW c \in Conns,
           unread[c] # <<>>, unread' = [unread EXCEPT ![c] = Tail(@)],
           \A d \in Conns \ {c} : /\ clientIdByConnection'[d] = clientIdByConnection[d]
                                  /\ IsFree(d) => IsFree(d)',
           Head(unread[c]).type \notin Once => rooms' = rooms
    PROVE  RequestsInOrder'
<1> unread \in [Conns -> Seq(Requests)]
  BY DEF RInv, TypeOK, Requests
<1>0. ASSUME NEW q \in Requests
      PROVE  q.type \in {"Register", "CreateRoom", "JoinRoom", "ProbeRequest"}
  BY <1>0 DEF Requests, MessagesOf
<1> DEFINE u == unread[c]
           t == Tail(u)
<1>1. /\ u \in Seq(Requests) /\ u[1] = Head(u) /\ 1 \in 1 .. Len(u) /\ t \in Seq(Requests)
      /\ \A i \in 1 .. Len(t) : i > 0 /\ i + 1 \in 1 .. Len(u) /\ t[i] = u[i + 1] /\ t[i] \in Requests
  BY TailEntries
<1>2. unread'[c] = t /\ \A d \in Conns \ {c} : unread'[d] = unread[d]
  OBVIOUS
<1>3. ASSUME NEW d \in Conns \ {c}
      PROVE  /\ \A i \in 1 .. Len(unread'[d]) :
                /\ unread'[d][i].type = "Register" => i = 1 /\ clientIdByConnection'[d] = None
                /\ unread'[d][i].type = "JoinRoom" => unread'[d][i].roomId \in RoomIds
                /\ unread'[d][i].type # "ProbeRequest" => IsFree(d)'
             /\ \A i, j \in 1 .. Len(unread'[d]) :
                unread'[d][i].type \in Once /\ unread'[d][j].type \in Once => i = j
  BY <1>2 DEF RInv, RequestsInOrder
<1>4. ASSUME NEW i \in 1 .. Len(t)
      PROVE  /\ t[i].type # "Register"
             /\ t[i].type = "JoinRoom" => t[i].roomId \in RoomIds
             /\ t[i].type # "ProbeRequest" => IsFree(c)'
  <2>1. i \in Nat /\ i > 0 /\ i + 1 \in 1 .. Len(u) /\ t[i] = u[i + 1] /\ t[i] \in Requests
    BY <1>1
  <2>2. t[i].type # "Register"
    BY <2>1 DEF RInv, RequestsInOrder
  <2>3. t[i].type = "JoinRoom" => t[i].roomId \in RoomIds
    BY <2>1 DEF RInv, RequestsInOrder
  <2>4. ASSUME t[i].type # "ProbeRequest" PROVE IsFree(c)'
    <3>1. t[i].type \in Once
      BY <1>0, <2>1, <2>2, <2>4 DEF Once
    <3>2. Head(u).type \notin Once
      BY <1>1, <2>1, <3>1 DEF RInv, RequestsInOrder
    <3>3. IsFree(c)
      BY <2>1, <2>4 DEF RInv, RequestsInOrder
    <3> QED
      BY <3>2, <3>3 DEF IsFree, IsParty
  <2> QED
    BY <2>2, <2>3, <2>4
<1>5. \A i, j \in 1 .. Len(t) : t[i].type \in Once /\ t[j].type \in Once => i = j
  <2> SUFFICES ASSUME NEW i \in 1 .. Len(t), NEW j \in 1 .. Len(t),
                      t[i].type \in Once, t[j].type \in Once
               PROVE  i = j
    OBVIOUS
  <2>1. i + 1 \in 1 .. Len(u) /\ j + 1 \in 1 .. Len(u) /\ t[i] = u[i + 1] /\ t[j] = u[j + 1]
    BY <1>1
  <2>2. i + 1 = j + 1
    BY <2>1 DEF RInv, RequestsInOrder
  <2> QED
    BY <2>2
<1> HIDE DEF u, t
<1>6. \A i \in 1 .. Len(unread'[c]) :
        /\ unread'[c][i].type = "Register" => i = 1 /\ clientIdByConnection'[c] = None
        /\ unread'[c][i].type = "JoinRoom" => unread'[c][i].roomId \in RoomIds
        /\ unread'[c][i].type # "ProbeRequest" => IsFree(c)'
  BY <1>2, <1>4
<1>7. \A i, j \in 1 .. Len(unread'[c]) :
        unread'[c][i].type \in Once /\ unread'[c][j].type \in Once => i = j
  BY <1>2, <1>5
<1> QED
  BY <1>3, <1>6, <1>7 DEF RequestsInOrder

\* Nothing happened to the rooms and the server's tables.
LEMMA ServerUnchanged ==
    ASSUME RInv, UNCHANGED <<tableVars, rooms>>
    PROVE  RoomsAreFilled' /\ PartiesAreDistinct' /\ MembershipAgrees'
BY DEF RInv, tableVars, RoomsAreFilled, PartiesAreDistinct, MembershipAgrees, Exists, Full, Parties

-----------------------------------------------------------------------------
(* The clients *)

\* A client starts with Register and one other request.
LEMMA StartKeeps ==
    ASSUME RInv, NEW c \in Conns, NEW n \in Names, NEW e \in Requests,
           name[c] = None,
           e.type \in Once, e.type = "JoinRoom" => e.roomId \in RoomIds,
           open' = open \cup {c}, name' = [name EXCEPT ![c] = n],
           wanted' \in [Conns -> RoomIds \cup {None}],
           unread' = [unread EXCEPT ![c] = <<Message("Register", None), e>>],
           UNCHANGED <<inbox, tableVars, rooms, udpVars, told>>
    PROVE  RInv'
<1> DEFINE u == <<Message("Register", None), e>>
<1>1. /\ u \in Seq(Requests) /\ Len(u) = 2
      /\ u[1].type = "Register" /\ u[2] = e
  BY DEF Requests, MessagesOf, Message
<1>2. c \notin open /\ unread[c] = <<>> /\ clientIdByConnection[c] = None /\ IsFree(c)
  BY DEF RInv, StrangersAreUnknown
<1>3. \A d \in Conns : unread'[d] = IF d = c THEN u ELSE unread[d]
  BY DEF RInv, TypeOK
<1> HIDE DEF u
<1>4. TypeOK'
  <2>1. unread' \in [Conns -> Seq(Requests)]
    BY <1>1 DEF RInv, TypeOK, Requests, u
  <2> QED
    BY <2>1 DEF RInv, TypeOK, tableVars, udpVars, Requests, MessagesOf
<1>5. RequestsInOrder'
  <2>1. \A d \in Conns : IsFree(d)' <=> IsFree(d)
    BY DEF IsFree, IsParty
  <2>2. \A i \in 1 .. Len(u) : (i = 1 /\ u[i].type = "Register") \/ (i = 2 /\ u[i] = e)
    BY <1>1
  <2>3. ASSUME NEW d \in Conns
        PROVE  /\ \A i \in 1 .. Len(unread'[d]) :
                    /\ unread'[d][i].type = "Register" => i = 1 /\ clientIdByConnection'[d] = None
                    /\ unread'[d][i].type = "JoinRoom" => unread'[d][i].roomId \in RoomIds
                    /\ unread'[d][i].type # "ProbeRequest" => IsFree(d)'
               /\ \A i, j \in 1 .. Len(unread'[d]) :
                    unread'[d][i].type \in Once /\ unread'[d][j].type \in Once => i = j
    <3>1. CASE d = c
      BY <1>2, <1>3, <2>1, <2>2, <3>1 DEF Once, tableVars
    <3>2. CASE d # c
      BY <1>3, <2>1, <3>2 DEF RInv, RequestsInOrder, tableVars
    <3> QED
      BY <3>1, <3>2
  <2> QED
    BY <2>3 DEF RequestsInOrder
<1>6. StrangersAreUnknown'
  BY <1>3, NoneAssumption DEF RInv, TypeOK, StrangersAreUnknown, IsFree, IsParty, tableVars
<1>7. NamesAreOwn'
  BY <1>2 DEF RInv, TypeOK, NamesAreOwn, tableVars
<1>8. RoomsAreFilled' /\ PartiesAreDistinct' /\ MembershipAgrees'
  BY ServerUnchanged
<1>9. PermitsAreOwn' /\ ProbesAreOwn'
  BY DEF RInv, PermitsAreOwn, ProbesAreOwn, MayBeProbed, IsParty, tableVars, udpVars
<1>10. ToldByRoom'
  BY <1>2 DEF RInv, ToldByRoom, IsFree, IsParty
<1> QED
  BY <1>4, <1>5, <1>6, <1>7, <1>8, <1>9, <1>10 DEF RInv

LEMMA HostConnectsKeeps ==
    ASSUME RInv, NEW c \in Conns, NEW n \in Names, HostConnects(c, n)
    PROVE  RInv'
<1> DEFINE e == Message("CreateRoom", None)
<1>1. e \in Requests /\ e.type = "CreateRoom"
  BY DEF Requests, MessagesOf, Message
<1>2. wanted' \in [Conns -> RoomIds \cup {None}]
  BY DEF RInv, TypeOK, HostConnects
<1> QED
  BY <1>1, <1>2, StartKeeps DEF HostConnects, Once

LEMMA GuestConnectsKeeps ==
    ASSUME RInv, NEW c \in Conns, NEW n \in Names, NEW r \in RoomIds, GuestConnects(c, n, r)
    PROVE  RInv'
<1> DEFINE e == Message("JoinRoom", r)
<1>1. e \in Requests /\ e.type = "JoinRoom" /\ e.roomId = r
  BY DEF Requests, MessagesOf, Message
<1>2. wanted' \in [Conns -> RoomIds \cup {None}]
  BY DEF RInv, TypeOK, GuestConnects
<1> QED
  BY <1>1, <1>2, StartKeeps DEF GuestConnects, Once

LEMMA DisconnectKeeps ==
    ASSUME RInv, NEW c \in Conns, Disconnect(c)
    PROVE  RInv'
<1>1. \A d \in Conns : (unread'[d] = unread[d] \/ unread'[d] = <<>>)
                       /\ (inbox'[d] = inbox[d] \/ inbox'[d] = <<>>)
  BY DEF RInv, TypeOK, Disconnect
<1>2. \A d \in Conns : IsFree(d)' <=> IsFree(d)
  BY DEF Disconnect, IsFree, IsParty
<1>3. Len(<<>>) = 0
  OBVIOUS
<1>4. TypeOK'
  <2>1. unread' \in [Conns -> Seq(Requests)] /\ inbox' \in [Conns -> Seq(Answers)]
    <3>1. ASSUME NEW S, NEW box \in [Conns -> Seq(S)]
          PROVE  [box EXCEPT ![c] = <<>>] \in [Conns -> Seq(S)]
      OBVIOUS
    <3>2. unread \in [Conns -> Seq(Requests)] /\ inbox \in [Conns -> Seq(Answers)]
      BY DEF RInv, TypeOK, Requests, Answers
    <3>3. [unread EXCEPT ![c] = <<>>] \in [Conns -> Seq(Requests)]
      BY <3>1, <3>2
    <3>4. [inbox EXCEPT ![c] = <<>>] \in [Conns -> Seq(Answers)]
      BY <3>1, <3>2
    <3> QED
      BY <3>2, <3>3, <3>4, Zenon DEF Disconnect
  <2> QED
    BY <2>1 DEF RInv, TypeOK, Disconnect, clientVars, tableVars, udpVars, Requests, Answers
<1>5. RequestsInOrder'
  BY <1>1, <1>2, <1>3 DEF RInv, RequestsInOrder, Disconnect, tableVars
<1>6. StrangersAreUnknown'
  BY <1>1, <1>2 DEF RInv, StrangersAreUnknown, Disconnect, clientVars, tableVars
<1>7. NamesAreOwn'
  BY DEF RInv, NamesAreOwn, Disconnect, clientVars, tableVars
<1>8. RoomsAreFilled' /\ PartiesAreDistinct' /\ MembershipAgrees'
  BY ServerUnchanged DEF Disconnect
<1>9. PermitsAreOwn' /\ ProbesAreOwn'
  BY <1>1, <1>3 DEF RInv, PermitsAreOwn, ProbesAreOwn, MayBeProbed, IsParty, Disconnect, tableVars, udpVars
<1>10. ToldByRoom'
  BY <1>2 DEF RInv, ToldByRoom, IsParty, Disconnect
<1> QED
  BY <1>4, <1>5, <1>6, <1>7, <1>8, <1>9, <1>10 DEF RInv

\* What reading an answer leaves alone.
LEMMA ReadingKeeps ==
    ASSUME RInv, NEW c \in Conns, NEW type, ClientReads(c, type)
    PROVE  /\ Head(inbox[c]) \in Answers /\ name[c] # None
           /\ type = "ProbePermitted" => MayBeProbed(c, Head(inbox[c]).roomId)
           /\ inbox' \in [Conns -> Seq(Answers)]
           /\ inbox[c] # <<>> /\ \A d \in Conns \ {c} : inbox'[d] = inbox[d]
           /\ \A d \in Conns : IsFree(d)' <=> IsFree(d)
           /\ NamesAreOwn' /\ RoomsAreFilled' /\ PartiesAreDistinct' /\ MembershipAgrees'
           /\ PermitsAreOwn' /\ ToldByRoom'
<1>1. inbox \in [Conns -> Seq(Answers)] /\ inbox[c] # <<>> /\ inbox' = [inbox EXCEPT ![c] = Tail(@)]
  BY DEF RInv, TypeOK, Answers, ClientReads
<1> DEFINE b == inbox[c]
<1>2. /\ 1 \in 1 .. Len(b) /\ Head(b) = b[1] /\ Head(b) \in Answers
      /\ Tail(b) \in Seq(Answers)
      /\ \A i \in 1 .. Len(Tail(b)) : i + 1 \in 1 .. Len(b) /\ Tail(b)[i] = b[i + 1]
  BY <1>1, TailEntries
<1>3. name[c] # None
  BY <1>1 DEF RInv, StrangersAreUnknown
<1>4. type = "ProbePermitted" => MayBeProbed(c, Head(b).roomId)
  BY <1>2 DEF RInv, PermitsAreOwn, ClientReads
<1>5. inbox' \in [Conns -> Seq(Answers)]
  BY <1>1, <1>2
<1>6. ASSUME NEW d \in Conns, NEW i \in 1 .. Len(inbox'[d])
      PROVE  \E j \in 1 .. Len(inbox[d]) : inbox'[d][i] = inbox[d][j]
  <2>1. CASE d = c
    BY <1>1, <1>2, <2>1
  <2>2. CASE d # c
    BY <1>1, <2>2
  <2> QED
    BY <2>1, <2>2
<1>7. \A d \in Conns : IsFree(d)' <=> IsFree(d)
  BY DEF ClientReads, IsFree, IsParty
<1>8. NamesAreOwn'
  BY DEF RInv, NamesAreOwn, ClientReads, tableVars
<1>9. RoomsAreFilled' /\ PartiesAreDistinct' /\ MembershipAgrees'
  BY ServerUnchanged DEF ClientReads
<1>10. ToldByRoom'
  BY <1>7 DEF RInv, ToldByRoom, IsParty, ClientReads
<1>11. inbox[c] # <<>> /\ \A d \in Conns \ {c} : inbox'[d] = inbox[d]
  BY <1>1
<1>12. PermitsAreOwn'
  <2> SUFFICES ASSUME NEW d \in Conns, NEW i \in 1 .. Len(inbox'[d]),
                      inbox'[d][i].type = "ProbePermitted"
               PROVE  MayBeProbed(d, inbox[d][i].roomId)'
    BY DEF PermitsAreOwn
  <2>2. PICK j \in 1 .. Len(inbox[d]) : inbox'[d][i] = inbox[d][j]
    BY <1>6
  <2>3. MayBeProbed(d, inbox[d][j].roomId)
    BY <2>2 DEF RInv, PermitsAreOwn
  <2> QED
    BY <2>2, <2>3 DEF MayBeProbed, IsParty, ClientReads, tableVars
<1> HIDE DEF b
<1> QED
  BY <1>2, <1>3, <1>4, <1>5, <1>6, <1>7, <1>8, <1>9, <1>10, <1>11, <1>12 DEF b

LEMMA OnRoomCreatedKeeps ==
    ASSUME RInv, NEW c \in Conns, OnRoomCreated(c)
    PROVE  RInv'
<1>1. ClientReads(c, "RoomCreated")
  BY DEF OnRoomCreated
<1>2. /\ Head(inbox[c]) \in Answers
      /\ inbox' \in [Conns -> Seq(Answers)]
      /\ inbox[c] # <<>> /\ \A d \in Conns \ {c} : inbox'[d] = inbox[d]
      /\ \A d \in Conns : IsFree(d)' <=> IsFree(d)
      /\ NamesAreOwn' /\ RoomsAreFilled' /\ PartiesAreDistinct' /\ MembershipAgrees'
      /\ PermitsAreOwn' /\ ToldByRoom'
  BY <1>1, ReadingKeeps
<1>3. TypeOK'
  <2>1. Head(inbox[c]).roomId \in RoomIds \cup {None}
    BY <1>2 DEF Answers, MessagesOf
  <2> QED
    BY <1>2, <2>1 DEF RInv, TypeOK, OnRoomCreated, ClientReads, clientVars, tableVars, udpVars, Answers
<1>4. RequestsInOrder'
  BY <1>2 DEF RInv, RequestsInOrder, OnRoomCreated, ClientReads, tableVars
<1>5. StrangersAreUnknown'
  BY <1>2 DEF RInv, StrangersAreUnknown, OnRoomCreated, ClientReads, tableVars
<1>6. ProbesAreOwn'
  BY DEF RInv, ProbesAreOwn, MayBeProbed, IsParty, OnRoomCreated, ClientReads, tableVars
<1> QED
  BY <1>2, <1>3, <1>4, <1>5, <1>6 DEF RInv

LEMMA OnPeerJoinedKeeps ==
    ASSUME RInv, NEW c \in Conns, OnPeerJoined(c)
    PROVE  RInv'
<1>1. ClientReads(c, "PeerJoined")
  BY DEF OnPeerJoined
<1>2. /\ name[c] # None
      /\ inbox' \in [Conns -> Seq(Answers)]
      /\ inbox[c] # <<>> /\ \A d \in Conns \ {c} : inbox'[d] = inbox[d]
      /\ \A d \in Conns : IsFree(d)' <=> IsFree(d)
      /\ NamesAreOwn' /\ RoomsAreFilled' /\ PartiesAreDistinct' /\ MembershipAgrees'
      /\ PermitsAreOwn' /\ ToldByRoom'
  BY <1>1, ReadingKeeps
<1> DEFINE e == Message("ProbeRequest", None)
           a == Append(unread[c], e)
<1>3. e \in Requests /\ e.type = "ProbeRequest" /\ unread \in [Conns -> Seq(Requests)]
  BY DEF RInv, TypeOK, Requests, MessagesOf, Message
<1>4. /\ a \in Seq(Requests)
      /\ \A i \in 1 .. Len(a) : \/ i \in 1 .. Len(unread[c]) /\ a[i] = unread[c][i]
                                \/ a[i] = e
  BY <1>3, AppendEntries
<1>5. \/ unread' = unread
      \/ unread' = [unread EXCEPT ![c] = a]
  BY DEF OnPeerJoined
<1> HIDE DEF e, a
<1>6. unread' \in [Conns -> Seq(Requests)]
  BY <1>3, <1>4, <1>5
<1>7. TypeOK'
  BY <1>2, <1>6 DEF RInv, TypeOK, OnPeerJoined, ClientReads, clientVars, tableVars, udpVars, Answers, Requests
<1>8. RequestsInOrder'
  <2>1. ASSUME NEW d \in Conns, NEW i \in 1 .. Len(unread'[d])
        PROVE  \/ i \in 1 .. Len(unread[d]) /\ unread'[d][i] = unread[d][i]
               \/ unread'[d][i] = e
    BY <1>3, <1>4, <1>5
  <2> QED
    BY <1>2, <1>3, <2>1 DEF RInv, RequestsInOrder, Once, OnPeerJoined, ClientReads, tableVars
<1>9. StrangersAreUnknown'
  BY <1>2, <1>3, <1>5 DEF RInv, StrangersAreUnknown, OnPeerJoined, ClientReads, tableVars
<1>10. ProbesAreOwn'
  BY DEF RInv, ProbesAreOwn, MayBeProbed, IsParty, OnPeerJoined, ClientReads, tableVars
<1> QED
  BY <1>2, <1>7, <1>8, <1>9, <1>10 DEF RInv

LEMMA OnProbePermittedKeeps ==
    ASSUME RInv, NEW c \in Conns, OnProbePermitted(c)
    PROVE  RInv'
<1>1. ClientReads(c, "ProbePermitted")
  BY DEF OnProbePermitted
<1> DEFINE r == Head(inbox[c]).roomId
<1>2. /\ MayBeProbed(c, r)
      /\ inbox' \in [Conns -> Seq(Answers)]
      /\ inbox[c] # <<>> /\ \A d \in Conns \ {c} : inbox'[d] = inbox[d]
      /\ \A d \in Conns : IsFree(d)' <=> IsFree(d)
      /\ NamesAreOwn' /\ RoomsAreFilled' /\ PartiesAreDistinct' /\ MembershipAgrees'
      /\ PermitsAreOwn' /\ ToldByRoom'
  BY <1>1, ReadingKeeps
<1>3. clientIdByConnection[c] = name[c] /\ name[c] \in Names
  BY <1>2 DEF RInv, TypeOK, NamesAreOwn, MayBeProbed
<1>4. probes' = probes \cup {Probe(c, r)}
  BY DEF OnProbePermitted
<1>5. /\ Probe(c, r).from = c /\ Probe(c, r).roomId = r /\ Probe(c, r).clientId = name[c]
      /\ Probe(c, r) \in [from : Conns, clientId : Names, roomId : RoomIds]
  BY <1>2, <1>3 DEF Probe, MayBeProbed
<1>6. TypeOK'
  BY <1>2, <1>4, <1>5 DEF RInv, TypeOK, OnProbePermitted, ClientReads, clientVars, tableVars, udpVars, Answers
<1>7. RequestsInOrder'
  BY <1>2 DEF RInv, RequestsInOrder, OnProbePermitted, ClientReads, tableVars
<1>8. StrangersAreUnknown'
  BY <1>2 DEF RInv, StrangersAreUnknown, OnProbePermitted, ClientReads, tableVars
<1>9. ProbesAreOwn'
  BY <1>2, <1>3, <1>4, <1>5 DEF RInv, ProbesAreOwn, MayBeProbed, IsParty, OnProbePermitted, ClientReads, tableVars
<1> QED
  BY <1>2, <1>6, <1>7, <1>8, <1>9 DEF RInv

LEMMA LoseProbeKeeps ==
    ASSUME RInv, NEW p \in probes, LoseProbe(p)
    PROVE  RInv'
<1>1. \A d \in Conns : IsFree(d)' <=> IsFree(d)
  BY DEF LoseProbe, IsFree, IsParty
<1>2. TypeOK'
  BY DEF RInv, TypeOK, LoseProbe, clientVars, tableVars
<1>3. RequestsInOrder' /\ StrangersAreUnknown' /\ NamesAreOwn'
  BY <1>1 DEF RInv, RequestsInOrder, StrangersAreUnknown, NamesAreOwn, LoseProbe, clientVars, tableVars
<1>4. RoomsAreFilled' /\ PartiesAreDistinct' /\ MembershipAgrees'
  BY ServerUnchanged DEF LoseProbe
<1>5. PermitsAreOwn' /\ ProbesAreOwn'
  BY DEF RInv, PermitsAreOwn, ProbesAreOwn, MayBeProbed, IsParty, LoseProbe, tableVars
<1>6. ToldByRoom'
  BY <1>1 DEF RInv, ToldByRoom, IsParty, LoseProbe
<1> QED
  BY <1>2, <1>3, <1>4, <1>5, <1>6 DEF RInv

-----------------------------------------------------------------------------
(* The server *)

\* What is known when the server takes a request.
LEMMA Reading ==
    ASSUME RInv, NEW c \in Conns, NEW type, ServerReads(c, type)
    PROVE  /\ unread[c] # <<>> /\ unread' = [unread EXCEPT ![c] = Tail(@)]
           /\ unread' \in [Conns -> Seq(Requests)]
           /\ Head(unread[c]).type = type
           /\ name[c] \in Names
           /\ type = "Register" => clientIdByConnection[c] = None
           /\ type = "JoinRoom" => Head(unread[c]).roomId \in RoomIds
           /\ type # "ProbeRequest" => IsFree(c)
<1>1. unread \in [Conns -> Seq(Requests)] /\ name \in [Conns -> Names \cup {None}]
  BY DEF RInv, TypeOK, Requests
<1>2. unread[c] # <<>> /\ unread' = [unread EXCEPT ![c] = Tail(@)] /\ Head(unread[c]).type = type
  BY DEF ServerReads
<1>3. 1 \in 1 .. Len(unread[c]) /\ Head(unread[c]) = unread[c][1] /\ Tail(unread[c]) \in Seq(Requests)
  BY <1>1, <1>2, TailEntries
<1>4. name[c] \in Names
  BY <1>1, <1>2 DEF RInv, StrangersAreUnknown
<1>5. /\ type = "Register" => clientIdByConnection[c] = None
      /\ type = "JoinRoom" => Head(unread[c]).roomId \in RoomIds
      /\ type # "ProbeRequest" => IsFree(c)
  BY <1>2, <1>3 DEF RInv, RequestsInOrder
<1> QED
  BY <1>1, <1>2, <1>3, <1>4, <1>5

LEMMA OnRegisterKeeps ==
    ASSUME RInv, NEW c \in Conns, OnRegister(c)
    PROVE  RInv'
<1>1. ServerReads(c, "Register")
  BY DEF OnRegister
<1>2. /\ unread[c] # <<>> /\ unread' = [unread EXCEPT ![c] = Tail(@)]
      /\ unread' \in [Conns -> Seq(Requests)]
      /\ Head(unread[c]).type = "Register"
      /\ name[c] \in Names /\ clientIdByConnection[c] = None /\ IsFree(c)
  BY <1>1, Reading
<1>3. /\ \A d \in Conns \ {c} : clientIdByConnection'[d] = clientIdByConnection[d]
      /\ clientIdByConnection'[c] \in {None, name[c]}
      /\ clientIdByConnection'[c] # None => name[c] \notin idTable /\ name[c] \in idTable'
      /\ idTable \subseteq idTable' /\ idTable' \subseteq Names
      /\ clientIdByConnection' \in [Conns -> Names \cup {None}]
  BY <1>2 DEF RInv, TypeOK, OnRegister, MayRegister
<1>4. \A d \in Conns : IsFree(d)' <=> IsFree(d)
  BY DEF OnRegister, IsFree, IsParty
<1>5. TypeOK'
  BY <1>2, <1>3 DEF RInv, TypeOK, OnRegister, ServerReads, clientVars, udpVars, Requests
<1>6. RequestsInOrder'
  BY <1>2, <1>3, <1>4, OrderAfterRead DEF OnRegister
<1>7. StrangersAreUnknown'
  BY <1>2, <1>3, <1>4, NoneAssumption DEF RInv, StrangersAreUnknown, OnRegister, ServerReads, clientVars
<1>8. NamesAreOwn'
  BY <1>2, <1>3 DEF RInv, NamesAreOwn, OnRegister, ServerReads, clientVars
<1>9. RoomsAreFilled' /\ MembershipAgrees'
  BY DEF RInv, RoomsAreFilled, MembershipAgrees, Exists, Full, OnRegister
<1>10. PartiesAreDistinct'
  <2>1. \A d, e \in Conns : d # e /\ clientIdByConnection'[d] # None
            => clientIdByConnection'[d] # clientIdByConnection'[e]
    BY <1>2, <1>3, NoneAssumption DEF RInv, PartiesAreDistinct, NamesAreOwn
  <2>2. \A r \in RoomIds : rooms[r].host.connection # c /\ rooms[r].client.connection # c
    BY <1>2 DEF IsFree, IsParty
  <2>3. \A r \in RoomIds : rooms[r].host.connection \in Conns \cup {None} /\ rooms[r].client.connection \in Conns \cup {None}
    BY DEF RInv, TypeOK, Peers
  <2> QED
    BY <2>1, <2>2, <2>3, <1>3 DEF RInv, RoomsAreFilled, PartiesAreDistinct, Exists, Full, Parties, OnRegister
<1>11. PermitsAreOwn' /\ ProbesAreOwn'
  <2>1. \A p \in probes : p.from \in Conns
    BY DEF RInv, TypeOK
  <2> QED
    BY <1>2, <1>3, <2>1 DEF RInv, PermitsAreOwn, ProbesAreOwn, MayBeProbed, IsFree, IsParty, OnRegister, ServerReads, udpVars
<1>12. ToldByRoom'
  BY <1>4 DEF RInv, ToldByRoom, IsParty, OnRegister, ServerReads
<1> QED
  BY <1>5, <1>6, <1>7, <1>8, <1>9, <1>10, <1>11, <1>12 DEF RInv

\* A request that is refused is only taken out of the queue.
LEMMA RefusalKeeps ==
    ASSUME RInv, NEW c \in Conns, NEW type, ServerReads(c, type),
           UNCHANGED <<inbox, tableVars, rooms>>
    PROVE  RInv'
<1>1. /\ unread[c] # <<>> /\ unread' = [unread EXCEPT ![c] = Tail(@)]
      /\ unread' \in [Conns -> Seq(Requests)] /\ name[c] \in Names
  BY Reading
<1>2. \A d \in Conns : IsFree(d)' <=> IsFree(d)
  BY DEF IsFree, IsParty
<1>3. TypeOK'
  BY <1>1 DEF RInv, TypeOK, ServerReads, clientVars, tableVars, udpVars, Requests
<1>4. RequestsInOrder'
  BY <1>1, <1>2, OrderAfterRead DEF tableVars
<1>5. StrangersAreUnknown'
  BY <1>1, <1>2, NoneAssumption DEF RInv, StrangersAreUnknown, ServerReads, clientVars, tableVars
<1>6. NamesAreOwn'
  BY DEF RInv, NamesAreOwn, ServerReads, clientVars, tableVars
<1>7. RoomsAreFilled' /\ PartiesAreDistinct' /\ MembershipAgrees'
  BY ServerUnchanged
<1>8. PermitsAreOwn' /\ ProbesAreOwn'
  BY DEF RInv, PermitsAreOwn, ProbesAreOwn, MayBeProbed, IsParty, ServerReads, tableVars, udpVars
<1>9. ToldByRoom'
  BY <1>2 DEF RInv, ToldByRoom, IsParty, ServerReads
<1> QED
  BY <1>3, <1>4, <1>5, <1>6, <1>7, <1>8, <1>9 DEF RInv

LEMMA OnCreateRoomKeeps ==
    ASSUME RInv, NEW c \in Conns, OnCreateRoom(c)
    PROVE  RInv'
<1> DEFINE n == clientIdByConnection[c]
<1>1. ServerReads(c, "CreateRoom")
  BY DEF OnCreateRoom
<1>2. CASE UNCHANGED <<inbox, roomIdByClientId, rooms>>
  BY <1>1, <1>2, RefusalKeeps DEF OnCreateRoom, tableVars
<1>3. ASSUME roomIdByClientId[n] = None,
             NEW r \in RoomIds, rooms[r] = NoRoom,
             rooms' = [rooms EXCEPT ![r].host.clientId = n, ![r].host.connection = c],
             roomIdByClientId' = [roomIdByClientId EXCEPT ![n] = r],
             inbox' = Sent(inbox, c, Message("RoomCreated", r))
      PROVE  RInv'
  <2>1. /\ unread[c] # <<>> /\ unread' = [unread EXCEPT ![c] = Tail(@)]
        /\ unread' \in [Conns -> Seq(Requests)] /\ name[c] \in Names
        /\ Head(unread[c]).type = "CreateRoom" /\ IsFree(c)
    BY <1>1, Reading
  <2>2. clientIdByConnection' = clientIdByConnection /\ idTable' = idTable
    BY DEF OnCreateRoom
  <2>3. /\ n \in Names \cup {None} /\ c # None
        /\ rooms \in [RoomIds -> [host : Peers, client : Peers, peerEndpointNotified : BOOLEAN]]
    BY NoneAssumption DEF RInv, TypeOK
  <2>4. rooms' = [rooms EXCEPT ![r] =
                    [host |-> [clientId |-> n, connection |-> c, udpEndpoint |-> None],
                     client |-> NoPeer, peerEndpointNotified |-> FALSE]]
    BY <1>3, <2>3 DEF NoRoom, NoPeer
  <2> DEFINE new == rooms'[r]
  <2>5. /\ new.host.clientId = n /\ new.host.connection = c /\ new.host.udpEndpoint = None
        /\ new.client = NoPeer /\ new.peerEndpointNotified = FALSE
        /\ \A q \in RoomIds \ {r} : rooms'[q] = rooms[q]
    BY <2>3, <2>4
  <2>6. new # NoRoom /\ new.client.connection = None
    BY <2>3, <2>5 DEF NoRoom, NoPeer
  <2> HIDE DEF new
  <2>7. /\ \A d \in Conns : ~IsParty(d, r)
        /\ \A d \in Conns : IsParty(d, r)' <=> d = c
        /\ \A q \in RoomIds \ {r}, d \in Conns : IsParty(d, q)' <=> IsParty(d, q)
    <3>1. \A d \in Conns : d # None
      BY NoneAssumption
    <3>2. \A d \in Conns : ~IsParty(d, r)
      BY <1>3, <3>1 DEF IsParty, NoRoom, NoPeer
    <3>3. \A d \in Conns : IsParty(d, r)' <=> d = c
      BY <2>5, <2>6, <3>1 DEF IsParty, new
    <3>4. \A q \in RoomIds \ {r}, d \in Conns : IsParty(d, q)' <=> IsParty(d, q)
      BY <2>5 DEF IsParty
    <3> QED
      BY <3>2, <3>3, <3>4
  <2>8. \A d \in Conns \ {c} : IsFree(d)' <=> IsFree(d)
    BY <2>7 DEF IsFree
  <2> DEFINE e == Message("RoomCreated", r)
  <2>9. e \in Answers /\ e.type = "RoomCreated" /\ inbox \in [Conns -> Seq(Answers)]
    BY DEF Answers, MessagesOf, Message, RInv, TypeOK
  <2>10. /\ inbox' \in [Conns -> Seq(Answers)]
         /\ \A d \in Conns : \A i \in 1 .. Len(inbox'[d]) :
                \/ i \in 1 .. Len(inbox[d]) /\ inbox'[d][i] = inbox[d][i]
                \/ d = c /\ inbox'[d][i] = e
         /\ \A d \in Conns : d \notin open \/ d # c => inbox'[d] = inbox[d]
    <3> HIDE DEF e
    <3>1. /\ Sent(inbox, c, e) \in [Conns -> Seq(Answers)]
          /\ \A d \in Conns : \A i \in 1 .. Len(Sent(inbox, c, e)[d]) :
                \/ i \in 1 .. Len(inbox[d]) /\ Sent(inbox, c, e)[d][i] = inbox[d][i]
                \/ d = c /\ Sent(inbox, c, e)[d][i] = e
          /\ \A d \in Conns : d \notin open \/ d # c => Sent(inbox, c, e)[d] = inbox[d]
      BY <2>9, SentEntries
    <3>2. inbox' = Sent(inbox, c, e)
      BY <1>3 DEF e
    <3> QED
      BY <3>1, <3>2
  <2> HIDE DEF e
  <2>11. TypeOK'
    <3>1. rooms' \in [RoomIds -> [host : Peers, client : Peers, peerEndpointNotified : BOOLEAN]]
      BY <2>3, <2>4 DEF Peers, NoPeer
    <3> QED
      BY <1>1, <1>3, <2>1, <2>2, <2>3, <2>10, <3>1
         DEF RInv, TypeOK, ServerReads, clientVars, udpVars, Requests, Answers
  <2>12. RequestsInOrder'
    BY <2>1, <2>2, <2>8, OrderAfterRead DEF Once
  <2>13. StrangersAreUnknown'
    BY <1>1, <2>1, <2>2, <2>8, <2>10, NoneAssumption DEF RInv, StrangersAreUnknown, ServerReads, clientVars
  <2>14. NamesAreOwn'
    BY <1>1, <2>2 DEF RInv, NamesAreOwn, ServerReads, clientVars
  <2>15. RoomsAreFilled'
    BY <2>3, <2>5, <2>6 DEF RInv, RoomsAreFilled, Exists, Full, NoPeer, new
  <2>16. PartiesAreDistinct'
    <3>1. \A q \in RoomIds \ {r} : c \notin Parties(q)
      BY <2>1 DEF IsFree, IsParty, Parties
    <3>2. Parties(r)' = {c} /\ \A q \in RoomIds \ {r} : Parties(q)' = Parties(q)
      BY <2>3, <2>5, <2>6 DEF Parties, new
    <3>3. \A q, t \in RoomIds : q # t => Parties(q)' \cap Parties(t)' = {}
      BY <3>1, <3>2 DEF RInv, PartiesAreDistinct
    <3>4. clientIdByConnection'[c] = n
      BY <2>2
    <3> QED
      BY <2>2, <2>5, <2>6, <3>3, <3>4 DEF RInv, PartiesAreDistinct, Exists, Full, new
  <2>17. MembershipAgrees'
    <3>1. \A m \in Names \cup {None} :
            roomIdByClientId'[m] = IF m = n THEN r ELSE roomIdByClientId[m]
      BY <1>3, <2>3 DEF RInv, TypeOK
    <3>2. r # None
      BY NoneAssumption
    <3>3. \A m \in Names \cup {None} : roomIdByClientId[m] # r
      BY <1>3 DEF RInv, MembershipAgrees, Exists
    <3>4. ASSUME NEW m \in Names \cup {None}, NEW q \in RoomIds
          PROVE  (roomIdByClientId[m] = q)' <=>
                    /\ Exists(q)'
                    /\ (m = rooms[q].host.clientId)' \/ (Full(q)' /\ (m = rooms[q].client.clientId)')
      <4>1. CASE q = r
        BY <2>5, <2>6, <3>1, <3>3, <4>1 DEF Exists, Full, new
      <4>2. CASE q # r
        <5>1. roomIdByClientId[m] = q <=>
                /\ Exists(q)
                /\ m = rooms[q].host.clientId \/ (Full(q) /\ m = rooms[q].client.clientId)
          BY DEF RInv, MembershipAgrees
        <5>2. rooms'[q] = rooms[q]
          BY <2>5, <4>2
        <5>3. roomIdByClientId'[m] = q <=> roomIdByClientId[m] = q
          BY <1>3, <3>1, <4>2, NoneAssumption
        <5> QED
          BY <5>1, <5>2, <5>3 DEF Exists, Full
      <4> QED
        BY <4>1, <4>2
    <3> QED
      BY <3>4 DEF MembershipAgrees
  <2>18. \A d \in Conns, q \in RoomIds : MayBeProbed(d, q) => MayBeProbed(d, q)'
    BY <2>2, <2>7 DEF MayBeProbed
  <2>19. PermitsAreOwn'
    <3> SUFFICES ASSUME NEW d \in Conns, NEW i \in 1 .. Len(inbox'[d]),
                        inbox'[d][i].type = "ProbePermitted"
                 PROVE  MayBeProbed(d, inbox[d][i].roomId)'
      BY DEF PermitsAreOwn
    <3>1. i \in 1 .. Len(inbox[d]) /\ inbox'[d][i] = inbox[d][i]
      BY <2>9, <2>10
    <3>2. MayBeProbed(d, inbox[d][i].roomId) /\ inbox[d][i].roomId \in RoomIds
      BY <3>1 DEF RInv, PermitsAreOwn, MayBeProbed
    <3> QED
      BY <2>2, <2>7, <3>1, <3>2 DEF MayBeProbed
  <2>20. ProbesAreOwn'
    <3>1. \A p \in probes : p.from \in Conns /\ p.roomId \in RoomIds
      BY DEF RInv, TypeOK
    <3> QED
      BY <1>1, <2>2, <2>18, <3>1 DEF RInv, ProbesAreOwn, ServerReads, udpVars
  <2>21. ToldByRoom'
    <3>1. \A d \in Conns : IsFree(d)' => told'[d] = <<>>
      BY <1>1, <2>1, <2>8 DEF RInv, ToldByRoom, ServerReads
    <3>2. told[c] = <<>>
      BY <2>1 DEF RInv, ToldByRoom
    <3> QED
      BY <1>1, <2>5, <2>7, <3>1, <3>2 DEF RInv, ToldByRoom, ServerReads, new
  <2> QED
    BY <2>11, <2>12, <2>13, <2>14, <2>15, <2>16, <2>17, <2>19, <2>20, <2>21 DEF RInv
<1> QED
  BY <1>2, <1>3 DEF OnCreateRoom

LEMMA OnJoinRoomKeeps ==
    ASSUME RInv, NEW c \in Conns, OnJoinRoom(c)
    PROVE  RInv'
<1>1. ServerReads(c, "JoinRoom")
  BY DEF OnJoinRoom
<1>2. CASE ~MayJoin(c, Head(unread[c]).roomId)
  BY <1>1, <1>2, RefusalKeeps DEF OnJoinRoom, tableVars
<1>3. ASSUME NEW r \in RoomIds, NEW n \in Names, NEW host \in Conns \cup {None},
             r = Head(unread[c]).roomId, n = clientIdByConnection[c],
             host = rooms[r].host.connection, MayJoin(c, r)
      PROVE  RInv'
  <2>1. /\ unread[c] # <<>> /\ unread' = [unread EXCEPT ![c] = Tail(@)]
        /\ unread' \in [Conns -> Seq(Requests)] /\ name[c] \in Names
        /\ Head(unread[c]).type = "JoinRoom" /\ IsFree(c)
    BY <1>1, Reading
  <2>2. /\ rooms' = [rooms EXCEPT ![r].client.clientId = n, ![r].client.connection = c]
        /\ roomIdByClientId' = [roomIdByClientId EXCEPT ![n] = r]
        /\ inbox' = Sent(inbox, host, Message("PeerJoined", r))
        /\ clientIdByConnection' = clientIdByConnection /\ idTable' = idTable
        /\ n # None /\ rooms[r] # NoRoom /\ host # c /\ rooms[r].host.clientId # n
        /\ roomIdByClientId[n] = None /\ rooms[r].client.connection = None
    BY <1>3 DEF OnJoinRoom, MayJoin
  <2>3. /\ n \in Names /\ c # None
        /\ rooms \in [RoomIds -> [host : Peers, client : Peers, peerEndpointNotified : BOOLEAN]]
        /\ r # None
    BY <2>1, <2>2, NoneAssumption DEF RInv, TypeOK
  <2>4. /\ host \in Conns
        /\ rooms[r].client = NoPeer /\ rooms[r].peerEndpointNotified = FALSE
    BY <1>3, <2>2, <2>3 DEF RInv, RoomsAreFilled, Exists, Full, Peers
  <2>5. rooms' = [rooms EXCEPT ![r] =
                    [host |-> rooms[r].host,
                     client |-> [clientId |-> n, connection |-> c, udpEndpoint |-> None],
                     peerEndpointNotified |-> FALSE]]
    BY <2>1, <2>2, <2>3, <2>4 DEF NoPeer
  <2> DEFINE new == rooms'[r]
  <2>6. /\ new.client.clientId = n /\ new.client.connection = c /\ new.client.udpEndpoint = None
        /\ new.host = rooms[r].host /\ new.peerEndpointNotified = FALSE
        /\ \A q \in RoomIds \ {r} : rooms'[q] = rooms[q]
    BY <2>1, <2>3, <2>5
  <2>7. new # NoRoom /\ rooms[r].host.connection = host
    BY <1>3, <2>3, <2>6 DEF NoRoom, NoPeer
  <2> HIDE DEF new
  <2>8. /\ \A d \in Conns : IsParty(d, r)' <=> IsParty(d, r) \/ d = c
        /\ \A q \in RoomIds \ {r}, d \in Conns : IsParty(d, q)' <=> IsParty(d, q)
    <3>1. \A d \in Conns : d # None
      BY NoneAssumption
    <3>2. \A d \in Conns : IsParty(d, r)' <=> IsParty(d, r) \/ d = c
      BY <2>2, <2>6, <3>1 DEF IsParty, new
    <3>3. \A q \in RoomIds \ {r}, d \in Conns : IsParty(d, q)' <=> IsParty(d, q)
      BY <2>6 DEF IsParty
    <3> QED
      BY <3>2, <3>3
  <2>9. \A d \in Conns \ {c} : IsFree(d)' <=> IsFree(d)
    BY <2>8 DEF IsFree
  <2> DEFINE e == Message("PeerJoined", r)
  <2>10. e \in Answers /\ e.type = "PeerJoined" /\ inbox \in [Conns -> Seq(Answers)]
    BY <2>1 DEF Answers, MessagesOf, Message, RInv, TypeOK
  <2>11. inbox' = Sent(inbox, host, e)
    BY <2>2
  <2> HIDE DEF e
  <2>12. /\ inbox' \in [Conns -> Seq(Answers)]
         /\ \A d \in Conns : \A i \in 1 .. Len(inbox'[d]) :
                \/ i \in 1 .. Len(inbox[d]) /\ inbox'[d][i] = inbox[d][i]
                \/ inbox'[d][i] = e
         /\ \A d \in Conns : d \notin open => inbox'[d] = inbox[d]
    <3>1. /\ Sent(inbox, host, e) \in [Conns -> Seq(Answers)]
          /\ \A d \in Conns : \A i \in 1 .. Len(Sent(inbox, host, e)[d]) :
                \/ i \in 1 .. Len(inbox[d]) /\ Sent(inbox, host, e)[d][i] = inbox[d][i]
                \/ d = host /\ Sent(inbox, host, e)[d][i] = e
          /\ \A d \in Conns : d \notin open \/ d # host => Sent(inbox, host, e)[d] = inbox[d]
      BY <2>4, <2>10, SentEntries
    <3> QED
      BY <2>11, <3>1
  <2>13. TypeOK'
    <3>1. rooms' \in [RoomIds -> [host : Peers, client : Peers, peerEndpointNotified : BOOLEAN]]
      BY <2>1, <2>3, <2>5 DEF Peers
    <3>2. roomIdByClientId' \in [Names \cup {None} -> RoomIds \cup {None}]
      BY <2>1, <2>2, <2>3 DEF RInv, TypeOK
    <3> QED
      BY <1>1, <2>1, <2>2, <2>12, <3>1, <3>2
         DEF RInv, TypeOK, ServerReads, clientVars, udpVars, Requests, Answers
  <2>14. RequestsInOrder'
    BY <2>1, <2>2, <2>9, OrderAfterRead DEF Once
  <2>15. StrangersAreUnknown'
    BY <1>1, <2>1, <2>2, <2>9, <2>12, NoneAssumption DEF RInv, StrangersAreUnknown, ServerReads, clientVars
  <2>16. NamesAreOwn'
    BY <1>1, <2>2 DEF RInv, NamesAreOwn, ServerReads, clientVars
  <2>17. RoomsAreFilled'
    <3>1. \A q \in RoomIds \ {r} : rooms'[q] = rooms[q]
      BY <2>6
    <3>2. Exists(r) /\ host # None
      BY <2>1, <2>2, <2>4, NoneAssumption DEF Exists
    <3> QED
      BY <2>1, <2>2, <2>3, <2>6, <2>7, <3>1, <3>2 DEF RInv, RoomsAreFilled, Exists, Full, new
  <2>18. PartiesAreDistinct'
    <3>1. \A q \in RoomIds \ {r} : c \notin Parties(q)
      BY <2>1 DEF IsFree, IsParty, Parties
    <3>2. Parties(r)' = Parties(r) \cup {c} /\ \A q \in RoomIds \ {r} : Parties(q)' = Parties(q)
      BY <2>2, <2>3, <2>6 DEF Parties, new
    <3>3. \A q, t \in RoomIds : q # t => Parties(q)' \cap Parties(t)' = {}
      BY <3>1, <3>2 DEF RInv, PartiesAreDistinct
    <3>4. clientIdByConnection'[c] = n
      BY <1>3, <2>2
    <3>5. clientIdByConnection[host] = rooms[r].host.clientId /\ host # c
      BY <2>1, <2>2, <2>7 DEF RInv, PartiesAreDistinct, Exists
    <3>6. \A q \in RoomIds : Exists(q)' =>
            /\ clientIdByConnection'[rooms'[q].host.connection] = rooms'[q].host.clientId
            /\ Full(q)' => /\ clientIdByConnection'[rooms'[q].client.connection] = rooms'[q].client.clientId
                           /\ rooms'[q].client.connection # rooms'[q].host.connection
      <4>1. ASSUME NEW q \in RoomIds \ {r}, Exists(q)'
            PROVE  /\ clientIdByConnection'[rooms'[q].host.connection] = rooms'[q].host.clientId
                   /\ Full(q)' => /\ clientIdByConnection'[rooms'[q].client.connection] = rooms'[q].client.clientId
                                  /\ rooms'[q].client.connection # rooms'[q].host.connection
        BY <2>2, <2>6, <4>1 DEF RInv, PartiesAreDistinct, Exists, Full
      <4>2. /\ clientIdByConnection'[rooms'[r].host.connection] = rooms'[r].host.clientId
            /\ clientIdByConnection'[rooms'[r].client.connection] = rooms'[r].client.clientId
            /\ rooms'[r].client.connection # rooms'[r].host.connection
        BY <2>2, <2>6, <2>7, <3>4, <3>5 DEF new
      <4> QED
        BY <4>1, <4>2
    <3> QED
      BY <2>2, <3>3, <3>6 DEF RInv, PartiesAreDistinct
  <2>19. MembershipAgrees'
    <3>1. \A m \in Names \cup {None} :
            roomIdByClientId'[m] = IF m = n THEN r ELSE roomIdByClientId[m]
      BY <2>2, <2>3 DEF RInv, TypeOK
    <3>2. ASSUME NEW m \in Names \cup {None}, NEW q \in RoomIds
          PROVE  (roomIdByClientId[m] = q)' <=>
                    /\ Exists(q)'
                    /\ (m = rooms[q].host.clientId)' \/ (Full(q)' /\ (m = rooms[q].client.clientId)')
      <4>1. roomIdByClientId[m] = q <=>
                /\ Exists(q)
                /\ m = rooms[q].host.clientId \/ (Full(q) /\ m = rooms[q].client.clientId)
        BY DEF RInv, MembershipAgrees
      <4>2. CASE q = r
        <5>1. Exists(r)' /\ Full(r)' /\ Exists(r) /\ ~Full(r)
          BY <2>2, <2>3, <2>6, <2>7 DEF Exists, Full, new
        <5>2. rooms'[r].client.clientId = n /\ rooms'[r].host.clientId = rooms[r].host.clientId
          BY <2>6 DEF new
        <5> QED
          BY <3>1, <4>1, <4>2, <5>1, <5>2
      <4>3. CASE q # r
        <5>1. rooms'[q] = rooms[q]
          BY <2>6, <4>3
        <5>2. roomIdByClientId'[m] = q <=> roomIdByClientId[m] = q
          BY <2>2, <3>1, <4>3, NoneAssumption
        <5> QED
          BY <4>1, <5>1, <5>2 DEF Exists, Full
      <4> QED
        BY <4>2, <4>3
    <3> QED
      BY <3>2 DEF MembershipAgrees
  <2>20. PermitsAreOwn'
    <3> SUFFICES ASSUME NEW d \in Conns, NEW i \in 1 .. Len(inbox'[d]),
                        inbox'[d][i].type = "ProbePermitted"
                 PROVE  MayBeProbed(d, inbox[d][i].roomId)'
      BY DEF PermitsAreOwn
    <3>1. i \in 1 .. Len(inbox[d]) /\ inbox'[d][i] = inbox[d][i]
      BY <2>10, <2>12
    <3>2. MayBeProbed(d, inbox[d][i].roomId) /\ inbox[d][i].roomId \in RoomIds
      BY <3>1 DEF RInv, PermitsAreOwn, MayBeProbed
    <3> QED
      BY <2>2, <2>8, <3>1, <3>2 DEF MayBeProbed
  <2>21. ProbesAreOwn'
    <3>1. \A p \in probes : p.from \in Conns /\ p.roomId \in RoomIds
      BY DEF RInv, TypeOK
    <3>2. \A d \in Conns, q \in RoomIds : MayBeProbed(d, q) => MayBeProbed(d, q)'
      BY <2>2, <2>8 DEF MayBeProbed
    <3> QED
      BY <1>1, <2>2, <3>1, <3>2 DEF RInv, ProbesAreOwn, ServerReads, udpVars
  <2>22. ToldByRoom'
    <3>1. \A d \in Conns : IsFree(d)' => told'[d] = <<>>
      <4>1. ~IsFree(c)'
        BY <2>1, <2>8 DEF IsFree
      <4> QED
        BY <1>1, <2>9, <4>1 DEF RInv, ToldByRoom, ServerReads
    <3>2. told[c] = <<>>
      BY <2>1 DEF RInv, ToldByRoom
    <3>3. \A d \in Conns : IsParty(d, r)' => told'[d] = <<>>
      BY <1>1, <2>1, <2>4, <2>8, <3>2 DEF RInv, ToldByRoom, ServerReads
    <3> QED
      BY <1>1, <2>6, <2>8, <3>1, <3>3 DEF RInv, ToldByRoom, ServerReads, new
  <2> QED
    BY <2>13, <2>14, <2>15, <2>16, <2>17, <2>18, <2>19, <2>20, <2>21, <2>22 DEF RInv
<1>4. CASE MayJoin(c, Head(unread[c]).roomId)
  <2>1. Head(unread[c]).roomId \in RoomIds
    BY <1>1, Reading
  <2>2. clientIdByConnection[c] \in Names
    BY <1>4 DEF RInv, TypeOK, MayJoin
  <2>3. rooms[Head(unread[c]).roomId].host.connection \in Conns \cup {None}
    BY <2>1 DEF RInv, TypeOK, Peers
  <2> QED
    BY <1>3, <1>4, <2>1, <2>2, <2>3
<1> QED
  BY <1>2, <1>4

LEMMA OnProbeRequestKeeps ==
    ASSUME RInv, NEW c \in Conns, OnProbeRequest(c)
    PROVE  RInv'
<1>1. ServerReads(c, "ProbeRequest")
  BY DEF OnProbeRequest
<1>2. CASE ~MayProbe(c)
  BY <1>1, <1>2, RefusalKeeps DEF OnProbeRequest
<1>3. ASSUME NEW r \in RoomIds, NEW client \in Conns,
             client = rooms[r].client.connection, r = roomIdByClientId[clientIdByConnection[c]],
             MayProbe(c)
      PROVE  RInv'
  <2>1. /\ unread[c] # <<>> /\ unread' = [unread EXCEPT ![c] = Tail(@)]
        /\ unread' \in [Conns -> Seq(Requests)] /\ name[c] \in Names
        /\ Head(unread[c]).type = "ProbeRequest"
    BY <1>1, Reading
  <2>2. \A d \in Conns : IsFree(d)' <=> IsFree(d)
    BY DEF OnProbeRequest, IsFree, IsParty
  <2> DEFINE e == Message("ProbePermitted", r)
             once == Sent(inbox, c, e)
             twice == Sent(once, client, e)
  <2>3. e \in Answers /\ e.roomId = r /\ inbox \in [Conns -> Seq(Answers)]
    BY DEF Answers, MessagesOf, Message, RInv, TypeOK
  <2>4. inbox' = twice /\ UNCHANGED <<tableVars, rooms>>
    BY <1>3 DEF OnProbeRequest
  <2>5. MayBeProbed(c, r) /\ MayBeProbed(client, r)
    <3>1. Full(r) /\ Exists(r)
      BY <1>3 DEF MayProbe, Full, RInv, RoomsAreFilled
    <3>2. clientIdByConnection[client] # None
      BY <1>3, <3>1 DEF RInv, PartiesAreDistinct, RoomsAreFilled
    <3> QED
      BY <1>3, <3>2 DEF MayProbe, MayBeProbed, IsParty
  <2> HIDE DEF e
  <2>6. /\ once \in [Conns -> Seq(Answers)]
        /\ \A d \in Conns : \A i \in 1 .. Len(once[d]) :
                \/ i \in 1 .. Len(inbox[d]) /\ once[d][i] = inbox[d][i]
                \/ d = c /\ once[d][i] = e
        /\ \A d \in Conns : d \notin open \/ d # c => once[d] = inbox[d]
    BY <2>3, SentEntries
  <2> HIDE DEF once
  <2>7. /\ twice \in [Conns -> Seq(Answers)]
        /\ \A d \in Conns : \A i \in 1 .. Len(twice[d]) :
                \/ i \in 1 .. Len(inbox[d]) /\ twice[d][i] = inbox[d][i]
                \/ d \in {c, client} /\ twice[d][i] = e
        /\ \A d \in Conns : d \notin open => twice[d] = inbox[d]
    <3>1. /\ Append(once[client], e) \in Seq(Answers)
          /\ \A i \in 1 .. Len(Append(once[client], e)) :
                \/ i \in 1 .. Len(once[client]) /\ Append(once[client], e)[i] = once[client][i]
                \/ Append(once[client], e)[i] = e
      BY <2>3, <2>6, AppendEntries
    <3>2. CASE client \in open
      <4>1. twice = [once EXCEPT ![client] = Append(@, e)]
        BY <3>2 DEF Sent
      <4> HIDE DEF twice
      <4>2. /\ twice \in [Conns -> Seq(Answers)]
            /\ twice[client] = Append(once[client], e)
            /\ \A d \in Conns : d # client => twice[d] = once[d]
        BY <2>6, <3>1, <4>1
      <4>3. \A i \in 1 .. Len(twice[client]) :
                \/ i \in 1 .. Len(inbox[client]) /\ twice[client][i] = inbox[client][i]
                \/ twice[client][i] = e
        BY <2>6, <3>1, <4>2
      <4> QED
        BY <2>6, <3>2, <4>2, <4>3
    <3>3. CASE client \notin open
      BY <2>6, <3>3 DEF Sent
    <3> QED
      BY <3>2, <3>3
  <2> HIDE DEF twice
  <2>8. TypeOK'
    BY <1>1, <2>1, <2>4, <2>7
       DEF RInv, TypeOK, ServerReads, clientVars, tableVars, udpVars, Requests, Answers
  <2>9. RequestsInOrder'
    BY <2>1, <2>2, <2>4, OrderAfterRead DEF tableVars
  <2>10. StrangersAreUnknown'
    BY <1>1, <2>1, <2>2, <2>4, <2>7, NoneAssumption
       DEF RInv, StrangersAreUnknown, ServerReads, clientVars, tableVars
  <2>11. NamesAreOwn'
    BY <1>1, <2>4 DEF RInv, NamesAreOwn, ServerReads, clientVars, tableVars
  <2>12. RoomsAreFilled' /\ PartiesAreDistinct' /\ MembershipAgrees'
    BY <2>4, ServerUnchanged
  <2>13. PermitsAreOwn'
    <3> SUFFICES ASSUME NEW d \in Conns, NEW i \in 1 .. Len(inbox'[d]),
                        inbox'[d][i].type = "ProbePermitted"
                 PROVE  MayBeProbed(d, inbox[d][i].roomId)'
      BY DEF PermitsAreOwn
    <3>1. \/ i \in 1 .. Len(inbox[d]) /\ inbox'[d][i] = inbox[d][i]
          \/ d \in {c, client} /\ inbox'[d][i] = e
      BY <2>4, <2>7
    <3>2. i \in 1 .. Len(inbox[d]) /\ inbox'[d][i] = inbox[d][i]
            => MayBeProbed(d, inbox'[d][i].roomId)
      BY DEF RInv, PermitsAreOwn
    <3>3. MayBeProbed(d, inbox'[d][i].roomId)
      BY <2>3, <2>5, <3>1, <3>2
    <3> QED
      BY <2>4, <3>3 DEF MayBeProbed, IsParty, tableVars
  <2>14. ProbesAreOwn'
    BY <1>1, <2>4 DEF RInv, ProbesAreOwn, MayBeProbed, IsParty, ServerReads, tableVars, udpVars
  <2>15. ToldByRoom'
    BY <1>1, <2>2, <2>4 DEF RInv, ToldByRoom, IsParty, ServerReads
  <2> QED
    BY <2>8, <2>9, <2>10, <2>11, <2>12, <2>13, <2>14, <2>15 DEF RInv
<1>4. CASE MayProbe(c)
  <2> DEFINE r == roomIdByClientId[clientIdByConnection[c]]
  <2>1. r \in RoomIds
    BY <1>4 DEF RInv, TypeOK, MayProbe
  <2>2. rooms[r].client.connection \in Conns
    BY <1>4, <2>1 DEF RInv, TypeOK, MayProbe, Peers
  <2> QED
    BY <1>3, <1>4, <2>1, <2>2
<1> QED
  BY <1>2, <1>4

LEMMA OnProbeKeeps ==
    ASSUME RInv, NEW p \in probes, OnProbe(p)
    PROVE  RInv'
<1> DEFINE Room == [host : Peers, client : Peers, peerEndpointNotified : BOOLEAN]
<1>1. ASSUME NEW r \in RoomIds, r = p.roomId,
             NEW old \in Room, old = rooms[r],
             NEW room \in Room, room = WithEndpoint(old, p),
             NEW host \in Conns \cup {None}, host = old.host.connection,
             NEW client \in Conns \cup {None}, client = old.client.connection
      PROVE  RInv'
  <2>1. p.from \in Conns /\ p.clientId \in Names /\ p.clientId # None
    BY NoneAssumption DEF RInv, TypeOK
  <2>2. /\ room.host.connection = host /\ room.client.connection = client
        /\ room.host.clientId = old.host.clientId /\ room.client.clientId = old.client.clientId
        /\ room.peerEndpointNotified = old.peerEndpointNotified
        /\ room.host.udpEndpoint # old.host.udpEndpoint =>
                old.host.clientId = p.clientId /\ room.host.udpEndpoint = p.from
        /\ room.client.udpEndpoint # old.client.udpEndpoint =>
                old.client.clientId = p.clientId /\ room.client.udpEndpoint = p.from
    BY <1>1 DEF WithEndpoint, Peers
  <2>3. /\ (host # None \/ client # None) /\ (Full(r) <=> client # None) /\ Exists(r)
        /\ clientIdByConnection[host] = old.host.clientId /\ host \in Conns
    <3>1. Exists(r)
      BY <1>1, <2>1, NoneAssumption DEF RInv, ProbesAreOwn, MayBeProbed, IsParty, Exists, NoRoom, NoPeer
    <3> QED
      BY <1>1, <3>1 DEF RInv, RoomsAreFilled, PartiesAreDistinct, Full
  <2>4. Full(r) => clientIdByConnection[client] = old.client.clientId /\ client # host /\ client \in Conns
    BY <1>1, <2>3 DEF RInv, PartiesAreDistinct
  <2>5. clientIdByConnection[p.from] = p.clientId
    BY DEF RInv, ProbesAreOwn
  <2>6. \A d \in Conns : clientIdByConnection[d] = p.clientId => d = p.from
    BY <2>1, <2>5 DEF RInv, PartiesAreDistinct
  <2>7. room.host.udpEndpoint \in {None, host}
    BY <1>1, <2>2, <2>3, <2>6 DEF RInv, RoomsAreFilled
  <2>8. room.client.udpEndpoint \in {None, client}
    <3>1. ~Full(r) => old.client.clientId = None
      BY <1>1 DEF RInv, RoomsAreFilled, NoPeer
    <3> QED
      BY <1>1, <2>1, <2>2, <2>4, <2>6, <3>1 DEF RInv, RoomsAreFilled
  <2>9. ~Full(r) => room.client = NoPeer /\ ~room.peerEndpointNotified
    <3>1. ~Full(r) => old.client = NoPeer /\ ~old.peerEndpointNotified
      BY <1>1 DEF RInv, RoomsAreFilled
    <3>2. old.client = NoPeer => old.client.clientId # p.clientId
      BY <2>1 DEF NoPeer
    <3>3. old.client.clientId # p.clientId => room.client = old.client
      BY <1>1 DEF WithEndpoint
    <3> QED
      BY <2>2, <3>1, <3>2, <3>3
  <2>10. EndpointsReady(room) =>
              /\ room.host.udpEndpoint = host /\ room.client.udpEndpoint = client
              /\ client \in Conns /\ Full(r) /\ client # host
    BY <2>3, <2>4, <2>7, <2>8, <2>9 DEF EndpointsReady, NoPeer
  <2>11. ASSUME NEW new \in Room, NEW t,
                new.host = room.host, new.client = room.client,
                rooms' = [rooms EXCEPT ![r] = new], told' = t,
                t \in [Conns -> Seq(Conns)],
                \A d \in Conns : ~IsParty(d, r) => t[d] = told[d],
                ~Full(r) => ~new.peerEndpointNotified,
                IF new.peerEndpointNotified
                  THEN /\ t[host] \in {<<>>, <<client>>} /\ (host \in open => t[host] # <<>>)
                       /\ t[client] \in {<<>>, <<host>>} /\ (client \in open => t[client] # <<>>)
                  ELSE \A d \in Conns : IsParty(d, r) => t[d] = <<>>
         PROVE  RInv'
    <3>1. /\ probes' \subseteq probes
          /\ UNCHANGED <<open, clientVars, unread, inbox, tableVars, lostProbes>>
      BY DEF OnProbe
    <3>2. \A q \in RoomIds : rooms'[q] = IF q = r THEN new ELSE rooms[q]
      BY <2>11 DEF RInv, TypeOK
    <3>3. \A q \in RoomIds :
            /\ rooms'[q].host.connection = rooms[q].host.connection
            /\ rooms'[q].client.connection = rooms[q].client.connection
            /\ rooms'[q].host.clientId = rooms[q].host.clientId
            /\ rooms'[q].client.clientId = rooms[q].client.clientId
      BY <1>1, <2>2, <2>11, <3>2
    <3>4. \A q \in RoomIds : /\ Exists(q)' <=> Exists(q)
                             /\ Full(q)' <=> Full(q)
                             /\ Parties(q)' = Parties(q)
                             /\ \A d \in Conns : IsParty(d, q)' <=> IsParty(d, q)
      <4>1. \A q \in RoomIds : Exists(q)' <=> Exists(q)
        <5>1. Exists(r)'
          BY <2>3, <3>2, <3>3, <1>1, NoneAssumption DEF Exists, NoRoom, NoPeer
        <5> QED
          BY <2>3, <3>2, <5>1 DEF Exists
      <4> QED
        BY <3>3, <4>1 DEF Full, Parties, IsParty
    <3>5. \A d \in Conns : IsFree(d)' <=> IsFree(d)
      BY <3>4 DEF IsFree
    <3>6. \A d \in Conns, q \in RoomIds : MayBeProbed(d, q)' <=> MayBeProbed(d, q)
      BY <3>1, <3>4 DEF MayBeProbed, tableVars
    <3>7. TypeOK'
      BY <2>11, <3>1 DEF RInv, TypeOK, clientVars, tableVars
    <3>8. RequestsInOrder' /\ StrangersAreUnknown' /\ NamesAreOwn'
      BY <3>1, <3>5
         DEF RInv, RequestsInOrder, StrangersAreUnknown, NamesAreOwn, clientVars, tableVars
    <3>9. RoomsAreFilled'
      <4>1. /\ Exists(r)' => rooms'[r].host.connection # None
            /\ Full(r)' => Exists(r)' /\ rooms'[r].client.clientId # None
        BY <3>3, <3>4 DEF RInv, RoomsAreFilled
      <4>2. /\ ~Full(r)' => rooms'[r].client = NoPeer /\ ~rooms'[r].peerEndpointNotified
            /\ rooms'[r].host.udpEndpoint \in {None, rooms'[r].host.connection}
            /\ rooms'[r].client.udpEndpoint \in {None, rooms'[r].client.connection}
        BY <2>2, <2>7, <2>8, <2>9, <2>11, <3>2, <3>4
      <4>3. ASSUME NEW q \in RoomIds \ {r}
            PROVE  /\ Exists(q)' => rooms'[q].host.connection # None
                   /\ Full(q)' => Exists(q)' /\ rooms'[q].client.clientId # None
                   /\ ~Full(q)' => rooms'[q].client = NoPeer /\ ~rooms'[q].peerEndpointNotified
                   /\ rooms'[q].host.udpEndpoint \in {None, rooms'[q].host.connection}
                   /\ rooms'[q].client.udpEndpoint \in {None, rooms'[q].client.connection}
        BY <3>2, <3>4 DEF RInv, RoomsAreFilled
      <4> QED
        BY <4>1, <4>2, <4>3 DEF RoomsAreFilled
    <3>10. PartiesAreDistinct'
      BY <3>1, <3>3, <3>4 DEF RInv, PartiesAreDistinct, tableVars
    <3>11. MembershipAgrees'
      BY <3>1, <3>3, <3>4 DEF RInv, MembershipAgrees, tableVars
    <3>12. PermitsAreOwn'
      BY <3>1, <3>4 DEF RInv, PermitsAreOwn, MayBeProbed, tableVars
    <3>13. ProbesAreOwn'
      <4>1. \A q \in probes : q.from \in Conns /\ q.roomId \in RoomIds
        BY DEF RInv, TypeOK
      <4> QED
        BY <3>1, <3>6, <4>1 DEF RInv, ProbesAreOwn, tableVars
    <3>14. ToldByRoom'
      <4>1. \A d \in Conns : IsFree(d)' => told'[d] = <<>>
        BY <2>11, <3>5 DEF RInv, ToldByRoom, IsFree
      <4>2. ASSUME NEW q \in RoomIds \ {r}, NEW h, h = rooms[q].host.connection,
                   NEW k, k = rooms[q].client.connection
            PROVE  IF rooms'[q].peerEndpointNotified
                   THEN /\ told'[h] \in {<<>>, <<k>>} /\ (h \in open => told'[h] # <<>>)
                        /\ told'[k] \in {<<>>, <<h>>} /\ (k \in open => told'[k] # <<>>)
                   ELSE \A d \in Conns : IsParty(d, q)' => told'[d] = <<>>
        <5>1. \A d \in Conns : IsParty(d, q) => told'[d] = told[d]
          <6>1. Parties(q) \cap Parties(r) = {}
            BY DEF RInv, PartiesAreDistinct
          <6> QED
            BY <2>11, <6>1, NoneAssumption DEF Parties, IsParty
        <5>2. rooms[q].peerEndpointNotified => h \in Conns /\ k \in Conns
          <6>1. rooms[q].peerEndpointNotified => Full(q) /\ Exists(q)
            BY DEF RInv, RoomsAreFilled
          <6>2. h \in Conns \cup {None} /\ k \in Conns \cup {None}
            BY <4>2 DEF RInv, TypeOK, Peers
          <6> QED
            BY <4>2, <6>1, <6>2 DEF RInv, RoomsAreFilled, Full
        <5>3. rooms'[q] = rooms[q]
          BY <3>2
        <5> QED
          BY <3>4, <4>2, <5>1, <5>2, <5>3 DEF RInv, ToldByRoom, IsParty
      <4>3. IF rooms'[r].peerEndpointNotified
            THEN /\ told'[host] \in {<<>>, <<client>>} /\ (host \in open => told'[host] # <<>>)
                 /\ told'[client] \in {<<>>, <<host>>} /\ (client \in open => told'[client] # <<>>)
            ELSE \A d \in Conns : IsParty(d, r)' => told'[d] = <<>>
        BY <2>11, <3>2, <3>4
      <4> QED
        BY <1>1, <3>1, <3>3, <4>1, <4>2, <4>3 DEF ToldByRoom
    <3> QED
      BY <3>7, <3>8, <3>9, <3>10, <3>11, <3>12, <3>13, <3>14 DEF RInv
  <2>12. CASE ~ShouldNotify(room)
    <3>1. rooms' = [rooms EXCEPT ![r] = room] /\ told' = told
      BY <1>1, <2>12 DEF OnProbe
    <3>2. told \in [Conns -> Seq(Conns)]
      BY DEF RInv, TypeOK
    <3>3. ~Full(r) => ~room.peerEndpointNotified
      BY <2>9
    <3>4. IF room.peerEndpointNotified
          THEN /\ told[host] \in {<<>>, <<client>>} /\ (host \in open => told[host] # <<>>)
               /\ told[client] \in {<<>>, <<host>>} /\ (client \in open => told[client] # <<>>)
          ELSE \A d \in Conns : IsParty(d, r) => told[d] = <<>>
      BY <1>1, <2>2 DEF RInv, ToldByRoom
    <3> QED
      BY <2>11, <3>1, <3>2, <3>3, <3>4
  <2>13. ASSUME ShouldNotify(room), NEW told1, told1 = Sent(told, host, client),
                NEW told2, told2 = Sent(told1, client, host),
                NEW new \in Room, new = [room EXCEPT !.peerEndpointNotified = TRUE]
         PROVE  RInv'
    <3>1. /\ client \in Conns /\ host \in Conns /\ Full(r) /\ client # host
          /\ room.host.udpEndpoint = host /\ room.client.udpEndpoint = client
          /\ ~room.peerEndpointNotified
      BY <2>3, <2>10, <2>13 DEF ShouldNotify
    <3>2. rooms' = [rooms EXCEPT ![r] = new] /\ told' = told2
      BY <1>1, <2>2, <2>13, <3>1 DEF OnProbe
    <3>3. told \in [Conns -> Seq(Conns)] /\ told[host] = <<>> /\ told[client] = <<>>
      BY <1>1, <2>2, <3>1 DEF RInv, TypeOK, ToldByRoom, IsParty
    <3>4. /\ told1 \in [Conns -> Seq(Conns)]
          /\ told1[host] = IF host \in open THEN Append(<<>>, client) ELSE <<>>
          /\ \A d \in Conns : d # host => told1[d] = told[d]
      BY <2>13, <3>1, <3>3 DEF Sent
    <3>5. told1[client] = <<>>
      BY <3>1, <3>3, <3>4
    <3>6. /\ told2 \in [Conns -> Seq(Conns)]
          /\ told2[client] = IF client \in open THEN Append(<<>>, host) ELSE <<>>
          /\ \A d \in Conns : d # client => told2[d] = told1[d]
      <4>1. CASE client \in open
        <5>1. told2 = [told1 EXCEPT ![client] = Append(@, host)]
          BY <2>13, <4>1 DEF Sent
        <5>2. Append(<<>>, host) \in Seq(Conns)
          BY <3>1
        <5> QED
          BY <3>1, <3>4, <3>5, <4>1, <5>1, <5>2
      <4>2. CASE client \notin open
        <5>1. told2 = told1
          BY <2>13, <4>2 DEF Sent
        <5> QED
          BY <3>4, <3>5, <4>2, <5>1
      <4> QED
        BY <4>1, <4>2
    <3>7. /\ Append(<<>>, host) = <<host>> /\ Append(<<>>, client) = <<client>>
          /\ <<host>> # <<>> /\ <<client>> # <<>>
      OBVIOUS
    <3>8. /\ told2[host] \in {<<>>, <<client>>} /\ (host \in open => told2[host] # <<>>)
          /\ told2[client] \in {<<>>, <<host>>} /\ (client \in open => told2[client] # <<>>)
      <4>1. told2[host] = IF host \in open THEN <<client>> ELSE <<>>
        BY <3>1, <3>4, <3>6, <3>7
      <4>2. told2[client] = IF client \in open THEN <<host>> ELSE <<>>
        BY <3>6, <3>7
      <4> QED
        BY <3>7, <4>1, <4>2
    <3>9. \A d \in Conns : ~IsParty(d, r) => told2[d] = told[d]
      BY <1>1, <3>4, <3>6 DEF IsParty
    <3>10. new.host = room.host /\ new.client = room.client /\ new.peerEndpointNotified
      BY <2>13
    <3> QED
      BY <2>11, <3>1, <3>2, <3>6, <3>8, <3>9, <3>10
  <2>14. [room EXCEPT !.peerEndpointNotified = TRUE] \in Room
    OBVIOUS
  <2> QED
    BY <2>12, <2>13, <2>14
<1>2. p.roomId \in RoomIds
  BY DEF RInv, TypeOK
<1>3. rooms[p.roomId] \in Room
  BY <1>2 DEF RInv, TypeOK
<1>4. WithEndpoint(rooms[p.roomId], p) \in Room
  <2>1. p.from \in Conns
    BY DEF RInv, TypeOK
  <2> QED
    BY <1>3, <2>1 DEF WithEndpoint, Peers
<1>5. /\ rooms[p.roomId].host.connection \in Conns \cup {None}
      /\ rooms[p.roomId].client.connection \in Conns \cup {None}
  BY <1>3 DEF Peers
<1> HIDE DEF Room
<1> QED
  BY <1>1, <1>2, <1>3, <1>4, <1>5

-----------------------------------------------------------------------------
(* The specification *)

LEMMA InitHolds ==
    ASSUME Init
    PROVE  RInv
<1>1. \A c \in Conns : IsFree(c) /\ Len(unread[c]) = 0 /\ Len(inbox[c]) = 0
  BY NoneAssumption DEF Init, IsFree, IsParty, NoRoom, NoPeer
<1>2. \A r \in RoomIds : ~Exists(r) /\ ~Full(r) /\ rooms[r] = NoRoom /\ Parties(r) = {}
  BY DEF Init, Exists, Full, Parties, NoRoom, NoPeer
<1>3. TypeOK
  BY DEF Init, TypeOK, NoRoom, NoPeer, Peers
<1>4. RequestsInOrder /\ StrangersAreUnknown /\ NamesAreOwn
  BY <1>1 DEF Init, RequestsInOrder, StrangersAreUnknown, NamesAreOwn
<1>5. RoomsAreFilled
  BY <1>2 DEF RoomsAreFilled, NoRoom, NoPeer
<1>6. PartiesAreDistinct
  BY <1>2 DEF Init, PartiesAreDistinct
<1>7. MembershipAgrees
  BY <1>2, NoneAssumption DEF Init, MembershipAgrees
<1>8. PermitsAreOwn /\ ProbesAreOwn
  BY <1>1 DEF Init, PermitsAreOwn, ProbesAreOwn
<1>9. ToldByRoom
  BY <1>2 DEF Init, ToldByRoom, NoRoom
<1> QED
  BY <1>3, <1>4, <1>5, <1>6, <1>7, <1>8, <1>9 DEF RInv

\* Every reachable state of the rendezvous satisfies the invariant, whatever the
\* number of clients, names and rooms.
THEOREM RInvariant == Spec => []RInv
<1>1. Init => RInv
  BY InitHolds
<1>2. RInv /\ [Next]_vars => RInv'
  <2> SUFFICES ASSUME RInv, [Next]_vars
               PROVE  RInv'
    OBVIOUS
  <2>1. CASE UNCHANGED vars
    <3>1. TypeOK' /\ RequestsInOrder' /\ StrangersAreUnknown' /\ NamesAreOwn'
      BY <2>1 DEF RInv, TypeOK, RequestsInOrder, StrangersAreUnknown, NamesAreOwn,
                  IsFree, IsParty, vars, clientVars, tableVars, udpVars
    <3>2. RoomsAreFilled' /\ PartiesAreDistinct' /\ MembershipAgrees'
      BY <2>1, ServerUnchanged DEF vars
    <3>3. PermitsAreOwn' /\ ProbesAreOwn'
      BY <2>1 DEF RInv, PermitsAreOwn, ProbesAreOwn, MayBeProbed, IsParty, vars, tableVars, udpVars
    <3>4. ToldByRoom'
      BY <2>1 DEF RInv, ToldByRoom, IsFree, IsParty, vars
    <3> QED
      BY <3>1, <3>2, <3>3, <3>4 DEF RInv
  <2>2. ASSUME NEW c \in Hosts, NEW n \in Names, HostConnects(c, n)
        PROVE  RInv'
    BY <2>2, HostConnectsKeeps DEF Conns
  <2>3. ASSUME NEW c \in Guests, NEW n \in Names, NEW r \in RoomIds, GuestConnects(c, n, r)
        PROVE  RInv'
    BY <2>3, GuestConnectsKeeps DEF Conns
  <2>4. ASSUME NEW c \in Conns, Disconnect(c)
        PROVE  RInv'
    BY <2>4, DisconnectKeeps
  <2>5. ASSUME NEW c \in Conns, ClientStep(c)
        PROVE  RInv'
    BY <2>5, OnRoomCreatedKeeps, OnPeerJoinedKeeps, OnProbePermittedKeeps DEF ClientStep
  <2>6. ASSUME NEW c \in Conns, ServerStep(c)
        PROVE  RInv'
    BY <2>6, OnRegisterKeeps, OnCreateRoomKeeps, OnJoinRoomKeeps, OnProbeRequestKeeps DEF ServerStep
  <2>7. ASSUME NEW p \in probes, OnProbe(p)
        PROVE  RInv'
    BY <2>7, OnProbeKeeps
  <2>8. ASSUME NEW p \in probes, LoseProbe(p)
        PROVE  RInv'
    BY <2>8, LoseProbeKeeps
  <2> QED
    BY <2>1, <2>2, <2>3, <2>4, <2>5, <2>6, <2>7, <2>8 DEF Next
<1> QED
  BY <1>1, <1>2, PTL DEF Spec

\* The tables, the queues of requests and answers and the rooms always hold
\* values of the kinds the code declares.
THEOREM TypeCorrect == Spec => []TypeOK
<1>1. RInv => TypeOK
  BY DEF RInv
<1> QED
  BY <1>1, RInvariant, PTL

\* roomsById_ and roomIdByClientId_ agree after every sequence of requests of
\* any number of clients.
THEOREM TablesAgree == Spec => []MembershipAgrees
<1>1. RInv => MembershipAgrees
  BY DEF RInv
<1> QED
  BY <1>1, RInvariant, PTL

\* The server never mixes users up: registered names are distinct, a room's
\* parties are two known connections, and no connection is in two rooms.
THEOREM PartiesDistinct == Spec => []PartiesAreDistinct
<1>1. RInv => PartiesAreDistinct
  BY DEF RInv
<1> QED
  BY <1>1, RInvariant, PTL

\* PeerEndpoint is sent to both connected parties of one room, to each with the
\* other's endpoint, and at most once.
THEOREM IntroducedHolds == Spec => []IntroducedInPairs
<1>1. RInv => IntroducedInPairs
  <2> SUFFICES ASSUME RInv, NEW c \in Conns
               PROVE  /\ Len(told[c]) <= 1
                      /\ told[c] # <<>> =>
                            \E d \in Conns \ {c}, r \in RoomIds :
                                /\ told[c] = <<d>>
                                /\ Parties(r) = {c, d}
                                /\ d \in open => told[d] = <<c>>
    BY DEF IntroducedInPairs
  <2>1. CASE told[c] = <<>>
    BY <2>1
  <2>2. CASE told[c] # <<>>
    <3>1. PICK r \in RoomIds : IsParty(c, r)
      BY <2>2 DEF RInv, ToldByRoom, IsFree
    <3> DEFINE host == rooms[r].host.connection
               client == rooms[r].client.connection
    <3>2. rooms[r].peerEndpointNotified
      BY <2>2, <3>1 DEF RInv, ToldByRoom
    <3>3. /\ told[host] \in {<<>>, <<client>>} /\ (host \in open => told[host] # <<>>)
          /\ told[client] \in {<<>>, <<host>>} /\ (client \in open => told[client] # <<>>)
      BY <3>2 DEF RInv, ToldByRoom
    <3>4. Full(r) /\ Exists(r)
      BY <3>2 DEF RInv, RoomsAreFilled
    <3>5. host # client /\ host # None /\ client # None
      BY <3>4 DEF RInv, RoomsAreFilled, PartiesAreDistinct, Full
    <3>6. host \in Conns /\ client \in Conns
      <4>1. host \in Conns \cup {None} /\ client \in Conns \cup {None}
        BY DEF RInv, TypeOK, Peers
      <4> QED
        BY <3>5, <4>1
    <3>7. Parties(r) = {host, client}
      BY <3>5 DEF Parties
    <3>8. c = host \/ c = client
      BY <3>1 DEF IsParty
    <3> HIDE DEF host, client
    <3>9. CASE c = host
      <4>1. told[c] = <<client>> /\ (client \in open => told[client] = <<c>>)
        BY <2>2, <3>3, <3>9
      <4>2. Parties(r) = {c, client} /\ client \in Conns \ {c} /\ Len(<<client>>) = 1
        BY <3>5, <3>6, <3>7, <3>9
      <4> QED
        BY <4>1, <4>2
    <3>10. CASE c = client
      <4>1. told[c] = <<host>> /\ (host \in open => told[host] = <<c>>)
        BY <2>2, <3>3, <3>10
      <4>2. Parties(r) = {c, host} /\ host \in Conns \ {c} /\ Len(<<host>>) = 1
        BY <3>5, <3>6, <3>7, <3>10
      <4> QED
        BY <4>1, <4>2
    <3> QED
      BY <3>8, <3>9, <3>10
  <2> QED
    BY <2>1, <2>2
<1> QED
  BY <1>1, RInvariant, PTL

-----------------------------------------------------------------------------
(* The way to the introduction.  From PeerJoined to PeerEndpoint nobody    *)
(* repeats a message or a probe: GoesOn says that one is always under way, *)
(* because none of the handlers drops it.                                  *)

Holds(s, m) == \E i \in 1 .. Len(s) : s[i] = m

\* The two messages about a room go to its host only.
NumbersAreOwn ==
    \A c \in Conns : \A i \in 1 .. Len(inbox[c]) :
        inbox[c][i].type # "ProbePermitted" =>
            inbox[c][i].roomId \in RoomIds /\ rooms[inbox[c][i].roomId].host.connection = c

\* A client knows its room by the time it reads the i-th answer.
KnowsBy(c, r, i) ==
    \/ wanted[c] = r
    \/ \E j \in 1 .. Len(inbox[c]) : j < i /\ inbox[c][j] = Message("RoomCreated", r)

\* A host reads its room number before it reads that somebody joined.
NumbersComeFirst ==
    \A c \in Conns : \A i \in 1 .. Len(inbox[c]) :
        inbox[c][i].type = "PeerJoined" => KnowsBy(c, inbox[c][i].roomId, i)

NumbersArrive ==
    \A c \in open, r \in RoomIds : rooms[r].host.connection = c =>
        wanted[c] = r \/ Holds(inbox[c], Message("RoomCreated", r))

EndpointsAreUsed ==
    \A r \in RoomIds : EndpointsReady(rooms[r]) => rooms[r].peerEndpointNotified

Abandoned(r) == ~(Parties(r) \subseteq open) \/ \E p \in lostProbes : p.roomId = r

Invited(r) == Holds(inbox[rooms[r].host.connection], Message("PeerJoined", r))
Asking(r) == Holds(unread[rooms[r].host.connection], Message("ProbeRequest", None))
Probing(c, r) ==
    \/ Holds(inbox[c], Message("ProbePermitted", r))
    \/ \E p \in probes : p.from = c /\ p.roomId = r
    \/ c \in {rooms[r].host.udpEndpoint, rooms[r].client.udpEndpoint}

GoesOn(r) ==
    Full(r) /\ rooms[r].host.clientId # None =>
        \/ rooms[r].peerEndpointNotified
        \/ Abandoned(r)
        \/ Invited(r)
        \/ Asking(r)
        \/ \A c \in Parties(r) : Probing(c, r)

WayInv ==
    /\ NumbersAreOwn
    /\ NumbersComeFirst
    /\ NumbersArrive
    /\ EndpointsAreUsed
    /\ \A r \in RoomIds : GoesOn(r)

LEMMA HoldsTail ==
    ASSUME NEW S, NEW s \in Seq(S), s # <<>>
    PROVE  /\ \A i \in 1 .. Len(s) : i # 1 => i - 1 \in 1 .. Len(Tail(s)) /\ Tail(s)[i - 1] = s[i]
           /\ \A m : Holds(s, m) /\ Head(s) # m => Holds(Tail(s), m)
<1>1. \A i \in 1 .. Len(s) : i # 1 => i - 1 \in 1 .. Len(Tail(s)) /\ Tail(s)[i - 1] = s[i]
  OBVIOUS
<1>2. Head(s) = s[1]
  OBVIOUS
<1> QED
  BY <1>1, <1>2 DEF Holds

\* Nothing is taken out of a box by sending.
LEMMA SentHolds ==
    ASSUME NEW S, NEW box \in [Conns -> Seq(S)], NEW c \in Conns, NEW e \in S
    PROVE  /\ \A d \in Conns : \A i \in 1 .. Len(box[d]) :
                i \in 1 .. Len(Sent(box, c, e)[d]) /\ Sent(box, c, e)[d][i] = box[d][i]
           /\ \A d \in Conns : \A m : Holds(box[d], m) => Holds(Sent(box, c, e)[d], m)
           /\ c \in open => Holds(Sent(box, c, e)[c], e)
<1>1. ASSUME NEW s \in Seq(S)
      PROVE  /\ \A i \in 1 .. Len(s) : i \in 1 .. Len(Append(s, e)) /\ Append(s, e)[i] = s[i]
             /\ Len(s) + 1 \in 1 .. Len(Append(s, e)) /\ Append(s, e)[Len(s) + 1] = e
  OBVIOUS
<1>2. \A d \in Conns : \A i \in 1 .. Len(box[d]) :
         i \in 1 .. Len(Sent(box, c, e)[d]) /\ Sent(box, c, e)[d][i] = box[d][i]
  <2> SUFFICES ASSUME NEW d \in Conns, NEW i \in 1 .. Len(box[d])
               PROVE  i \in 1 .. Len(Sent(box, c, e)[d]) /\ Sent(box, c, e)[d][i] = box[d][i]
    OBVIOUS
  <2>1. CASE Sent(box, c, e)[d] = box[d]
    BY <2>1
  <2>2. CASE Sent(box, c, e)[d] = Append(box[d], e)
    BY <1>1, <2>2
  <2> QED
    BY <2>1, <2>2 DEF Sent
<1>3. c \in open => Holds(Sent(box, c, e)[c], e)
  BY <1>1 DEF Sent, Holds
<1> QED
  BY <1>2, <1>3 DEF Holds

LEMMA AnswerIs ==
    ASSUME NEW m \in Answers
    PROVE  m = Message(m.type, m.roomId)
BY DEF Answers, MessagesOf, Message

LEMMA MessagesDiffer ==
    ASSUME NEW r, NEW q, NEW t, NEW u, Message(t, r) = Message(u, q)
    PROVE  t = u /\ r = q
BY DEF Message

\* The parties of a full room are two connections.
LEMMA FullRoom ==
    ASSUME RInv, NEW r \in RoomIds, Full(r)
    PROVE  /\ rooms[r].host.connection \in Conns /\ rooms[r].client.connection \in Conns
           /\ rooms[r].host.connection # rooms[r].client.connection
           /\ Parties(r) = {rooms[r].host.connection, rooms[r].client.connection}
           /\ clientIdByConnection[rooms[r].host.connection] = rooms[r].host.clientId
           /\ clientIdByConnection[rooms[r].client.connection] = rooms[r].client.clientId
           /\ rooms[r].client.clientId # None
<1>1. /\ rooms[r].host.connection \in Conns \cup {None}
      /\ rooms[r].client.connection \in Conns \cup {None}
  BY DEF RInv, TypeOK, Peers
<1>2. /\ rooms[r].host.connection # None /\ rooms[r].client.connection # None
      /\ Exists(r) /\ rooms[r].client.clientId # None
  BY DEF RInv, RoomsAreFilled, Full
<1>3. /\ rooms[r].host.connection # rooms[r].client.connection
      /\ clientIdByConnection[rooms[r].host.connection] = rooms[r].host.clientId
      /\ clientIdByConnection[rooms[r].client.connection] = rooms[r].client.clientId
  BY <1>2 DEF RInv, PartiesAreDistinct
<1> QED
  BY <1>1, <1>2, <1>3 DEF Parties

\* What a step has to show of a room it did not create or fill.
LEMMA RoomGoesOn ==
    ASSUME NEW r \in RoomIds, GoesOn(r),
           rooms'[r].host.connection = rooms[r].host.connection,
           rooms'[r].host.clientId = rooms[r].host.clientId,
           rooms'[r].client.connection = rooms[r].client.connection,
           rooms[r].peerEndpointNotified => rooms'[r].peerEndpointNotified,
           lostProbes \subseteq lostProbes',
           \A c \in Parties(r) : c \in open' => c \in open,
           Full(r) => /\ Invited(r) => Abandoned(r)' \/ Invited(r)' \/ Asking(r)'
                      /\ Asking(r) => \/ Abandoned(r)' \/ Asking(r)'
                                      \/ \A c \in Parties(r) : Probing(c, r)'
                      /\ \A c \in Parties(r) : Probing(c, r) => Abandoned(r)' \/ Probing(c, r)'
    PROVE  GoesOn(r)'
<1>1. Parties(r)' = Parties(r) /\ (Full(r)' <=> Full(r))
  BY DEF Parties, Full
<1>2. Abandoned(r) => Abandoned(r)'
  BY <1>1 DEF Abandoned
<1>3. SUFFICES ASSUME Full(r), rooms[r].host.clientId # None
               PROVE  GoesOn(r)'
  BY <1>1 DEF GoesOn
<1>4. (\A c \in Parties(r) : Probing(c, r)) => Abandoned(r)' \/ \A c \in Parties(r) : Probing(c, r)'
  BY <1>3
<1>5. \/ rooms[r].peerEndpointNotified
      \/ Abandoned(r) \/ Invited(r) \/ Asking(r)
      \/ \A c \in Parties(r) : Probing(c, r)
  BY <1>3 DEF GoesOn
<1>6. \/ rooms'[r].peerEndpointNotified
      \/ Abandoned(r)' \/ Invited(r)' \/ Asking(r)'
      \/ \A c \in Parties(r) : Probing(c, r)'
  BY <1>2, <1>3, <1>4, <1>5
<1> QED
  BY <1>1, <1>6 DEF GoesOn

\* Nothing is taken from the boxes of a room's parties, and no probe.
LEMMA RoomUntouched ==
    ASSUME RInv, NEW r \in RoomIds, GoesOn(r),
           rooms'[r] = rooms[r], probes \subseteq probes', lostProbes \subseteq lostProbes',
           \A c \in Parties(r) : c \in open' => c \in open,
           \A c \in Parties(r) : \A m : Holds(inbox[c], m) => Holds(inbox'[c], m),
           \A c \in Parties(r) : \A m : Holds(unread[c], m) => Holds(unread'[c], m)
    PROVE  GoesOn(r)'
<1>1. ASSUME Full(r)
      PROVE  /\ Invited(r) => Invited(r)'
             /\ Asking(r) => Asking(r)'
             /\ \A c \in Parties(r) : Probing(c, r) => Probing(c, r)'
  <2>1. rooms[r].host.connection \in Parties(r)
    BY <1>1, FullRoom
  <2> QED
    BY <2>1 DEF Invited, Asking, Probing
<1> QED
  BY <1>1, RoomGoesOn

-----------------------------------------------------------------------------

LEMMA StartGoesOn ==
    ASSUME RInv, WayInv, NEW c \in Conns, NEW u,
           name[c] = None, open' = open \cup {c},
           \A d \in Conns \ {c} : wanted'[d] = wanted[d],
           unread' = [unread EXCEPT ![c] = u],
           UNCHANGED <<inbox, tableVars, rooms, udpVars, told>>
    PROVE  WayInv'
<1>1. inbox[c] = <<>> /\ Len(inbox[c]) = 0 /\ IsFree(c)
  BY DEF RInv, StrangersAreUnknown
<1>2. NumbersAreOwn'
  BY DEF WayInv, NumbersAreOwn
<1>3. NumbersComeFirst'
  <2>1. \A d \in Conns : \A i \in 1 .. Len(inbox'[d]) : d # c
    BY <1>1
  <2> QED
    BY <2>1 DEF WayInv, NumbersComeFirst, KnowsBy
<1>4. NumbersArrive'
  <2>1. \A r \in RoomIds : rooms[r].host.connection # c
    BY <1>1 DEF IsFree, IsParty
  <2>2. \A d \in open' \ {c} : d \in open /\ wanted'[d] = wanted[d]
    BY DEF RInv, TypeOK
  <2> QED
    BY <2>1, <2>2 DEF WayInv, NumbersArrive
<1>5. EndpointsAreUsed'
  BY DEF WayInv, EndpointsAreUsed, EndpointsReady
<1>6. ASSUME NEW r \in RoomIds
      PROVE  GoesOn(r)'
  <2>1. \A d \in Parties(r) : d # c
    BY <1>1, NoneAssumption DEF IsFree, IsParty, Parties
  <2>2. \A d \in Parties(r) : d \in Conns /\ unread'[d] = unread[d]
    <3>1. \A d \in Parties(r) : d \in Conns
      BY DEF RInv, TypeOK, Peers, Parties
    <3> QED
      BY <2>1, <3>1 DEF RInv, TypeOK
  <2> QED
    BY <2>1, <2>2, RoomUntouched DEF WayInv, udpVars
<1> QED
  BY <1>2, <1>3, <1>4, <1>5, <1>6 DEF WayInv

LEMMA DisconnectGoesOn ==
    ASSUME RInv, WayInv, NEW c \in Conns, Disconnect(c)
    PROVE  WayInv'
<1>1. /\ \A d \in Conns \ {c} : inbox'[d] = inbox[d] /\ unread'[d] = unread[d]
      /\ inbox'[c] = <<>> /\ Len(inbox'[c]) = 0
      /\ open' = open \ {c}
      /\ UNCHANGED <<wanted, rooms, probes, lostProbes>>
  BY DEF RInv, TypeOK, Disconnect, clientVars, udpVars
<1>2. NumbersAreOwn' /\ NumbersComeFirst' /\ NumbersArrive' /\ EndpointsAreUsed'
  <2>1. \A d \in Conns : \A i \in 1 .. Len(inbox'[d]) : inbox'[d] = inbox[d]
    BY <1>1
  <2>2. NumbersAreOwn'
    BY <1>1, <2>1 DEF WayInv, NumbersAreOwn
  <2>3. NumbersComeFirst'
    BY <1>1, <2>1 DEF WayInv, NumbersComeFirst, KnowsBy
  <2>4. \A d \in open' : d \in open /\ inbox'[d] = inbox[d]
    BY <1>1 DEF RInv, TypeOK
  <2>5. NumbersArrive'
    BY <1>1, <2>4 DEF WayInv, NumbersArrive
  <2>6. EndpointsAreUsed'
    BY <1>1 DEF WayInv, EndpointsAreUsed, EndpointsReady
  <2> QED
    BY <2>2, <2>3, <2>5, <2>6
<1>3. ASSUME NEW r \in RoomIds
      PROVE  GoesOn(r)'
  <2>1. CASE c \in Parties(r)
    <3>1. Parties(r)' = Parties(r)
      BY <1>1 DEF Parties
    <3> QED
      BY <1>1, <2>1, <3>1 DEF GoesOn, Abandoned
  <2>2. CASE c \notin Parties(r)
    <3>1. \A d \in Parties(r) : d \in Conns
      BY DEF RInv, TypeOK, Peers, Parties
    <3>2. \A d \in Parties(r) : inbox'[d] = inbox[d] /\ unread'[d] = unread[d]
      BY <1>1, <2>2, <3>1
    <3> QED
      BY <1>1, <3>2, RoomUntouched DEF WayInv
  <2> QED
    BY <2>1, <2>2
<1> QED
  BY <1>2, <1>3 DEF WayInv

\* A connection hosts one room only.
LEMMA OneRoom ==
    ASSUME RInv, NEW c \in Conns, NEW r \in RoomIds, NEW q \in RoomIds,
           rooms[r].host.connection = c, rooms[q].host.connection = c
    PROVE  r = q
<1>1. c \in Parties(r) /\ c \in Parties(q)
  BY NoneAssumption DEF Parties
<1> QED
  BY <1>1 DEF RInv, PartiesAreDistinct

\* What a client knows after it has read an answer.
LEMMA ReadingGoesOn ==
    ASSUME RInv, WayInv, NEW c \in Conns, NEW type, ClientReads(c, type),
           \A d \in Conns \ {c} : wanted'[d] = wanted[d],
           wanted'[c] = IF type = "RoomCreated" THEN Head(inbox[c]).roomId ELSE wanted[c]
    PROVE  /\ NumbersAreOwn' /\ NumbersComeFirst' /\ NumbersArrive' /\ EndpointsAreUsed'
           /\ Head(inbox[c]) = Message(type, Head(inbox[c]).roomId)
           /\ \A d \in Conns : \A m : Holds(inbox[d], m) =>
                Holds(inbox'[d], m) \/ (d = c /\ m = Head(inbox[c]))
           /\ type = "PeerJoined" =>
                /\ wanted[c] = Head(inbox[c]).roomId
                /\ wanted[c] \in RoomIds /\ rooms[wanted[c]].host.connection = c
<1>1. inbox \in [Conns -> Seq(Answers)] /\ inbox[c] # <<>> /\ inbox' = [inbox EXCEPT ![c] = Tail(@)]
  BY DEF RInv, TypeOK, Answers, ClientReads
<1>2. UNCHANGED <<open, rooms>>
  BY DEF ClientReads
<1>3. PICK b \in Seq(Answers) : b = inbox[c]
  BY <1>1
<1>4. PICK h : h = Head(b)
  OBVIOUS
<1>5. PICK t \in Seq(Answers) : t = Tail(b)
  BY <1>1, <1>3, TailEntries
<1>6. /\ 1 \in 1 .. Len(b) /\ h = b[1] /\ h \in Answers /\ h.type = type
      /\ \A i \in 1 .. Len(t) : i > 0 /\ i + 1 \in 1 .. Len(b) /\ t[i] = b[i + 1] /\ t[i] \in Answers
  BY <1>1, <1>3, <1>4, <1>5, TailEntries DEF ClientReads
<1>7. /\ \A i \in 1 .. Len(b) : i # 1 => i - 1 \in 1 .. Len(t) /\ t[i - 1] = b[i]
      /\ \A m : Holds(b, m) /\ h # m => Holds(t, m)
  BY <1>1, <1>3, <1>4, <1>5, HoldsTail
<1>8. inbox'[c] = t /\ \A d \in Conns \ {c} : inbox'[d] = inbox[d]
  BY <1>1, <1>3, <1>5
<1>9. h = Message(type, h.roomId)
  BY <1>6, AnswerIs
<1>10. type # "ProbePermitted" => h.roomId \in RoomIds /\ rooms[h.roomId].host.connection = c
  BY <1>3, <1>6 DEF WayInv, NumbersAreOwn
<1>11. wanted'[c] = IF type = "RoomCreated" THEN h.roomId ELSE wanted[c]
  BY <1>3, <1>4
<1>12. ASSUME NEW r \in RoomIds, rooms[r].host.connection = c,
              wanted[c] = r \/ h = Message("RoomCreated", r)
       PROVE  wanted'[c] = r
  <2>1. CASE h = Message("RoomCreated", r)
    BY <1>9, <1>11, <2>1, MessagesDiffer
  <2>2. CASE wanted[c] = r /\ type = "RoomCreated"
    BY <1>10, <1>11, <1>12, <2>2, OneRoom
  <2>3. CASE wanted[c] = r /\ type # "RoomCreated"
    BY <1>11, <2>3
  <2> QED
    BY <1>12, <2>1, <2>2, <2>3
<1>13. NumbersAreOwn'
  <2>1. ASSUME NEW i \in 1 .. Len(t), t[i].type # "ProbePermitted"
        PROVE  t[i].roomId \in RoomIds /\ rooms[t[i].roomId].host.connection = c
    BY <1>3, <1>6, <2>1 DEF WayInv, NumbersAreOwn
  <2> QED
    BY <1>2, <1>8, <2>1 DEF WayInv, NumbersAreOwn
<1>14. NumbersComeFirst'
  <2>1. ASSUME NEW i \in 1 .. Len(t), t[i].type = "PeerJoined",
               NEW r, r = t[i].roomId
        PROVE  wanted'[c] = r \/ \E j \in 1 .. Len(t) : j < i /\ t[j] = Message("RoomCreated", r)
    <3>1. i \in Nat /\ i + 1 \in 1 .. Len(b) /\ t[i] = b[i + 1]
      BY <1>6
    <3>2. r \in RoomIds /\ rooms[r].host.connection = c
      BY <1>3, <2>1, <3>1 DEF WayInv, NumbersAreOwn
    <3>3. KnowsBy(c, r, i + 1)
      BY <1>3, <2>1, <3>1 DEF WayInv, NumbersComeFirst
    <3>4. CASE wanted[c] = r
      BY <1>12, <3>2, <3>4
    <3>5. ASSUME NEW j \in 1 .. Len(b), j < i + 1, b[j] = Message("RoomCreated", r)
          PROVE  wanted'[c] = r \/ \E k \in 1 .. Len(t) : k < i /\ t[k] = Message("RoomCreated", r)
      <4>1. CASE j = 1
        BY <1>6, <1>12, <3>2, <3>5, <4>1
      <4>2. CASE j # 1
        <5>1. j - 1 \in 1 .. Len(t) /\ t[j - 1] = b[j]
          BY <1>7, <4>2
        <5>2. j - 1 < i
          BY <3>1, <3>5
        <5> QED
          BY <3>5, <5>1, <5>2
      <4> QED
        BY <4>1, <4>2
    <3> QED
      BY <1>3, <3>3, <3>4, <3>5 DEF KnowsBy
  <2>2. ASSUME NEW d \in Conns \ {c}, NEW i \in 1 .. Len(inbox'[d]), inbox'[d][i].type = "PeerJoined"
        PROVE  KnowsBy(d, inbox[d][i].roomId, i)'
    <3>1. KnowsBy(d, inbox[d][i].roomId, i)
      BY <1>8, <2>2 DEF WayInv, NumbersComeFirst
    <3> QED
      BY <1>8, <3>1 DEF KnowsBy
  <2>3. ASSUME NEW i \in 1 .. Len(inbox'[c]), inbox'[c][i].type = "PeerJoined"
        PROVE  KnowsBy(c, inbox[c][i].roomId, i)'
    BY <1>8, <2>1, <2>3 DEF KnowsBy
  <2> QED
    BY <2>2, <2>3 DEF NumbersComeFirst
<1>15. NumbersArrive'
  <2>1. ASSUME NEW r \in RoomIds, rooms[r].host.connection = c, c \in open
        PROVE  wanted'[c] = r \/ Holds(t, Message("RoomCreated", r))
    <3>1. wanted[c] = r \/ Holds(b, Message("RoomCreated", r))
      BY <1>3, <2>1 DEF WayInv, NumbersArrive
    <3> QED
      BY <1>7, <1>12, <2>1, <3>1
  <2>2. \A d \in open : d \in Conns
    BY DEF RInv, TypeOK
  <2> QED
    BY <1>2, <1>8, <2>1, <2>2 DEF WayInv, NumbersArrive
<1>16. EndpointsAreUsed'
  BY <1>2 DEF WayInv, EndpointsAreUsed, EndpointsReady
<1>17. ASSUME NEW d \in Conns, NEW m, Holds(inbox[d], m)
       PROVE  Holds(inbox'[d], m) \/ (d = c /\ m = h)
  <2>1. CASE d = c
    BY <1>3, <1>7, <1>8, <1>17, <2>1
  <2>2. CASE d # c
    BY <1>8, <1>17, <2>2
  <2> QED
    BY <2>1, <2>2
<1>18. ASSUME type = "PeerJoined"
       PROVE  wanted[c] = h.roomId /\ wanted[c] \in RoomIds /\ rooms[wanted[c]].host.connection = c
  <2>1. KnowsBy(c, h.roomId, 1)
    BY <1>3, <1>6, <1>18 DEF WayInv, NumbersComeFirst
  <2>2. \A j \in 1 .. Len(inbox[c]) : ~(j < 1)
    BY <1>3
  <2>3. wanted[c] = h.roomId
    BY <2>1, <2>2 DEF KnowsBy
  <2> QED
    BY <1>10, <1>18, <2>3
<1>19. h = Head(inbox[c])
  BY <1>3, <1>4
<1> QED
  BY <1>9, <1>13, <1>14, <1>15, <1>16, <1>17, <1>18, <1>19

LEMMA OnRoomCreatedGoesOn ==
    ASSUME RInv, WayInv, NEW c \in Conns, OnRoomCreated(c)
    PROVE  WayInv'
<1>1. ClientReads(c, "RoomCreated") /\ UNCHANGED <<open, rooms, unread, probes, lostProbes>>
  BY DEF OnRoomCreated, ClientReads
<1>2. /\ wanted'[c] = Head(inbox[c]).roomId
      /\ \A d \in Conns \ {c} : wanted'[d] = wanted[d]
  BY DEF RInv, TypeOK, OnRoomCreated
<1>3. PICK h : h = Head(inbox[c])
  OBVIOUS
<1>4. /\ NumbersAreOwn' /\ NumbersComeFirst' /\ NumbersArrive' /\ EndpointsAreUsed'
      /\ h = Message("RoomCreated", h.roomId)
      /\ \A d \in Conns : \A m : Holds(inbox[d], m) => Holds(inbox'[d], m) \/ (d = c /\ m = h)
  BY <1>1, <1>2, <1>3, ReadingGoesOn
<1>5. ASSUME NEW r \in RoomIds
      PROVE  GoesOn(r)'
  <2>1. /\ \A d \in Conns : Holds(inbox[d], Message("PeerJoined", r)) =>
                            Holds(inbox'[d], Message("PeerJoined", r))
        /\ \A d \in Conns : Holds(inbox[d], Message("ProbePermitted", r)) =>
                            Holds(inbox'[d], Message("ProbePermitted", r))
    <3>1. Message("PeerJoined", r) # h /\ Message("ProbePermitted", r) # h
      BY <1>4, MessagesDiffer
    <3> QED
      BY <1>4, <3>1
  <2>2. ASSUME Full(r)
        PROVE  /\ Invited(r) => Invited(r)'
               /\ Asking(r) => Asking(r)'
               /\ \A d \in Parties(r) : Probing(d, r) => Probing(d, r)'
    BY <1>1, <2>1, <2>2, FullRoom DEF Invited, Asking, Probing
  <2> QED
    BY <1>1, <2>2, RoomGoesOn DEF WayInv
<1> QED
  BY <1>4, <1>5 DEF WayInv

LEMMA OnPeerJoinedGoesOn ==
    ASSUME RInv, WayInv, NEW c \in Conns, OnPeerJoined(c)
    PROVE  WayInv'
<1>1. ClientReads(c, "PeerJoined") /\ UNCHANGED <<open, wanted, rooms, probes, lostProbes>>
  BY DEF OnPeerJoined, ClientReads
<1>2. PICK h : h = Head(inbox[c])
  OBVIOUS
<1>3. /\ NumbersAreOwn' /\ NumbersComeFirst' /\ NumbersArrive' /\ EndpointsAreUsed'
      /\ h = Message("PeerJoined", h.roomId)
      /\ \A d \in Conns : \A m : Holds(inbox[d], m) => Holds(inbox'[d], m) \/ (d = c /\ m = h)
      /\ wanted[c] = h.roomId /\ wanted[c] \in RoomIds /\ rooms[wanted[c]].host.connection = c
  BY <1>1, <1>2, ReadingGoesOn
<1>4. unread' = [unread EXCEPT ![c] = Append(@, Message("ProbeRequest", None))]
  BY <1>2, <1>3, NoneAssumption DEF OnPeerJoined
<1>5. /\ \A d \in Conns : \A m : Holds(unread[d], m) => Holds(unread'[d], m)
      /\ Holds(unread'[c], Message("ProbeRequest", None))
  <2>1. unread \in [Conns -> Seq(Requests)] /\ Message("ProbeRequest", None) \in Requests
    BY DEF RInv, TypeOK, Requests, MessagesOf, Message
  <2>2. ASSUME NEW s \in Seq(Requests), NEW e \in Requests
        PROVE  (\A m : Holds(s, m) => Holds(Append(s, e), m)) /\ Holds(Append(s, e), e)
    <3>1. /\ \A i \in 1 .. Len(s) : i \in 1 .. Len(Append(s, e)) /\ Append(s, e)[i] = s[i]
          /\ Len(s) + 1 \in 1 .. Len(Append(s, e)) /\ Append(s, e)[Len(s) + 1] = e
      OBVIOUS
    <3> QED
      BY <3>1 DEF Holds
  <2>3. /\ unread'[c] = Append(unread[c], Message("ProbeRequest", None))
        /\ \A d \in Conns \ {c} : unread'[d] = unread[d]
    BY <1>4, <2>1
  <2>4. unread[c] \in Seq(Requests)
    BY <2>1
  <2> QED
    BY <2>1, <2>2, <2>3, <2>4
<1>6. ASSUME NEW r \in RoomIds
      PROVE  GoesOn(r)'
  <2>1. /\ \A d \in Conns : Holds(inbox[d], Message("PeerJoined", r)) =>
                            Holds(inbox'[d], Message("PeerJoined", r)) \/ (d = c /\ r = h.roomId)
        /\ \A d \in Conns : Holds(inbox[d], Message("ProbePermitted", r)) =>
                            Holds(inbox'[d], Message("ProbePermitted", r))
    <3>1. /\ Message("ProbePermitted", r) # h
          /\ Message("PeerJoined", r) = h => r = h.roomId
      BY <1>3, MessagesDiffer
    <3> QED
      BY <1>3, <3>1
  <2>2. ASSUME Full(r)
        PROVE  /\ Invited(r) => Invited(r)' \/ Asking(r)'
               /\ Asking(r) => Asking(r)'
               /\ \A d \in Parties(r) : Probing(d, r) => Probing(d, r)'
    <3>1. rooms[r].host.connection \in Conns /\ \A d \in Parties(r) : d \in Conns
      BY <2>2, FullRoom
    <3>2. Invited(r) => Invited(r)' \/ Asking(r)'
      BY <1>1, <1>3, <1>5, <2>1, <3>1 DEF Invited, Asking
    <3>3. Asking(r) => Asking(r)'
      BY <1>1, <1>5, <3>1 DEF Asking
    <3>4. \A d \in Parties(r) : Probing(d, r) => Probing(d, r)'
      BY <1>1, <2>1, <3>1 DEF Probing
    <3> QED
      BY <3>2, <3>3, <3>4
  <2> QED
    BY <1>1, <2>2, RoomGoesOn DEF WayInv
<1> QED
  BY <1>3, <1>6 DEF WayInv

LEMMA OnProbePermittedGoesOn ==
    ASSUME RInv, WayInv, NEW c \in Conns, OnProbePermitted(c)
    PROVE  WayInv'
<1>1. ClientReads(c, "ProbePermitted") /\ UNCHANGED <<open, wanted, rooms, unread, lostProbes>>
  BY DEF OnProbePermitted, ClientReads
<1>2. PICK h : h = Head(inbox[c])
  OBVIOUS
<1>3. /\ NumbersAreOwn' /\ NumbersComeFirst' /\ NumbersArrive' /\ EndpointsAreUsed'
      /\ h = Message("ProbePermitted", h.roomId)
      /\ \A d \in Conns : \A m : Holds(inbox[d], m) => Holds(inbox'[d], m) \/ (d = c /\ m = h)
  BY <1>1, <1>2, ReadingGoesOn
<1>4. /\ probes \subseteq probes'
      /\ \E p \in probes' : p.from = c /\ p.roomId = h.roomId
  <2>1. probes' = probes \cup {Probe(c, h.roomId)}
    BY <1>2 DEF OnProbePermitted
  <2>2. Probe(c, h.roomId).from = c /\ Probe(c, h.roomId).roomId = h.roomId
    BY DEF Probe
  <2> QED
    BY <2>1, <2>2
<1>5. ASSUME NEW r \in RoomIds
      PROVE  GoesOn(r)'
  <2>1. /\ \A d \in Conns : Holds(inbox[d], Message("PeerJoined", r)) =>
                            Holds(inbox'[d], Message("PeerJoined", r))
        /\ \A d \in Conns : Holds(inbox[d], Message("ProbePermitted", r)) =>
                            Holds(inbox'[d], Message("ProbePermitted", r)) \/ (d = c /\ r = h.roomId)
    <3>1. /\ Message("PeerJoined", r) # h
          /\ Message("ProbePermitted", r) = h => r = h.roomId
      BY <1>3, MessagesDiffer
    <3> QED
      BY <1>3, <3>1
  <2>2. ASSUME Full(r)
        PROVE  /\ Invited(r) => Invited(r)'
               /\ Asking(r) => Asking(r)'
               /\ \A d \in Parties(r) : Probing(d, r) => Probing(d, r)'
    <3>1. rooms[r].host.connection \in Conns /\ \A d \in Parties(r) : d \in Conns
      BY <2>2, FullRoom
    <3>2. \A d \in Parties(r) : Probing(d, r) => Probing(d, r)'
      BY <1>1, <1>4, <2>1, <3>1 DEF Probing
    <3> QED
      BY <1>1, <2>1, <3>1, <3>2 DEF Invited, Asking
  <2> QED
    BY <1>1, <2>2, RoomGoesOn DEF WayInv
<1> QED
  BY <1>3, <1>5 DEF WayInv

\* The server has taken a request; only a ProbeRequest ends the asking.
LEMMA TakenRequest ==
    ASSUME RInv, NEW c \in Conns, NEW type, ServerReads(c, type)
    PROVE  /\ UNCHANGED <<open, wanted, probes, lostProbes>>
           /\ \A d \in Conns : Holds(unread[d], Message("ProbeRequest", None)) =>
                \/ Holds(unread'[d], Message("ProbeRequest", None))
                \/ d = c /\ type = "ProbeRequest"
<1>1. UNCHANGED <<open, wanted, probes, lostProbes>>
  BY DEF ServerReads, clientVars, udpVars
<1>2. /\ unread[c] # <<>> /\ unread' = [unread EXCEPT ![c] = Tail(@)]
      /\ Head(unread[c]).type = type /\ unread \in [Conns -> Seq(Requests)]
  BY DEF ServerReads, RInv, TypeOK, Requests
<1>3. PICK s \in Seq(Requests) : s = unread[c]
  BY <1>2
<1>4. \A m : Holds(s, m) /\ Head(s) # m => Holds(Tail(s), m)
  BY <1>2, <1>3, HoldsTail
<1>5. Message("ProbeRequest", None).type = "ProbeRequest"
  BY DEF Message
<1>6. unread'[c] = Tail(s) /\ \A d \in Conns \ {c} : unread'[d] = unread[d]
  BY <1>2, <1>3
<1>7. Head(s) = Message("ProbeRequest", None) => type = "ProbeRequest"
  BY <1>2, <1>3, <1>5
<1>8. ASSUME NEW d \in Conns, Holds(unread[d], Message("ProbeRequest", None))
      PROVE  \/ Holds(unread'[d], Message("ProbeRequest", None))
             \/ d = c /\ type = "ProbeRequest"
  <2>1. CASE d = c
    BY <1>3, <1>4, <1>6, <1>7, <1>8, <2>1
  <2>2. CASE d # c
    BY <1>6, <1>8, <2>2
  <2> QED
    BY <2>1, <2>2
<1> QED
  BY <1>1, <1>8

\* What the server has to show of the messages it sends.
LEMMA SendingGoesOn ==
    ASSUME RInv, WayInv, UNCHANGED <<open, wanted>>, inbox' \in [Conns -> Seq(Answers)],
           \A d \in Conns : \A i \in 1 .. Len(inbox[d]) :
                i \in 1 .. Len(inbox'[d]) /\ inbox'[d][i] = inbox[d][i],
           \A d \in Conns : \A i \in 1 .. Len(inbox'[d]) : i \notin 1 .. Len(inbox[d]) =>
                /\ inbox'[d][i].type # "ProbePermitted" =>
                    /\ inbox'[d][i].roomId \in RoomIds
                    /\ rooms'[inbox'[d][i].roomId].host.connection = d
                /\ inbox'[d][i].type = "PeerJoined" =>
                    /\ d \in open
                    /\ rooms[inbox'[d][i].roomId].host.connection = d,
           \A r \in RoomIds : rooms[r].host.connection \in Conns =>
                rooms'[r].host.connection = rooms[r].host.connection,
           \A r \in RoomIds, d \in open : rooms'[r].host.connection = d =>
                rooms[r].host.connection = d \/ Holds(inbox'[d], Message("RoomCreated", r))
    PROVE  NumbersAreOwn' /\ NumbersComeFirst' /\ NumbersArrive'
<1>1. inbox \in [Conns -> Seq(Answers)] /\ open \subseteq Conns
  BY DEF RInv, TypeOK, Answers
<1>2. NumbersAreOwn'
  <2> SUFFICES ASSUME NEW d \in Conns, NEW i \in 1 .. Len(inbox'[d]),
                      inbox'[d][i].type # "ProbePermitted"
               PROVE  /\ inbox'[d][i].roomId \in RoomIds
                      /\ rooms'[inbox'[d][i].roomId].host.connection = d
    BY DEF NumbersAreOwn
  <2>1. CASE i \in 1 .. Len(inbox[d])
    <3>1. inbox'[d][i] = inbox[d][i]
      BY <2>1
    <3> QED
      BY <2>1, <3>1 DEF WayInv, NumbersAreOwn
  <2>2. CASE i \notin 1 .. Len(inbox[d])
    BY <2>2
  <2> QED
    BY <2>1, <2>2
<1>3. ASSUME NEW d \in Conns, NEW r, NEW i, KnowsBy(d, r, i)
      PROVE  KnowsBy(d, r, i)'
  BY <1>3 DEF KnowsBy
<1>4. NumbersComeFirst'
  <2> SUFFICES ASSUME NEW d \in Conns, NEW i \in 1 .. Len(inbox'[d]),
                      inbox'[d][i].type = "PeerJoined"
               PROVE  KnowsBy(d, inbox[d][i].roomId, i)'
    BY DEF NumbersComeFirst
  <2>1. PICK r : r = inbox'[d][i].roomId
    OBVIOUS
  <2>2. KnowsBy(d, r, i)
    <3>1. CASE i \in 1 .. Len(inbox[d])
      <4>1. inbox'[d][i] = inbox[d][i]
        BY <3>1
      <4> QED
        BY <2>1, <3>1, <4>1 DEF WayInv, NumbersComeFirst
    <3>2. CASE i \notin 1 .. Len(inbox[d])
      <4>1. d \in open /\ r \in RoomIds /\ rooms[r].host.connection = d
        BY <2>1, <3>2
      <4>2. wanted[d] = r \/ Holds(inbox[d], Message("RoomCreated", r))
        BY <4>1 DEF WayInv, NumbersArrive
      <4>3. \A j \in 1 .. Len(inbox[d]) : j < i
        BY <1>1, <3>2
      <4> QED
        BY <4>2, <4>3 DEF KnowsBy, Holds
    <3> QED
      BY <3>1, <3>2
  <2>3. KnowsBy(d, r, i)'
    BY <1>3, <2>2
  <2> QED
    BY <2>1, <2>3 DEF KnowsBy
<1>5. NumbersArrive'
  <2> SUFFICES ASSUME NEW d \in open', NEW r \in RoomIds, rooms'[r].host.connection = d
               PROVE  wanted'[d] = r \/ Holds(inbox'[d], Message("RoomCreated", r))
    BY DEF NumbersArrive
  <2>1. d \in open /\ d \in Conns
    BY <1>1
  <2>2. CASE rooms[r].host.connection = d
    <3>1. wanted[d] = r \/ Holds(inbox[d], Message("RoomCreated", r))
      BY <2>1, <2>2 DEF WayInv, NumbersArrive
    <3> QED
      BY <2>1, <3>1 DEF Holds
  <2>3. CASE rooms[r].host.connection # d
    BY <2>1, <2>3
  <2> QED
    BY <2>2, <2>3
<1> QED
  BY <1>2, <1>4, <1>5

\* A request that is refused, or only registers a name.
LEMMA RefusalGoesOn ==
    ASSUME RInv, WayInv, NEW c \in Conns, NEW type, ServerReads(c, type),
           type = "ProbeRequest" => ~MayProbe(c),
           UNCHANGED <<inbox, rooms>>
    PROVE  WayInv'
<1>1. /\ UNCHANGED <<open, wanted, probes, lostProbes>>
      /\ \A d \in Conns : Holds(unread[d], Message("ProbeRequest", None)) =>
            \/ Holds(unread'[d], Message("ProbeRequest", None))
            \/ d = c /\ type = "ProbeRequest"
  BY TakenRequest
<1>2. NumbersAreOwn'
  BY DEF WayInv, NumbersAreOwn
<1>3. NumbersComeFirst'
  BY <1>1 DEF WayInv, NumbersComeFirst, KnowsBy
<1>4. NumbersArrive' /\ EndpointsAreUsed'
  BY <1>1 DEF WayInv, NumbersArrive, EndpointsAreUsed, EndpointsReady
<1>5. ASSUME NEW r \in RoomIds
      PROVE  GoesOn(r)'
  <2>1. CASE Full(r) /\ rooms[r].host.clientId # None
    <3>1. PICK host : host = rooms[r].host.connection
      OBVIOUS
    <3>2. host \in Conns /\ clientIdByConnection[host] = rooms[r].host.clientId
      BY <2>1, <3>1, FullRoom
    <3>3. MayProbe(host)
      <4>1. rooms[r].host.clientId \in Names \cup {None} /\ Exists(r) /\ r # None
        BY <2>1, NoneAssumption DEF RInv, TypeOK, Peers, RoomsAreFilled
      <4>2. roomIdByClientId[rooms[r].host.clientId] = r
        BY <4>1 DEF RInv, MembershipAgrees
      <4> QED
        BY <2>1, <3>1, <3>2, <4>1, <4>2 DEF MayProbe, Full
    <3>4. Asking(r) => Asking(r)'
      BY <1>1, <3>1, <3>2, <3>3 DEF Asking
    <3>5. Invited(r) => Invited(r)'
      BY DEF Invited
    <3>6. \A d \in Parties(r) : Probing(d, r) => Probing(d, r)'
      BY <1>1 DEF Probing
    <3> QED
      BY <1>1, <3>4, <3>5, <3>6, RoomGoesOn DEF WayInv
  <2>2. CASE ~(Full(r) /\ rooms[r].host.clientId # None)
    BY <2>2 DEF GoesOn, Full
  <2> QED
    BY <2>1, <2>2
<1> QED
  BY <1>2, <1>3, <1>4, <1>5 DEF WayInv

\* The answers after e was sent to c: what there was, and e at the end of one box.
Grown(box, new, c, e) ==
    /\ new \in [Conns -> Seq(Answers)]
    /\ \A d \in Conns : \A i \in 1 .. Len(new[d]) :
         \/ i \in 1 .. Len(box[d]) /\ new[d][i] = box[d][i]
         \/ d = c /\ c \in open /\ new[d][i] = e
    /\ \A d \in Conns : \A i \in 1 .. Len(box[d]) :
         i \in 1 .. Len(new[d]) /\ new[d][i] = box[d][i]
    /\ \A d \in Conns : \A m : Holds(box[d], m) => Holds(new[d], m)
    /\ c \in open => Holds(new[c], e)

LEMMA AnswerSent ==
    ASSUME NEW box \in [Conns -> Seq(Answers)], NEW c \in Conns, NEW e \in Answers
    PROVE  Grown(box, Sent(box, c, e), c, e)
<1>1. /\ Sent(box, c, e) \in [Conns -> Seq(Answers)]
      /\ \A d \in Conns : \A i \in 1 .. Len(Sent(box, c, e)[d]) :
            \/ i \in 1 .. Len(box[d]) /\ Sent(box, c, e)[d][i] = box[d][i]
            \/ d = c /\ Sent(box, c, e)[d][i] = e
      /\ \A d \in Conns : d \notin open \/ d # c => Sent(box, c, e)[d] = box[d]
  BY SentEntries
<1>2. /\ \A d \in Conns : \A i \in 1 .. Len(box[d]) :
            i \in 1 .. Len(Sent(box, c, e)[d]) /\ Sent(box, c, e)[d][i] = box[d][i]
      /\ \A d \in Conns : \A m : Holds(box[d], m) => Holds(Sent(box, c, e)[d], m)
      /\ c \in open => Holds(Sent(box, c, e)[c], e)
  BY SentHolds
<1>3. \A d \in Conns : \A i \in 1 .. Len(Sent(box, c, e)[d]) :
            \/ i \in 1 .. Len(box[d]) /\ Sent(box, c, e)[d][i] = box[d][i]
            \/ d = c /\ c \in open /\ Sent(box, c, e)[d][i] = e
  BY <1>1
<1> QED
  BY <1>1, <1>2, <1>3 DEF Grown

LEMMA OnRegisterGoesOn ==
    ASSUME RInv, WayInv, NEW c \in Conns, OnRegister(c)
    PROVE  WayInv'
BY RefusalGoesOn DEF OnRegister

LEMMA OnCreateRoomGoesOn ==
    ASSUME RInv, WayInv, NEW c \in Conns, OnCreateRoom(c)
    PROVE  WayInv'
<1> DEFINE n == clientIdByConnection[c]
<1>1. ServerReads(c, "CreateRoom")
  BY DEF OnCreateRoom
<1>2. CASE UNCHANGED <<inbox, roomIdByClientId, rooms>>
  BY <1>1, <1>2, RefusalGoesOn
<1>3. ASSUME NEW r \in RoomIds, rooms[r] = NoRoom,
             rooms' = [rooms EXCEPT ![r].host.clientId = n, ![r].host.connection = c],
             NEW e, e = Message("RoomCreated", r), inbox' = Sent(inbox, c, e)
      PROVE  WayInv'
  <2>1. /\ UNCHANGED <<open, wanted, probes, lostProbes>>
        /\ \A d \in Conns : Holds(unread[d], Message("ProbeRequest", None)) =>
                            Holds(unread'[d], Message("ProbeRequest", None))
    BY <1>1, TakenRequest
  <2>2. /\ rooms'[r].host.connection = c /\ rooms'[r].host.udpEndpoint = None
        /\ rooms'[r].client.connection = None
        /\ rooms[r].host.connection = None
        /\ \A q \in RoomIds \ {r} : rooms'[q] = rooms[q]
    BY <1>3 DEF RInv, TypeOK, NoRoom, NoPeer
  <2>3. e \in Answers /\ e.type = "RoomCreated" /\ e.roomId = r /\ inbox \in [Conns -> Seq(Answers)]
    BY <1>3 DEF Answers, MessagesOf, Message, RInv, TypeOK
  <2>4. Grown(inbox, inbox', c, e)
    BY <1>3, <2>3, AnswerSent
  <2>5. /\ inbox' \in [Conns -> Seq(Answers)]
        /\ \A d \in Conns : \A i \in 1 .. Len(inbox'[d]) :
                \/ i \in 1 .. Len(inbox[d]) /\ inbox'[d][i] = inbox[d][i]
                \/ d = c /\ c \in open /\ inbox'[d][i] = e
        /\ \A d \in Conns : \A i \in 1 .. Len(inbox[d]) :
                i \in 1 .. Len(inbox'[d]) /\ inbox'[d][i] = inbox[d][i]
        /\ \A d \in Conns : \A m : Holds(inbox[d], m) => Holds(inbox'[d], m)
        /\ c \in open => Holds(inbox'[c], e)
    BY <2>4 DEF Grown
  <2>6. NumbersAreOwn' /\ NumbersComeFirst' /\ NumbersArrive'
    <3>1. \A d \in Conns : \A i \in 1 .. Len(inbox'[d]) : i \notin 1 .. Len(inbox[d]) =>
            d = c /\ inbox'[d][i] = e
      BY <2>5
    <3>2. \A q \in RoomIds : rooms[q].host.connection \in Conns =>
            rooms'[q].host.connection = rooms[q].host.connection
      BY <2>2, NoneAssumption
    <3>3. \A q \in RoomIds, d \in open : rooms'[q].host.connection = d =>
            rooms[q].host.connection = d \/ Holds(inbox'[d], Message("RoomCreated", q))
      BY <1>3, <2>2, <2>5
    <3> QED
      BY <2>1, <2>2, <2>3, <2>5, <3>1, <3>2, <3>3, SendingGoesOn
  <2>7. EndpointsAreUsed'
    BY <2>2 DEF WayInv, EndpointsAreUsed, EndpointsReady
  <2>8. ASSUME NEW q \in RoomIds
        PROVE  GoesOn(q)'
    <3>1. CASE q = r
      BY <2>2, <3>1 DEF GoesOn, Full
    <3>2. CASE q # r
      <4>1. ASSUME Full(q)
            PROVE  /\ Invited(q) => Invited(q)'
                   /\ Asking(q) => Asking(q)'
                   /\ \A d \in Parties(q) : Probing(d, q) => Probing(d, q)'
          <5>1. rooms[q].host.connection \in Conns /\ \A d \in Parties(q) : d \in Conns
            BY <4>1, FullRoom
          <5>2. Invited(q) => Invited(q)'
            BY <2>1, <2>2, <2>5, <3>2, <5>1 DEF Invited
          <5>3. Asking(q) => Asking(q)'
            BY <2>1, <2>2, <2>5, <3>2, <5>1 DEF Asking
          <5>4. \A d \in Parties(q) : Probing(d, q) => Probing(d, q)'
            BY <2>1, <2>2, <2>5, <3>2, <5>1 DEF Probing
          <5> QED
            BY <5>2, <5>3, <5>4
      <4> QED
        BY <2>1, <2>2, <3>2, <4>1, RoomGoesOn DEF WayInv
    <3> QED
      BY <3>1, <3>2
  <2> QED
    BY <2>6, <2>7, <2>8 DEF WayInv
<1> QED
  BY <1>1, <1>2, <1>3 DEF OnCreateRoom

LEMMA OnJoinRoomGoesOn ==
    ASSUME RInv, WayInv, NEW c \in Conns, OnJoinRoom(c)
    PROVE  WayInv'
<1>1. ServerReads(c, "JoinRoom")
  BY DEF OnJoinRoom
<1>2. CASE ~MayJoin(c, Head(unread[c]).roomId)
  BY <1>1, <1>2, RefusalGoesOn DEF OnJoinRoom
<1>3. ASSUME NEW r \in RoomIds, r = Head(unread[c]).roomId, MayJoin(c, r),
             NEW host, host = rooms[r].host.connection,
             NEW e, e = Message("PeerJoined", r)
      PROVE  WayInv'
  <2>1. /\ UNCHANGED <<open, wanted, probes, lostProbes>>
        /\ \A d \in Conns : Holds(unread[d], Message("ProbeRequest", None)) =>
                            Holds(unread'[d], Message("ProbeRequest", None))
    BY <1>1, TakenRequest
  <2>2. /\ rooms' = [rooms EXCEPT ![r].client.clientId = clientIdByConnection[c],
                                  ![r].client.connection = c]
        /\ inbox' = Sent(inbox, host, e)
    BY <1>3 DEF OnJoinRoom
  <2>3. host \in Conns /\ rooms[r].client = NoPeer
    <3>1. host \in Conns \cup {None} /\ Exists(r) /\ ~Full(r)
      BY <1>3 DEF RInv, TypeOK, Peers, MayJoin, Exists, Full
    <3> QED
      BY <1>3, <3>1 DEF RInv, RoomsAreFilled
  <2>4. /\ rooms'[r].host = rooms[r].host
        /\ rooms'[r].client.connection = c /\ rooms'[r].client.udpEndpoint = None
        /\ \A q \in RoomIds \ {r} : rooms'[q] = rooms[q]
    BY <2>2, <2>3 DEF RInv, TypeOK, NoPeer
  <2>5. e \in Answers /\ e.type = "PeerJoined" /\ e.roomId = r /\ inbox \in [Conns -> Seq(Answers)]
    BY <1>3 DEF Answers, MessagesOf, Message, RInv, TypeOK
  <2>6. Grown(inbox, inbox', host, e)
    BY <2>2, <2>3, <2>5, AnswerSent
  <2>7. /\ inbox' \in [Conns -> Seq(Answers)]
        /\ \A d \in Conns : \A i \in 1 .. Len(inbox'[d]) :
                \/ i \in 1 .. Len(inbox[d]) /\ inbox'[d][i] = inbox[d][i]
                \/ d = host /\ host \in open /\ inbox'[d][i] = e
        /\ \A d \in Conns : \A i \in 1 .. Len(inbox[d]) :
                i \in 1 .. Len(inbox'[d]) /\ inbox'[d][i] = inbox[d][i]
        /\ \A d \in Conns : \A m : Holds(inbox[d], m) => Holds(inbox'[d], m)
        /\ host \in open => Holds(inbox'[host], e)
    BY <2>6 DEF Grown
  <2>8. \A q \in RoomIds : rooms'[q].host.connection = rooms[q].host.connection
    BY <2>4
  <2>9. NumbersAreOwn' /\ NumbersComeFirst' /\ NumbersArrive'
    <3>1. \A d \in Conns : \A i \in 1 .. Len(inbox'[d]) : i \notin 1 .. Len(inbox[d]) =>
            d = host /\ host \in open /\ inbox'[d][i] = e
      BY <2>7
    <3> QED
      BY <1>3, <2>1, <2>5, <2>7, <2>8, <3>1, SendingGoesOn
  <2>10. EndpointsAreUsed'
    BY <2>4 DEF WayInv, EndpointsAreUsed, EndpointsReady
  <2>11. ASSUME NEW q \in RoomIds
         PROVE  GoesOn(q)'
    <3>1. CASE q = r
      <4>1. CASE host \in open
        <5>1. Invited(r)'
          BY <1>3, <2>4, <2>7, <4>1 DEF Invited
        <5> QED
          BY <3>1, <5>1 DEF GoesOn
      <4>2. CASE host \notin open
        <5>1. host \in Parties(r)' /\ host \notin open'
          BY <1>3, <2>1, <2>3, <2>4, <4>2, NoneAssumption DEF Parties
        <5>2. Abandoned(r)'
          BY <5>1 DEF Abandoned
        <5> QED
          BY <3>1, <5>2 DEF GoesOn
      <4> QED
        BY <4>1, <4>2
    <3>2. CASE q # r
      <4>1. ASSUME Full(q)
            PROVE  /\ Invited(q) => Invited(q)'
                   /\ Asking(q) => Asking(q)'
                   /\ \A d \in Parties(q) : Probing(d, q) => Probing(d, q)'
          <5>1. rooms[q].host.connection \in Conns /\ \A d \in Parties(q) : d \in Conns
            BY <4>1, FullRoom
          <5>2. Invited(q) => Invited(q)'
            BY <2>1, <2>4, <2>7, <3>2, <5>1 DEF Invited
          <5>3. Asking(q) => Asking(q)'
            BY <2>1, <2>4, <2>7, <3>2, <5>1 DEF Asking
          <5>4. \A d \in Parties(q) : Probing(d, q) => Probing(d, q)'
            BY <2>1, <2>4, <2>7, <3>2, <5>1 DEF Probing
          <5> QED
            BY <5>2, <5>3, <5>4
      <4> QED
        BY <2>1, <2>4, <3>2, <4>1, RoomGoesOn DEF WayInv
    <3> QED
      BY <3>1, <3>2
  <2> QED
    BY <2>9, <2>10, <2>11 DEF WayInv
<1>4. Head(unread[c]).roomId \in RoomIds
  BY <1>1, Reading
<1> QED
  BY <1>2, <1>3, <1>4

LEMMA OnProbeRequestGoesOn ==
    ASSUME RInv, WayInv, NEW c \in Conns, OnProbeRequest(c)
    PROVE  WayInv'
<1>1. ServerReads(c, "ProbeRequest")
  BY DEF OnProbeRequest
<1>2. CASE ~MayProbe(c)
  BY <1>1, <1>2, RefusalGoesOn DEF OnProbeRequest
<1>3. ASSUME MayProbe(c), NEW r, r = roomIdByClientId[clientIdByConnection[c]],
             NEW client, client = rooms[r].client.connection,
             NEW e, e = Message("ProbePermitted", r),
             NEW once, once = Sent(inbox, c, e)
      PROVE  WayInv'
  <2>1. r \in RoomIds /\ Full(r) /\ rooms[r].host.connection = c
    <3>1. roomIdByClientId[clientIdByConnection[c]] \in RoomIds \cup {None}
      BY DEF RInv, TypeOK
    <3> QED
      BY <1>3, <3>1 DEF MayProbe, Full
  <2>2. client \in Conns /\ client # c /\ Parties(r) = {c, client}
    BY <1>3, <2>1, FullRoom
  <2>3. /\ UNCHANGED <<open, wanted, probes, lostProbes, rooms>>
        /\ \A d \in Conns : Holds(unread[d], Message("ProbeRequest", None)) =>
                            Holds(unread'[d], Message("ProbeRequest", None)) \/ d = c
    BY <1>1, TakenRequest DEF OnProbeRequest
  <2>4. inbox' = Sent(once, client, e)
    BY <1>3 DEF OnProbeRequest
  <2>5. e \in Answers /\ e.type = "ProbePermitted" /\ inbox \in [Conns -> Seq(Answers)]
    BY <1>3, <2>1 DEF Answers, MessagesOf, Message, RInv, TypeOK
  <2>6. Grown(inbox, once, c, e)
    BY <1>3, <2>5, AnswerSent
  <2>7. /\ once \in [Conns -> Seq(Answers)]
        /\ \A d \in Conns : \A i \in 1 .. Len(once[d]) :
                \/ i \in 1 .. Len(inbox[d]) /\ once[d][i] = inbox[d][i]
                \/ d = c /\ c \in open /\ once[d][i] = e
        /\ \A d \in Conns : \A i \in 1 .. Len(inbox[d]) :
                i \in 1 .. Len(once[d]) /\ once[d][i] = inbox[d][i]
        /\ \A d \in Conns : \A m : Holds(inbox[d], m) => Holds(once[d], m)
        /\ c \in open => Holds(once[c], e)
    BY <2>6 DEF Grown
  <2>8. Grown(once, inbox', client, e)
    BY <2>2, <2>4, <2>5, <2>7, AnswerSent
  <2>9. /\ inbox' \in [Conns -> Seq(Answers)]
        /\ \A d \in Conns : \A i \in 1 .. Len(inbox'[d]) :
                \/ i \in 1 .. Len(once[d]) /\ inbox'[d][i] = once[d][i]
                \/ d = client /\ client \in open /\ inbox'[d][i] = e
        /\ \A d \in Conns : \A i \in 1 .. Len(once[d]) :
                i \in 1 .. Len(inbox'[d]) /\ inbox'[d][i] = once[d][i]
        /\ \A d \in Conns : \A m : Holds(once[d], m) => Holds(inbox'[d], m)
        /\ client \in open => Holds(inbox'[client], e)
    BY <2>8 DEF Grown
  <2>10. NumbersAreOwn' /\ NumbersComeFirst' /\ NumbersArrive'
    <3>1. \A d \in Conns : \A i \in 1 .. Len(inbox'[d]) : i \notin 1 .. Len(inbox[d]) =>
            inbox'[d][i] = e
      BY <2>7, <2>9
    <3>2. \A d \in Conns : \A i \in 1 .. Len(inbox[d]) :
            i \in 1 .. Len(inbox'[d]) /\ inbox'[d][i] = inbox[d][i]
      BY <2>7, <2>9
    <3> QED
      BY <2>3, <2>5, <2>9, <3>1, <3>2, SendingGoesOn
  <2>11. EndpointsAreUsed'
    BY <2>3 DEF WayInv, EndpointsAreUsed, EndpointsReady
  <2>12. ASSUME NEW q \in RoomIds
         PROVE  GoesOn(q)'
    <3>1. ASSUME NEW d \in Conns, NEW m, Holds(inbox[d], m)
          PROVE  Holds(inbox'[d], m)
      BY <2>7, <2>9, <3>1
    <3>2. ASSUME Full(q)
          PROVE  /\ Invited(q) => Invited(q)'
                 /\ Asking(q) => \/ Abandoned(q)' \/ Asking(q)'
                                 \/ \A d \in Parties(q) : Probing(d, q)'
                 /\ \A d \in Parties(q) : Probing(d, q) => Probing(d, q)'
      <4>1. rooms[q].host.connection \in Conns /\ \A d \in Parties(q) : d \in Conns
        BY <3>2, FullRoom
      <4>2. Invited(q) => Invited(q)'
        BY <2>3, <3>1, <4>1 DEF Invited
      <4>3. \A d \in Parties(q) : Probing(d, q) => Probing(d, q)'
        BY <2>3, <3>1, <4>1 DEF Probing
      <4>4. Asking(q) => \/ Abandoned(q)' \/ Asking(q)'
                         \/ \A d \in Parties(q) : Probing(d, q)'
        <5>1. CASE rooms[q].host.connection # c
          BY <2>3, <4>1, <5>1 DEF Asking
        <5>2. CASE rooms[q].host.connection = c
          <6>1. q = r
            BY <2>1, <5>2, OneRoom
          <6>2. Parties(q)' = {c, client}
            BY <2>2, <2>3, <6>1 DEF Parties
          <6>3. CASE c \in open /\ client \in open
            <7>1. Holds(inbox'[c], e) /\ Holds(inbox'[client], e)
              BY <2>7, <2>9, <6>3
            <7>2. Probing(c, q)' /\ Probing(client, q)'
              BY <1>3, <6>1, <7>1 DEF Probing
            <7> QED
              BY <2>2, <6>1, <7>2
          <6>4. CASE ~(c \in open /\ client \in open)
            BY <2>3, <6>2, <6>4 DEF Abandoned
          <6> QED
            BY <6>3, <6>4
        <5> QED
          BY <5>1, <5>2
      <4> QED
        BY <4>2, <4>3, <4>4
    <3> QED
      BY <2>3, <3>2, RoomGoesOn DEF WayInv
  <2> QED
    BY <2>10, <2>11, <2>12 DEF WayInv
<1> QED
  BY <1>2, <1>3

-----------------------------------------------------------------------------

LEMMA LoseProbeGoesOn ==
    ASSUME RInv, WayInv, NEW p \in probes, LoseProbe(p)
    PROVE  WayInv'
<1>1. /\ UNCHANGED <<open, wanted, unread, inbox, rooms>>
      /\ probes' = probes \ {p} /\ lostProbes' = lostProbes \cup {p}
  BY DEF LoseProbe, clientVars
<1>2. NumbersAreOwn' /\ NumbersArrive' /\ EndpointsAreUsed'
  BY <1>1 DEF WayInv, NumbersAreOwn, NumbersArrive, EndpointsAreUsed, EndpointsReady
<1>3. NumbersComeFirst'
  BY <1>1 DEF WayInv, NumbersComeFirst, KnowsBy
<1>4. ASSUME NEW r \in RoomIds
      PROVE  GoesOn(r)'
  <2>1. CASE p.roomId = r
    BY <1>1, <2>1 DEF GoesOn, Abandoned
  <2>2. CASE p.roomId # r
    <3>1. /\ Invited(r) => Invited(r)'
          /\ Asking(r) => Asking(r)'
          /\ \A d \in Parties(r) : Probing(d, r) => Probing(d, r)'
      BY <1>1, <2>2 DEF Invited, Asking, Probing
    <3> QED
      BY <1>1, <3>1, RoomGoesOn DEF WayInv
  <2> QED
    BY <2>1, <2>2
<1> QED
  BY <1>2, <1>3, <1>4 DEF WayInv

LEMMA OnProbeGoesOn ==
    ASSUME RInv, RInv', WayInv, NEW p \in probes, OnProbe(p)
    PROVE  WayInv'
<1> DEFINE Room == [host : Peers, client : Peers, peerEndpointNotified : BOOLEAN]
<1>1. ASSUME NEW r \in RoomIds, r = p.roomId,
             NEW old \in Room, old = rooms[r],
             NEW room \in Room, room = WithEndpoint(old, p),
             NEW new \in Room, rooms' = [rooms EXCEPT ![r] = new],
             new = room \/ new = [room EXCEPT !.peerEndpointNotified = TRUE],
             EndpointsReady(room) => new.peerEndpointNotified
      PROVE  WayInv'
  <2>1. /\ UNCHANGED <<open, wanted, unread, inbox, lostProbes>>
        /\ probes \ {p} \subseteq probes'
    BY DEF OnProbe, clientVars
  <2>2. rooms'[r] = new /\ \A q \in RoomIds \ {r} : rooms'[q] = rooms[q]
    BY <1>1 DEF RInv, TypeOK
  <2>3. /\ new.host.connection = old.host.connection /\ new.host.clientId = old.host.clientId
        /\ new.client.connection = old.client.connection
        /\ old.peerEndpointNotified => new.peerEndpointNotified
        /\ new.host.udpEndpoint = room.host.udpEndpoint
        /\ new.client.udpEndpoint = room.client.udpEndpoint
        /\ room.host.udpEndpoint \in {old.host.udpEndpoint, p.from}
        /\ room.client.udpEndpoint \in {old.client.udpEndpoint, p.from}
        /\ old.host.clientId = p.clientId => room.host.udpEndpoint = p.from
        /\ old.host.clientId # p.clientId /\ old.client.clientId = p.clientId =>
                room.client.udpEndpoint = p.from
    BY <1>1 DEF WithEndpoint, Peers
  <2>4. \A q \in RoomIds : /\ rooms'[q].host.connection = rooms[q].host.connection
                           /\ rooms'[q].host.clientId = rooms[q].host.clientId
                           /\ rooms'[q].client.connection = rooms[q].client.connection
                           /\ rooms[q].peerEndpointNotified => rooms'[q].peerEndpointNotified
    BY <1>1, <2>2, <2>3
  <2>5. NumbersAreOwn' /\ NumbersComeFirst' /\ NumbersArrive'
    <3>1. NumbersAreOwn'
      BY <2>1, <2>4 DEF WayInv, NumbersAreOwn
    <3>2. NumbersComeFirst'
      BY <2>1 DEF WayInv, NumbersComeFirst, KnowsBy
    <3>3. NumbersArrive'
      BY <2>1, <2>4 DEF WayInv, NumbersArrive
    <3> QED
      BY <3>1, <3>2, <3>3
  <2>6. EndpointsAreUsed'
    <3>1. EndpointsReady(new) => new.peerEndpointNotified
      BY <1>1, <2>3 DEF EndpointsReady
    <3> QED
      BY <2>2, <3>1 DEF WayInv, EndpointsAreUsed, EndpointsReady
  <2>7. p.from \in Conns /\ p.from # None /\ p.clientId # None
    BY NoneAssumption DEF RInv, TypeOK
  <2>8. ASSUME NEW d \in Conns, d \in {old.host.udpEndpoint, old.client.udpEndpoint}
        PROVE  d \in {new.host.udpEndpoint, new.client.udpEndpoint}
    <3>1. d # None
      BY NoneAssumption
    <3>2. /\ old.host.udpEndpoint \in {None, old.host.connection}
          /\ old.client.udpEndpoint \in {None, old.client.connection}
      BY <1>1 DEF RInv, RoomsAreFilled
    <3>3. /\ new.host.udpEndpoint \in {None, old.host.connection}
          /\ new.client.udpEndpoint \in {None, old.client.connection}
      BY <1>1, <2>2, <2>4 DEF RInv, RoomsAreFilled
    <3> QED
      BY <2>3, <2>7, <2>8, <3>1, <3>2, <3>3
  <2>9. ASSUME Full(r)
        PROVE  p.from \in {new.host.udpEndpoint, new.client.udpEndpoint}
    <3>1. p.from = old.host.connection \/ p.from = old.client.connection
      BY <1>1 DEF RInv, ProbesAreOwn, MayBeProbed, IsParty
    <3>2. clientIdByConnection[p.from] = p.clientId
      BY DEF RInv, ProbesAreOwn
    <3>3. /\ old.host.connection \in Conns /\ old.client.connection \in Conns
          /\ old.host.connection # old.client.connection
          /\ clientIdByConnection[old.host.connection] = old.host.clientId
          /\ clientIdByConnection[old.client.connection] = old.client.clientId
      BY <1>1, <2>9, FullRoom
    <3>4. CASE p.from = old.host.connection
      BY <2>3, <3>2, <3>3, <3>4
    <3>5. CASE p.from = old.client.connection
      <4>1. old.client.clientId = p.clientId
        BY <3>2, <3>3, <3>5
      <4>2. old.host.clientId # p.clientId
        BY <2>7, <3>3, <4>1 DEF RInv, PartiesAreDistinct
      <4> QED
        BY <2>3, <4>1, <4>2
    <3> QED
      BY <3>1, <3>4, <3>5
  <2>10. ASSUME NEW q \in RoomIds
         PROVE  GoesOn(q)'
    <3>1. (Invited(q) => Invited(q)') /\ (Asking(q) => Asking(q)')
      BY <2>1, <2>4 DEF Invited, Asking
    <3>2. ASSUME Full(q), NEW d \in Parties(q), Probing(d, q)
          PROVE  Probing(d, q)'
      <4>1. d \in Conns
        BY <3>2, FullRoom
      <4>2. CASE Holds(inbox[d], Message("ProbePermitted", q))
        BY <2>1, <4>2 DEF Probing
      <4>3. CASE d \in {rooms[q].host.udpEndpoint, rooms[q].client.udpEndpoint}
        BY <1>1, <2>2, <2>8, <4>1, <4>3 DEF Probing
      <4>4. ASSUME NEW s \in probes, s.from = d, s.roomId = q
            PROVE  Probing(d, q)'
        <5>1. CASE s \in probes'
          BY <4>4, <5>1 DEF Probing
        <5>2. CASE s \notin probes'
          <6>1. s = p /\ d = p.from /\ q = r
            BY <1>1, <2>1, <4>4, <5>2
          <6> QED
            BY <2>2, <2>9, <3>2, <6>1 DEF Probing
        <5> QED
          BY <5>1, <5>2
      <4> QED
        BY <3>2, <4>2, <4>3, <4>4 DEF Probing
    <3> QED
      BY <2>1, <2>4, <3>1, <3>2, RoomGoesOn DEF WayInv
  <2> QED
    BY <2>5, <2>6, <2>10 DEF WayInv
<1>2. p.roomId \in RoomIds
  BY DEF RInv, TypeOK
<1>3. rooms[p.roomId] \in Room
  BY <1>2 DEF RInv, TypeOK
<1>4. WithEndpoint(rooms[p.roomId], p) \in Room
  <2>1. p.from \in Conns
    BY DEF RInv, TypeOK
  <2> QED
    BY <1>3, <2>1 DEF WithEndpoint, Peers
<1>5. ASSUME NEW room \in Room, room = WithEndpoint(rooms[p.roomId], p)
      PROVE  WayInv'
  <2>1. CASE ShouldNotify(room)
    <3>1. PICK new : new = [room EXCEPT !.peerEndpointNotified = TRUE]
      OBVIOUS
    <3>2. new \in Room /\ new.peerEndpointNotified
      BY <3>1
    <3>3. rooms' = [rooms EXCEPT ![p.roomId] = new]
      BY <1>5, <2>1, <3>1 DEF OnProbe
    <3> HIDE DEF Room
    <3> QED
      BY <1>1, <1>2, <1>3, <1>5, <3>1, <3>2, <3>3
  <2>2. CASE ~ShouldNotify(room)
    <3>1. rooms' = [rooms EXCEPT ![p.roomId] = room]
      BY <1>5, <2>2 DEF OnProbe
    <3>2. EndpointsReady(room) => room.peerEndpointNotified
      BY <2>2 DEF ShouldNotify
    <3> HIDE DEF Room
    <3> QED
      BY <1>1, <1>2, <1>3, <1>5, <3>1, <3>2
  <2> QED
    BY <2>1, <2>2
<1> QED
  BY <1>4, <1>5

LEMMA WayInit ==
    ASSUME Init
    PROVE  WayInv
<1>1. \A c \in Conns : Len(inbox[c]) = 0
  BY DEF Init
<1>2. \A r \in RoomIds : ~Full(r) /\ rooms[r] = NoRoom
  BY DEF Init, Full, NoRoom, NoPeer
<1>3. NumbersAreOwn /\ NumbersComeFirst
  BY <1>1 DEF NumbersAreOwn, NumbersComeFirst
<1>4. NumbersArrive
  BY DEF Init, NumbersArrive
<1>5. EndpointsAreUsed
  BY <1>2 DEF EndpointsAreUsed, EndpointsReady, NoRoom, NoPeer
<1> QED
  BY <1>2, <1>3, <1>4, <1>5 DEF WayInv, GoesOn

\* No handler of the server or of a client drops the introduction of a pair, as long
\* as both are connected and the network loses none of their probes.
THEOREM WayInvHolds == Spec => []WayInv
<1>1. Init => WayInv
  BY WayInit
<1>2. RInv /\ RInv' /\ WayInv /\ [Next]_vars => WayInv'
  <2> SUFFICES ASSUME RInv, RInv', WayInv, [Next]_vars
               PROVE  WayInv'
    OBVIOUS
  <2>1. CASE UNCHANGED vars
    <3>1. UNCHANGED <<open, wanted, unread, inbox, rooms, probes, lostProbes>>
      BY <2>1 DEF vars, clientVars, udpVars
    <3>2. NumbersAreOwn' /\ NumbersArrive' /\ EndpointsAreUsed'
      BY <3>1 DEF WayInv, NumbersAreOwn, NumbersArrive, EndpointsAreUsed, EndpointsReady
    <3>3. NumbersComeFirst'
      BY <3>1 DEF WayInv, NumbersComeFirst, KnowsBy
    <3>4. ASSUME NEW r \in RoomIds
          PROVE  GoesOn(r)'
      BY <3>1, RoomUntouched DEF WayInv
    <3> QED
      BY <3>2, <3>3, <3>4 DEF WayInv
  <2>2. ASSUME NEW c \in Hosts, NEW n \in Names, HostConnects(c, n)
        PROVE  WayInv'
    BY <2>2, StartGoesOn DEF Conns, HostConnects
  <2>3. ASSUME NEW c \in Guests, NEW n \in Names, NEW r \in RoomIds, GuestConnects(c, n, r)
        PROVE  WayInv'
    <3>1. \A d \in Conns \ {c} : wanted'[d] = wanted[d]
      BY <2>3 DEF GuestConnects, RInv, TypeOK
    <3> QED
      BY <2>3, <3>1, StartGoesOn DEF Conns, GuestConnects
  <2>4. ASSUME NEW c \in Conns, Disconnect(c)
        PROVE  WayInv'
    BY <2>4, DisconnectGoesOn
  <2>5. ASSUME NEW c \in Conns, ClientStep(c)
        PROVE  WayInv'
    BY <2>5, OnRoomCreatedGoesOn, OnPeerJoinedGoesOn, OnProbePermittedGoesOn DEF ClientStep
  <2>6. ASSUME NEW c \in Conns, ServerStep(c)
        PROVE  WayInv'
    BY <2>6, OnRegisterGoesOn, OnCreateRoomGoesOn, OnJoinRoomGoesOn, OnProbeRequestGoesOn
       DEF ServerStep
  <2>7. ASSUME NEW p \in probes, OnProbe(p)
        PROVE  WayInv'
    BY <2>7, OnProbeGoesOn
  <2>8. ASSUME NEW p \in probes, LoseProbe(p)
        PROVE  WayInv'
    BY <2>8, LoseProbeGoesOn
  <2> QED
    BY <2>1, <2>2, <2>3, <2>4, <2>5, <2>6, <2>7, <2>8 DEF Next
<1> QED
  BY <1>1, <1>2, RInvariant, PTL DEF Spec

RoomsAtRest == probes = {} /\ \A c \in Conns : unread[c] = <<>> /\ inbox[c] = <<>>

\* When everything that was sent has been read, both parties of every full room of a
\* registered host were told of each other, unless one of them disconnected or a
\* probe was lost: no order of requests and answers strands a pair (the safety half of
\* PairIsIntroduced).
THEOREM IntroducedAtRest ==
    Spec => [](RoomsAtRest => \A r \in RoomIds :
                  Full(r) /\ rooms[r].host.clientId # None =>
                      (\A c \in Parties(r) : told[c] # <<>>) \/ Abandoned(r))
<1>1. RInv /\ WayInv => (RoomsAtRest => \A r \in RoomIds :
                  Full(r) /\ rooms[r].host.clientId # None =>
                      (\A c \in Parties(r) : told[c] # <<>>) \/ Abandoned(r))
  <2> SUFFICES ASSUME RInv, WayInv, RoomsAtRest, NEW r \in RoomIds,
                      Full(r), rooms[r].host.clientId # None, ~Abandoned(r)
               PROVE  \A c \in Parties(r) : told[c] # <<>>
    OBVIOUS
  <2>1. PICK host, client : host = rooms[r].host.connection /\ client = rooms[r].client.connection
    OBVIOUS
  <2>2. host \in Conns /\ client \in Conns /\ host # client /\ Parties(r) = {host, client}
    BY <2>1, FullRoom
  <2>3. host \in open /\ client \in open
    BY <2>2 DEF Abandoned
  <2>4. \A c \in Conns : \A m : ~Holds(inbox[c], m) /\ ~Holds(unread[c], m)
    <3>1. Len(<<>>) = 0
      OBVIOUS
    <3> QED
      BY <3>1 DEF RoomsAtRest, Holds
  <2>5. rooms[r].peerEndpointNotified
    <3>1. SUFFICES ASSUME ~rooms[r].peerEndpointNotified
                   PROVE  FALSE
      OBVIOUS
    <3>2. ~Invited(r) /\ ~Asking(r)
      BY <2>1, <2>2, <2>4 DEF Invited, Asking
    <3>3. Probing(host, r) /\ Probing(client, r)
      BY <2>2, <3>1, <3>2 DEF WayInv, GoesOn
    <3>4. /\ host \in {rooms[r].host.udpEndpoint, rooms[r].client.udpEndpoint}
          /\ client \in {rooms[r].host.udpEndpoint, rooms[r].client.udpEndpoint}
      BY <2>2, <2>4, <3>3 DEF Probing, RoomsAtRest
    <3>5. host # None /\ client # None
      BY <2>2, NoneAssumption
    <3>6. EndpointsReady(rooms[r])
      BY <2>1, <2>2, <3>4, <3>5 DEF EndpointsReady, RInv, RoomsAreFilled
    <3> QED
      BY <3>1, <3>6 DEF WayInv, EndpointsAreUsed
  <2> QED
    BY <2>1, <2>2, <2>3, <2>5 DEF RInv, ToldByRoom
<1> QED
  BY <1>1, RInvariant, WayInvHolds, PTL
=============================================================================
