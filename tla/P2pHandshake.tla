---------------------------- MODULE P2pHandshake ----------------------------
(***************************************************************************)
(* The hole punching of P2pSessionWorker: the two clients of a room, which *)
(* the server tells of each other over TCP (PeerEndpoint) while punches    *)
(* and their acknowledgements travel over UDP.                             *)
(*                                                                         *)
(* The server saw each client at ToldPort; towards its peer the client's   *)
(* NAT may use another port, the same one for the whole session.  The path *)
(* loses, duplicates and reorders what it carries, and a client of another *)
(* room, left over from an earlier session, punches as well.               *)
(***************************************************************************)
EXTENDS Naturals

CONSTANTS
    NatPorts,           \* ports the NAT may use towards the peer
    ToldPort,           \* the port it used towards the server
    PunchPortRange      \* P2pSessionWorker::punchPortRange_

Peers == {"host", "guest"}
Stranger == "stranger"
Other(p) == CHOOSE q \in Peers : q # p

ASSUME PortsAssumption ==
    NatPorts \subseteq Nat /\ ToldPort \in Nat /\ PunchPortRange \in Nat

VARIABLES
    natPort,            \* the port each client's datagrams come from
    untold,             \* clients whose PeerEndpoint is still on its way
    endpoint,           \* peerAddress_ and peerPort_, as in the transport
    filter,             \* clients whose transport has peerFilterEnabled_
    ready,              \* clients with p2pReady_
    punching,           \* clients whose punchTimer_ is active
    network,            \* datagrams in flight
    late                \* history: clients told after they were ready

vars == <<natPort, untold, endpoint, filter, ready, punching, network, late>>

None == <<"none", 0>>
At(p) == <<p, natPort[p]>>
AtStranger == <<Stranger, ToldPort>>
Endpoints == {None, AtStranger} \cup Peers \X (NatPorts \cup {ToldPort})
Datagrams == [type : {"Punch", "PunchAck"}, from : Peers \cup {Stranger}, to : Peers]
Datagram(type, p, q) == [type |-> type, from |-> p, to |-> q]

TypeOK ==
    /\ natPort \in [Peers -> NatPorts]
    /\ untold \subseteq Peers
    /\ endpoint \in [Peers -> Endpoints]
    /\ filter \subseteq Peers
    /\ ready \subseteq Peers
    /\ punching \subseteq Peers
    /\ network \subseteq Datagrams
    /\ late \subseteq Peers

Init ==
    /\ natPort \in [Peers -> NatPorts]
    /\ untold = Peers
    /\ endpoint = [p \in Peers |-> None]
    /\ filter = {}
    /\ ready = {}
    /\ punching = {}
    /\ network = {Datagram("Punch", Stranger, p) : p \in Peers}
    /\ late = {}

-----------------------------------------------------------------------------
\* Fault: only the port the server saw is tried.
Candidates_One(e) == {e}

\* punchCandidatePorts: the ports around the one a client was told.
Candidates(e) ==
    {<<e[1], port>> : port \in {n \in NatPorts \cup {ToldPort} :
                                    n <= e[2] + PunchPortRange /\ e[2] <= n + PunchPortRange}}

\* The punches of p towards e that can arrive: those to the peer's port.
Punches(p, e) ==
    {Datagram("Punch", p, Other(p)) : c \in Candidates(e) \cap {At(Other(p))}}

FilterOff(p) == filter \ {p}

\* The peer's endpoint comes from the server: the client punches at once and
\* starts its timer.  Nothing asks whether it is ready already.
OnPeerEndpoint(p) ==
    LET told == <<Other(p), ToldPort>> IN
    /\ p \in untold
    /\ untold' = untold \ {p}
    /\ endpoint' = [endpoint EXCEPT ![p] = told]
    /\ filter' = FilterOff(p)
    /\ punching' = punching \cup {p}
    /\ network' = IF p \in ready THEN network ELSE network \cup Punches(p, told)
    /\ late' = IF p \in ready THEN late \cup {p} ELSE late
    /\ UNCHANGED <<natPort, ready>>

\* Fault: the timer runs on once the client is ready.
PunchTimeout_RunsOn(p) ==
    /\ p \in punching
    /\ network' = network \cup Punches(p, endpoint[p])
    /\ UNCHANGED <<natPort, untold, endpoint, filter, ready, punching, late>>

\* punchTimer_ fires: sendPunch.
PunchTimeout(p) ==
    /\ p \in punching
    /\ \/ /\ p \in ready
          /\ punching' = punching \ {p}
          /\ UNCHANGED network
       \/ /\ p \notin ready
          /\ network' = network \cup Punches(p, endpoint[p])
          /\ UNCHANGED punching
    /\ UNCHANGED <<natPort, untold, endpoint, filter, ready, late>>

-----------------------------------------------------------------------------
\* Where a datagram comes from.
Source(d) == IF d.from = Stranger THEN AtStranger ELSE At(d.from)

\* The transport of d.to accepts d: shouldAcceptDatagram.
Receive(d) ==
    /\ d \in network
    /\ d.to \in filter => Source(d) = endpoint[d.to]

\* The path loses d, or the filter of the receiver drops it.
Lose(d) ==
    /\ d \in network
    /\ network' = network \ {d}
    /\ UNCHANGED <<natPort, untold, endpoint, filter, ready, punching, late>>

\* Fault: a punch is not asked which room it is for.
SameRoom_Any(d) == TRUE

\* The room (and the name) in the payload is that of the peer.
SameRoom(d) == d.from # Stranger

\* Fault: the acknowledgement is sent only the first time.
PunchAcks_Once(d) ==
    IF d.to \in ready THEN {} ELSE {Datagram("PunchAck", d.to, q) : q \in {d.from} \ {Stranger}}

PunchAcks(d) == {Datagram("PunchAck", d.to, q) : q \in {d.from} \ {Stranger}}

FilterOn(d) == filter \cup {d.to}

\* handlePunch: lock the sender's endpoint, acknowledge, and be ready.
OnPunch(d) ==
    /\ Receive(d)
    /\ d.type = "Punch"
    /\ SameRoom(d)
    /\ endpoint' = [endpoint EXCEPT ![d.to] = Source(d)]
    /\ filter' = FilterOn(d)
    /\ ready' = ready \cup {d.to}
    /\ punching' = IF d.to \in ready THEN punching ELSE punching \ {d.to}
    /\ network' \in {network \cup PunchAcks(d), (network \ {d}) \cup PunchAcks(d)}
    /\ UNCHANGED <<natPort, untold, late>>

OnForeignPunch(d) ==
    /\ Receive(d)
    /\ d.type = "Punch"
    /\ ~SameRoom(d)
    /\ network' \in {network, network \ {d}}
    /\ UNCHANGED <<natPort, untold, endpoint, filter, ready, punching, late>>

\* handlePunchAck: the first one makes the client ready.
OnPunchAck(d) ==
    /\ Receive(d)
    /\ d.type = "PunchAck"
    /\ network' \in {network, network \ {d}}
    /\ IF d.to \in ready
       THEN UNCHANGED <<endpoint, filter, ready, punching>>
       ELSE /\ endpoint' = [endpoint EXCEPT ![d.to] = Source(d)]
            /\ filter' = FilterOn(d)
            /\ ready' = ready \cup {d.to}
            /\ punching' = punching \ {d.to}
    /\ UNCHANGED <<natPort, untold, late>>

Next ==
    \/ \E p \in Peers : OnPeerEndpoint(p) \/ PunchTimeout(p)
    \/ \E d \in network : OnPunch(d) \/ OnForeignPunch(d) \/ OnPunchAck(d) \/ Lose(d)

Spec == Init /\ [][Next]_vars

ReceiveFromPeer(p) ==
    \E d \in network : d.to = p /\ d.from = Other(p) /\ (OnPunch(d) \/ OnPunchAck(d))

\* TCP delivers what the server sent, timers fire, and the path gets something
\* through to a client if it is sent again and again.
Fairness ==
    \A p \in Peers :
        /\ WF_vars(OnPeerEndpoint(p))
        /\ WF_vars(PunchTimeout(p))
        /\ SF_vars(ReceiveFromPeer(p))

FairSpec == Spec /\ Fairness

-----------------------------------------------------------------------------
\* A client that filters its datagrams filters for the true endpoint of its
\* peer: neither an old session's punch nor the port the server saw, which the
\* NAT may not use here, ever shuts the peer out.
LockIsPeer == \A p \in filter : endpoint[p] = At(Other(p))

\* A ready client is locked to its peer, unless the server's word came after
\* the peer's: only then does it send to an endpoint nobody confirmed.
ReadyIsLocked == \A p \in ready \ late : p \in filter

\* One client's NAT uses a port within the punched range of the one told.
Reachable ==
    \E p \in Peers :
        natPort[p] <= ToldPort + PunchPortRange /\ ToldPort <= natPort[p] + PunchPortRange

\* If only one of the clients can be reached both become ready, whatever the
\* path does short of losing everything.
HandshakeCompletes == Reachable => \A p \in Peers : <>(p \in ready)

\* One client is never ready alone for ever: a lost acknowledgement is made up
\* for by the peer's next punch, which a ready client still answers.
ReadyIsMutual == \A p \in Peers : p \in ready ~> Other(p) \in ready

\* A ready client does not punch for ever, even if it is told where its peer
\* is (and starts its timer) when it is ready.
PunchingStops == \A p \in Peers : <>[](p \in ready => p \notin punching)
=============================================================================
