-------------------------- MODULE SessionProofs --------------------------
(***************************************************************************)
(* How a session begins, in two parts that share nothing: P2pHandshake,    *)
(* the lock on the peer, for all NAT ports and every range of punched      *)
(* ports; and ServiceStartup, the services that are told once the session  *)
(* is ready, for queues of any length.                                     *)
(***************************************************************************)
EXTENDS P2pHandshake, ServiceStartup, TLAPS

-----------------------------------------------------------------------------
(* P2pHandshake *)

\* The clients are each other's peer.
LEMMA OtherIsPeer == \A p \in Peers : Other(p) \in Peers /\ Other(p) # p
<1> SUFFICES ASSUME NEW p \in Peers PROVE Other(p) \in Peers /\ Other(p) # p
    OBVIOUS
<1>1. \E q \in Peers : q # p
    BY DEF Peers
<1> QED
    BY <1>1 DEF Other

\* There are only two: what is not p is the other one.
LEMMA OnlyTwo == \A p, q \in Peers : q # p => q = Other(p)
BY OtherIsPeer DEF Peers

LEMMA DatagramType ==
    ASSUME NEW d \in Datagrams
    PROVE  /\ d.to \in Peers
           /\ d.from \in Peers \cup {Stranger}
           /\ d.type \in {"Punch", "PunchAck"}
BY DEF Datagrams

LEMMA DatagramIsDatagram ==
    ASSUME NEW p \in Peers \cup {Stranger}, NEW q \in Peers, NEW t \in {"Punch", "PunchAck"}
    PROVE  Datagram(t, p, q) \in Datagrams /\ Datagram(t, p, q).from = p
           /\ Datagram(t, p, q).to = q /\ Datagram(t, p, q).type = t
BY DEF Datagram, Datagrams

\* No client sends to itself, and an acknowledgement comes from the peer.
FromOther ==
    \A d \in network : d.from # d.to /\ (d.type = "PunchAck" => d.from \in Peers)

HInv == TypeOK /\ FromOther /\ LockIsPeer /\ ReadyIsLocked

LEMMA PunchesShape ==
    ASSUME NEW p \in Peers, NEW e, NEW d \in Punches(p, e)
    PROVE  d \in Datagrams /\ d.from # d.to /\ d.type # "PunchAck"
<1>1. d = Datagram("Punch", p, Other(p))
    BY DEF Punches
<1> QED
    BY <1>1, OtherIsPeer, DatagramIsDatagram

LEMMA AcksShape ==
    ASSUME NEW d \in Datagrams, d.from # d.to, NEW a \in PunchAcks(d)
    PROVE  a \in Datagrams /\ a.from # a.to /\ a.from \in Peers
<1>1. a = Datagram("PunchAck", d.to, d.from) /\ d.from # Stranger
    BY DEF PunchAcks
<1>2. d.to \in Peers /\ d.from \in Peers
    BY <1>1, DatagramType
<1> QED
    BY <1>1, <1>2, DatagramIsDatagram

\* A client locks what a punch or an acknowledgement came from: its peer.
LEMMA LocksPeer ==
    ASSUME HInv, NEW d \in network, d.from # Stranger
    PROVE  /\ d.to \in Peers
           /\ Source(d) = At(Other(d.to))
           /\ Source(d) \in Endpoints
<1>1. d \in Datagrams /\ d.from # d.to
    BY DEF HInv, TypeOK, FromOther
<1>2. d.to \in Peers /\ d.from \in Peers
    BY <1>1, DatagramType
<1>3. d.from = Other(d.to)
    BY <1>1, <1>2, OnlyTwo
<1>4. Source(d) = At(Other(d.to))
    BY <1>3 DEF Source
<1>5. At(d.from) \in Peers \X (NatPorts \cup {ToldPort})
    BY <1>2 DEF HInv, TypeOK, At
<1> QED
    BY <1>2, <1>3, <1>4, <1>5 DEF Endpoints

LEMMA InitiallyHolds == Init => HInv
<1> SUFFICES ASSUME Init PROVE HInv
    OBVIOUS
<1>1. \A d \in network : d \in Datagrams /\ d.from # d.to /\ d.type # "PunchAck"
    <2>1. ASSUME NEW p \in Peers
          PROVE  /\ Datagram("Punch", Stranger, p) \in Datagrams
                 /\ Datagram("Punch", Stranger, p).from # Datagram("Punch", Stranger, p).to
                 /\ Datagram("Punch", Stranger, p).type # "PunchAck"
        <3>1. Stranger # p
            BY DEF Stranger, Peers
        <3> QED
            BY <3>1, DatagramIsDatagram
    <2> QED
        BY <2>1 DEF Init
<1>2. TypeOK
    BY <1>1 DEF Init, TypeOK, Endpoints
<1>3. FromOther /\ LockIsPeer /\ ReadyIsLocked
    BY <1>1 DEF Init, FromOther, LockIsPeer, ReadyIsLocked
<1> QED
    BY <1>2, <1>3 DEF HInv

LEMMA PeerEndpointStep ==
    ASSUME HInv, NEW p \in Peers, OnPeerEndpoint(p)
    PROVE  HInv'
<1> DEFINE told == <<Other(p), ToldPort>>
<1>1. told \in Endpoints
    BY OtherIsPeer DEF Endpoints
<1>2. \A d \in network' :
        d \in network \/ (d \in Datagrams /\ d.from # d.to /\ d.type # "PunchAck")
    BY PunchesShape DEF OnPeerEndpoint
<1>3. TypeOK'
    BY <1>1, <1>2 DEF HInv, TypeOK, OnPeerEndpoint, FilterOff
<1>4. FromOther'
    BY <1>2 DEF HInv, FromOther
<1>5. LockIsPeer'
    BY DEF HInv, TypeOK, LockIsPeer, OnPeerEndpoint, FilterOff, At
<1>6. ReadyIsLocked'
    BY DEF HInv, ReadyIsLocked, OnPeerEndpoint, FilterOff
<1> QED
    BY <1>3, <1>4, <1>5, <1>6 DEF HInv

LEMMA TimeoutStep ==
    ASSUME HInv, NEW p \in Peers, PunchTimeout(p)
    PROVE  HInv'
<1>1. \A d \in network' :
        d \in network \/ (d \in Datagrams /\ d.from # d.to /\ d.type # "PunchAck")
    BY PunchesShape DEF PunchTimeout
<1>2. TypeOK'
    BY <1>1 DEF HInv, TypeOK, PunchTimeout
<1>3. FromOther'
    BY <1>1 DEF HInv, FromOther
<1>4. LockIsPeer' /\ ReadyIsLocked'
    BY DEF HInv, LockIsPeer, ReadyIsLocked, PunchTimeout, At
<1> QED
    BY <1>2, <1>3, <1>4 DEF HInv

\* What locking the source of d does.
LEMMA LockStep ==
    ASSUME HInv, NEW d \in network, d.from # Stranger,
           endpoint' = [endpoint EXCEPT ![d.to] = Source(d)],
           filter' = FilterOn(d), ready' = ready \cup {d.to},
           UNCHANGED <<natPort, late>>
    PROVE  /\ endpoint' \in [Peers -> Endpoints]
           /\ filter' \subseteq Peers /\ ready' \subseteq Peers
           /\ LockIsPeer' /\ ReadyIsLocked'
<1>1. d.to \in Peers /\ Source(d) = At(Other(d.to)) /\ Source(d) \in Endpoints
    BY LocksPeer
<1>2. endpoint \in [Peers -> Endpoints] /\ filter \subseteq Peers /\ ready \subseteq Peers
    BY DEF HInv, TypeOK
<1>3. \A p : At(p)' = At(p)
    BY DEF At
<1>4. LockIsPeer'
    <2> SUFFICES ASSUME NEW p \in filter' PROVE endpoint'[p] = At(Other(p))
        BY <1>3 DEF LockIsPeer
    <2>1. CASE p = d.to
        BY <1>1, <1>2, <2>1
    <2>2. CASE p # d.to
        BY <1>2, <2>2 DEF HInv, LockIsPeer, FilterOn
    <2> QED
        BY <2>1, <2>2
<1>5. ReadyIsLocked'
    BY DEF HInv, ReadyIsLocked, FilterOn
<1> QED
    BY <1>1, <1>2, <1>4, <1>5 DEF FilterOn

LEMMA PunchStep ==
    ASSUME HInv, NEW d \in network, OnPunch(d)
    PROVE  HInv'
<1>1. d \in Datagrams /\ d.from # d.to /\ d.from # Stranger
    BY DEF HInv, TypeOK, FromOther, OnPunch, SameRoom
<1>2. /\ endpoint' \in [Peers -> Endpoints]
      /\ filter' \subseteq Peers /\ ready' \subseteq Peers
      /\ LockIsPeer' /\ ReadyIsLocked'
    BY <1>1, LockStep DEF OnPunch
<1>3. \A a \in network' : a \in network \/ (a \in Datagrams /\ a.from # a.to /\ a.from \in Peers)
    BY <1>1, AcksShape DEF OnPunch
<1>4. TypeOK'
    BY <1>2, <1>3 DEF HInv, TypeOK, OnPunch
<1>5. FromOther'
    BY <1>3 DEF HInv, FromOther
<1> QED
    BY <1>2, <1>4, <1>5 DEF HInv

LEMMA PunchAckStep ==
    ASSUME HInv, NEW d \in network, OnPunchAck(d)
    PROVE  HInv'
<1>1. d.from # Stranger
    BY DEF HInv, FromOther, OnPunchAck, Stranger, Peers
<1>2. network' \subseteq network
    BY DEF OnPunchAck
<1>3. FromOther'
    BY <1>2 DEF HInv, FromOther
<1>4. CASE d.to \in ready
    BY <1>2, <1>3, <1>4
    DEF HInv, TypeOK, LockIsPeer, ReadyIsLocked, OnPunchAck, At
<1>5. CASE d.to \notin ready
    <2>1. /\ endpoint' \in [Peers -> Endpoints]
          /\ filter' \subseteq Peers /\ ready' \subseteq Peers
          /\ LockIsPeer' /\ ReadyIsLocked'
        BY <1>1, <1>5, LockStep DEF OnPunchAck
    <2>2. TypeOK'
        BY <1>2, <1>5, <2>1 DEF HInv, TypeOK, OnPunchAck
    <2> QED
        BY <1>3, <2>1, <2>2 DEF HInv
<1> QED
    BY <1>4, <1>5

LEMMA Inductive == HInv /\ [Next]_vars => HInv'
<1> SUFFICES ASSUME HInv, [Next]_vars PROVE HInv'
    OBVIOUS
<1>1. ASSUME NEW d \in network, OnForeignPunch(d) \/ Lose(d) PROVE HInv'
    BY <1>1 DEF HInv, TypeOK, FromOther, LockIsPeer, ReadyIsLocked, OnForeignPunch, Lose, At
<1>2. CASE UNCHANGED vars
    BY <1>2 DEF HInv, TypeOK, FromOther, LockIsPeer, ReadyIsLocked, vars, At
<1> QED
    BY <1>1, <1>2, PeerEndpointStep, TimeoutStep, PunchStep, PunchAckStep DEF Next

\* The inductive invariant holds in every reachable state.
THEOREM Invariance == Spec => []HInv
<1>1. Init => HInv
    BY InitiallyHolds
<1>2. HInv /\ [Next]_vars => HInv'
    BY Inductive
<1> QED
    BY <1>1, <1>2, PTL DEF Spec

\* Type correctness of the two P2pSessionWorkers and of the path.
THEOREM TypeCorrect == Spec => []TypeOK
<1>1. HInv => TypeOK
    BY DEF HInv
<1> QED
    BY <1>1, Invariance, PTL

\* An enabled peer filter never shuts the true peer out, whichever of
\* onPeerEndpoint, handlePunch and handlePunchAck came first.
THEOREM FilterAdmitsPeer == Spec => []LockIsPeer
<1>1. HInv => LockIsPeer
    BY DEF HInv
<1> QED
    BY <1>1, Invariance, PTL

\* A ready client filters, unless onPeerEndpoint came after markP2pReady.
THEOREM ReadyFilters == Spec => []ReadyIsLocked
<1>1. HInv => ReadyIsLocked
    BY DEF HInv
<1> QED
    BY <1>1, Invariance, PTL

\* The punches of q towards the endpoint it was told arrive.
Reaches(q) == At(Other(q)) \in Candidates(<<Other(q), ToldPort>>)

\* Whoever was told and is not ready goes on punching there; only the ready filter; a
\* punch on its way is one that can be repeated, an acknowledgement comes from a ready
\* client; and so whoever is ready was reached by its peer, or the peer is ready too.
CallsGoOn ==
    /\ punching \cap untold = {}
    /\ \A p \in Peers : p \notin untold \cup ready =>
           p \in punching /\ endpoint[p] = <<Other(p), ToldPort>>
    /\ filter \subseteq ready
    /\ \A d \in network : d.from \in Peers =>
           /\ d.type = "Punch" => d.from \notin untold /\ Reaches(d.from)
           /\ d.type = "PunchAck" => d.from \in ready
    /\ \A p \in ready : Other(p) \in ready \/ (Other(p) \notin untold /\ Reaches(Other(p)))

LEMMA CallsBegin == Init => CallsGoOn
<1> SUFFICES ASSUME Init PROVE CallsGoOn
    OBVIOUS
<1>1. \A p \in Peers : Datagram("Punch", Stranger, p).from \notin Peers
    BY DatagramIsDatagram DEF Stranger, Peers
<1> QED
    BY <1>1 DEF Init, CallsGoOn

LEMMA PunchesReach ==
    ASSUME NEW p \in Peers, NEW d \in Punches(p, <<Other(p), ToldPort>>)
    PROVE  d.from = p /\ d.type = "Punch" /\ Reaches(p)
<1>1. d = Datagram("Punch", p, Other(p)) /\ Reaches(p)
    BY DEF Punches, Reaches
<1> QED
    BY <1>1, OtherIsPeer, DatagramIsDatagram

LEMMA CallsStep == HInv /\ CallsGoOn /\ [Next]_vars => CallsGoOn'
<1> SUFFICES ASSUME HInv, CallsGoOn, [Next]_vars PROVE CallsGoOn'
    OBVIOUS
<1>1. natPort' = natPort
    BY DEF Next, vars, OnPeerEndpoint, PunchTimeout, OnPunch, OnForeignPunch, OnPunchAck, Lose
<1>2. \A q : Reaches(q)' <=> Reaches(q)
    BY <1>1 DEF Reaches, At, Candidates
<1>3. untold \subseteq Peers /\ ready \subseteq Peers /\ endpoint \in [Peers -> Endpoints]
    BY DEF HInv, TypeOK
<1>4. ASSUME NEW p \in Peers, OnPeerEndpoint(p)
      PROVE  CallsGoOn'
    <2>1. /\ p \in untold /\ untold' = untold \ {p} /\ punching' = punching \cup {p}
          /\ endpoint' = [endpoint EXCEPT ![p] = <<Other(p), ToldPort>>]
          /\ filter' = filter \ {p} /\ ready' = ready
        BY <1>4 DEF OnPeerEndpoint, FilterOff
    <2>2. \A d \in network' : d \in network \/ (d.from = p /\ d.type = "Punch" /\ Reaches(p))
        BY <1>4, PunchesReach DEF OnPeerEndpoint
    <2>3. \A d \in network' : d.from \in Peers =>
              /\ d.type = "Punch" => d.from \notin untold' /\ Reaches(d.from)
              /\ d.type = "PunchAck" => d.from \in ready'
        BY <2>1, <2>2 DEF CallsGoOn
    <2>4. \A q \in Peers : q \notin untold' \cup ready' =>
              q \in punching' /\ endpoint'[q] = <<Other(q), ToldPort>>
        BY <1>3, <2>1 DEF CallsGoOn
    <2>5. punching' \cap untold' = {} /\ filter' \subseteq ready'
          /\ \A q \in ready' :
                 Other(q) \in ready' \/ (Other(q) \notin untold' /\ Reaches(Other(q)))
        BY <2>1 DEF CallsGoOn
    <2> QED
        BY <1>2, <2>3, <2>4, <2>5 DEF CallsGoOn
<1>5. ASSUME NEW p \in Peers, PunchTimeout(p)
      PROVE  CallsGoOn'
    <2>1. /\ p \in punching /\ UNCHANGED <<untold, endpoint, filter, ready>>
          /\ punching' \subseteq punching
          /\ \A q \in punching : q \in punching' \/ q \in ready
        BY <1>5 DEF PunchTimeout
    <2>2. \A d \in network' : d \in network \/ (d.from = p /\ d.type = "Punch" /\ Reaches(p))
        <3>1. p \notin untold
            BY <2>1 DEF CallsGoOn
        <3>2. p \notin ready => endpoint[p] = <<Other(p), ToldPort>>
            BY <3>1 DEF CallsGoOn
        <3> QED
            BY <1>5, <3>2, PunchesReach DEF PunchTimeout
    <2>3. p \notin untold
        BY <2>1 DEF CallsGoOn
    <2> QED
        BY <1>2, <2>1, <2>2, <2>3 DEF CallsGoOn
<1>6. ASSUME NEW d \in network, OnForeignPunch(d) \/ Lose(d)
      PROVE  CallsGoOn'
    <2>1. network' \subseteq network /\ UNCHANGED <<untold, endpoint, filter, ready, punching>>
        BY <1>6 DEF OnForeignPunch, Lose
    <2> QED
        BY <1>2, <2>1 DEF CallsGoOn
\* A client becomes ready by a message of its peer.
<1>7. ASSUME NEW d \in network, d.from # Stranger, UNCHANGED untold,
             endpoint' = [endpoint EXCEPT ![d.to] = Source(d)],
             filter' = FilterOn(d), ready' = ready \cup {d.to},
             punching' \subseteq punching,
             \A p \in punching : p \in punching' \/ p \in ready',
             \A a \in network' : a \in network \/ (a.type = "PunchAck" /\ a.from = d.to)
      PROVE  CallsGoOn'
    <2>1. /\ d.to \in Peers /\ d.from \in Peers /\ d.from = Other(d.to)
          /\ d.type \in {"Punch", "PunchAck"}
        BY <1>7, DatagramType, OnlyTwo DEF HInv, TypeOK, FromOther
    <2>2. \A a \in network' : a.from \in Peers =>
              /\ a.type = "Punch" => a.from \notin untold' /\ Reaches(a.from)
              /\ a.type = "PunchAck" => a.from \in ready'
        BY <1>7 DEF CallsGoOn
    <2>3. \A p \in Peers : p \notin untold' \cup ready' =>
              p \in punching' /\ endpoint'[p] = <<Other(p), ToldPort>>
        BY <1>3, <1>7 DEF CallsGoOn
    <2>4. punching' \cap untold' = {} /\ filter' \subseteq ready'
        BY <1>7 DEF CallsGoOn, FilterOn
    <2>5. Other(d.to) \in ready \/ (Other(d.to) \notin untold /\ Reaches(Other(d.to)))
        BY <2>1 DEF CallsGoOn
    <2>6. \A p \in ready' :
              Other(p) \in ready' \/ (Other(p) \notin untold' /\ Reaches(Other(p)))
        BY <1>7, <2>5 DEF CallsGoOn
    <2> QED
        BY <1>2, <2>2, <2>3, <2>4, <2>6 DEF CallsGoOn
<1>8. ASSUME NEW d \in network, OnPunch(d)
      PROVE  CallsGoOn'
    <2>1. d.from # Stranger
        BY <1>8 DEF OnPunch, SameRoom
    <2>2. d.to \in Peers /\ d.from \in Peers
        BY <2>1, DatagramType DEF HInv, TypeOK
    <2>3. \A a \in PunchAcks(d) : a.type = "PunchAck" /\ a.from = d.to
        BY <2>2, DatagramIsDatagram DEF PunchAcks
    <2> QED
        BY <1>7, <1>8, <2>1, <2>3 DEF OnPunch
<1>9. ASSUME NEW d \in network, OnPunchAck(d)
      PROVE  CallsGoOn'
    <2>1. d.from # Stranger
        BY <1>9 DEF HInv, FromOther, OnPunchAck, Stranger, Peers
    <2>2. network' \subseteq network
        BY <1>9 DEF OnPunchAck
    <2>3. CASE d.to \in ready
        BY <1>2, <1>9, <2>2, <2>3 DEF OnPunchAck, CallsGoOn
    <2>4. CASE d.to \notin ready
        BY <1>7, <1>9, <2>1, <2>2, <2>4 DEF OnPunchAck
    <2> QED
        BY <2>3, <2>4
<1>10. CASE UNCHANGED vars
    BY <1>2, <1>10 DEF vars, CallsGoOn
<1> QED
    BY <1>4, <1>5, <1>6, <1>8, <1>9, <1>10 DEF Next

\* A client that is ready alone is still called: its peer's timer runs, the punches
\* it sends arrive, and neither side filters the other out, so that one punch and one
\* acknowledgement that get through make the peer ready (sendPunch, handlePunch; the
\* safety half of ReadyIsMutual, for all NAT ports).
THEOREM LonelyIsCalled ==
    Spec => [](\A p \in ready : Other(p) \notin ready =>
                  /\ Other(p) \in punching \ filter
                  /\ Punches(Other(p), endpoint[Other(p)]) # {}
                  /\ p \in filter => endpoint[p] = At(Other(p)))
<1> DEFINE Called(p) == /\ Other(p) \in punching \ filter
                        /\ Punches(Other(p), endpoint[Other(p)]) # {}
                        /\ p \in filter => endpoint[p] = At(Other(p))
<1>1. HInv /\ CallsGoOn => \A p \in ready : Other(p) \notin ready => Called(p)
    <2> SUFFICES ASSUME HInv, CallsGoOn, NEW p \in ready, Other(p) \notin ready
                 PROVE  Called(p)
        OBVIOUS
    <2>1. p \in Peers /\ Other(p) \in Peers
        BY OtherIsPeer DEF HInv, TypeOK
    <2>2. PICK q : q = Other(p)
        OBVIOUS
    <2>3. /\ q \notin untold /\ Reaches(q) /\ q \in punching /\ q \notin filter
          /\ endpoint[q] = <<Other(q), ToldPort>>
        BY <2>1, <2>2 DEF CallsGoOn
    <2>4. Datagram("Punch", q, Other(q)) \in Punches(q, endpoint[q])
        BY <2>3 DEF Punches, Reaches
    <2> QED
        BY <2>2, <2>3, <2>4 DEF HInv, LockIsPeer
<1>2. Spec => []CallsGoOn
    BY CallsBegin, CallsStep, Invariance, PTL DEF Spec
<1> QED
    BY <1>1, <1>2, Invariance, PTL

\* A client whose NAT uses a port within the range is called by a peer that was told
\* of it, as long as the peer is not ready: punching cannot come to its end before
\* (the safety half of HandshakeCompletes).
THEOREM ReachableIsCalled ==
    Spec => [](\A p \in Peers :
                  /\ natPort[p] <= ToldPort + PunchPortRange
                  /\ ToldPort <= natPort[p] + PunchPortRange
                  /\ Other(p) \notin untold \cup ready
                  => /\ Other(p) \in punching
                     /\ Punches(Other(p), endpoint[Other(p)]) # {})
<1> DEFINE Called(p) == /\ natPort[p] <= ToldPort + PunchPortRange
                        /\ ToldPort <= natPort[p] + PunchPortRange
                        /\ Other(p) \notin untold \cup ready
                        => /\ Other(p) \in punching
                           /\ Punches(Other(p), endpoint[Other(p)]) # {}
<1>1. HInv /\ CallsGoOn => \A p \in Peers : Called(p)
    <2> SUFFICES ASSUME HInv, CallsGoOn, NEW p \in Peers,
                        natPort[p] <= ToldPort + PunchPortRange,
                        ToldPort <= natPort[p] + PunchPortRange,
                        Other(p) \notin untold \cup ready
                 PROVE  Other(p) \in punching /\ Punches(Other(p), endpoint[Other(p)]) # {}
        OBVIOUS
    <2>1. PICK q : q = Other(p)
        OBVIOUS
    <2>2. q \in Peers /\ Other(q) = p
        BY <2>1, OtherIsPeer, OnlyTwo
    <2>3. q \in punching /\ endpoint[q] = <<p, ToldPort>>
        BY <2>1, <2>2 DEF CallsGoOn
    <2>4. <<p, ToldPort>>[1] = p /\ <<p, ToldPort>>[2] = ToldPort /\ natPort[p] \in NatPorts
        BY DEF HInv, TypeOK
    <2>5. At(p) \in Candidates(<<p, ToldPort>>)
        BY <2>4 DEF At, Candidates
    <2>6. Datagram("Punch", q, p) \in Punches(q, endpoint[q])
        BY <2>2, <2>3, <2>5 DEF Punches
    <2> QED
        BY <2>1, <2>3, <2>6
<1>2. Spec => []CallsGoOn
    BY CallsBegin, CallsStep, Invariance, PTL DEF Spec
<1> QED
    BY <1>1, <1>2, Invariance, PTL

-----------------------------------------------------------------------------
(***************************************************************************)
(* ServiceStartup.  The inductive invariant StartupInv says what may be in *)
(* each queue and in which order, as far as the session has told its       *)
(* threads.  That needs the order of TellOrder: media and control are told *)
(* before audio and input, which give them work as soon as they run.       *)
(* Every step of the system gives the queues single events or takes their  *)
(* first (QueueMoves) while the stages only go on (StageMoves); the parts  *)
(* of the invariant follow from these two alone.                           *)
(***************************************************************************)

\* The session tells the threads in its order, once it is ready.
Rests == {TellOrder, <<"media", "control", "audio", "input">>, <<"control", "audio", "input">>,
          <<"audio", "input">>, <<"input">>, <<>>}

Told(s) == p2pReady /\ \A i \in DOMAIN toBeTold : toBeTold[i] # s
AllTold == p2pReady /\ toBeTold = <<>>

Stages ==
    /\ online => role # "Unknown"
    /\ p2pReady => online
    /\ toBeTold \in Rests /\ (toBeTold # <<>> => p2pReady)

\* q holds the news of the session.
HasNews(q) == \E i \in DOMAIN q : q[i].do = "ready"

\* A service runs or is about to exactly if it was told; so does the capture of the
\* host's screen.
NewsArrives ==
    /\ \A s \in Services : running[s] \/ HasNews(queue[s]) => Told(s)
    /\ \A s \in Services : Told(s) => running[s] \/ HasNews(queue[s])
    /\ Told("main") => HasNews(queue["main"]) \/ (running["main"] <=> role = "Host")

\* A service whose queue is q and that has role r now will have the role last once q
\* is empty.
RoleComes(q, r, last) ==
    \/ \E i \in DOMAIN q : /\ q[i].do = "role" /\ q[i].what = last
                           /\ \A j \in DOMAIN q : q[j].do = "role" => j <= i
    \/ r = last /\ \A j \in DOMAIN q : q[j].do # "role"

RolesArrive ==
    /\ \A s \in {"media", "control"} : serviceRole[s] = role
    /\ online => \A s \in {"audio", "input"} : RoleComes(queue[s], serviceRole[s], role)

\* What may be in the queue of thread t.  The decoder and the monitor are fed by a
\* guest's media service, which passes nothing on before everybody was told.
Fits(t, e) ==
    /\ e \in Event
    /\ e.do = "role" => t \in {"audio", "input"} /\ e.what \in {"Host", "Guest"}
    /\ e.do = "receive" /\ ~e.early => AllTold
    /\ t = "media" => e.do = "ready" \/ e.what \in MediaKinds
    /\ t = "control" /\ e.do = "send" =>
           \/ e.what \in {"input", "mouse", "report"}
           \/ e.what = "keyFrameRequest" /\ AllTold /\ role = "Guest"
    /\ t \in {"audio", "input"} => ~e.early /\ (e.do = "send" => e.what = "mouse")
    /\ t \in {"decoder", "monitor"} => AllTold /\ role = "Guest"

QueuesFit == \A t \in Threads : \A i \in DOMAIN queue[t] : Fits(t, queue[t][i])

\* A role, and what the session received too early.
Preliminary(e) == e.do = "role" \/ (e.do = "receive" /\ e.early)

\* What media and control must not refuse.
Demanding(e) ==
    /\ e.do \in {"send", "receive"} /\ ~e.early
    /\ ~(e.do = "send" /\ e.what \in {"video", "mouse"})

PreliminaryFirst(q, run) ==
    \A i \in DOMAIN q : Preliminary(q[i]) =>
        ~run /\ \A j \in DOMAIN q : q[j].do = "ready" => j > i

DemandingLast(q, run) ==
    \A i \in DOMAIN q : Demanding(q[i]) =>
        run \/ \E j \in DOMAIN q : q[j].do = "ready" /\ j < i

QueuesInOrder ==
    /\ \A s \in Services : PreliminaryFirst(queue[s], running[s])
    /\ \A s \in {"media", "control"} : DemandingLast(queue[s], running[s])

StartupInv ==
    /\ StartupTypeOK
    /\ Stages
    /\ NewsArrives
    /\ RolesArrive
    /\ QueuesFit
    /\ QueuesInOrder

-----------------------------------------------------------------------------
(* Posting *)

LEMMA EventTypes ==
    /\ \A r \in Roles : RoleEvent(r) \in Event /\ RoleEvent(r).do = "role"
                        /\ RoleEvent(r).what = r /\ ~RoleEvent(r).early
    /\ Ready \in Event /\ Ready.do = "ready" /\ ~Ready.early
    /\ \A k \in Kinds : ToSend(k) \in Event /\ ToSend(k).do = "send"
                        /\ ToSend(k).what = k /\ ~ToSend(k).early
    /\ \A k \in Kinds : \A b \in BOOLEAN :
           Received(k, b) \in Event /\ Received(k, b).do = "receive"
           /\ Received(k, b).what = k /\ Received(k, b).early = b
BY DEF Event, RoleEvent, Ready, ToSend, Received, Roles

Queues == [Threads -> Seq(Event)]

\* Event e for each thread of S.
Give(S, e) == [n \in S |-> <<e>>]

\* An event that is posted to the threads of S is the last in their queues.
LEMMA PostToSome ==
    ASSUME NEW q \in Queues, NEW S \in SUBSET Threads, NEW e \in Event
    PROVE  /\ Post(q, Give(S, e)) \in Queues
           /\ \A t \in S : Post(q, Give(S, e))[t] = Append(q[t], e)
           /\ \A t \in Threads \ S : Post(q, Give(S, e))[t] = q[t]
<1> DEFINE posts == Give(S, e)
<1>1. ASSUME NEW t \in Threads
      PROVE  Post(q, posts)[t] = IF t \in S THEN Append(q[t], e) ELSE q[t]
    <2>1. q[t] \in Seq(Event) /\ q[t] \o <<e>> = Append(q[t], e)
        BY DEF Queues
    <2>2. DOMAIN posts = S /\ (t \in S => posts[t] = <<e>>)
        BY DEF Give
    <2> HIDE DEF posts
    <2>3. Post(q, posts)[t] = IF t \in S THEN q[t] \o posts[t] ELSE q[t]
        BY <2>2 DEF Post
    <2> QED
        BY <2>1, <2>2, <2>3
<1>2. ASSUME NEW t \in Threads
      PROVE  (IF t \in S THEN Append(q[t], e) ELSE q[t]) \in Seq(Event)
    <2>1. q[t] \in Seq(Event)
        BY DEF Queues
    <2> QED
        BY <2>1
<1>3. Post(q, posts) = [t \in Threads |-> Post(q, posts)[t]]
    BY DEF Post
<1> HIDE DEF posts
<1>4. Post(q, posts) \in Queues
    BY <1>1, <1>2, <1>3 DEF Queues
<1> QED
    BY <1>1, <1>4 DEF posts

\* Thread t loses its first event, those of S get e.
Exchange(q, t, S, e) == Post([q EXCEPT ![t] = Tail(@)], Give(S, e))

LEMMA LoseAndPost ==
    ASSUME NEW q \in Queues, NEW t \in Threads, q[t] # <<>>,
           NEW S \in SUBSET (Threads \ {t}), NEW e \in Event
    PROVE  /\ Exchange(q, t, S, e) \in Queues
           /\ Exchange(q, t, S, e)[t] = Tail(q[t])
           /\ \A n \in S : Exchange(q, t, S, e)[n] = Append(q[n], e)
           /\ \A n \in Threads \ {t} : n \notin S => Exchange(q, t, S, e)[n] = q[n]
<1>1. PICK rest : rest = [q EXCEPT ![t] = Tail(@)]
    OBVIOUS
<1>2. rest \in Queues /\ rest[t] = Tail(q[t])
      /\ \A n \in Threads \ {t} : rest[n] = q[n]
    <2>1. q[t] \in Seq(Event) /\ Tail(q[t]) \in Seq(Event)
        BY DEF Queues
    <2> QED
        BY <1>1, <2>1 DEF Queues
<1>3. S \in SUBSET Threads /\ t \notin S
    OBVIOUS
<1>4. /\ Post(rest, Give(S, e)) \in Queues
      /\ \A n \in S : Post(rest, Give(S, e))[n] = Append(rest[n], e)
      /\ \A n \in Threads \ S : Post(rest, Give(S, e))[n] = rest[n]
    BY <1>2, <1>3, PostToSome
<1>5. \A n \in S : rest[n] = q[n]
    BY <1>2, <1>3
<1>6. \A n \in S : Post(rest, Give(S, e))[n] = Append(q[n], e)
    BY <1>4, <1>5
<1> QED
    BY <1>1, <1>2, <1>3, <1>4, <1>6 DEF Exchange

LEMMA PostToNone ==
    ASSUME NEW q \in Queues
    PROVE  Post(q, <<>>) = q
<1>1. DOMAIN <<>> = {}
    OBVIOUS
<1> QED
    BY <1>1 DEF Post, Queues

\* The answers to an event.
LEMMA AnswerShapes ==
    ASSUME NEW t \in Threads, NEW e \in Event, NEW a \in Answers(t, e)
    PROVE  \/ a = <<>>
           \/ /\ t \in {"media", "control"} /\ e.do = "receive" /\ Accepts(t, e)
              /\ a = Give(Onward(e.what), e)
           \/ t = "decoder" /\ a = Give({"control"}, ToSend("keyFrameRequest"))
           \/ t = "monitor" /\ a = Give({"control"}, ToSend("report"))
           \/ t = "encoder" /\ a = Give({"media"}, ToSend("video"))
           \/ /\ t = "input" /\ e.do = "receive"
              /\ a = Give({"control"}, ToSend("input"))
           \/ /\ t = "input" /\ e.do = "send"
              /\ a = Give({"control"}, e)
<1>1. CASE t \in {"media", "control"} /\ e.do = "receive" /\ Accepts(t, e)
    BY <1>1 DEF Answers, Give
<1>2. CASE t \in {"media", "control"} /\ ~(e.do = "receive" /\ Accepts(t, e))
    BY <1>2 DEF Answers, Give
<1>3. CASE t = "decoder"
    BY <1>3 DEF Answers, Give
<1>4. CASE t = "monitor"
    BY <1>4 DEF Answers, Give
<1>5. CASE t = "encoder"
    BY <1>5 DEF Answers, Give
<1>6. CASE t = "input"
    BY <1>6 DEF Answers, Give
<1>7. CASE t \in {"main", "audio"}
    BY <1>7 DEF Answers, Give
<1> QED
    BY <1>1, <1>2, <1>3, <1>4, <1>5, <1>6, <1>7 DEF Threads, Services

LEMMA OnwardThreads ==
    ASSUME NEW k \in Kinds \cup Roles
    PROVE  /\ Onward(k) \subseteq {"decoder", "monitor", "audio", "input", "encoder"}
           /\ "decoder" \in Onward(k) \/ "monitor" \in Onward(k) => role = "Guest"
<1>1. CASE k = "video"
    BY <1>1 DEF Onward
<1>2. CASE k = "audio"
    BY <1>2 DEF Onward
<1>3. CASE k = "input"
    BY <1>3 DEF Onward
<1>4. CASE k = "keyFrameRequest"
    BY <1>4 DEF Onward
<1>5. CASE k \notin {"video", "audio", "input", "keyFrameRequest"}
    BY <1>5 DEF Onward
<1> QED
    BY <1>1, <1>2, <1>3, <1>4, <1>5

\* What taking an event does to the queues: its thread's loses it, others may get an
\* answer.
LEMMA TakeQueues ==
    ASSUME queue \in Queues, NEW t \in Threads, Take(t)
    PROVE  LET e == Head(queue[t]) IN
           /\ e \in Event /\ queue' \in Queues
           /\ queue[t] # <<>> /\ queue'[t] = Tail(queue[t])
           /\ \A n \in Threads \ {t} :
                \/ queue'[n] = queue[n]
                \/ \E f \in Event :
                     /\ queue'[n] = Append(queue[n], f)
                     /\ \/ /\ t \in {"media", "control"} /\ e.do = "receive" /\ Accepts(t, e)
                           /\ n \in Onward(e.what) /\ f = e
                        \/ t = "decoder" /\ n = "control" /\ f = ToSend("keyFrameRequest")
                        \/ t = "monitor" /\ n = "control" /\ f = ToSend("report")
                        \/ t = "encoder" /\ n = "media" /\ f = ToSend("video")
                        \/ /\ t = "input" /\ e.do = "receive"
                           /\ n = "control" /\ f = ToSend("input")
                        \/ /\ t = "input" /\ e.do = "send"
                           /\ n = "control" /\ f = e
<1> DEFINE taken == Head(queue[t])
           rest == [queue EXCEPT ![t] = Tail(@)]
<1>1. queue[t] \in Seq(Event) /\ queue[t] # <<>>
    BY DEF Take, Queues
<1>2. taken \in Event /\ Tail(queue[t]) \in Seq(Event)
    BY <1>1
<1>3. rest \in Queues /\ rest[t] = Tail(queue[t])
      /\ \A n \in Threads \ {t} : rest[n] = queue[n]
    BY <1>2 DEF Queues
<1>4. PICK a \in Answers(t, taken) : queue' = Post(rest, a)
    BY DEF Take
<1>5. taken.what \in Kinds \cup Roles
    BY <1>2 DEF Event
<1> HIDE DEF taken, rest
<1>6. ASSUME NEW S \in SUBSET (Threads \ {t}), NEW f \in Event, a = Give(S, f)
      PROVE  /\ queue' \in Queues /\ queue'[t] = Tail(queue[t])
             /\ \A n \in Threads \ {t} :
                    queue'[n] = queue[n] \/ (n \in S /\ queue'[n] = Append(queue[n], f))
    <2>1. queue' = Exchange(queue, t, S, f)
        BY <1>4, <1>6 DEF rest, Exchange
    <2>2. Exchange(queue, t, S, f) \in Queues /\ Exchange(queue, t, S, f)[t] = Tail(queue[t])
        BY <1>1, LoseAndPost
    <2>3. \A n \in S : Exchange(queue, t, S, f)[n] = Append(queue[n], f)
        BY <1>1, LoseAndPost
    <2>4. \A n \in Threads \ {t} : n \notin S => Exchange(queue, t, S, f)[n] = queue[n]
        BY <1>1, LoseAndPost
    <2> QED
        BY <2>1, <2>2, <2>3, <2>4
<1>7. ToSend("keyFrameRequest") \in Event /\ ToSend("report") \in Event
      /\ ToSend("video") \in Event /\ ToSend("input") \in Event
    BY EventTypes DEF Kinds
<1>8. "control" \in Threads /\ "media" \in Threads
      /\ {"decoder", "monitor", "audio", "input", "encoder"} \subseteq Threads
    BY DEF Threads, Services
<1>9. CASE a = <<>>
    <2>1. queue' = rest
        BY <1>3, <1>4, <1>9, PostToNone
    <2> QED
        BY <1>1, <1>2, <1>3, <2>1 DEF taken
<1>10. CASE /\ t \in {"media", "control"} /\ taken.do = "receive" /\ Accepts(t, taken)
            /\ a = Give(Onward(taken.what), taken)
    <2>1. Onward(taken.what) \in SUBSET (Threads \ {t})
        BY <1>5, <1>8, <1>10, OnwardThreads
    <2> QED
        BY <1>1, <1>2, <1>6, <1>10, <2>1 DEF taken
<1>11. CASE t = "decoder" /\ a = Give({"control"}, ToSend("keyFrameRequest"))
    <2>1. {"control"} \in SUBSET (Threads \ {t})
        BY <1>8, <1>11
    <2> QED
        BY <1>1, <1>2, <1>6, <1>7, <1>11, <2>1 DEF taken
<1>12. CASE t = "monitor" /\ a = Give({"control"}, ToSend("report"))
    <2>1. {"control"} \in SUBSET (Threads \ {t})
        BY <1>8, <1>12
    <2> QED
        BY <1>1, <1>2, <1>6, <1>7, <1>12, <2>1 DEF taken
<1>13. CASE t = "encoder" /\ a = Give({"media"}, ToSend("video"))
    <2>1. {"media"} \in SUBSET (Threads \ {t})
        BY <1>8, <1>13
    <2> QED
        BY <1>1, <1>2, <1>6, <1>7, <1>13, <2>1 DEF taken
<1>14. CASE t = "input" /\ taken.do = "receive" /\ a = Give({"control"}, ToSend("input"))
    <2>1. {"control"} \in SUBSET (Threads \ {t})
        BY <1>8, <1>14
    <2> QED
        BY <1>1, <1>2, <1>6, <1>7, <1>14, <2>1 DEF taken
<1>15. CASE t = "input" /\ taken.do = "send" /\ a = Give({"control"}, taken)
    <2>1. {"control"} \in SUBSET (Threads \ {t})
        BY <1>8, <1>15
    <2> QED
        BY <1>1, <1>2, <1>6, <1>15, <2>1 DEF taken
<1> QED
    BY <1>2, <1>4, <1>9, <1>10, <1>11, <1>12, <1>13, <1>14, <1>15, AnswerShapes

-----------------------------------------------------------------------------
(* The round of the news *)

Contains(r, s) == \E i \in DOMAIN r : r[i] = s

\* In every rest of the round, who comes later is still there, and nobody is there
\* twice.
LEMMA RestShapes ==
    ASSUME NEW r \in Rests
    PROVE  /\ r \in Seq({"main", "media", "control", "audio", "input"})
           /\ Contains(r, "media") => Contains(r, "control")
           /\ Contains(r, "control") => Contains(r, "audio")
           /\ Contains(r, "audio") => Contains(r, "input")
           /\ r # <<>> => /\ Tail(r) \in Rests
                          /\ Head(r) \in {"main", "media", "control", "audio", "input"}
                          /\ \A s \in Services \cup {"main"} :
                                 Contains(r, s) <=> (s = Head(r) \/ Contains(Tail(r), s))
                          /\ ~Contains(Tail(r), Head(r))
<1>1. CASE r = TellOrder
    BY <1>1 DEF Contains, TellOrder, Rests, Services
<1>2. CASE r = <<"media", "control", "audio", "input">>
    BY <1>2 DEF Contains, Rests, Services
<1>3. CASE r = <<"control", "audio", "input">>
    BY <1>3 DEF Contains, Rests, Services
<1>4. CASE r = <<"audio", "input">>
    BY <1>4 DEF Contains, Rests, Services
<1>5. CASE r = <<"input">>
    BY <1>5 DEF Contains, Rests, Services
<1>6. CASE r = <<>>
    BY <1>6 DEF Contains, Rests, Services
<1> QED
    BY <1>1, <1>2, <1>3, <1>4, <1>5, <1>6 DEF Rests

LEMMA WholeRound ==
    TellOrder \in Rests /\ \A s \in Services \cup {"main"} : Contains(TellOrder, s)
<1>1. /\ TellOrder[1] = "main" /\ TellOrder[2] = "media" /\ TellOrder[3] = "control"
      /\ TellOrder[4] = "audio" /\ TellOrder[5] = "input" /\ DOMAIN TellOrder = 1 .. 5
    BY DEF TellOrder
<1> QED
    BY <1>1 DEF Rests, Contains, Services

LEMMA ToldIs == ASSUME NEW s PROVE Told(s) <=> (p2pReady /\ ~Contains(toBeTold, s))
BY DEF Told, Contains

LEMMA ToldInOrder ==
    ASSUME Stages
    PROVE  /\ Told("input") => Told("audio")
           /\ Told("audio") => Told("control")
           /\ Told("control") => Told("media")
           /\ AllTold => \A s \in Services : Told(s)
           /\ ~p2pReady => toBeTold = <<>> /\ \A s \in Services : ~Told(s)
<1>1. toBeTold \in Rests
    BY DEF Stages
<1>2. AllTold => \A s \in Services : Told(s)
    BY DEF AllTold, Told
<1> QED
    BY <1>1, <1>2, ToldIs, RestShapes DEF Stages

-----------------------------------------------------------------------------
(* What a step may do *)

Keeps(t) ==
    /\ t \in Services => /\ running'[t] = running[t]
                         /\ t \in {"audio", "input"} => serviceRole'[t] = serviceRole[t]
    /\ t = "main" => running'[t] = running[t]

\* Thread t may be given event e.
MayGain(t, e) ==
    /\ Fits(t, e)'
    /\ t \in Services =>
           /\ Preliminary(e) => ~running[t] /\ ~HasNews(queue[t])
           /\ e.do = "ready" => Told(t)'
           /\ e.do = "role" => ~online
    /\ t \in {"media", "control"} /\ Demanding(e) => running[t] \/ HasNews(queue[t])

Gains(t, e) == queue'[t] = Append(queue[t], e) /\ Keeps(t) /\ MayGain(t, e)

Takes(t) ==
    LET e == Head(queue[t]) IN
    /\ queue[t] # <<>> /\ queue'[t] = Tail(queue[t])
    /\ t \in Services =>
           running'[t] = IF e.do = "ready" THEN serviceRole[t] # "Unknown" ELSE running[t]
    /\ t = "main" => running'[t] = IF e.do = "ready" THEN role = "Host" ELSE running[t]
    /\ t \in {"audio", "input"} =>
           serviceRole'[t] = IF e.do = "role" THEN e.what ELSE serviceRole[t]

QueueMoves ==
    \A t \in Threads : \/ queue'[t] = queue[t] /\ Keeps(t)
                       \/ \E e \in Event : Gains(t, e)
                       \/ Takes(t)

StageMoves ==
    /\ Stages'
    /\ online => online' /\ role' = role
    /\ AllTold => AllTold'
    /\ \A s \in Services : Told(s) => Told(s)'
    /\ \A s \in Services \cup {"main"} : Told(s)' /\ ~Told(s) => HasNews(queue'[s])

LEMMA AppendEvent ==
    ASSUME NEW q \in Seq(Event), NEW e \in Event
    PROVE  /\ Append(q, e) \in Seq(Event) /\ Len(q) \in Nat
           /\ DOMAIN q = 1 .. Len(q) /\ DOMAIN Append(q, e) = 1 .. (Len(q) + 1)
           /\ Append(q, e)[Len(q) + 1] = e
           /\ \A i \in 1 .. Len(q) : Append(q, e)[i] = q[i]
OBVIOUS

LEMMA TailEvents ==
    ASSUME NEW q \in Seq(Event), q # <<>>
    PROVE  /\ Tail(q) \in Seq(Event) /\ Head(q) \in Event /\ Len(q) \in Nat /\ Len(q) > 0
           /\ DOMAIN q = 1 .. Len(q) /\ DOMAIN Tail(q) = 1 .. (Len(q) - 1)
           /\ Head(q) = q[1]
           /\ \A i \in 1 .. (Len(q) - 1) : Tail(q)[i] = q[i + 1]
OBVIOUS

LEMMA NewsAppended ==
    ASSUME NEW q \in Seq(Event), NEW e \in Event
    PROVE  HasNews(Append(q, e)) <=> (e.do = "ready" \/ HasNews(q))
BY AppendEvent DEF HasNews

\* One event for the threads of S.
LEMMA SomeGain ==
    ASSUME queue \in Queues, NEW S \in SUBSET Threads, NEW e \in Event,
           queue' = Post(queue, Give(S, e)), \A t \in Threads : Keeps(t),
           \A t \in S : MayGain(t, e)
    PROVE  QueueMoves /\ queue' \in Queues
<1>1. Post(queue, Give(S, e)) \in Queues
    BY PostToSome
<1>2. \A t \in S : Post(queue, Give(S, e))[t] = Append(queue[t], e)
    BY PostToSome
<1>3. \A t \in Threads \ S : Post(queue, Give(S, e))[t] = queue[t]
    BY PostToSome
<1>4. ASSUME NEW t \in Threads, t \in S
      PROVE  Gains(t, e)
    BY <1>2, <1>4 DEF Gains
<1>5. ASSUME NEW t \in Threads, t \notin S
      PROVE  queue'[t] = queue[t] /\ Keeps(t)
    BY <1>3, <1>5
<1> QED
    BY <1>1, <1>4, <1>5 DEF QueueMoves

LEMMA StartAsMoves ==
    ASSUME StartupInv, NEW r \in {"Host", "Guest"}, NEW bound \in BOOLEAN, StartAs(r, bound)
    PROVE  QueueMoves /\ StageMoves /\ queue' \in Queues
<1> DEFINE S == IF bound THEN {"audio", "input"} ELSE {"audio"}
<1>1. /\ ~online /\ role' = r /\ online' = bound /\ running' = running
      /\ p2pReady' = p2pReady /\ toBeTold' = toBeTold
      /\ queue' = Post(queue, Give(S, RoleEvent(r)))
    BY DEF StartAs, Give, RolePosts
<1>2. ~p2pReady /\ toBeTold = <<>> /\ \A s \in Services : ~Told(s)
    BY <1>1, ToldInOrder DEF StartupInv, Stages
<1>3. RoleEvent(r) \in Event /\ RoleEvent(r).do = "role" /\ RoleEvent(r).what = r
      /\ ~RoleEvent(r).early
    BY EventTypes DEF Roles
<1>4. \A t \in Threads : Keeps(t)
    BY DEF StartAs, Keeps, StartupInv, StartupTypeOK, Services
<1>5. queue \in Queues /\ S \in SUBSET Threads
    BY DEF StartupInv, StartupTypeOK, Queues, Threads, Services
<1>6. \A t \in S : MayGain(t, RoleEvent(r))
    BY <1>1, <1>2, <1>3 DEF MayGain, Fits, Preliminary, Demanding, StartupInv, NewsArrives, Services
<1>7. StageMoves
    <2>1. Stages'
        BY <1>1, <1>2 DEF Stages, Rests
    <2> QED
        BY <1>1, <1>2, <2>1 DEF StageMoves, AllTold, Told
<1> HIDE DEF S
<1> QED
    BY <1>1, <1>3, <1>4, <1>5, <1>6, <1>7, SomeGain

LEMMA MarkReadyMoves ==
    ASSUME StartupInv, MarkP2pReady
    PROVE  QueueMoves /\ StageMoves /\ queue' \in Queues
<1>1. /\ online /\ ~p2pReady /\ p2pReady' /\ toBeTold' = TellOrder
      /\ UNCHANGED <<role, online, queue, serviceRole, running>>
    BY DEF MarkP2pReady
<1>2. QueueMoves
    BY <1>1 DEF QueueMoves, Keeps
<1>3. queue' \in Queues
    BY <1>1 DEF StartupInv, StartupTypeOK, Queues
<1>4. \A s \in Services \cup {"main"} : ~Told(s) /\ ~Told(s)'
    <2>1. \A s \in Services \cup {"main"} : Contains(toBeTold', s)
        BY <1>1, WholeRound
    <2> QED
        BY <1>1, <2>1 DEF Told, Contains
<1>5. Stages'
    BY <1>1, WholeRound DEF Stages, StartupInv
<1> QED
    BY <1>1, <1>2, <1>3, <1>4, <1>5 DEF StageMoves, AllTold, Services

LEMMA TellMoves ==
    ASSUME StartupInv, Tell
    PROVE  QueueMoves /\ StageMoves /\ queue' \in Queues
<1>0. PICK t : t = Head(toBeTold)
    OBVIOUS
<1>1. /\ toBeTold # <<>> /\ toBeTold' = Tail(toBeTold)
      /\ queue' = Post(queue, Give({t}, Ready))
      /\ UNCHANGED <<role, online, p2pReady, serviceRole, running>>
    BY <1>0 DEF Tell, Give
<1>2. toBeTold \in Rests /\ p2pReady
    BY <1>1 DEF StartupInv, Stages
<1>3. /\ toBeTold' \in Rests /\ t \in {"main", "media", "control", "audio", "input"}
      /\ \A s \in Services \cup {"main"} :
             Contains(toBeTold, s) <=> (s = t \/ Contains(toBeTold', s))
      /\ ~Contains(toBeTold', t)
    BY <1>0, <1>1, <1>2, RestShapes
<1>4. Told(t)' /\ \A s \in Services \cup {"main"} : Told(s)' <=> (s = t \/ Told(s))
    BY <1>1, <1>2, <1>3 DEF Told, Contains
<1>5. Ready \in Event /\ Ready.do = "ready" /\ ~Ready.early
    BY EventTypes
<1>6. queue \in Queues /\ {t} \in SUBSET Threads
    BY <1>3 DEF StartupInv, StartupTypeOK, Queues, Threads, Services
<1>7. MayGain(t, Ready)
    BY <1>3, <1>4, <1>5 DEF MayGain, Fits, Preliminary, Demanding
<1>8. \A n \in Threads : Keeps(n)
    BY <1>1 DEF Keeps
<1>9. QueueMoves /\ queue' \in Queues
    BY <1>1, <1>5, <1>6, <1>7, <1>8, SomeGain
<1>10. HasNews(queue'[t])
    <2>1. queue[t] \in Seq(Event)
        BY <1>6 DEF Queues
    <2>2. Post(queue, Give({t}, Ready))[t] = Append(queue[t], Ready)
        BY <1>5, <1>6, PostToSome
    <2> QED
        BY <1>1, <1>5, <2>1, <2>2, NewsAppended
<1>11. Stages'
    BY <1>1, <1>2, <1>3 DEF Stages, StartupInv
<1> QED
    BY <1>1, <1>4, <1>9, <1>10, <1>11 DEF StageMoves, AllTold, Services

\* A step that only posts events leaves the stages alone.
LEMMA StagesStay ==
    ASSUME Stages, UNCHANGED <<role, online, p2pReady, toBeTold>>
    PROVE  StageMoves
BY DEF StageMoves, Stages, Rests, AllTold, Told

LEMMA SessionReceivesMoves ==
    ASSUME StartupInv, NEW k \in Kinds, SessionReceives(k)
    PROVE  QueueMoves /\ StageMoves /\ queue' \in Queues
<1>0. PICK t, e : /\ t = IF k \in MediaKinds THEN "media" ELSE "control"
                  /\ e = Received(k, ~p2pReady)
    OBVIOUS
<1>1. /\ online /\ toBeTold = <<>> /\ queue' = Post(queue, Give({t}, e))
      /\ UNCHANGED <<role, online, p2pReady, toBeTold, serviceRole, running>>
    BY <1>0 DEF SessionReceives, Give
<1>2. e \in Event /\ e.do = "receive" /\ e.what = k /\ e.early = ~p2pReady
    BY <1>0, EventTypes DEF StartupInv, StartupTypeOK
<1>3. t = "media" => k \in MediaKinds
    BY <1>0
<1>4. t \in {"media", "control"}
    BY <1>0
<1>5. queue \in Queues /\ {t} \in SUBSET Threads /\ t \in Services
    BY <1>4 DEF StartupInv, StartupTypeOK, Queues, Threads, Services
<1>6. ~p2pReady => ~running[t] /\ ~HasNews(queue[t])
    BY <1>5 DEF StartupInv, NewsArrives, Told
<1>7. p2pReady => AllTold /\ (running[t] \/ HasNews(queue[t]))
    BY <1>1, <1>4, <1>5, ToldInOrder DEF StartupInv, NewsArrives, AllTold
<1>8. AllTold' <=> AllTold
    BY <1>1 DEF AllTold
<1>9. MayGain(t, e)
    BY <1>2, <1>3, <1>4, <1>6, <1>7, <1>8 DEF MayGain, Fits, Preliminary, Demanding
<1>10. \A n \in Threads : Keeps(n)
    BY <1>1 DEF Keeps
<1>11. StageMoves
    BY <1>1, StagesStay DEF StartupInv
<1> QED
    BY <1>1, <1>2, <1>5, <1>9, <1>10, <1>11, SomeGain

\* What begins in a service that runs, and a click.
LEMMA BeginsMoves ==
    ASSUME StartupInv, NEW t \in Threads, NEW n, NEW e \in Event, e.do = "send", ~e.early,
           Begins(t, Give({n}, e)),
           \/ n = "encoder"
           \/ n = "media" /\ e.what = "audio" /\ Told("media")
           \/ n = "control" /\ e.what = "input" /\ Told("control")
           \/ n = "input" /\ e.what = "mouse"
    PROVE  QueueMoves /\ StageMoves /\ queue' \in Queues
<1>1. /\ queue' = Post(queue, Give({n}, e))
      /\ UNCHANGED <<role, online, p2pReady, toBeTold, serviceRole, running>>
    BY DEF Begins
<1>2. queue \in Queues /\ {n} \in SUBSET Threads
    BY DEF StartupInv, StartupTypeOK, Queues, Threads, Services
<1>3. n \in {"media", "control"} => running[n] \/ HasNews(queue[n])
    BY DEF StartupInv, NewsArrives, Services
<1>4. MayGain(n, e)
    BY <1>3 DEF MayGain, Fits, Preliminary, Demanding, MediaKinds
<1>5. \A s \in Threads : Keeps(s)
    BY <1>1 DEF Keeps
<1>6. StageMoves
    BY <1>1, StagesStay DEF StartupInv
<1> QED
    BY <1>1, <1>2, <1>4, <1>5, <1>6, SomeGain

LEMMA TakeMoves ==
    ASSUME StartupInv, NEW t \in Threads, Take(t)
    PROVE  QueueMoves /\ StageMoves /\ queue' \in Queues
<1>0. PICK e : e = Head(queue[t])
    OBVIOUS
<1>1. queue \in Queues
    BY DEF StartupInv, StartupTypeOK, Queues
<1>2. /\ e \in Event /\ queue' \in Queues
      /\ queue[t] # <<>> /\ queue'[t] = Tail(queue[t])
    BY <1>0, <1>1, TakeQueues
<1>3. UNCHANGED <<role, online, p2pReady, toBeTold>>
    BY DEF Take
<1>4. StageMoves
    BY <1>3, StagesStay DEF StartupInv
<1>5. /\ serviceRole' = IF e.do = "role" THEN [serviceRole EXCEPT ![t] = e.what] ELSE serviceRole
      /\ running' = IF e.do # "ready" THEN running
                    ELSE [running EXCEPT ![t] =
                            IF t = "main" THEN role = "Host" ELSE serviceRole[t] # "Unknown"]
    BY <1>0 DEF Take
<1>6. DOMAIN running = Services \cup {"main"} /\ DOMAIN serviceRole = Services
    BY DEF StartupInv, StartupTypeOK
<1>7. Takes(t)
    BY <1>0, <1>2, <1>5, <1>6 DEF Takes, Services
<1>8. \A n \in Threads \ {t} : Keeps(n)
    BY <1>5, <1>6 DEF Keeps
<1>9. 1 \in DOMAIN queue[t] /\ queue[t][1] = e
    BY <1>0, <1>1, <1>2, TailEvents DEF Queues
<1>10. Fits(t, e)
    BY <1>9 DEF StartupInv, QueuesFit
<1>11. AllTold' <=> AllTold
    BY <1>3 DEF AllTold
<1>12. AllTold => \A s \in {"media", "control"} : running[s] \/ HasNews(queue[s])
    BY ToldInOrder DEF StartupInv, NewsArrives, Services
<1>13. ASSUME NEW n \in Threads \ {t}, NEW f \in Event, queue'[n] = Append(queue[n], f),
              t \in {"media", "control"}, e.do = "receive", Accepts(t, e),
              n \in Onward(e.what), f = e
       PROVE  MayGain(n, f)
    <2>1. ~e.early
        BY <1>9, <1>13 DEF Accepts, StartupInv, QueuesInOrder, PreliminaryFirst, Preliminary,
                          Services
    <2>2. AllTold
        BY <1>10, <1>13, <2>1 DEF Fits
    <2>3. e.what \in Kinds \cup Roles
        BY <1>2 DEF Event
    <2>4. n \in {"decoder", "monitor", "audio", "input", "encoder"}
          /\ (n \in {"decoder", "monitor"} => role = "Guest")
        BY <1>13, <2>3, OnwardThreads
    <2> QED
        BY <1>3, <1>11, <1>13, <2>1, <2>2, <2>4 DEF MayGain, Fits, Preliminary, Demanding
<1>14. ASSUME t = "decoder"
       PROVE  MayGain("control", ToSend("keyFrameRequest"))
    <2>1. AllTold /\ role = "Guest"
        BY <1>10, <1>14 DEF Fits
    <2>2. ToSend("keyFrameRequest") \in Event /\ ToSend("keyFrameRequest").do = "send"
          /\ ToSend("keyFrameRequest").what = "keyFrameRequest"
          /\ ~ToSend("keyFrameRequest").early
        BY EventTypes DEF Kinds
    <2> QED
        BY <1>3, <1>11, <1>12, <2>1, <2>2 DEF MayGain, Fits, Preliminary, Demanding
<1>15. ASSUME t = "monitor"
       PROVE  MayGain("control", ToSend("report"))
    <2>1. AllTold
        BY <1>10, <1>15 DEF Fits
    <2>2. ToSend("report") \in Event /\ ToSend("report").do = "send"
          /\ ToSend("report").what = "report" /\ ~ToSend("report").early
        BY EventTypes DEF Kinds
    <2> QED
        BY <1>3, <1>11, <1>12, <2>1, <2>2 DEF MayGain, Fits, Preliminary, Demanding
<1>16. MayGain("media", ToSend("video"))
    <2>1. ToSend("video") \in Event /\ ToSend("video").do = "send"
          /\ ToSend("video").what = "video" /\ ~ToSend("video").early
        BY EventTypes DEF Kinds
    <2> QED
        BY <2>1 DEF MayGain, Fits, Preliminary, Demanding, MediaKinds
<1>17. ASSUME t = "input", e.do = "receive"
       PROVE  MayGain("control", ToSend("input"))
    <2>1. AllTold
        BY <1>10, <1>17 DEF Fits
    <2>2. ToSend("input") \in Event /\ ToSend("input").do = "send"
          /\ ToSend("input").what = "input" /\ ~ToSend("input").early
        BY EventTypes DEF Kinds
    <2> QED
        BY <1>3, <1>11, <1>12, <2>1, <2>2 DEF MayGain, Fits, Preliminary, Demanding
<1>18. ASSUME t = "input", e.do = "send"
       PROVE  MayGain("control", e)
    <2>1. e.what = "mouse" /\ ~e.early
        BY <1>10, <1>18 DEF Fits
    <2> QED
        BY <1>2, <1>18, <2>1 DEF MayGain, Fits, Preliminary, Demanding
<1>19. ASSUME NEW n \in Threads \ {t}
       PROVE  queue'[n] = queue[n] \/ \E f \in Event : Gains(n, f)
    <2>1. CASE queue'[n] = queue[n]
        BY <2>1
    <2>2. CASE queue'[n] # queue[n]
        <3>1. PICK f \in Event :
                /\ queue'[n] = Append(queue[n], f)
                /\ \/ /\ t \in {"media", "control"} /\ e.do = "receive" /\ Accepts(t, e)
                      /\ n \in Onward(e.what) /\ f = e
                   \/ t = "decoder" /\ n = "control" /\ f = ToSend("keyFrameRequest")
                   \/ t = "monitor" /\ n = "control" /\ f = ToSend("report")
                   \/ t = "encoder" /\ n = "media" /\ f = ToSend("video")
                   \/ /\ t = "input" /\ e.do = "receive"
                      /\ n = "control" /\ f = ToSend("input")
                   \/ /\ t = "input" /\ e.do = "send"
                      /\ n = "control" /\ f = e
            BY <1>0, <1>1, <2>2, TakeQueues
        <3>2. MayGain(n, f)
            BY <3>1, <1>13, <1>14, <1>15, <1>16, <1>17, <1>18
        <3> QED
            BY <1>8, <3>1, <3>2 DEF Gains
    <2> QED
        BY <2>1, <2>2
<1>20. QueueMoves
    BY <1>7, <1>8, <1>19 DEF QueueMoves
<1> QED
    BY <1>2, <1>4, <1>20

\* Whatever happens, queues gain and lose single events under the conditions above.
LEMMA StepMoves ==
    ASSUME StartupInv, [StartupNext]_startupVars
    PROVE  QueueMoves /\ StageMoves /\ queue' \in Queues
<1> DEFINE Goal == QueueMoves /\ StageMoves /\ queue' \in Queues
<1>1. ASSUME NEW r \in {"Host", "Guest"}, NEW bound \in BOOLEAN, StartAs(r, bound)
      PROVE  Goal
    BY <1>1, StartAsMoves
<1>2. CASE MarkP2pReady
    BY <1>2, MarkReadyMoves
<1>3. CASE Tell
    BY <1>3, TellMoves
<1>4. ASSUME NEW k \in Kinds, SessionReceives(k)
      PROVE  Goal
    BY <1>4, SessionReceivesMoves
<1>5. ASSUME NEW t \in Threads, Take(t)
      PROVE  Goal
    BY <1>5, TakeMoves
<1>6. {"main", "audio", "input"} \subseteq Threads
    BY DEF Threads, Services
<1>7. \A k \in {"video", "audio", "input", "mouse"} :
          ToSend(k) \in Event /\ ToSend(k).do = "send" /\ ToSend(k).what = k
          /\ ~ToSend(k).early
    BY EventTypes DEF Kinds
<1>8. CASE ScreenShot
    <2>1. Begins("main", Give({"encoder"}, ToSend("video")))
        BY <1>8 DEF ScreenShot, Give
    <2> QED
        BY <1>6, <1>7, <2>1, BeginsMoves
<1>9. CASE CaptureAudio
    <2>1. running["audio"] /\ Begins("audio", Give({"media"}, ToSend("audio")))
        BY <1>9 DEF CaptureAudio, Give
    <2>2. Told("media")
        BY <2>1, ToldInOrder DEF StartupInv, NewsArrives, Services
    <2> QED
        BY <1>6, <1>7, <2>1, <2>2, BeginsMoves
<1>10. CASE CaptureInput
    <2>1. running["input"] /\ Begins("input", Give({"control"}, ToSend("input")))
        BY <1>10 DEF CaptureInput, Give
    <2>2. Told("control")
        BY <2>1, ToldInOrder DEF StartupInv, NewsArrives, Services
    <2> QED
        BY <1>6, <1>7, <2>1, <2>2, BeginsMoves
<1>11. CASE Click
    <2>1. Begins("main", Give({"input"}, ToSend("mouse")))
        BY <1>11 DEF Click, Give
    <2> QED
        BY <1>6, <1>7, <2>1, BeginsMoves
<1>12. CASE UNCHANGED startupVars
    BY <1>12, StagesStay DEF startupVars, QueueMoves, Keeps, StartupInv, StartupTypeOK, Queues
<1> QED
    BY <1>1, <1>2, <1>3, <1>4, <1>5, <1>8, <1>9, <1>10, <1>11, <1>12 DEF StartupNext

-----------------------------------------------------------------------------
(* The parts of the invariant *)

LEMMA NewsTaken ==
    ASSUME NEW q \in Seq(Event), q # <<>>
    PROVE  HasNews(q) <=> (Head(q).do = "ready" \/ HasNews(Tail(q)))
<1>1. ASSUME NEW i \in DOMAIN q, q[i].do = "ready", i # 1
      PROVE  i - 1 \in DOMAIN Tail(q) /\ Tail(q)[i - 1].do = "ready"
    BY <1>1, TailEvents
<1>2. ASSUME NEW i \in DOMAIN Tail(q), Tail(q)[i].do = "ready"
      PROVE  i + 1 \in DOMAIN q /\ q[i + 1].do = "ready"
    BY <1>2, TailEvents
<1>3. 1 \in DOMAIN q /\ Head(q) = q[1]
    BY TailEvents
<1> QED
    BY <1>1, <1>2, <1>3 DEF HasNews

\* A service that finds the news has its role.
LEMMA NewsFindRole ==
    ASSUME StartupInv, NEW s \in Services, queue[s] # <<>>, Head(queue[s]).do = "ready"
    PROVE  serviceRole[s] = role /\ role # "Unknown"
<1>1. queue[s] \in Seq(Event) /\ s \in Threads
    BY DEF StartupInv, StartupTypeOK, Threads
<1>2. /\ 1 \in DOMAIN queue[s] /\ queue[s][1].do = "ready"
      /\ \A i \in DOMAIN queue[s] : ~(1 > i)
    BY <1>1, TailEvents
<1>3. Told(s)
    BY <1>2 DEF StartupInv, NewsArrives, HasNews
<1>4. online /\ role # "Unknown"
    BY <1>3 DEF StartupInv, Stages, Told
<1>5. CASE s \in {"media", "control"}
    BY <1>4, <1>5 DEF StartupInv, RolesArrive
<1>6. CASE s \in {"audio", "input"}
    <2>1. \A i \in DOMAIN queue[s] : queue[s][i].do # "role"
        BY <1>2 DEF StartupInv, QueuesInOrder, PreliminaryFirst, Preliminary
    <2>2. RoleComes(queue[s], serviceRole[s], role)
        BY <1>4, <1>6 DEF StartupInv, RolesArrive
    <2> QED
        BY <1>4, <2>1, <2>2 DEF RoleComes
<1> QED
    BY <1>5, <1>6 DEF Services

LEMMA NewsStep ==
    ASSUME StartupInv, QueueMoves, StageMoves
    PROVE  NewsArrives'
<1>1. ASSUME NEW s \in Services
      PROVE  /\ s \in Threads /\ queue[s] \in Seq(Event)
             /\ (running[s] \/ HasNews(queue[s]) => Told(s)) /\ (Told(s) => Told(s)')
    BY DEF StartupInv, StartupTypeOK, NewsArrives, StageMoves, Threads
<1>2. ASSUME NEW s \in Services, running'[s] \/ HasNews(queue'[s])
      PROVE  Told(s)'
    <2>1. CASE queue'[s] = queue[s] /\ Keeps(s)
        BY <1>1, <1>2, <2>1 DEF Keeps
    <2>2. ASSUME NEW e \in Event, Gains(s, e)
          PROVE  Told(s)'
        BY <1>1, <1>2, <2>2, NewsAppended DEF Gains, Keeps, MayGain
    <2>3. CASE Takes(s)
        BY <1>1, <1>2, <2>3, NewsTaken DEF Takes
    <2> QED
        BY <1>1, <2>1, <2>2, <2>3 DEF QueueMoves
<1>3. ASSUME NEW s \in Services, Told(s)'
      PROVE  running'[s] \/ HasNews(queue'[s])
    <2>1. CASE ~Told(s)
        BY <1>3, <2>1 DEF StageMoves
    <2>2. CASE Told(s)
        <3>1. running[s] \/ HasNews(queue[s])
            BY <2>2 DEF StartupInv, NewsArrives
        <3>2. CASE queue'[s] = queue[s] /\ Keeps(s)
            BY <3>1, <3>2 DEF Keeps
        <3>3. ASSUME NEW e \in Event, Gains(s, e)
              PROVE  running'[s] \/ HasNews(queue'[s])
            BY <1>1, <3>1, <3>3, NewsAppended DEF Gains, Keeps
        <3>4. CASE Takes(s)
            <4>1. /\ queue[s] # <<>> /\ queue'[s] = Tail(queue[s])
                  /\ running'[s] = IF Head(queue[s]).do = "ready" THEN serviceRole[s] # "Unknown"
                                   ELSE running[s]
                BY <3>4, <1>1 DEF Takes
            <4>2. HasNews(queue[s]) <=> (Head(queue[s]).do = "ready" \/ HasNews(queue'[s]))
                BY <1>1, <4>1, NewsTaken
            <4>3. CASE Head(queue[s]).do = "ready"
                BY <1>1, <4>1, <4>3, NewsFindRole
            <4>4. CASE Head(queue[s]).do # "ready"
                BY <3>1, <4>1, <4>2, <4>4
            <4> QED
                BY <4>3, <4>4
        <3> QED
            BY <1>1, <3>2, <3>3, <3>4 DEF QueueMoves
    <2> QED
        BY <2>1, <2>2
<1>4. ASSUME Told("main")'
      PROVE  HasNews(queue'["main"]) \/ (running'["main"] <=> role' = "Host")
    <2>1. "main" \in Threads /\ queue["main"] \in Seq(Event)
        BY DEF StartupInv, StartupTypeOK, Threads
    <2>2. CASE ~Told("main")
        BY <1>4, <2>2 DEF StageMoves
    <2>3. CASE Told("main")
        <3>1. HasNews(queue["main"]) \/ (running["main"] <=> role = "Host")
            BY <2>3 DEF StartupInv, NewsArrives
        <3>2. role' = role
            BY <2>3 DEF StartupInv, Stages, StageMoves, Told
        <3>3. CASE queue'["main"] = queue["main"] /\ Keeps("main")
            BY <3>1, <3>2, <3>3 DEF Keeps
        <3>4. ASSUME NEW e \in Event, Gains("main", e)
              PROVE  HasNews(queue'["main"]) \/ (running'["main"] <=> role' = "Host")
            BY <2>1, <3>1, <3>2, <3>4, NewsAppended DEF Gains, Keeps
        <3>5. CASE Takes("main")
            BY <2>1, <3>1, <3>2, <3>5, NewsTaken DEF Takes
        <3> QED
            BY <2>1, <3>3, <3>4, <3>5 DEF QueueMoves
    <2> QED
        BY <2>2, <2>3
<1> QED
    BY <1>2, <1>3, <1>4 DEF NewsArrives

LEMMA FitStep ==
    ASSUME StartupInv, QueueMoves, StageMoves
    PROVE  QueuesFit'
<1>1. ASSUME NEW t \in Threads, NEW e, Fits(t, e)
      PROVE  Fits(t, e)'
    BY <1>1 DEF Fits, StageMoves, StartupInv, Stages, AllTold
<1>2. ASSUME NEW t \in Threads
      PROVE  queue[t] \in Seq(Event) /\ \A i \in DOMAIN queue[t] : Fits(t, queue[t][i])
    BY DEF StartupInv, StartupTypeOK, QueuesFit
<1>3. ASSUME NEW t \in Threads, NEW i, i \in DOMAIN queue'[t], NEW f, f = queue'[t][i]
      PROVE  Fits(t, f)'
    <2>1. CASE queue'[t] = queue[t]
        <3>1. i \in DOMAIN queue[t] /\ f = queue[t][i]
            BY <1>3, <2>1
        <3>2. Fits(t, f)
            BY <1>2, <3>1
        <3> QED
            BY <1>1, <3>2
    <2>2. ASSUME NEW e \in Event, Gains(t, e)
          PROVE  Fits(t, f)'
        <3>1. queue'[t] = Append(queue[t], e) /\ Fits(t, e)'
            BY <2>2 DEF Gains, MayGain
        <3>2. f = e \/ (i \in DOMAIN queue[t] /\ f = queue[t][i])
            BY <1>2, <1>3, <3>1, AppendEvent
        <3>3. CASE f = e
            BY <3>1, <3>3
        <3>4. CASE i \in DOMAIN queue[t] /\ f = queue[t][i]
            <4>1. Fits(t, f)
                BY <1>2, <3>4
            <4> QED
                BY <1>1, <4>1
        <3> QED
            BY <3>2, <3>3, <3>4
    <2>3. CASE Takes(t)
        <3>1. queue[t] # <<>> /\ queue'[t] = Tail(queue[t])
            BY <2>3 DEF Takes
        <3>2. i + 1 \in DOMAIN queue[t] /\ f = queue[t][i + 1]
            BY <1>2, <1>3, <3>1, TailEvents
        <3>3. Fits(t, f)
            BY <1>2, <3>2
        <3> QED
            BY <1>1, <3>3
    <2> QED
        BY <2>1, <2>2, <2>3 DEF QueueMoves
<1> QED
    BY <1>3 DEF QueuesFit, Fits

LEMMA OrderAppended ==
    ASSUME NEW q \in Seq(Event), NEW e \in Event, NEW run \in BOOLEAN
    PROVE  /\ PreliminaryFirst(q, run) /\ (Preliminary(e) => ~run /\ ~HasNews(q))
                => PreliminaryFirst(Append(q, e), run)
           /\ DemandingLast(q, run) /\ (Demanding(e) => run \/ HasNews(q))
                => DemandingLast(Append(q, e), run)
<1>1. /\ DOMAIN q = 1 .. Len(q) /\ Len(q) \in Nat /\ DOMAIN Append(q, e) = 1 .. (Len(q) + 1)
      /\ Append(q, e)[Len(q) + 1] = e
      /\ \A i \in 1 .. Len(q) : Append(q, e)[i] = q[i]
    BY AppendEvent
<1>2. ASSUME PreliminaryFirst(q, run), Preliminary(e) => ~run /\ ~HasNews(q)
      PROVE  PreliminaryFirst(Append(q, e), run)
    BY <1>1, <1>2 DEF PreliminaryFirst, Preliminary, HasNews
<1>3. ASSUME DemandingLast(q, run), Demanding(e) => run \/ HasNews(q)
      PROVE  DemandingLast(Append(q, e), run)
    BY <1>1, <1>3 DEF DemandingLast, HasNews
<1> QED
    BY <1>2, <1>3

\* Next is whether the service runs after it took the first event of q.
LEMMA OrderTaken ==
    ASSUME NEW q \in Seq(Event), q # <<>>, NEW run \in BOOLEAN, NEW next \in BOOLEAN,
           Head(q).do # "ready" => (next <=> run)
    PROVE  /\ PreliminaryFirst(q, run) => PreliminaryFirst(Tail(q), next)
           /\ DemandingLast(q, run) /\ (Head(q).do = "ready" => next)
                => DemandingLast(Tail(q), next)
<1>1. /\ Len(q) \in Nat /\ Len(q) > 0
      /\ DOMAIN q = 1 .. Len(q) /\ DOMAIN Tail(q) = 1 .. (Len(q) - 1)
      /\ Head(q) = q[1]
      /\ \A i \in 1 .. (Len(q) - 1) : Tail(q)[i] = q[i + 1]
    BY TailEvents
<1>2. ASSUME PreliminaryFirst(q, run), NEW i \in DOMAIN Tail(q), Preliminary(Tail(q)[i])
      PROVE  ~next /\ \A j \in DOMAIN Tail(q) : Tail(q)[j].do = "ready" => j > i
    <2>1. i + 1 \in DOMAIN q /\ Preliminary(q[i + 1])
        BY <1>1, <1>2
    <2>2. ~run /\ \A j \in DOMAIN q : q[j].do = "ready" => j > i + 1
        BY <1>2, <2>1 DEF PreliminaryFirst
    <2> QED
        BY <1>1, <2>2
<1>3. ASSUME DemandingLast(q, run), Head(q).do = "ready" => next,
             NEW i \in DOMAIN Tail(q), Demanding(Tail(q)[i])
      PROVE  next \/ \E j \in DOMAIN Tail(q) : Tail(q)[j].do = "ready" /\ j < i
    <2>1. i + 1 \in DOMAIN q /\ Demanding(q[i + 1])
        BY <1>1, <1>3
    <2>2. run \/ \E j \in DOMAIN q : q[j].do = "ready" /\ j < i + 1
        BY <1>3, <2>1 DEF DemandingLast
    <2>3. CASE Head(q).do = "ready"
        BY <1>3, <2>3
    <2>4. CASE run /\ Head(q).do # "ready"
        BY <2>4
    <2>5. ASSUME Head(q).do # "ready", NEW j \in DOMAIN q, q[j].do = "ready", j < i + 1
          PROVE  \E k \in DOMAIN Tail(q) : Tail(q)[k].do = "ready" /\ k < i
        <3>1. j - 1 \in DOMAIN Tail(q) /\ Tail(q)[j - 1].do = "ready" /\ j - 1 < i
            BY <1>1, <2>5
        <3> QED
            BY <3>1
    <2> QED
        BY <2>2, <2>3, <2>4, <2>5
<1> QED
    BY <1>2, <1>3 DEF PreliminaryFirst, DemandingLast

LEMMA OrderStep ==
    ASSUME StartupInv, QueueMoves, running' \in [Services \cup {"main"} -> BOOLEAN]
    PROVE  QueuesInOrder'
<1>1. ASSUME NEW s \in Services
      PROVE  /\ s \in Threads /\ queue[s] \in Seq(Event)
             /\ running[s] \in BOOLEAN /\ running'[s] \in BOOLEAN
             /\ PreliminaryFirst(queue[s], running[s])
    BY DEF StartupInv, StartupTypeOK, QueuesInOrder, Threads
<1>2. ASSUME NEW s \in Services
      PROVE  PreliminaryFirst(queue'[s], running'[s])
    <2>1. CASE queue'[s] = queue[s] /\ Keeps(s)
        BY <1>1, <2>1 DEF Keeps
    <2>2. ASSUME NEW e \in Event, Gains(s, e)
          PROVE  PreliminaryFirst(queue'[s], running'[s])
        BY <1>1, <2>2, OrderAppended DEF Gains, Keeps, MayGain
    <2>3. CASE Takes(s)
        BY <1>1, <2>3, OrderTaken DEF Takes
    <2> QED
        BY <1>1, <2>1, <2>2, <2>3 DEF QueueMoves
<1>3. ASSUME NEW s \in {"media", "control"}
      PROVE  DemandingLast(queue'[s], running'[s])
    <2>1. s \in Services /\ DemandingLast(queue[s], running[s])
        BY DEF Services, StartupInv, QueuesInOrder
    <2>2. CASE queue'[s] = queue[s] /\ Keeps(s)
        BY <2>1, <2>2 DEF Keeps
    <2>3. ASSUME NEW e \in Event, Gains(s, e)
          PROVE  DemandingLast(queue'[s], running'[s])
        BY <1>1, <2>1, <2>3, OrderAppended DEF Gains, Keeps, MayGain
    <2>4. CASE Takes(s)
        <3>1. /\ queue[s] # <<>> /\ queue'[s] = Tail(queue[s])
              /\ running'[s] = IF Head(queue[s]).do = "ready" THEN serviceRole[s] # "Unknown"
                               ELSE running[s]
            BY <1>1, <2>1, <2>4 DEF Takes
        <3>2. Head(queue[s]).do = "ready" => serviceRole[s] # "Unknown"
            BY <2>1, <3>1, NewsFindRole
        <3>3. Head(queue[s]).do = "ready" => running'[s]
            BY <3>1, <3>2
        <3>4. Head(queue[s]).do # "ready" => (running'[s] <=> running[s])
            BY <3>1
        <3>5. DemandingLast(Tail(queue[s]), running'[s])
            BY <1>1, <2>1, <3>1, <3>3, <3>4, OrderTaken
        <3> QED
            BY <3>1, <3>5
    <2> QED
        BY <1>1, <2>1, <2>2, <2>3, <2>4 DEF QueueMoves
<1> QED
    BY <1>2, <1>3 DEF QueuesInOrder, PreliminaryFirst, DemandingLast

LEMMA RoleAppended ==
    ASSUME NEW q \in Seq(Event), NEW e \in Event, NEW r, NEW last
    PROVE  /\ RoleComes(q, r, last) /\ e.do # "role" => RoleComes(Append(q, e), r, last)
           /\ e.do = "role" /\ e.what = last => RoleComes(Append(q, e), r, last)
<1>1. /\ DOMAIN q = 1 .. Len(q) /\ Len(q) \in Nat /\ DOMAIN Append(q, e) = 1 .. (Len(q) + 1)
      /\ Append(q, e)[Len(q) + 1] = e
      /\ \A i \in 1 .. Len(q) : Append(q, e)[i] = q[i]
    BY AppendEvent
<1>2. ASSUME e.do = "role", e.what = last
      PROVE  RoleComes(Append(q, e), r, last)
    <2>1. /\ Len(q) + 1 \in DOMAIN Append(q, e) /\ Append(q, e)[Len(q) + 1].do = "role"
          /\ Append(q, e)[Len(q) + 1].what = last
          /\ \A j \in DOMAIN Append(q, e) : j <= Len(q) + 1
        BY <1>1, <1>2
    <2> QED
        BY <2>1 DEF RoleComes
<1>3. ASSUME e.do # "role", NEW i \in DOMAIN q, q[i].do = "role", q[i].what = last,
             \A j \in DOMAIN q : q[j].do = "role" => j <= i
      PROVE  RoleComes(Append(q, e), r, last)
    <2>1. /\ i \in DOMAIN Append(q, e) /\ Append(q, e)[i].do = "role"
          /\ Append(q, e)[i].what = last
          /\ \A j \in DOMAIN Append(q, e) : Append(q, e)[j].do = "role" => j <= i
        BY <1>1, <1>3
    <2> QED
        BY <2>1 DEF RoleComes
<1>4. ASSUME e.do # "role", r = last, \A j \in DOMAIN q : q[j].do # "role"
      PROVE  RoleComes(Append(q, e), r, last)
    BY <1>1, <1>4 DEF RoleComes
<1> QED
    BY <1>2, <1>3, <1>4 DEF RoleComes

LEMMA RoleTaken ==
    ASSUME NEW q \in Seq(Event), q # <<>>, NEW r, NEW last, RoleComes(q, r, last)
    PROVE  RoleComes(Tail(q), IF Head(q).do = "role" THEN Head(q).what ELSE r, last)
<1>1. /\ Len(q) \in Nat /\ Len(q) > 0
      /\ DOMAIN q = 1 .. Len(q) /\ DOMAIN Tail(q) = 1 .. (Len(q) - 1)
      /\ Head(q) = q[1]
      /\ \A i \in 1 .. (Len(q) - 1) : Tail(q)[i] = q[i + 1]
    BY TailEvents
<1>2. ASSUME NEW i \in DOMAIN q, q[i].do = "role", q[i].what = last,
             \A j \in DOMAIN q : q[j].do = "role" => j <= i
      PROVE  RoleComes(Tail(q), IF Head(q).do = "role" THEN Head(q).what ELSE r, last)
    <2>1. CASE i = 1
        <3>1. \A j \in DOMAIN Tail(q) : Tail(q)[j].do # "role"
            BY <1>1, <1>2, <2>1
        <3> QED
            BY <1>1, <1>2, <2>1, <3>1 DEF RoleComes
    <2>2. CASE i # 1
        <3>1. /\ i - 1 \in DOMAIN Tail(q) /\ Tail(q)[i - 1] = q[i]
              /\ \A j \in DOMAIN Tail(q) : Tail(q)[j].do = "role" => j <= i - 1
            BY <1>1, <1>2, <2>2
        <3> QED
            BY <1>2, <3>1 DEF RoleComes
    <2> QED
        BY <2>1, <2>2
<1>3. ASSUME r = last, \A j \in DOMAIN q : q[j].do # "role"
      PROVE  RoleComes(Tail(q), IF Head(q).do = "role" THEN Head(q).what ELSE r, last)
    <2>1. \A j \in DOMAIN Tail(q) : Tail(q)[j].do # "role"
        BY <1>1, <1>3
    <2>2. Head(q).do # "role"
        BY <1>1, <1>3
    <2> QED
        BY <1>3, <2>1, <2>2 DEF RoleComes
<1> QED
    BY <1>2, <1>3 DEF RoleComes

\* Roles and what runs have their types; media and control have the role of ClientApp.
LEMMA ServicesStep ==
    ASSUME StartupInv, [StartupNext]_startupVars
    PROVE  /\ role' \in Roles /\ online' \in BOOLEAN /\ p2pReady' \in BOOLEAN
           /\ serviceRole' \in [Services -> Roles]
           /\ running' \in [Services \cup {"main"} -> BOOLEAN]
           /\ \A s \in {"media", "control"} : serviceRole'[s] = role'
<1> DEFINE Goal == /\ role' \in Roles /\ online' \in BOOLEAN /\ p2pReady' \in BOOLEAN
                   /\ serviceRole' \in [Services -> Roles]
                   /\ running' \in [Services \cup {"main"} -> BOOLEAN]
                   /\ \A s \in {"media", "control"} : serviceRole'[s] = role'
<1>1. /\ role \in Roles /\ online \in BOOLEAN /\ p2pReady \in BOOLEAN
      /\ queue \in Queues /\ serviceRole \in [Services -> Roles]
      /\ running \in [Services \cup {"main"} -> BOOLEAN]
      /\ \A s \in {"media", "control"} : serviceRole[s] = role
    BY DEF StartupInv, StartupTypeOK, RolesArrive, Queues
<1>2. ASSUME NEW r \in {"Host", "Guest"}, NEW bound \in BOOLEAN, StartAs(r, bound)
      PROVE  Goal
    BY <1>1, <1>2 DEF StartAs, BlockingRoles, Roles, Services
<1>3. CASE MarkP2pReady
    BY <1>1, <1>3 DEF MarkP2pReady
<1>4. ASSUME UNCHANGED <<role, online, p2pReady, serviceRole, running>>
      PROVE  Goal
    BY <1>1, <1>4
<1>5. ASSUME NEW t \in Threads, Take(t)
      PROVE  Goal
    <2>0. PICK e : e = Head(queue[t])
        OBVIOUS
    <2>1. /\ queue[t] \in Seq(Event) /\ queue[t] # <<>>
        BY <1>1, <1>5 DEF Queues, Take
    <2>2. e \in Event /\ 1 \in DOMAIN queue[t] /\ queue[t][1] = e
        BY <2>0, <2>1, TailEvents
    <2>3. e.do = "role" => t \in {"audio", "input"} /\ e.what \in Roles
        BY <2>2 DEF StartupInv, QueuesFit, Fits, Roles
    <2>4. /\ UNCHANGED <<role, online, p2pReady>>
          /\ serviceRole' = IF e.do = "role" THEN [serviceRole EXCEPT ![t] = e.what]
                            ELSE serviceRole
          /\ running' = IF e.do # "ready" THEN running
                        ELSE [running EXCEPT ![t] =
                                IF t = "main" THEN role = "Host" ELSE serviceRole[t] # "Unknown"]
        BY <1>5, <2>0 DEF Take
    <2>5. running' \in [Services \cup {"main"} -> BOOLEAN]
        BY <1>1, <2>4
    <2>6. serviceRole' \in [Services -> Roles]
          /\ \A s \in {"media", "control"} : serviceRole'[s] = role'
        BY <1>1, <2>3, <2>4 DEF Services
    <2> QED
        BY <1>1, <2>4, <2>5, <2>6
<1>6. CASE \/ Tell \/ ScreenShot \/ CaptureAudio \/ CaptureInput \/ Click
           \/ \E k \in Kinds : SessionReceives(k)
    BY <1>4, <1>6 DEF Tell, ScreenShot, CaptureAudio, CaptureInput, Click, Begins,
                      SessionReceives
<1>7. CASE UNCHANGED startupVars
    BY <1>4, <1>7 DEF startupVars
<1> QED
    BY <1>2, <1>3, <1>5, <1>6, <1>7 DEF StartupNext

\* Only a start brings the application online.
LEMMA OnlineByStart ==
    ASSUME StartupInv, [StartupNext]_startupVars, ~online, online'
    PROVE  \E r \in {"Host", "Guest"} : StartAs(r, TRUE)
<1>1. ASSUME NEW r \in {"Host", "Guest"}, NEW bound \in BOOLEAN, StartAs(r, bound)
      PROVE  bound
    BY <1>1 DEF StartAs
<1>2. ~UNCHANGED online
    BY DEF StartupInv, StartupTypeOK
<1> QED
    BY <1>1, <1>2 DEF StartupNext, startupVars, MarkP2pReady, Tell, SessionReceives, Take,
                      ScreenShot, CaptureAudio, CaptureInput, Click, Begins

LEMMA RolesStep ==
    ASSUME StartupInv, [StartupNext]_startupVars, QueueMoves, StageMoves
    PROVE  RolesArrive'
<1>1. ASSUME NEW s \in {"audio", "input"}
      PROVE  s \in Threads /\ s \in Services /\ queue[s] \in Seq(Event)
    BY DEF StartupInv, StartupTypeOK, Threads, Services
<1>2. ASSUME online, NEW s \in {"audio", "input"}
      PROVE  RoleComes(queue'[s], serviceRole'[s], role')
    <2>1. RoleComes(queue[s], serviceRole[s], role) /\ role' = role
        BY <1>2 DEF StartupInv, RolesArrive, StageMoves
    <2>2. CASE queue'[s] = queue[s] /\ Keeps(s)
        BY <1>1, <2>1, <2>2 DEF Keeps
    <2>3. ASSUME NEW e \in Event, Gains(s, e)
          PROVE  RoleComes(queue'[s], serviceRole'[s], role')
        BY <1>1, <1>2, <2>1, <2>3, RoleAppended DEF Gains, Keeps, MayGain
    <2>4. CASE Takes(s)
        BY <1>1, <2>1, <2>4, RoleTaken DEF Takes
    <2> QED
        BY <1>1, <2>2, <2>3, <2>4 DEF QueueMoves
<1>3. ASSUME ~online, online', NEW s \in {"audio", "input"}
      PROVE  RoleComes(queue'[s], serviceRole'[s], role')
    <2>1. PICK r \in {"Host", "Guest"} : StartAs(r, TRUE)
        BY <1>3, OnlineByStart
    <2>2. role' = r /\ queue' = Post(queue, Give({"audio", "input"}, RoleEvent(r)))
        BY <2>1 DEF StartAs, Give, RolePosts
    <2>3. RoleEvent(r) \in Event /\ RoleEvent(r).do = "role" /\ RoleEvent(r).what = r
        BY EventTypes DEF Roles
    <2>4. queue \in Queues /\ {"audio", "input"} \in SUBSET Threads
        BY DEF StartupInv, StartupTypeOK, Queues, Threads, Services
    <2>5. queue'[s] = Append(queue[s], RoleEvent(r))
        BY <2>2, <2>3, <2>4, PostToSome
    <2> QED
        BY <1>1, <2>2, <2>3, <2>5, RoleAppended
<1>4. online \in BOOLEAN /\ online' \in BOOLEAN
      /\ \A s \in {"media", "control"} : serviceRole'[s] = role'
    BY ServicesStep DEF StartupInv, StartupTypeOK
<1> QED
    BY <1>2, <1>3, <1>4 DEF RolesArrive, RoleComes

-----------------------------------------------------------------------------
(* The invariant *)

LEMMA StartupInvInit == StartupInit => StartupInv
<1> SUFFICES ASSUME StartupInit PROVE StartupInv
    OBVIOUS
<1>1. /\ role = "Unknown" /\ ~online /\ ~p2pReady /\ toBeTold = <<>>
      /\ \A t \in Threads : queue[t] = <<>>
      /\ \A s \in Services : serviceRole[s] = "Unknown" /\ ~running[s]
    BY DEF StartupInit, Threads
<1>2. StartupTypeOK
    <2>1. queue \in [Threads -> Seq(Event)] /\ toBeTold \in Seq(Threads)
        <3>1. <<>> \in Seq(Event) /\ <<>> \in Seq(Threads)
            OBVIOUS
        <3> QED
            BY <3>1 DEF StartupInit
    <2>2. serviceRole \in [Services -> Roles] /\ role \in Roles
        BY DEF StartupInit, Roles
    <2>3. running \in [Services \cup {"main"} -> BOOLEAN]
        BY DEF StartupInit
    <2> QED
        BY <1>1, <2>1, <2>2, <2>3 DEF StartupInit, StartupTypeOK
<1>3. Stages
    BY <1>1 DEF Stages, Rests
<1>4. DOMAIN <<>> = {}
    OBVIOUS
<1>5. NewsArrives
    BY <1>1, <1>4 DEF NewsArrives, HasNews, Told, Threads
<1>6. RolesArrive
    BY <1>1 DEF RolesArrive, Services
<1>7. QueuesFit
    BY <1>1, <1>4 DEF QueuesFit
<1>8. QueuesInOrder
    BY <1>1, <1>4 DEF QueuesInOrder, PreliminaryFirst, DemandingLast, Threads, Services
<1> QED
    BY <1>2, <1>3, <1>5, <1>6, <1>7, <1>8 DEF StartupInv

LEMMA StartupInvNext == StartupInv /\ [StartupNext]_startupVars => StartupInv'
<1> SUFFICES ASSUME StartupInv, [StartupNext]_startupVars PROVE StartupInv'
    OBVIOUS
<1>1. QueueMoves /\ StageMoves /\ queue' \in Queues
    BY StepMoves
<1>2. Stages' /\ toBeTold' \in Rests
    BY <1>1 DEF StageMoves, Stages
<1>3. toBeTold' \in Seq(Threads)
    <2>1. toBeTold' \in Seq({"main", "media", "control", "audio", "input"})
        BY <1>2, RestShapes
    <2>2. {"main", "media", "control", "audio", "input"} \subseteq Threads
        BY DEF Threads, Services
    <2> QED
        BY <2>1, <2>2
<1>4. StartupTypeOK'
    BY <1>1, <1>3, ServicesStep DEF StartupTypeOK, Queues
<1>5. NewsArrives'
    BY <1>1, NewsStep
<1>6. RolesArrive'
    BY <1>1, RolesStep
<1>7. QueuesFit'
    BY <1>1, FitStep
<1>8. QueuesInOrder'
    BY <1>1, ServicesStep, OrderStep
<1> QED
    BY <1>2, <1>4, <1>5, <1>6, <1>7, <1>8 DEF StartupInv

\* The services' queues hold what they should, in an order in which they can be taken.
THEOREM StartupInvHolds == StartupSpec => []StartupInv
<1>1. StartupInit => StartupInv
    BY StartupInvInit
<1>2. StartupInv /\ [StartupNext]_startupVars => StartupInv'
    BY StartupInvNext
<1> QED
    BY <1>1, <1>2, PTL DEF StartupSpec

\* The threads of the client only ever find events in their queues, services roles.
THEOREM StartupTypeIsOK == StartupSpec => []StartupTypeOK
<1>1. StartupInv => StartupTypeOK
    BY DEF StartupInv
<1> QED
    BY <1>1, StartupInvHolds, PTL

\* Media and control refuse nothing but what came too early, whatever the other
\* threads do while the session is still telling them (connectCommonSignals).
THEOREM RefusedIsEarly == StartupSpec => []RefusedOnlyEarly
<1>1. StartupInv => RefusedOnlyEarly
    <2> SUFFICES ASSUME StartupInv, NEW s \in {"media", "control"}, queue[s] # <<>>,
                        NEW e, e = Head(queue[s]),
                        e.do \in {"send", "receive"}, ~Accepts(s, e), ~e.early,
                        ~(e.do = "send" /\ e.what \in {"video", "mouse"})
                 PROVE  FALSE
        BY DEF RefusedOnlyEarly
    <2>1. s \in Threads /\ s \in Services /\ queue[s] \in Seq(Event)
        BY DEF StartupInv, StartupTypeOK, Threads, Services
    <2>2. /\ e \in Event /\ 1 \in DOMAIN queue[s] /\ queue[s][1] = e
          /\ \A j \in DOMAIN queue[s] : ~(j < 1)
        BY <2>1, TailEvents
    <2>3. Demanding(e) /\ Fits(s, e)
        BY <2>1, <2>2 DEF Demanding, StartupInv, QueuesFit
    <2>4. running[s]
        BY <2>2, <2>3 DEF StartupInv, QueuesInOrder, DemandingLast
    <2>5. serviceRole[s] = role /\ role # "Unknown"
        BY <2>1, <2>4 DEF StartupInv, RolesArrive, NewsArrives, Stages, Told
    <2>6. e.do = "send" /\ ~MaySend(s, e.what)
        BY <2>4, <2>5 DEF Accepts
    <2>7. s = "media" => e.what \in MediaKinds
        BY <2>3, <2>6 DEF Fits
    <2>8. s = "control" => \/ e.what \in {"input", "mouse", "report"}
                           \/ e.what = "keyFrameRequest" /\ role = "Guest"
        BY <2>3, <2>6 DEF Fits
    <2> QED
        BY <2>5, <2>6, <2>7, <2>8 DEF MaySend
<1> QED
    BY <1>1, StartupInvHolds, PTL

\* Whatever runs has the role the application was last started in, also when an
\* earlier start failed and its roles were still queued (startAsHost, startAsGuest).
THEOREM RunningInRole == StartupSpec => []RunningHasRole
<1>1. StartupInv => RunningHasRole
    <2> SUFFICES ASSUME StartupInv, NEW s \in Services, running[s]
                 PROVE  serviceRole[s] = role
        BY DEF RunningHasRole
    <2>1. online
        BY DEF StartupInv, NewsArrives, Told, Stages
    <2>2. CASE s \in {"media", "control"}
        BY <2>2 DEF StartupInv, RolesArrive
    <2>3. CASE s \in {"audio", "input"}
        <3>1. \A i \in DOMAIN queue[s] : queue[s][i].do # "role"
            BY DEF StartupInv, QueuesInOrder, PreliminaryFirst, Preliminary
        <3>2. RoleComes(queue[s], serviceRole[s], role)
            BY <2>1, <2>3 DEF StartupInv, RolesArrive
        <3> QED
            BY <3>1, <3>2 DEF RoleComes
    <2> QED
        BY <2>2, <2>3 DEF Services
<1> QED
    BY <1>1, StartupInvHolds, PTL

\* When the session is ready and everybody has taken what was posted, every service
\* runs and the host's screen is captured: no order of roles and news leaves one
\* behind that nobody will start any more (the safety half of ReadyStartsAll).
THEOREM AllRunAtRest ==
    StartupSpec =>
        [](AllTold /\ (\A t \in Services \cup {"main"} : queue[t] = <<>>) =>
              (\A s \in Services : running[s]) /\ (running["main"] <=> role = "Host"))
<1>1. StartupInv =>
        (AllTold /\ (\A t \in Services \cup {"main"} : queue[t] = <<>>) =>
              (\A s \in Services : running[s]) /\ (running["main"] <=> role = "Host"))
    <2> SUFFICES ASSUME StartupInv, AllTold, \A t \in Services \cup {"main"} : queue[t] = <<>>
                 PROVE  (\A s \in Services : running[s]) /\ (running["main"] <=> role = "Host")
        OBVIOUS
    <2>1. \A t \in Services \cup {"main"} : Told(t) /\ ~HasNews(queue[t])
        BY DEF AllTold, Told, HasNews
    <2> QED
        BY <2>1 DEF StartupInv, NewsArrives
<1> QED
    BY <1>1, StartupInvHolds, PTL
=============================================================================
