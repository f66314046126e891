--------------------------- MODULE UdpReassembly ---------------------------
(***************************************************************************)
(* Frames over UDP: P2pUdpTransport numbers and fragments them, the path   *)
(* loses, duplicates and reorders the packets, and UdpFrameReassembler     *)
(* puts them together again inside a window of recent frames.              *)
(*                                                                         *)
(* One sender (address and port) is modelled; the code keeps one such      *)
(* state per sender.  A packet is its header: fragmentCount also stands    *)
(* for the other fields a buffer compares (channel and type).  Payloads    *)
(* are never empty.  frameSeq is a quint32: MaxFrames is below the wrap.   *)
(***************************************************************************)
EXTENDS Naturals, FiniteSets

CONSTANTS
    MaxFrames,          \* bound on the frames one life of the sender numbers
    MaxFragments,       \* bound on the fragments of a frame
    MaxPackets,         \* bound on the packets sent
    MaxFrameLag,        \* PeerState::MaxFrameLag
    MaxPendingFrames,   \* PeerState::MaxPendingFramesPerPeer
    MaxRestarts,        \* bound on the restarts of the sender
    MaxDuplicates       \* bound on the packets that arrive twice

ASSUME MaxFramesAssumption == MaxFrames \in Nat \ {0}
ASSUME MaxFragmentsAssumption == MaxFragments \in Nat \ {0}
ASSUME WindowAssumption ==
    MaxFrameLag \in Nat /\ MaxPendingFrames \in Nat /\ MaxFrameLag < MaxPendingFrames
ASSUME BoundsAssumption == MaxPackets \in Nat /\ MaxRestarts \in Nat /\ MaxDuplicates \in Nat

VARIABLES
    nextFrameSeq,       \* P2pUdpTransport::nextFrameSeq_ of the sender
    restarts,           \* how often the sender has restarted
    network,            \* packets sent: the path may lose, repeat or delay each
    latestSeenSeq,      \* PeerState::latestSeenSeq (0 until a packet is seen)
    pendingFrame,       \* packets stored in the buffers of PeerState::pendingFrame_
    arrivals,           \* history: how often each packet was pushed
    emissions           \* history: how often each frame was emitted

senderVars == <<nextFrameSeq, restarts>>
receiverVars == <<latestSeenSeq, pendingFrame, arrivals, emissions>>
vars == <<senderVars, network, receiverVars>>

Seqs == 0 .. MaxFrames - 1
Counts == 1 .. MaxFragments

\* A frame is known by its seq and fragment count, a packet also by its place.
Frames == Seqs \X Counts
Seq(p) == p[1]
Count(p) == p[2]
Frag(p) == p[3]
Packets == {p \in Seqs \X Counts \X (0 .. MaxFragments - 1) : Frag(p) < Count(p)}
Fragments(s, c) == {p \in Packets : Seq(p) = s /\ Count(p) = c}

TypeOK ==
    /\ nextFrameSeq \in 0 .. MaxFrames
    /\ restarts \in 0 .. MaxRestarts
    /\ network \subseteq Packets
    /\ latestSeenSeq \in Seqs
    /\ pendingFrame \subseteq Packets
    /\ arrivals \in [Packets -> Nat]
    /\ emissions \in [Frames -> Nat]

Init ==
    /\ nextFrameSeq = 0
    /\ restarts = 0
    /\ network = {}
    /\ latestSeenSeq = 0
    /\ pendingFrame = {}
    /\ arrivals = [p \in Packets |-> 0]
    /\ emissions = [f \in Frames |-> 0]

-----------------------------------------------------------------------------
(* The sender: sendFrame and sendFrameTo share one frame number.  A frame    *)
(* that goes elsewhere (a probe, a punch to a neighbouring port) is to this  *)
(* receiver a frame all of whose packets are lost.                           *)

SendFrame(c) ==
    /\ nextFrameSeq < MaxFrames
    /\ Cardinality(network \cup Fragments(nextFrameSeq, c)) <= MaxPackets
    /\ nextFrameSeq' = nextFrameSeq + 1
    /\ network' = network \cup Fragments(nextFrameSeq, c)
    /\ UNCHANGED <<restarts, receiverVars>>

\* The peer's program starts again on the same port and numbers from 0, while
\* this side, and packets of its previous life, are still there.
RestartSender ==
    /\ restarts < MaxRestarts
    /\ restarts' = restarts + 1
    /\ nextFrameSeq' = 0
    /\ UNCHANGED <<network, receiverVars>>

-----------------------------------------------------------------------------
(* The receiver: UdpFrameReassembler::pushPacket, one action per outcome. *)

Newest(p) == IF Seq(p) > latestSeenSeq THEN Seq(p) ELSE latestSeenSeq

\* Fault: the oldest frame of the window is already too old.
MinAllowedSeq_OffByOne(latest) ==
    IF latest > MaxFrameLag THEN latest - MaxFrameLag + 1 ELSE 0

MinAllowedSeq(latest) == IF latest > MaxFrameLag THEN latest - MaxFrameLag ELSE 0

\* Fault: old frames are not purged.
Purged_Nothing(latest) == pendingFrame

Purged(latest) == {q \in pendingFrame : Seq(q) >= MinAllowedSeq(latest)}

\* The oldest frames go until MaxPendingFrames are left.
Capped(buffers) ==
    {q \in buffers :
        Cardinality({Seq(r) : r \in {r \in buffers : Seq(r) > Seq(q)}}) < MaxPendingFrames}

Kept(p) == Capped(Purged(Newest(p)))
Buffer(p) == {q \in Kept(p) : Seq(q) = Seq(p)}

\* The path hands over p: never (p is lost), once or again, in any order.
Push(p) ==
    /\ p \in network
    /\ \/ arrivals[p] = 0
       \/ arrivals[p] = 1 /\ Cardinality({q \in Packets : arrivals[q] > 1}) < MaxDuplicates
    /\ arrivals' = [arrivals EXCEPT ![p] = @ + 1]
    /\ latestSeenSeq' = Newest(p)
    /\ UNCHANGED <<senderVars, network>>

TooOld(p) == Seq(p) < MinAllowedSeq(Newest(p))

\* Fault: the headers of the fragments are not compared.
Rejected_AnyHeader(p) == \E q \in Buffer(p) : Frag(q) = Frag(p)

\* The buffer belongs to a frame with another header, or holds the fragment.
Rejected(p) == \E q \in Buffer(p) : Count(q) # Count(p) \/ Frag(q) = Frag(p)

\* receivedCount, which counts each fragment once, reaches fragmentCount.
Completes(p) == Fragments(Seq(p), Count(p)) \subseteq Buffer(p) \cup {p}

PushTooOld(p) ==
    /\ Push(p)
    /\ TooOld(p)
    /\ UNCHANGED <<pendingFrame, emissions>>

PushRejected(p) ==
    /\ Push(p)
    /\ ~TooOld(p)
    /\ Rejected(p)
    /\ pendingFrame' = Kept(p)
    /\ UNCHANGED emissions

PushStored(p) ==
    /\ Push(p)
    /\ ~TooOld(p)
    /\ ~Rejected(p)
    /\ ~Completes(p)
    /\ pendingFrame' = Kept(p) \cup {p}
    /\ UNCHANGED emissions

\* Fault: the buffer of an emitted frame is not removed.
PushCompletes_KeepsBuffer(p) ==
    /\ Push(p)
    /\ ~TooOld(p)
    /\ ~Rejected(p)
    /\ Completes(p)
    /\ pendingFrame' = Kept(p)
    /\ emissions' = [emissions EXCEPT ![<<Seq(p), Count(p)>>] = @ + 1]

PushCompletes(p) ==
    /\ Push(p)
    /\ ~TooOld(p)
    /\ ~Rejected(p)
    /\ Completes(p)
    /\ pendingFrame' = Kept(p) \ Buffer(p)
    /\ emissions' = [emissions EXCEPT ![<<Seq(p), Count(p)>>] = @ + 1]

Next ==
    \/ \E c \in Counts : SendFrame(c)
    \/ RestartSender
    \/ \E p \in network :
        \/ PushTooOld(p)
        \/ PushRejected(p)
        \/ PushStored(p)
        \/ PushCompletes(p)

Spec == Init /\ [][Next]_vars

-----------------------------------------------------------------------------
\* The window: the newest frame seen and the MaxFrameLag frames before it.
InWindow(s) == s <= latestSeenSeq /\ latestSeenSeq <= s + MaxFrameLag

\* What is buffered lies in the window, whatever was lost on the way: pushPacket
\* needs no other bound, and its limit on the number of frames never applies.
PendingBounded ==
    /\ \A p \in pendingFrame : InWindow(Seq(p))
    /\ Cardinality({Seq(p) : p \in pendingFrame}) <= MaxFrameLag + 1
    /\ Capped(pendingFrame) = pendingFrame

\* The fragments of one buffer are of one frame, and the frame is not complete:
\* restarts and late duplicates never leave fragments of different shapes in a
\* buffer, nor a complete frame that no later packet would release.
BuffersConsistent ==
    \A p, q \in pendingFrame :
        Seq(p) = Seq(q) =>
            /\ Count(p) = Count(q)
            /\ \E f \in Fragments(Seq(p), Count(p)) : f \notin pendingFrame

\* An emission uses up one arrival of each fragment of the frame, and so does a
\* buffered fragment: only a frame all of whose packets were duplicated can be
\* emitted twice.
EmittedFromArrivals ==
    \A p \in Packets :
        emissions[<<Seq(p), Count(p)>>] + (IF p \in pendingFrame THEN 1 ELSE 0) <= arrivals[p]

\* Whatever the order of arrival and the losses around it, a frame in the
\* window all of whose fragments have arrived has been emitted, unless packets
\* of another frame came under its number (a restarted sender's).
InWindowComplete ==
    \A s \in Seqs, c \in Counts :
        (/\ InWindow(s)
         /\ \A p \in Fragments(s, c) : arrivals[p] > 0
         /\ \A p \in Packets : Seq(p) = s /\ arrivals[p] > 0 => Count(p) = c)
        => emissions[<<s, c>>] > 0
=============================================================================
