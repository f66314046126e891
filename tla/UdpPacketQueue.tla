--------------------------- MODULE UdpPacketQueue ---------------------------
(***************************************************************************)
(* UdpPacketQueue: packets wait in two queues, control and media, and a    *)
(* timer sends up to packetsPerTick of each per tick, control first.       *)
(*                                                                         *)
(* The queue lives in the thread of P2pSessionWorker, which neither        *)
(* enqueues nor calls setTick during a tick; but a tick makes many calls   *)
(* to the socket, any of which may fail, so each call is a step.  Packets  *)
(* are numbered in the order in which their channel queued them.           *)
(***************************************************************************)
EXTENDS Naturals, Sequences, FiniteSets

CONSTANTS
    MaxPackets,         \* bound on the packets queued on each channel
    FrameSizes,         \* numbers of packets of a frame
    TickSizes           \* values of packetsPerTick

ASSUME PacketsAssumption == MaxPackets \in Nat /\ FrameSizes \subseteq Nat \ {0}
ASSUME TickSizesAssumption == TickSizes \subseteq Nat /\ TickSizes # {}

VARIABLES
    controlQueue, mediaQueue,
    timer,              \* timer_.isActive()
    packetsPerTick,
    phase,              \* the loop sendPacketPerTick is in
    sent,               \* local variable of that loop
    queued,             \* history: packets queued so far on each channel
    controlWire, mediaWire  \* history: packets written, in order

queues == <<controlQueue, mediaQueue>>
wires == <<controlWire, mediaWire>>
vars == <<queues, timer, packetsPerTick, phase, sent, queued, wires>>

Packets == 1 .. MaxPackets

TypeOK ==
    /\ controlQueue \in Seq(Packets) /\ mediaQueue \in Seq(Packets)
    /\ timer \in BOOLEAN
    /\ packetsPerTick \in TickSizes
    /\ phase \in {"idle", "control", "media"}
    /\ sent \in Nat
    /\ queued \in [{"control", "media"} -> 0 .. MaxPackets]
    /\ controlWire \in Seq(Packets) /\ mediaWire \in Seq(Packets)

Init ==
    /\ controlQueue = <<>> /\ mediaQueue = <<>>
    /\ timer = FALSE
    /\ packetsPerTick \in TickSizes
    /\ phase = "idle"
    /\ sent = 0
    /\ queued = [c \in {"control", "media"} |-> 0]
    /\ controlWire = <<>> /\ mediaWire = <<>>

-----------------------------------------------------------------------------
\* Fault: the packets of a new frame are put in front.
Enqueued_InFront(queue, packets) == packets \o queue

Enqueued(queue, packets) == queue \o packets

\* The next n packets of channel c.
Frame(c, n) == [i \in 1 .. n |-> queued[c] + i]

\* onPacketsReadyToSend with the n packets of a frame; starts the timer.
OnPacketsReadyToSend(c, n) ==
    /\ phase = "idle"
    /\ queued[c] + n <= MaxPackets
    /\ queued' = [queued EXCEPT ![c] = @ + n]
    /\ controlQueue' = IF c = "control" THEN Enqueued(controlQueue, Frame(c, n)) ELSE controlQueue
    /\ mediaQueue' = IF c = "media" THEN Enqueued(mediaQueue, Frame(c, n)) ELSE mediaQueue
    /\ timer' = TRUE
    /\ UNCHANGED <<packetsPerTick, phase, sent, wires>>

SetTick(n) ==
    /\ phase = "idle"
    /\ packetsPerTick' = n
    /\ UNCHANGED <<queues, timer, phase, sent, queued, wires>>

-----------------------------------------------------------------------------
(* sendPacketPerTick: one step per call to writePacket. *)

StartTick ==
    /\ timer
    /\ phase = "idle"
    /\ phase' = "control"
    /\ sent' = 0
    /\ UNCHANGED <<queues, timer, packetsPerTick, queued, wires>>

MaySend(queue) == queue # <<>> /\ sent < packetsPerTick

WriteControl ==
    /\ phase = "control"
    /\ MaySend(controlQueue)
    /\ controlQueue' = Tail(controlQueue)
    /\ controlWire' = Append(controlWire, Head(controlQueue))
    /\ sent' = sent + 1
    /\ UNCHANGED <<mediaQueue, timer, packetsPerTick, phase, queued, mediaWire>>

\* A control packet the socket does not take is gone, and the loop goes on.
FailControl ==
    /\ phase = "control"
    /\ MaySend(controlQueue)
    /\ controlQueue' = Tail(controlQueue)
    /\ UNCHANGED <<mediaQueue, timer, packetsPerTick, phase, sent, queued, wires>>

EndControl ==
    /\ phase = "control"
    /\ ~MaySend(controlQueue)
    /\ phase' = "media"
    /\ sent' = 0
    /\ UNCHANGED <<queues, timer, packetsPerTick, queued, wires>>

WriteMedia ==
    /\ phase = "media"
    /\ MaySend(mediaQueue)
    /\ mediaQueue' = Tail(mediaQueue)
    /\ mediaWire' = Append(mediaWire, Head(mediaQueue))
    /\ sent' = sent + 1
    /\ UNCHANGED <<controlQueue, timer, packetsPerTick, phase, queued, controlWire>>

\* Fault: a media packet the socket does not take is gone.
Requeued_Dropped(queue) == Tail(queue)

Requeued(queue) == Append(Tail(queue), Head(queue))

\* A media packet the socket does not take goes to the end of the queue, the
\* encoder is told (sendBlock), and the loop goes on.
FailMedia ==
    /\ phase = "media"
    /\ MaySend(mediaQueue)
    /\ mediaQueue' = Requeued(mediaQueue)
    /\ UNCHANGED <<controlQueue, timer, packetsPerTick, phase, sent, queued, wires>>

\* Fault: the timer looks at the control queue only.
StaysActive_ControlOnly == controlQueue # <<>>

StaysActive == controlQueue # <<>> \/ mediaQueue # <<>>

EndTick ==
    /\ phase = "media"
    /\ ~MaySend(mediaQueue)
    /\ phase' = "idle"
    /\ timer' = StaysActive
    /\ UNCHANGED <<queues, packetsPerTick, sent, queued, wires>>

Next ==
    \/ \E c \in {"control", "media"}, n \in FrameSizes : OnPacketsReadyToSend(c, n)
    \/ \E n \in TickSizes : SetTick(n)
    \/ StartTick
    \/ WriteControl \/ FailControl \/ EndControl
    \/ WriteMedia \/ FailMedia \/ EndTick

Spec == Init /\ [][Next]_vars

\* The timer fires, a loop takes its next step, and the socket does not refuse
\* media packets for ever.
Fairness ==
    /\ WF_vars(StartTick)
    /\ WF_vars(WriteControl \/ FailControl \/ EndControl)
    /\ WF_vars(EndTick)
    /\ SF_vars(WriteMedia)

FairSpec == Spec /\ Fairness

-----------------------------------------------------------------------------
Elements(seq) == {seq[i] : i \in DOMAIN seq}

\* The header says that no media packet is dropped: however often the socket
\* refuses, every packet is in the queue or was written, and only once.
MediaNotLost ==
    /\ Elements(mediaQueue) \cup Elements(mediaWire) = 1 .. queued["media"]
    /\ Len(mediaQueue) + Len(mediaWire) = queued["media"]

\* Control packets are written in the order in which they were queued, even
\* when some between them are refused.
ControlInOrder ==
    \A i, j \in DOMAIN controlWire : i < j => controlWire[i] < controlWire[j]

\* Nothing waits in a queue that no timer will look at.
QueuedIsTicking == controlQueue # <<>> \/ mediaQueue # <<>> => timer

\* A media packet waits only for its turn: unless packetsPerTick stays 0 (what
\* a low bitrate makes it) the queue drains.
MediaDrains == <>[](packetsPerTick > 0) => (mediaQueue # <<>> ~> mediaQueue = <<>>)
=============================================================================
