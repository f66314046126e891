---------------------------- MODULE RateControl ----------------------------
(***************************************************************************)
(* RateControl: the loop that adapts the bitrate of the video.             *)
(*                                                                         *)
(* The guest counts the frames of a period (ReceiverMonitorWorker) and     *)
(* reports them; the host lowers the bitrate when a report tells of a high *)
(* loss or the socket refuses a packet, and raises it when a timer finds   *)
(* the network idle (RateController).  The encoder's thread computes the   *)
(* new bitrate (VideoEncoderWorker::onTargetBitrateChanged), and the       *)
(* session's thread derives from it how many packets a tick may send       *)
(* (P2pSessionWorker::onChangePacketsPerTick).  When that is 0, no frame   *)
(* reaches the guest, and a period without frames is not reported.         *)
(*                                                                         *)
(* Frame numbers are offsets from the first frame of the period.           *)
(***************************************************************************)
EXTENDS Integers, FiniteSets, FiniteSetsExt

CONSTANTS
    InitialBitrates,            \* values of h264BitrateKbps
    BitrateMin, BitrateMax,     \* bitrateKbpsMin_, bitrateKbpsMax_
    UpNum, UpDen, DownNum, DownDen,     \* upRate and downRate
    InitialPacketsPerTick,      \* udpPacketsPerTick
    Pace, PacketSize,           \* bitrate * Pace \div PacketSize packets per tick
    Width,                      \* 2^16: the bitrate and the packets are sent as quint16
    CoolPeriod, IdlePeriod,     \* coolPeriodMs_, idlePeriodMs_ in ticks of the clock
    LossLow, LossHigh,          \* in per cent
    CountWidth,                 \* 2^32: the monitor computes with quint32
    MaxLate, MaxAhead,          \* bounds on the numbers of a period, relative to its first
    MaxFrames                   \* bound on the frames of a period

ASSUME BitrateAssumption ==
    /\ InitialBitrates \subseteq Nat /\ InitialBitrates # {}
    /\ BitrateMin \in Nat /\ BitrateMax \in Nat /\ BitrateMin <= BitrateMax
ASSUME RateAssumption ==
    /\ UpNum \in Nat /\ UpDen \in Nat \ {0} /\ UpNum > UpDen
    /\ DownNum \in Nat /\ DownDen \in Nat \ {0} /\ DownNum <= DownDen
ASSUME PaceAssumption ==
    /\ Pace \in Nat /\ PacketSize \in Nat \ {0} /\ Width \in Nat \ {0}
    /\ InitialPacketsPerTick \in Nat
ASSUME PeriodAssumption == CoolPeriod \in Nat /\ IdlePeriod \in Nat
ASSUME CountAssumption ==
    /\ LossLow \in Nat /\ LossHigh \in Nat /\ LossLow <= LossHigh
    /\ CountWidth \in Nat \ {0} /\ MaxLate \in Nat /\ MaxAhead \in Nat /\ MaxFrames \in Nat

VARIABLES
    bitrate, initial,       \* h264BitrateKbps_, and its first value
    packetsPerTick,
    rateChanges,            \* targetBitrateChanged on its way to the encoder's thread
    paceChange,             \* changePacketsPerTick on its way to the session's thread
    coolLeft, idleLeft,     \* time until coolBeginMs_, lastBlockedMs_ are old enough
    sinceLowered,           \* history: time since the controller last lowered
    loss,                   \* lastLoss_ as the thresholds see it, "none" without hasLoss_
    seen, last, count,      \* the period: offsets seen (history), seqMax_, receivedCount_
    healed                  \* the network is good from now on

controller == <<coolLeft, idleLeft, sinceLowered, loss>>
monitor == <<seen, last, count>>
events == <<rateChanges, paceChange>>
vars == <<bitrate, initial, packetsPerTick, events, controller, monitor, healed>>

None == -1

Offsets == -MaxLate .. MaxAhead

Ceiling == IF initial > BitrateMax THEN initial ELSE BitrateMax
Floor == IF initial < BitrateMin \div 2 THEN initial ELSE BitrateMin \div 2

TypeOK ==
    /\ bitrate \in Nat /\ initial \in InitialBitrates
    /\ packetsPerTick \in Nat
    /\ rateChanges \in {"none", "up", "down"}
    /\ paceChange \in Nat \cup {None}
    /\ coolLeft \in 0 .. CoolPeriod + 1
    /\ idleLeft \in 0 .. IdlePeriod
    /\ sinceLowered \in 0 .. CoolPeriod + 1
    /\ loss \in {"none", "low", "middle", "high"}
    /\ seen \subseteq Offsets /\ last \in Offsets /\ count \in 0 .. MaxFrames
    /\ healed \in BOOLEAN

-----------------------------------------------------------------------------
(* VideoEncoderWorker::onTargetBitrateChanged and onChangePacketsPerTick *)

\* Fault: raising is not slowed down near the maximum.
Raised_NoBrake(r) == (r * UpNum) \div UpDen

\* Fault: half the maximum instead of half the distance to it.
Raised_HalfMax(r) ==
    LET grown == (r * UpNum) \div UpDen
        halfway == BitrateMax \div 2
    IN IF grown < halfway THEN grown ELSE halfway

\* rate > 1: half the distance to the maximum at most.
Raised(r) ==
    LET grown == (r * UpNum) \div UpDen
        halfway == (BitrateMax + r) \div 2
    IN IF grown < halfway THEN grown ELSE halfway

\* Otherwise: not below half the minimum.
Lowered(r) ==
    LET shrunk == (r * DownNum) \div DownDen
        floor == BitrateMin \div 2
    IN IF shrunk > floor THEN shrunk ELSE floor

\* kPace_ * bitRate * udpFlushIntervalMs_ / 8 / MaxPayloadSize, from a bitrate
\* that was cut to 16 bits.
PacketsFor(r) == ((Pace * (r % Width)) \div PacketSize) % Width

OnTargetBitrateChanged ==
    /\ rateChanges # "none"
    /\ paceChange = None                    \* bound: one change at a time is on its way
    /\ bitrate' = IF rateChanges = "up" THEN Raised(bitrate) ELSE Lowered(bitrate)
    /\ rateChanges' = "none"
    /\ paceChange' = bitrate'
    /\ UNCHANGED <<initial, packetsPerTick, controller, monitor, healed>>

OnChangePacketsPerTick ==
    /\ paceChange # None
    /\ packetsPerTick' = PacketsFor(paceChange)
    /\ paceChange' = None
    /\ UNCHANGED <<bitrate, initial, rateChanges, controller, monitor, healed>>

-----------------------------------------------------------------------------
(* RateController.  Bound: it waits for the encoder to take the last change. *)

Init ==
    /\ initial \in InitialBitrates
    /\ bitrate = initial
    /\ packetsPerTick = InitialPacketsPerTick
    /\ rateChanges = "none" /\ paceChange = None
    /\ coolLeft = 0 /\ idleLeft = 0 /\ sinceLowered = CoolPeriod + 1
    /\ loss = "none"
    /\ seen = {} /\ last = 0 /\ count = 0
    /\ healed = FALSE

CoolAfterLoss == CoolPeriod + 1

Lower ==
    /\ rateChanges' = "down"
    /\ sinceLowered' = 0

\* The socket refused a media packet.
OnSendBlock ==
    /\ ~healed
    /\ packetsPerTick > 0
    /\ rateChanges = "none"
    /\ Lower
    /\ coolLeft' = CoolPeriod + 1
    /\ idleLeft' = IdlePeriod
    /\ UNCHANGED <<bitrate, initial, packetsPerTick, paceChange, loss, monitor, healed>>

\* lossRate() of a report as the thresholds see it; nothing expected is no loss.
LossOf(expected, received) ==
    LET lost == 100 * (expected - received)
    IN  IF expected = 0 \/ lost < LossLow * expected THEN "low"
        ELSE IF lost < LossHigh * expected THEN "middle" ELSE "high"

OnReceiverReport(expected, received) ==
    /\ loss' = LossOf(expected, received)
    /\ UNCHANGED idleLeft
    /\ \/ /\ loss' = "high"
          /\ rateChanges = "none"
          /\ Lower
          /\ coolLeft' = CoolAfterLoss
       \/ /\ loss' # "high"
          /\ UNCHANGED <<rateChanges, coolLeft, sinceLowered>>

\* Fault: the timer forgets the cooling.
MayRaise_Hot == idleLeft = 0 /\ loss = "low"

MayRaise == coolLeft = 0 /\ idleLeft = 0 /\ loss = "low"

\* The timer finds the network idle: the bitrate is raised, and cooling starts.
OnProbeTick ==
    /\ MayRaise
    /\ rateChanges = "none"
    /\ rateChanges' = "up"
    /\ coolLeft' = CoolPeriod + 1
    /\ UNCHANGED <<bitrate, initial, packetsPerTick, paceChange, idleLeft, sinceLowered,
                   loss, monitor, healed>>

-----------------------------------------------------------------------------
(* ReceiverMonitorWorker *)

hasFirstSeq == seen # {}

\* What a network that has not healed may do to the frames: lose some, deliver
\* them late or twice.
MayArrive(o) ==
    IF ~hasFirstSeq THEN o = 0
    ELSE IF healed THEN o = Max(seen) + 1 ELSE o <= Max(seen) + 2

\* The next frame arrives, o after the first of the period.
OnVideoSample(o) ==
    /\ packetsPerTick > 0
    /\ MayArrive(o)
    /\ count < MaxFrames
    /\ seen' = seen \cup {o}
    /\ last' = o
    /\ count' = count + 1
    /\ UNCHANGED <<bitrate, initial, packetsPerTick, events, controller, healed>>

\* Fault: one frame too many is expected.
Expected_OneMore == (last + 2) % CountWidth

\* seqMax_ - seqMin_ + 1 in 32 bits, where seqMax_ is the last number.
Expected == (last + 1) % CountWidth

\* The report reaches the controller, or is lost on the way; the next period begins.
OnSettleTick(arrives) ==
    /\ hasFirstSeq
    /\ IF arrives THEN OnReceiverReport(Expected, count)
       ELSE ~healed /\ UNCHANGED <<rateChanges, controller>>
    /\ seen' = {} /\ last' = 0 /\ count' = 0
    /\ UNCHANGED <<bitrate, initial, packetsPerTick, paceChange, healed>>

-----------------------------------------------------------------------------
Less(n) == IF n = 0 THEN 0 ELSE n - 1

Tick ==
    /\ coolLeft > 0 \/ idleLeft > 0 \/ sinceLowered <= CoolPeriod
    /\ coolLeft' = Less(coolLeft)
    /\ idleLeft' = Less(idleLeft)
    /\ sinceLowered' = IF sinceLowered <= CoolPeriod THEN sinceLowered + 1 ELSE sinceLowered
    /\ UNCHANGED <<bitrate, initial, packetsPerTick, events, loss, monitor, healed>>

NetworkHeals ==
    /\ ~healed
    /\ healed' = TRUE
    /\ UNCHANGED <<bitrate, initial, packetsPerTick, events, controller, monitor>>

Next ==
    \/ OnTargetBitrateChanged
    \/ OnChangePacketsPerTick
    \/ OnSendBlock
    \/ OnProbeTick
    \/ \E o \in Offsets : OnVideoSample(o)
    \/ \E arrives \in BOOLEAN : OnSettleTick(arrives)
    \/ Tick
    \/ NetworkHeals

Spec == Init /\ [][Next]_vars

\* Threads take their events, timers fire, frames are captured; and the network
\* heals some time.
Fairness ==
    /\ WF_vars(OnTargetBitrateChanged) /\ WF_vars(OnChangePacketsPerTick)
    /\ WF_vars(OnProbeTick) /\ WF_vars(Tick)
    /\ WF_vars(\E o \in Offsets : OnVideoSample(o))
    /\ SF_vars(OnSettleTick(TRUE))
    /\ WF_vars(NetworkHeals)

FairSpec == Spec /\ Fairness

-----------------------------------------------------------------------------
\* However signals, reports and the timer interleave, the bitrate stays between
\* half the minimum and the maximum (or where it started, outside of them).
BitrateInRange == Floor <= bitrate /\ bitrate <= Ceiling

\* After lowering, by whichever signal, nothing is raised until the cooling
\* period has passed.
NoRaiseWhileHot == [][rateChanges' = "up" /\ rateChanges # "up" => sinceLowered > CoolPeriod]_vars

\* A report tells of a loss only if a frame is missing between the oldest and
\* the youngest of the period, or the last frame came late (seqMax_ is the last
\* number, not the largest, so a late one makes the count wrap).
LossIsReal ==
    hasFirstSeq /\ LossOf(Expected, count) # "low"
        => (\E o \in Min(seen) .. Max(seen) : o \notin seen) \/ last < Max(seen)

\* The bitrate returns to the maximum (the last halving is rounded down) once
\* the network is good, provided that frames get through again and again.
QualityReturns == []<>(packetsPerTick > 0) => <>[](bitrate >= BitrateMax - 1)
=============================================================================
