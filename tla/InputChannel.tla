---------------------------- MODULE InputChannel ----------------------------
(***************************************************************************)
(* The reliable input channel of the remote-control session: the guest's   *)
(* InputSender, the host's InputReceiver and the UDP path between them.    *)
(*                                                                         *)
(* A sample is known by its seq; device[seq] is the part of its payload    *)
(* that matters here.  The path loses, duplicates and reorders samples and *)
(* acknowledgements, so both directions are sets of messages in flight.    *)
(* Seq numbers are quint32 in the code: MaxEvents stays below the wrap.    *)
(***************************************************************************)
EXTENDS Naturals, FiniteSets

CONSTANTS
    MaxEvents,          \* bound on the samples the guest captures
    CheckPerTick,       \* samples one repost tick looks at (checkPerTick_)
    Devices             \* the devices the user works with

Keyboard == "keyboard"
Mouse == "mouse"

ASSUME MaxEventsAssumption == MaxEvents \in Nat \ {0}
ASSUME CheckPerTickAssumption == CheckPerTick \in Nat \ {0}
ASSUME DevicesAssumption == Devices \subseteq {Keyboard, Mouse}

VARIABLES
    nextSeq,            \* InputSender::nextSeq_
    device,             \* device of each captured sample
    waitToBeAck,        \* seqs in InputSender::waitToBeAck_, front = least
    toHost,             \* sample messages in flight
    toGuest,            \* acknowledgements in flight (their ackSeq)
    expectedSeq,        \* InputReceiver::expectedSeq_
    pending,            \* keys of InputReceiver::pendingSamples_
    injections          \* history: how often InputInjector got each sample

guestVars == <<nextSeq, device, waitToBeAck>>
hostVars == <<expectedSeq, pending, injections>>
vars == <<guestVars, toHost, toGuest, hostVars>>

Seqs == 0 .. MaxEvents - 1

\* A sample on the wire.  MouseMove never gets a seq: it carries the default 0.
Reliable(s) == [reliable |-> TRUE, seq |-> s]
Move == [reliable |-> FALSE, seq |-> 0]
Messages == [reliable : BOOLEAN, seq : Seqs]

TypeOK ==
    /\ nextSeq \in 0 .. MaxEvents
    /\ device \in [Seqs -> {Keyboard, Mouse}]
    /\ waitToBeAck \subseteq Seqs
    /\ toHost \subseteq Messages
    /\ toGuest \subseteq Seqs
    /\ expectedSeq \in 0 .. MaxEvents
    /\ pending \subseteq Seqs
    /\ injections \in [Seqs -> Nat]

Init ==
    /\ nextSeq = 0
    /\ device = [s \in Seqs |-> Keyboard]
    /\ waitToBeAck = {}
    /\ toHost = {}
    /\ toGuest = {}
    /\ expectedSeq = 0
    /\ pending = {}
    /\ injections = [s \in Seqs |-> 0]

-----------------------------------------------------------------------------
(* The guest: InputSender. *)

\* A key event, mouse button or wheel turn gets the next seq, is remembered
\* until acknowledged, and is sent at once.
Capture(d) ==
    /\ nextSeq < MaxEvents
    /\ nextSeq' = nextSeq + 1
    /\ device' = [device EXCEPT ![nextSeq] = d]
    /\ waitToBeAck' = waitToBeAck \cup {nextSeq}
    /\ toHost' = toHost \cup {Reliable(nextSeq)}
    /\ UNCHANGED <<toGuest, hostVars>>

\* A mouse move bypasses the sender's queue and carries no seq of its own.
CaptureMove ==
    /\ Mouse \in Devices
    /\ toHost' = toHost \cup {Move}
    /\ UNCHANGED <<guestVars, toGuest, hostVars>>

\* Acknowledgements are cumulative: the queue loses its front up to ackSeq.
GuestReceiveAck(a) ==
    /\ a \in toGuest
    /\ toGuest' \in {toGuest, toGuest \ {a}}
    /\ waitToBeAck' = {s \in waitToBeAck : s > a}
    /\ UNCHANGED <<nextSeq, device, toHost, hostVars>>

\* Fault: the tick looks at the samples captured last.
CheckWindow_Newest ==
    {s \in waitToBeAck :
        Cardinality({t \in waitToBeAck : t > s}) < CheckPerTick}

\* What one repost tick looks at: the first CheckPerTick samples of the queue.
CheckWindow ==
    {s \in waitToBeAck :
        Cardinality({t \in waitToBeAck : t < s}) < CheckPerTick}

\* The repost timer.  Samples enter the queue in time order, so those older
\* than expireMs_ are the ones up to some sample "last".
CheckRepost ==
    \E last \in CheckWindow :
        /\ toHost' = toHost \cup {Reliable(s) : s \in {t \in CheckWindow : t <= last}}
        /\ UNCHANGED <<guestVars, toGuest, hostVars>>

-----------------------------------------------------------------------------
(* The host: InputReceiver::onInputSampleBytesReady, one action per branch. *)

\* The path hands over m, and may still hold a duplicate of it.
Deliver(m) ==
    /\ m \in toHost
    /\ toHost' \in {toHost, toHost \ {m}}

HostMove ==
    /\ Deliver(Move)
    /\ UNCHANGED <<guestVars, toGuest, hostVars>>

\* Fault: a repeated sample is injected again.
HostDuplicate_Injects(s) ==
    /\ Deliver(Reliable(s))
    /\ s < expectedSeq
    /\ injections' = [injections EXCEPT ![s] = @ + 1]
    /\ toGuest' = toGuest \cup {expectedSeq - 1}
    /\ UNCHANGED <<guestVars, expectedSeq, pending>>

\* Fault: a repeated sample is dropped without an acknowledgement.
HostDuplicate_Silent(s) ==
    /\ Deliver(Reliable(s))
    /\ s < expectedSeq
    /\ UNCHANGED <<guestVars, toGuest, hostVars>>

\* A repeated sample is acknowledged again and not injected.
HostDuplicate(s) ==
    /\ Deliver(Reliable(s))
    /\ s < expectedSeq
    /\ toGuest' = toGuest \cup {expectedSeq - 1}
    /\ UNCHANGED <<guestVars, hostVars>>

\* Fault: only one buffered sample is replayed, the rest of the run is skipped.
Replayed_OneOnly(s, n) == {t \in (s + 1 .. n - 1) \cap {s + 1} : device[t] = Keyboard}

\* tryExecutePending replays the buffered run s+1 .. n-1 through handleKeyBoard,
\* which injects keyboard samples and ignores any other.
Replayed(s, n) == {t \in s + 1 .. n - 1 : device[t] = Keyboard}

\* The buffer without the replayed run.
Drained(s, n) == pending \ (s + 1 .. n - 1)

\* The sample the host waits for: it is injected and acknowledged; the run of
\* buffered samples behind it is replayed and acknowledged once more.
HostExpected(s) ==
    /\ Deliver(Reliable(s))
    /\ s = expectedSeq
    /\ \E n \in s + 1 .. MaxEvents :
        /\ s + 1 .. n - 1 \subseteq pending
        /\ n \notin pending
        /\ expectedSeq' = n
        /\ pending' = Drained(s, n)
        /\ injections' = [t \in Seqs |->
                            IF t = s \/ t \in Replayed(s, n)
                            THEN injections[t] + 1 ELSE injections[t]]
        /\ toGuest' = toGuest \cup {s, n - 1}
    /\ UNCHANGED guestVars

\* Fault: the missing sample itself is acknowledged.
GapAck_OffByOne == expectedSeq

\* Acknowledged while a sample is missing: everything before expectedSeq, but
\* seq 0 when nothing has been received yet.
GapAck == IF expectedSeq = 0 THEN 0 ELSE expectedSeq - 1

\* A sample from beyond a gap is buffered.
HostGap(s) ==
    /\ Deliver(Reliable(s))
    /\ s > expectedSeq
    /\ pending' = pending \cup {s}
    /\ toGuest' = toGuest \cup {GapAck}
    /\ UNCHANGED <<guestVars, expectedSeq, injections>>

HostReceive(s) == HostDuplicate(s) \/ HostExpected(s) \/ HostGap(s)

-----------------------------------------------------------------------------
(* The path: datagrams vanish, here or in the layers between. *)

LoseSample ==
    \E m \in toHost :
        /\ toHost' = toHost \ {m}
        /\ UNCHANGED <<guestVars, toGuest, hostVars>>

LoseAck ==
    \E a \in toGuest :
        /\ toGuest' = toGuest \ {a}
        /\ UNCHANGED <<guestVars, toHost, hostVars>>

Next ==
    \/ \E d \in Devices : Capture(d)
    \/ CaptureMove
    \/ \E a \in Seqs : GuestReceiveAck(a)
    \/ CheckRepost
    \/ HostMove
    \/ \E s \in Seqs : HostReceive(s)
    \/ LoseSample
    \/ LoseAck

Spec == Init /\ [][Next]_vars

\* The repost timer keeps firing, and a path that is offered the same datagram
\* over and over lets it through in the end.
Fairness ==
    /\ WF_vars(CheckRepost)
    /\ \A s \in Seqs : SF_vars(HostReceive(s))
    /\ \A a \in Seqs : SF_vars(GuestReceiveAck(a))

FairSpec == Spec /\ Fairness

-----------------------------------------------------------------------------
(* Properties. *)

\* Ordered and exactly once: a step injects a sample only if that sample was
\* never injected and no later one was (reposts and the network both repeat
\* samples; onInputSampleBytesReady tells them apart by seq alone).
InjectedInOrder ==
    [][\A s \in Seqs : injections'[s] # injections[s] =>
        /\ injections[s] = 0 /\ injections'[s] = 1
        /\ \A t \in Seqs : t > s => injections[t] = 0]_vars

\* The receiver's buffer never holds a sample it has already passed: such a
\* key would stay first in pendingSamples_, and tryExecutePending would stop
\* in front of it for ever.
PendingAhead == \A s \in pending : s > expectedSeq

\* The sender forgets no sample but the first before the host has passed it,
\* so every other lost sample is still there for checkRepost.
UnreceivedIsKept ==
    \A s \in Seqs : 0 < s /\ s < nextSeq => s < expectedSeq \/ s \in waitToBeAck

\* A keyboard sample that the acknowledgements cover was really injected.
KeyboardInjected ==
    \A s \in Seqs : s < expectedSeq /\ device[s] = Keyboard => injections[s] = 1

\* The same of every reliable sample, mouse buttons and wheel turns included.
ReliableInjected == \A s \in Seqs : s < expectedSeq => injections[s] = 1

\* Once the host has got the first sample, whatever is captured is received.
DeliveredOnceStarted ==
    \A s \in Seqs : (s < nextSeq /\ expectedSeq > 0) ~> (s < expectedSeq)

\* Loss is recovered from: whatever is captured is received.
LossIsRecovered == \A s \in Seqs : (s < nextSeq) ~> (s < expectedSeq)

\* The sender's queue drains while the user pauses: with everything received,
\* a lost acknowledgement is asked for again until it arrives.
QueueDrains == (expectedSeq = nextSeq) ~> (waitToBeAck = {} \/ expectedSeq < nextSeq)

\* The channel implements the ordered input it promises, as far as the
\* keyboard goes: a mouse sample counts as injected once the host is past it.
InjectedOrPassed ==
    [s \in Seqs |-> IF device[s] = Keyboard \/ expectedSeq <= s
                    THEN injections[s] ELSE 1]

Promise == INSTANCE OrderedInput
           WITH captured <- nextSeq, applied <- expectedSeq,
                injections <- InjectedOrPassed

PromiseKept == Promise!ASpec
=============================================================================
