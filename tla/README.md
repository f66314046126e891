# P2pPlay: specification, model checking and proofs

P2pPlay lets a guest watch and control a host's screen: a signaling server
introduces the two clients, they punch a hole through their NATs, and then
exchange video, audio and input over one UDP socket each. This directory holds
TLA+ models of its protocol code, TLC runs on small instances, and theorems
that TLAPS checks for every value of the constants. Paths below are relative
to the repository.

## 1. The system

Every Qt thread runs one event loop, and a slot runs to its end before the next
one of that thread: a slot is one action here, unless a loop inside it has
several outcomes that matter (`UdpPacketQueue`). A signal to another thread is
an event in that thread's queue, taken in the order of posting.

| component | state | operations | correct when |
|---|---|---|---|
| Room service (`Server/RoomService`, `Room.h`, `SignalingServer`, `SignalingDispatcher`, `NatProbeService`) | tables of names, rooms and members, endpoints | register, create, join, probe request, probe | tables agree; parties of a room are distinct; each party is told of the other, once |
| Client roles (`Client/HostRoleService`, `GuestRoleService`, `ClientDispatcher`) | name, room number | connect, answers of the server | the introduction comes to its end |
| Hole punching (`Client/P2pSessionWorker`, filter of `Udp/P2pUdpTransport`) | peer endpoint, filter, ready, timer | peer endpoint, punch, punch ack, timer | both become ready; a lock never shuts the peer out |
| Transport (`P2pUdpTransport`, `UdpFragmenter`, `UdpFrameReassembler`) | frame number; window and buffers per sender | send frame, receive packet | a frame comes out whole or not at all; buffers bounded |
| Packet queue (`UdpPacketQueue`) | control and media queue, timer, packets per tick | queue, set tick, tick | nothing lost that should not be; queues drain |
| Input channel (`Media/Input/InputSender`, `InputReceiver`) | queue to be acknowledged; expected number and buffer | capture, repost, receive, acknowledge | reliable samples injected once and in order |
| Input capture (`InputCapture`, `VideoWidget`, `InputInjector`) | control flag (twice), held keys, mappings | key and mouse events, activation, ESC, focus | no key stays down on the host without a cause |
| Video (`VideoEncoder`, `VideoDecoderWorker`) | force-key-frame flag; last number, waiting flag | encode, decode, request key frame | nothing is decoded across a gap; a frozen picture resumes |
| Rate control (`RateController`, `ReceiverMonitorWorker`, `VideoEncoder::onTargetBitrateChanged`, `P2pSessionWorker::onChangePacketsPerTick`) | cooling, loss, bitrate, packets per tick | refused write, report, probe tick | bitrate within limits, not raised while it cools, back when the network is good |
| Audio (`AudioServiceWorker`, `AudioMixer`, `AudioPlayback`, `AvSyncWorker`) | reorder buffers, queues | configure, start, stop, receive, drain, mix | a stream is heard in order; what is off stays off |
| Control and media services, `ClientApp`, `P2pSession` | role and running flag of each service | starting, telling, forwarding | every service comes up in its role; what is sent meanwhile is not lost |
| Tracing, logging, configuration, codecs | - | - | not protocol logic |

Interactions. `RoomService` answers over `SignalingConnection`s (TCP: ordered,
until a disconnect) and is fed by UDP probes. `P2pSessionWorker` starts from the
server's `PeerEndpoint`, owns the transport, and tells the services when the
session is ready. Input samples and their acknowledgements, key-frame requests
and receiver reports are control frames; video and audio are media frames; both
kinds share one frame number, one packet queue and one reassembler. A refused
write (`sendBlock`) drives the rate controller, whose bitrate sets the packets
per tick of the queue.

What is hard: an unreliable path under every UDP exchange, TCP racing UDP in the
handshake, a restarted peer on the same port, refused writes in the middle of a
tick, disconnects the server does not handle, a direct call that races with a
queued one, services that start one after the other while all threads run,
retries that are missing. The list with the line of each hazard, and the
properties that cover it, is in `PROJECT.json`.

## 2. Modules

| module | models | uses |
|---|---|---|
| `OrderedInput` | abstract: samples are injected once each, in order | - |
| `InputChannel` | sender, receiver and the path between | refines `OrderedInput` |
| `UdpReassembly` | frame numbers, fragments, window and buffers | - |
| `RoomService` | server and client roles, TCP and UDP between | - |
| `P2pHandshake` | the two clients' punching, filter and timers | - |
| `UdpPacketQueue` | the two queues and the tick | - |
| `KeyFrameRecovery` | encoder, path and decoder, with key-frame requests | - |
| `RateControl` | controller, monitor, encoder's bitrate, session's pace | - |
| `AudioStream` | life cycle, reordering, the way through two threads, mixing | - |
| `InputCapture` | widget, hook, worker and host, on top of the channel | - |
| `ServiceStartup` | the threads of one client while its services come up | - |
| `InputProofs` | proofs about the input, in two parts | `InputChannel`, `InputCapture` |
| `SessionProofs` | proofs about the beginning of a session, in two parts | `P2pHandshake`, `ServiceStartup` |
| `XProofs` | proofs about `X`, for each of the other six | `X` |

Operators named `X_Y` after a comment "Fault:" are plausible errors in `X`. They
are part of no specification; each property was seen to fail when one of them
takes the place of `X`.

**InputChannel.** `nextSeq`, `waitToBeAck` are `InputSender`'s fields,
`expectedSeq`, `pending` are `InputReceiver`'s; both queues are sorted by
sequence number, so sets stand for them. `toHost` and `toGuest` are sets of
messages in flight: delivering one may or may not remove it (duplication), any
one may be picked (reordering), and `LoseSample`/`LoseAck` drop one.
`onInputSampleBytesReady` is one action per branch: `HostMove`,
`HostDuplicate`, `HostExpected` (with `tryExecutePending` inside), `HostGap`.
The clock is abstracted: `CheckRepost` reposts any prefix of the window that the
timer looks at, since samples expire in the order in which they were queued.
`injections` counts calls of the injector for each sample. A mouse move is a
message that is not reliable and carries number 0, as in the code.

**UdpReassembly.** The state is one `PeerState`. `pendingFrame` is the set of
packets stored in all its buffers; a buffer is the part with one frame number,
and `receivedCount` its size. `pushPacket` is split by its outcome:
`PushTooOld`, `PushRejected`, `PushStored`, `PushCompletes`; each includes the
update of `latestSeenSeq`, the purge and the limit, which the code runs first.
`latestSeenSeq` starts at 0 instead of carrying `hasLatestSeenSeq`: a first
packet sets it to its own number either way. A buffer that would be created for a
packet and then keep none of it cannot arise, because a new buffer has the
packet's own header. Codecs, empty payloads and the sender's identity are left
out.

**RoomService.** A connection is one run of a client. The requests it has sent
are in `unread`, the answers on their way in `inbox`, both in order. Every
handler is one action with its refusals. Maps of the server are functions with
`None` for a missing key; a connection without a name has the empty name, as
`QHash::value` returns it, and that name can own a room. `OnProbe` is
`onSingleUdpEndpointReady` with `tryNotifyPeerEndpoints`; `told` records the
`PeerEndpoint` answers. Nothing is freed when a client disconnects, as in the
code.

**P2pHandshake.** Each client may get `PeerEndpoint` at any moment (TCP),
before or after a punch of its peer. The server saw `ToldPort`; towards the peer
the NAT may use another port, chosen in `Init`. Only punches that can arrive are
put on the network. A client of another room punches as well; its datagrams come
from another address. `late` records clients that were told after they were
ready.

**UdpPacketQueue.** A tick is a phase: every call of the socket is a step that
succeeds or fails. New frames and new tick sizes come between ticks only,
because the queue lives in its worker's thread. The wires are histories.

**KeyFrameRecovery.** The encoder is `closed`, `fresh` (opened, nothing coded)
or `coding`; every call of `encodeH264` that may fail is an action that leaves
what the code leaves, `forceNextKeyFrame_` included. A sample carries the number
of the one it was coded against (`ref`), which is what the codec needs and the
decoder cannot see. `handleH264` is `SkipSample`, `DecodeSample` or
`DecoderFails`. Sample numbers wrap: `Recent` says that no number is used again
while a sample of it is on the path or is the decoder's last, which takes days
with 32 bits. `wait` is what is left of `keyFrameRequestIntervalMs_`.

**RateControl.** `rateChanges` and `paceChange` are the two signals between
threads; bitrates and packets are cut to 16 bits where the code sends `quint16`,
and the monitor's subtraction wraps (`CountWidth`). `loss` is `lastLoss_` as the
thresholds see it. `OnVideoSample` and `OnSettleTick` are the monitor's slots;
the report is handled by the controller in the same step or lost. Time is counted
down to what the code compares (`coolLeft`, `idleLeft`). At 0 packets per tick no
frame arrives any more, and no write can be refused.

**AudioStream.** The reorder buffer is a set of numbers and the number that is
due. `enqueueDecodedFrame` and `drainReorderBuffer` are one action: a full buffer
skips to its smallest number, and the run that starts there is posted to
`AvSyncWorker`'s thread (`toSync`) and comes back (`toPlay`). An epoch is
the time between two resets of the buffers; it is a history. Each operation of the
service is one action with what it stops, clears and resets. Sources and devices
may fail to open and may stop by themselves.

**InputCapture.** `setControlActive` is called by the window's thread at once and
posted to the worker's thread twice (by `InputService`, and by the signal of the
window, which `ClientApp` connects to the worker as well), so `posted` holds each change twice. The keyboard hook is two
steps, `UserKey` (the test) and `HandleKey`, because the direct call can fall
between them. `mapped` is `activeMappings_` with `pressedKeys_` as its domain.
Keys are virtual keys of both sides; the constructor gives some of them a mapping
(`keyMappings`, any partial function, which nothing changes later), and the others
keep their own code.
What is sent arrives in order, as the keyboard does in `InputChannel`; a mouse
sample may be ignored, as `input_mouse` shows. `forgotten` holds what
the guest stopped knowing while the host still held it: it grows when control is
given up, when a click ends outside of the widget's control or its end is ignored,
and shrinks only with the release of the same key. A press sent meanwhile takes
nothing out of it, since its own release may be forgotten before it arrives.
Names that `ServiceStartup` and `InputCapture` would share with the other module
of their proofs begin with the name of theirs (`CaptureSpec`, `StartupSpec`).

**ServiceStartup.** One queue of events per thread. `ClientApp` blocks on the
roles of media and control and posts those of audio and input; the session
tells the threads one by one (`Tell`). `Take` is what each service does with a
role, the news, a sample to be sent or one received; a service that does not run
refuses. What happens to samples after the last queue is in the other modules.

### How they compose

`InputCapture` stands on `InputChannel`, of which it uses what the theorems say:
keys arrive once and in order, and mouse buttons may be ignored. `RateControl`
uses `UdpPacketQueue` through `packetsPerTick` only, whose value 0 stops both.
`AudioStream` and `KeyFrameRecovery` take samples in any order, with losses and
repetitions, which is more than `UdpReassembly` lets through.
`ServiceStartup` hands each kind of sample to the module that models its service.
Each composition is by such an interface, not in one state space.

## 3. Runs

| run | question | bounds | states |
|---|---|---|---|
| `input_channel` | is keyboard input injected once and in order, does it recover, does the channel refine `OrderedInput` | 3 samples, repost window 1, both devices | 14 474 |
| `input_loss` (violation) | is a lost first sample recovered, as `doc/input_api.md` says | 3 samples, keyboard | - |
| `input_mouse` (violation) | are mouse buttons and wheel turns reliable, as `doc/input_api.md` says | 3 samples | - |
| `udp_reassembly` | buffers bounded and consistent, window complete | 3 frames of up to 3 fragments, 6 packets sent, lag 1, limit 2, 1 restart, 2 duplicated packets | 107 289 |
| `room_service` | tables, parties and notifications under every interleaving; is a full room introduced in the end | 1 host, 2 guests, 3 names, 1 room | 68 137 |
| `p2p_handshake` | do both become ready, stop punching, keep to their peer | ports 4, 5, 8 around 5, range 2 | 2 816 |
| `packet_queue` | are media packets kept, control packets in order, do queues drain | 3 packets per channel, frames of 1-2, ticks of 0-2 | 9 595 |
| `key_frame` | is nothing decoded across a gap, does a frozen picture resume | numbers modulo 5, 2 samples and 1 request on the path, interval 1 | 75 695 |
| `rate_control` | does the bitrate keep its range, cool and come back; are losses real | start at 1, 9 or 14, range 4 to 12, up by 3/2, down by 7/10, a third of the rate per tick, cooling 1, idle 2, 3 frames per period, 2 late or ahead | 140 830 |
| `audio_stream` | is a stream heard in order, is what is off silent, is what was emitted heard | 1 stream (desktop), 2 buffered, 2 queued, numbers 0-3, 2 events on the way, 1 reset | 103 036 |
| `input_capture` | does what the host holds have a cause; does letting go let go | 2 keys, every mapping of them, a button, 4 events, 2 samples on the way | 362 475 |
| `service_startup` | what is refused while services start; do they all start | events from outside while fewer than 4 are queued | 87 813 |

Why the bounds are enough. Three input samples give two gaps at once (0 missing,
1 and 2 buffered or missing), a replayed run of two and a repost window smaller
than the queue. Three frames exceed a window of two, so frames become too old,
are purged and come again after the restart with another shape under an old
number; frames of two and of three fragments under one number can share a buffer
with room for both, which the header comparison must prevent.
One host and two guests give two competing guests for a room, clashing names
and a refused registration that asks for a room all the same; with three
names all can differ. Two hosts with two rooms do not fit the liveness
check; the safety properties were also seen to hold there (349 387 states with
two hosts, two guests and symmetry), and the theorems cover every size. Ports 4
and 5 are in the punched range and 8 is not, so each NAT is reachable or not, and
equal or different to what the server saw. Three packets per channel exceed
every tick size, so queues outlast a tick. Five sample numbers with two samples
on the path wrap while one is late. The start 1 is below half the minimum and 14
above the maximum; a third of the rate is 0 for 1 and 2, so the loop starves and
does not; two frames late and ahead let the last number be smaller than the
first, which wraps. Four frame numbers with a buffer of two allow a gap, a
late frame, a repeated one and a skipped one in one epoch, and two epochs a
restart; the desktop stream is the one whose capture depends on the role, and the
streams share only the reset and the timer. Two keys, one of them ESC, allow a key
without a mapping, one mapped to itself and one mapped to another; 4 events hold a
click (three events) and a release. The invariants were also seen to hold with
three keys, two of which may be held while they share a code of the host
(5 636 394 states with 3 events and 1 sample). Four events from outside let every service have one
waiting while the news goes round. No run uses state constraints: bounds are
guards.

Deadlock is checked in `key_frame`, `audio_stream`, `input_capture` and
`service_startup`, where something can always happen. It is not an error in the
others: users stop, clients leave, bounded counters end, and the rate loop
comes to rest at 0 packets per tick.

### What the violations show

* `input_loss`: samples 0 and 1 are captured, 0 is lost, 1 arrives. The host has
  received nothing and acknowledges 0 (`InputReceiver.cpp:50`); the sender takes
  this for sample 0 and forgets it. Every later sample stays in the buffer.
  `DeliveredOnceStarted` holds: only the first sample is exposed.
* `input_mouse`: a mouse sample that waits for a missing one is replayed by
  `handleKeyBoard` (`InputReceiver.cpp:125`), which ignores it, and is
  acknowledged. `KeyboardInjected` holds for keys.

### Divergences the models carry without a run

The models do what the code does here, and the properties except it by name.

* The peer's punch may arrive before the server's `PeerEndpoint`, which then
  replaces the locked port by the one the server saw and lifts the filter
  (`ReadyIsLocked` excepts `late`).
* A control packet that the socket refuses is dropped (`UdpPacketQueue.cpp:85`),
  against the header's comment at `UdpPacketQueue.h:50`. Input survives by its
  reposts; a punch acknowledgement or a report does not.
* At 0 packets per tick nothing is sent, control included, so nothing ever
  raises the bitrate again (`QualityReturns` assumes that packets go out again
  and again).
* The check of the cooling period in `onSendBlock` is commented out, against
  `doc/参数.md:359`: refused writes lower the bitrate as often as they come.
* Giving up control clears `pressedKeys_` without releasing the keys on the host,
  where `doc/input_api.md:908` wants everything released (`forgotten`).
* Two keys of the guest may reach the host as one: A is mapped to the left arrow,
  which has no mapping and keeps its code (`InputCapture.cpp:174`). Letting go of
  one releases it on the host while the other is held; `HeldHasCause` asks only
  that what is held has a cause.
* ESC switches the capture off but not the widget's `inputControlActive_`, so the
  next click does not take control back (`CaptureAgreesWithUser` asks one
  direction).

## 4. Fairness

* `InputChannel`: the repost timer never stops (weak fairness of `CheckRepost`);
  the path delivers a datagram that is offered again and again (strong fairness
  of receiving each one). Loss is otherwise free. Users owe nothing.
* `RoomService`: event loops run and TCP delivers (weak fairness of each
  connection's next client or server step); a probe that is neither lost nor
  withdrawn arrives. Losing a probe and disconnecting are always possible, and
  excepted in `PairIsIntroduced`.
* `P2pHandshake`: `PeerEndpoint` arrives, timers fire (weak fairness), and some
  datagram of the peer is accepted if one is acceptable again and again.
* `UdpPacketQueue`: the timer fires, loops go on, and the socket takes a media
  packet in the end. A control packet may be refused every time.
* `KeyFrameRecovery`: the capture timer fires and time passes (weak fairness). The
  path and the codecs may fail any number of times but not for ever (strong
  fairness of a request, an asked key frame, a skipped sample and a decoded key
  frame getting through), and a sample too old to be told apart is gone (weak
  fairness of losing it). The host owes no key frame on its own.
* `RateControl`: threads take their events and timers fire (weak fairness); a
  report arrives in the end (strong fairness), and the network heals some time.
  That packets go out again and again is a premise of `QualityReturns`, not a
  fairness condition: the code does not ensure it.
* `AudioStream`: the two event loops run and the mixer's timer fires while the
  mixer runs. Frames, users and devices owe nothing.
* `InputCapture`: a hook that has begun returns, the worker's event loop runs, and
  the channel delivers, as the theorems and `DeliveredOnceStarted` say of it.
* `ServiceStartup`: every thread takes its events and the session finishes its
  round. The user owes no start; the properties begin at readiness.

`UdpReassembly` is checked for safety only: a frame whose fragment is lost is
never asked for again.

## 5. Proofs

Every theorem is about the specification of its module with arbitrary constants
that satisfy the named assumptions of the module (positive bounds, `MaxFrameLag
< MaxPendingFrames`, the two devices, ports in `Nat`, `None` apart from names
and rooms, factors that raise and lower, more than three sample numbers). The
bounds of the models are constants too, so a theorem for all of them is a
theorem about runs of any finite length.

* **Input channel** (`InputProofs`). The safety properties are not
  inductive: that the sender keeps what the host misses depends on the
  acknowledgements in flight. `IInv` adds that only captured samples travel
  (`OnlyCaptured`), that an acknowledgement covers nothing the host has not
  passed, except the ambiguous 0 (`AcksAreCovered`), and that injections match
  the host's position (`InjectionsMatch`). From it follow `TypeOK`,
  `PendingAhead`, `UnreceivedIsKept`, `KeyboardInjected`, the action property
  `InjectedInOrder`, and the refinement `PromiseKept`: `HostExpected` maps to the
  injection of a run of samples, every other host step to a stutter. Of the
  liveness property `DeliveredOnceStarted` the safety half: once the sender has
  nothing to repost, every key event was injected (`AllInjectedAtRest`).
* **Reassembly** (`UdpReassemblyProofs`). `IInv` adds that buffered frames are in
  the window, that no packet newer than `latestSeenSeq` has arrived, and that a
  packet of the window that arrived is buffered unless its frame was emitted or
  its number was used by another frame. Lemmas about the cardinality of the
  window show that the limit on pending frames removes nothing. From it follow
  all four invariants of the run and `TypeOK`.
* **Handshake** (`SessionProofs`). `HInv` adds that no datagram comes from
  its own receiver, which makes every lock a lock of the peer. It yields
  `TypeOK`, `LockIsPeer` and `ReadyIsLocked` for every port set and range.
  `CallsGoOn` follows the punching: a client that is not ready goes on calling the
  endpoint it was told until an acknowledgement or its peer's own punch has made it
  ready, and does not filter the peer out. Hence a client that is ready alone is
  still called by the other one (`LonelyIsCalled`), and so is a client whose port
  is in range (`ReachableIsCalled`).
* **Room service** (`RoomServiceProofs`). That a connection gets into one room
  only depends on the requests it still has unread, and that each party is told of
  the other on the probes under way. `RInv` adds that registering is the first
  request and a client asks for one room once (`RequestsInOrder`), that strangers
  are unknown, that a room has a host before it has a client, that permits and
  probes belong to a party of their room (`PermitsAreOwn`, `ProbesAreOwn`), and
  that whoever was told was told by its room (`ToldByRoom`). From it follow
  `TypeOK` and the three invariants of the run. `WayInv` follows one pair from
  `PeerJoined` to `PeerEndpoint`: nobody repeats a message on this way, and
  `GoesOn` says that one is always under way, or one probe or stored endpoint per
  party, unless a party left or a probe was lost. That a host knows its room before
  it hears that somebody joined (`NumbersComeFirst`), without which it would not
  ask for probing, rests on the order of the answers of one connection. At rest
  every pair was therefore introduced (`IntroducedAtRest`).
* **Packet queue** (`UdpPacketQueueProofs`). `QInv` adds that the control queue
  continues the control wire in increasing order and that a tick runs only with
  the timer. Lemmas count the elements of sequences. From it follow `TypeOK`,
  `MediaNotLost`, `ControlInOrder` and `QueuedIsTicking` (no packet waits
  without the timer).
* **Key frames** (`KeyFrameRecoveryProofs`). `IInv` adds that an open codec was
  fed the decoder's last sample (`CodecFollows`), that no live number is given out
  again (`NumbersApart`), and that a sample whose number follows a live one was
  coded against it (`RefsArePredecessors`): comparing numbers is then as good as
  comparing references. From it follow `TypeOK` and the action property
  `FedInStream`, for every modulus above 3.
* **Rate control** (`RateControlProofs`). Lemmas about integer division show that
  raising and lowering stay in the range from any start; `RInv` adds that cooling
  never ends before its period has passed since the last lowering. From it
  follow `TypeOK`, `BitrateInRange` and `NoRaiseWhileHot`. `LossIsReal` follows
  from `PeriodIsCounted` (at least as many frames were counted as were different,
  the first and the last among them) and the cardinality of an interval, under
  the hypothesis `LossLow > 0`: with 0 even a report without loss is no low loss,
  in the code as in the model.
* **Audio** (`AudioStreamProofs`). That a stream is heard in order is no invariant
  of the mixer alone. `AInv` says that the frames of a stream are in order from
  the device back through the mixer and the two threads to the number that is
  due, that a mixer queue holds frames of its own stream, and that a buffer that
  was reset is empty. Lemmas say what appending, taking and joining do to the order
  of one stream inside a queue of several. From it follow `TypeOK`,
  `GapsAreBridged`, `OffIsOff` and the action property `HeardInOrder`. The action
  theorem `NothingIsDropped` is the safety half of `EmittedIsHeard`: a frame that
  was put in order waits somewhere, or a later one does, until one of them is played.
  It too needs the order: a full mixer queue drops its oldest frame only for a later
  one. The excuses are those of `EmittedIsHeard`, taken before or after the step.
* **Input capture** (`InputProofs`). What a thread believes is true only once its
  queue is empty, so `CaptureInv` says what the queue still brings: the last change
  of control the worker will see is the widget's (`SwitchesAgree`), and a key the
  worker takes for pressed is down, or in the hands of the hook, unless a loss of
  control is queued that will clear it (`PressedAgree`). `HeldHasCause` itself is
  stated of what the host will hold when everything queued has arrived
  (`WillBeHeld`), which makes it inductive: a step that appends to a queue changes
  the last element that matters (`LastIs`), one that takes from it leaves it alone.
  From it follow `CaptureTypeOK`, `HeldHasCause`, `LocalHeldHasCause` and
  `CaptureAgreesWithUser`, for any keys, mappings and lengths of the queues, and
  that at rest the host holds nothing the user let go (`LetGoAtRest`).
* **Services** (`SessionProofs`). A service refuses what it is given before the
  session's news, so `RefusedOnlyEarly` is about the order of events in a queue,
  and that order about the progress of the session's round in other queues.
  `StartupInv` says that what is left of the round is a rest of `TellOrder`
  (`Stages`), that whoever runs or has the news was told and that media and control
  have the news as soon as they were told (`NewsArrives`), that the role of the
  last start is the last one queued (`RolesArrive`), what may be in which queue
  (`QueuesFit`), and that roles and early frames come before the news and what must
  not be refused after it (`QueuesInOrder`). Every step is first shown to give
  queues single events under stated conditions or to take their first
  (`QueueMoves`, `StageMoves`); each part is then kept whatever the step was. From
  it follow `StartupTypeOK`, `RefusedOnlyEarly` and `RunningHasRole`, and that all
  services run once the news was taken (`AllRunAtRest`). The proof rests on the order of the connections in `connectCommonSignals`: media and control
  before audio and input.

Only model-checked: the liveness properties, because fairness is outside the
prover's reach. Of seven of them a theorem states the safety half. For six it is
that no state is stuck (`...AtRest`, `...IsCalled`): where nothing is under way any
more, what had to happen has happened. For `EmittedIsHeard` it is that no step loses
a frame (`NothingIsDropped`). The other five (`QueueDrains`, `PunchingStops`,
`MediaDrains`, `PictureResumes`, `QualityReturns`) stay with TLC alone, but for
`NothingWaitsUntimed` under `MediaDrains`. Every invariant and every action property
of a passing run is the statement of a theorem. No module declares a RECURSIVE
operator.

## 6. Not modelled

* Wrap of the 32-bit sequence numbers of frames and input: the bounds stay below
  it. (`KeyFrameRecovery` and `RateControl` do wrap.)
* Byte formats and TCP framing (`SignalingCodec`, `UdpPacketCodec`,
  `TcpFrameCodec`, ...): pure encoding, decoded as it was encoded.
* Device input and output, FFmpeg, Opus, the resampling and mixing of samples,
  hooks and injection of Windows. Their failures are modelled, their data is not.
* The JPEG path of the encoder and decoder, which keeps no state between samples.
* The sending side of audio beyond its life cycle: sent frames are only numbered.
* The video half of `AvSyncWorker`, which `ClientApp` does not connect.
* Wheel turns and mouse moves in `InputCapture` (no state), the mapping of
  coordinates, and changes of `keyMappings_` after the constructor:
  `setKeyMapping` has no other caller and `clearKeyMappings` none. The rest of
  `handleKeyboardEvent` is one step (`HandleKey`), though nothing synchronises
  the two threads that use `pressedKeys_` and `activeMappings_`. What a direct call
  of `setControlActive` may do between its accesses ends as if it had come before or
  after, since the mappings do not change; what a torn access to a container could do
  is not covered.
* The overloads of `startAsHost` and `startAsGuest` without a configuration
  (`ClientApp.cpp:31-83`), which set no role of control and input; nobody calls
  them, and `ServiceStartup` models the other two.
* `MediaService::role` and `isRunning`, whose result is uninitialised when the
  call fails; nobody calls them.
* Payloads of merged fragments of two lives of a sender: packets with one header
  are one packet here.
* `stop` of the media, control and input services while the session lasts:
  nobody calls it before the program ends.
* Tracing, logging, configuration files, the user interface.

## 7. Plan

Open, in this order:

1. The safety halves of the liveness properties that have none yet (section 5),
   `MediaDrains` first.
2. The life of the server's tables after a disconnect, once the code has a handler
   for it.
3. The JPEG path and the comparison of time stamps in `AvSyncWorker`, once they are
   connected.
