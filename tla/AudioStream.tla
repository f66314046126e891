----------------------------- MODULE AudioStream -----------------------------
(***************************************************************************)
(* AudioStream: the audio of one client.                                   *)
(*                                                                         *)
(* AudioServiceWorker captures the microphone (and, on the host, the       *)
(* desktop), puts the frames that arrive from the peer in order, and sends *)
(* them through the thread of AvSyncWorker and back to its own, where      *)
(* AudioMixer queues them and a timer plays one frame of each stream.      *)
(* The network may lose, duplicate and reorder frames, and a peer that     *)
(* was restarted numbers from 0 again: any number may arrive at any time.  *)
(* Qt delivers the events of one thread to another in the order of their   *)
(* posting.                                                                *)
(*                                                                         *)
(* An epoch lasts from one reset of the reorder buffers to the next.       *)
(***************************************************************************)
EXTENDS Integers, FiniteSets, Sequences, FiniteSetsExt

CONSTANTS
    Streams,                \* the streams, of "microphone" and "desktop"
    MaxBuffered,            \* max(1, audioReorderMaxBufferedFrames)
    MaxQueued,              \* maxQueuedFramesPerSource_
    MaxSeq,                 \* bound on the frame numbers
    MaxInTransit,           \* bound on the events between the two threads
    MaxEpoch                \* bound on the resets of the reorder buffers

ASSUME StreamsAssumption == Streams \subseteq {"microphone", "desktop"} /\ Streams # {}
ASSUME SizeAssumption == MaxBuffered \in Nat \ {0} /\ MaxQueued \in Nat \ {0}
ASSUME BoundAssumption == MaxSeq \in Nat /\ MaxInTransit \in Nat /\ MaxEpoch \in Nat \ {0}

VARIABLES
    role, running,          \* of AudioServiceWorker; running_ of AudioMixer too
    enabled,                \* microphoneEnabled_, desktopAudioEnabled_
    playbackEnabled,
    capturing,              \* the streams whose source is running
    reorder,                \* per stream: the reorder buffer, next number, is it valid
    epoch,                  \* history: resets of the reorder buffers
    toSync, toPlay,         \* frames posted to AvSyncWorker, and back
    syncEnabled,            \* audioEnabled_ of AvSyncWorker
    mixer,                  \* the queues of AudioMixer
    playing,                \* AudioPlayback::isRunning()
    heard,                  \* history: the last frame of each stream that was played
    deviceOk                \* is there an output device that can be opened

service == <<role, running, enabled, playbackEnabled, capturing>>
sync == <<toSync, toPlay, syncEnabled>>
output == <<mixer, playing, heard>>
vars == <<service, reorder, epoch, sync, output, deviceOk>>

Roles == {"Unknown", "Host", "Guest"}
Seqs == 0 .. MaxSeq
Frame == [stream : Streams, epoch : Nat, seq : Nat]

NoFrame == [epoch |-> 0, seq |-> 0]     \* before the frames of epoch 1

TypeOK ==
    /\ role \in Roles /\ running \in BOOLEAN
    /\ enabled \subseteq Streams /\ capturing \subseteq Streams
    /\ playbackEnabled \in BOOLEAN /\ syncEnabled \in BOOLEAN
    /\ reorder \in [Streams -> [buffer : SUBSET Seqs, next : 0 .. MaxSeq + 1, valid : BOOLEAN]]
    /\ epoch \in Nat \ {0}
    /\ toSync \in Seq(Frame) /\ toPlay \in Seq(Frame)
    /\ mixer \in [Streams -> Seq(Frame)]
    /\ playing \in BOOLEAN /\ deviceOk \in BOOLEAN
    /\ heard \in [Streams -> [epoch : Nat, seq : Nat]]

Empty == [buffer |-> {}, next |-> 0, valid |-> FALSE]

Init ==
    /\ role = "Unknown" /\ running = FALSE
    /\ enabled = Streams /\ playbackEnabled = TRUE /\ capturing = {}
    /\ reorder = [s \in Streams |-> Empty] /\ epoch = 1
    /\ toSync = <<>> /\ toPlay = <<>> /\ syncEnabled = TRUE
    /\ mixer = [s \in Streams |-> <<>>]
    /\ playing = FALSE
    /\ heard = [s \in Streams |-> NoFrame]
    /\ deviceOk \in BOOLEAN

-----------------------------------------------------------------------------
(* The operations of AudioService, posted to the worker's thread *)

\* A source may fail to start.
Sources(r, on) == {c \in SUBSET on : r # "Host" => "desktop" \notin c}

ResetReorderBuffers ==
    /\ epoch < MaxEpoch
    /\ reorder' = [s \in Streams |-> Empty]
    /\ epoch' = epoch + 1

Clear == [s \in Streams |-> <<>>]

Control == UNCHANGED <<sync, heard, deviceOk>>

\* stop() on a running service, as far as AudioServiceWorker's own state goes.
Stopped ==
    /\ running' = FALSE /\ capturing' = {} /\ playing' = FALSE
    /\ mixer' = Clear

\* applyConfig stops a running service and starts it again; the mixer may
\* refuse the new format.
ApplyConfig(on, playback, mixerOk) ==
    /\ Control
    /\ enabled' = on /\ playbackEnabled' = playback
    /\ ResetReorderBuffers
    /\ UNCHANGED role
    /\ \/ running /\ mixerOk
          /\ UNCHANGED running
          /\ capturing' \in Sources(role, on)
          /\ playing' = FALSE
          /\ mixer' = Clear
       \/ running /\ ~mixerOk /\ Stopped
       \/ ~running /\ UNCHANGED <<running, capturing, playing, mixer>>

SetRole(r) ==
    /\ Control
    /\ role' = r
    /\ IF running /\ r # role
       THEN Stopped /\ ResetReorderBuffers
       ELSE UNCHANGED <<running, capturing, playing, mixer, reorder, epoch>>
    /\ UNCHANGED <<enabled, playbackEnabled>>

Start ==
    /\ Control
    /\ ~running /\ role # "Unknown"
    /\ running' = TRUE
    /\ capturing' \in Sources(role, enabled)
    /\ mixer' = Clear
    /\ UNCHANGED <<role, enabled, playbackEnabled, playing, reorder, epoch>>

Stop ==
    /\ Control
    /\ Stopped
    /\ IF running THEN ResetReorderBuffers ELSE UNCHANGED <<reorder, epoch>>
    /\ UNCHANGED <<role, enabled, playbackEnabled>>

Captured(s, on) == IF on THEN capturing \cup {s} ELSE capturing \ {s}

SetSourceEnabled(s, on) ==
    /\ Control
    /\ enabled' = IF on THEN enabled \cup {s} ELSE enabled \ {s}
    /\ IF running /\ (s = "desktop" => role = "Host")
       THEN capturing' \in {Captured(s, on), capturing \ {s}}      \* it may fail to start
       ELSE UNCHANGED capturing
    /\ UNCHANGED <<role, running, playbackEnabled, reorder, epoch, mixer, playing>>

SetPlaybackEnabled(on) ==
    /\ Control
    /\ playbackEnabled' = on
    /\ IF on THEN UNCHANGED <<playing, mixer>> ELSE playing' = FALSE /\ mixer' = Clear
    /\ UNCHANGED <<role, running, enabled, capturing, reorder, epoch>>

SetAudioEnabled(on) ==
    /\ syncEnabled' = on
    /\ UNCHANGED <<service, reorder, epoch, toSync, toPlay, output, deviceOk>>

-----------------------------------------------------------------------------
(* AudioServiceWorker: the frames of the peer *)

\* Fault: a frame that is late is kept.
IsNew_Late(r, n) == n \notin r.buffer

IsNew(r, n) == n >= r.next /\ n \notin r.buffer

\* Fault: a full buffer does not give the missing frame up.
From_Waits(b, next) == next

\* Where drainReorderBuffer goes on: a full buffer gives the missing frames up.
From(b, next) ==
    IF next \in b \/ Cardinality(b) < MaxBuffered THEN next ELSE Min(b)

\* Fault: the frames are numbered from one below.
Run_OneLess(s, from, to) ==
    [i \in 1 .. to - from |-> [stream |-> s, epoch |-> epoch, seq |-> from + i - 2]]

\* The frames of a run, as they are emitted.
Run(s, from, to) ==
    [i \in 1 .. to - from |-> [stream |-> s, epoch |-> epoch, seq |-> from + i - 1]]

\* enqueueDecodedFrame and drainReorderBuffer, for frame n of s.  The first
\* frame after a reset sets the number to start from.  The run that begins at
\* From is emitted; what is left is too small for another round.  The service
\* need not be running.
OnAudioSampleBytesReceived(s, n) ==
    LET r == IF reorder[s].valid THEN reorder[s] ELSE [Empty EXCEPT !.next = n, !.valid = TRUE]
        b == r.buffer \cup {n}
        from == From(b, r.next)
    IN  /\ Len(toSync) + Len(toPlay) < MaxInTransit
        /\ IsNew(r, n)
        /\ \E to \in from .. MaxSeq + 1 :
              /\ from .. to - 1 \subseteq b /\ to \notin b
              /\ toSync' = toSync \o Run(s, from, to)
              /\ reorder' = [reorder EXCEPT ![s] =
                    [buffer |-> b \ (from .. to - 1), next |-> to, valid |-> TRUE]]
        /\ UNCHANGED <<service, epoch, toPlay, syncEnabled, output, deviceOk>>

\* AvSyncWorker::onAudioFrameReady
OnAudioFrameReady ==
    /\ toSync # <<>>
    /\ toSync' = Tail(toSync)
    /\ toPlay' = IF syncEnabled THEN Append(toPlay, Head(toSync)) ELSE toPlay
    /\ UNCHANGED <<service, reorder, epoch, syncEnabled, output, deviceOk>>

\* Fault: playback that is switched off is not asked.
MayPlay_Always == running

MayPlay == running /\ playbackEnabled

\* AudioMixer::pushFrame: a full queue drops its oldest frame.
Enqueued(q, f) == IF Len(q) < MaxQueued THEN Append(q, f) ELSE Append(Tail(q), f)

OnAudioFrameToPlay ==
    LET f == Head(toPlay)
    IN  /\ toPlay # <<>>
        /\ toPlay' = Tail(toPlay)
        /\ IF MayPlay THEN mixer' = [mixer EXCEPT ![f.stream] = Enqueued(@, f)]
                      ELSE UNCHANGED mixer
        /\ UNCHANGED <<service, reorder, epoch, toSync, syncEnabled, playing, heard,
                       deviceOk>>

\* Fault: the device is opened once only.
CanPlay_Once == playing

CanPlay == playing \/ deviceOk

\* The timer takes a frame of every stream that has one, and plays their sum;
\* the device is opened when it is needed.
MixOnce ==
    /\ running
    /\ \E s \in Streams : mixer[s] # <<>>
    /\ mixer' = [s \in Streams |-> IF mixer[s] = <<>> THEN <<>> ELSE Tail(mixer[s])]
    /\ IF playbackEnabled /\ CanPlay
       THEN /\ playing' = TRUE
            /\ heard' = [s \in Streams |->
                  IF mixer[s] = <<>> THEN heard[s]
                  ELSE [epoch |-> Head(mixer[s]).epoch, seq |-> Head(mixer[s]).seq]]
       ELSE UNCHANGED <<playing, heard>>
    /\ UNCHANGED <<service, reorder, epoch, sync, deviceOk>>

\* The output device, or the capture of the desktop, stops by itself.
DeviceStops ==
    /\ playing
    /\ playing' = FALSE
    /\ UNCHANGED <<service, reorder, epoch, sync, mixer, heard, deviceOk>>

CaptureFails ==
    /\ "desktop" \in capturing
    /\ capturing' = capturing \ {"desktop"}
    /\ UNCHANGED <<role, running, enabled, playbackEnabled, reorder, epoch, sync, output,
                   deviceOk>>

-----------------------------------------------------------------------------
Next ==
    \/ \E on \in SUBSET Streams, playback, mixerOk \in BOOLEAN :
          ApplyConfig(on, playback, mixerOk)
    \/ \E r \in Roles : SetRole(r)
    \/ Start
    \/ Stop
    \/ \E s \in Streams, on \in BOOLEAN : SetSourceEnabled(s, on)
    \/ \E on \in BOOLEAN : SetPlaybackEnabled(on)
    \/ \E on \in BOOLEAN : SetAudioEnabled(on)
    \/ \E s \in Streams, n \in Seqs : OnAudioSampleBytesReceived(s, n)
    \/ OnAudioFrameReady
    \/ OnAudioFrameToPlay
    \/ MixOnce
    \/ DeviceStops
    \/ CaptureFails

Spec == Init /\ [][Next]_vars

\* Event loops deliver what was posted, and the timer of the mixer fires.
FairSpec ==
    /\ Spec
    /\ WF_vars(OnAudioFrameReady) /\ WF_vars(OnAudioFrameToPlay) /\ WF_vars(MixOnce)

-----------------------------------------------------------------------------
\* A gap never blocks a stream: the frame that is due is not in the buffer, nor
\* is a frame that is late, and fewer frames wait than the buffer may hold
\* (AudioServiceWorker::drainReorderBuffer).
GapsAreBridged ==
    \A s \in Streams :
        /\ \A n \in reorder[s].buffer : n > reorder[s].next
        /\ Cardinality(reorder[s].buffer) < MaxBuffered

\* What is switched off is off: no source captures unless the service runs, the
\* source is enabled and, for the desktop, this is the host; and nothing waits to
\* be played, nor is the device open, unless the service runs with its playback
\* on, whatever is still on its way through the other thread.
OffIsOff ==
    /\ \A s \in capturing : running /\ s \in enabled /\ (s = "desktop" => role = "Host")
    /\ \A s \in Streams : mixer[s] # <<>> => running /\ playbackEnabled
    /\ playing => running /\ playbackEnabled

\* The order of the frames of one stream: by epoch, then by number.
Before(f, g) == f.epoch < g.epoch \/ (f.epoch = g.epoch /\ f.seq < g.seq)

\* A stream is played in the order of its numbers, no frame twice, between two
\* resets of the reorder buffers; and what was emitted before a reset is played
\* before what is emitted after it
\* (doc/audio_opus_avsync_implementation.md:1526).
HeardInOrder ==
    [][\A s \in Streams : heard'[s] # heard[s] => Before(heard[s], heard'[s])]_vars

\* A frame that was put in order is played, or a later one is, unless the
\* service is stopped, reset or told to be silent (AvSyncWorker::onAudioFrameReady,
\* AudioMixer::mixOnce).
EmittedIsHeard ==
    \A s \in Streams, e \in 1 .. MaxEpoch, n \in Seqs :
        LET f == [stream |-> s, epoch |-> e, seq |-> n]
        IN  f \in {toSync[i] : i \in DOMAIN toSync} ~>
                \/ ~Before(heard[s], f)
                \/ epoch > e
                \/ ~running \/ ~playbackEnabled \/ ~syncEnabled \/ ~deviceOk
=============================================================================
