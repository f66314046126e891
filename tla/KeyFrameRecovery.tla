-------------------------- MODULE KeyFrameRecovery --------------------------
(***************************************************************************)
(* KeyFrameRecovery: the host's encoder, the path and the guest's decoder. *)
(*                                                                         *)
(* A sample that is not a key frame can be decoded only by a codec that    *)
(* was fed the sample before it.  VideoDecoderWorker looks at the numbers: *)
(* at a gap it closes its codec, skips to the next key frame and asks the  *)
(* host for one, again after every interval while it skips.                *)
(*                                                                         *)
(* The path loses, repeats and reorders samples and requests; the codec    *)
(* libraries may fail at every call.  Capture thread and encoder thread    *)
(* share a queue, so a captured image and its encoding are one step; so    *)
(* are the delivery of a sample and its decoding.  The encoder is used     *)
(* with zero latency and forced-idr (the defaults): a packet per frame, a  *)
(* key frame when one is asked for.                                        *)
(***************************************************************************)
EXTENDS Naturals, FiniteSets

CONSTANTS
    SeqModulus,         \* number of sample numbers (2^32 in the code)
    Interval,           \* keyFrameRequestIntervalMs_, in ticks of the clock
    MaxInAir,           \* bound on the samples on the path
    MaxRequests         \* bound on the requests on the path

ASSUME SeqModulusAssumption == SeqModulus \in Nat /\ SeqModulus > 3
ASSUME IntervalAssumption == Interval \in Nat \ {0}
ASSUME BoundsAssumption == MaxInAir \in Nat \ {0} /\ MaxRequests \in Nat \ {0}

VARIABLES
    encoder,            \* the codec context: closed, fresh (nothing coded) or coding
    forceNextKeyFrame,
    nextSampleSeq,
    coded,              \* history: the last sample the encoder coded
    air,                \* samples on the path; ref: the sample it was coded against
    requests,           \* number of requests on the path
    hasLastSeq, lastSeq,
    waitingForKeyFrame,
    codecOpen,          \* the decoder's h264CodecContext_ is not null
    wait,               \* time until requestKeyFrameIfNeeded may ask again
    fed                 \* history: the last sample fed to a codec

host == <<encoder, forceNextKeyFrame, nextSampleSeq, coded>>
path == <<air, requests>>
guest == <<hasLastSeq, lastSeq, waitingForKeyFrame, codecOpen, wait, fed>>
vars == <<host, path, guest>>

Numbers == 0 .. SeqModulus - 1
Samples == [seq : Numbers, key : BOOLEAN, ref : Numbers]

TypeOK ==
    /\ encoder \in {"closed", "fresh", "coding"}
    /\ forceNextKeyFrame \in BOOLEAN
    /\ nextSampleSeq \in Numbers /\ coded \in Numbers
    /\ air \subseteq Samples /\ Cardinality(air) <= MaxInAir
    /\ requests \in 0 .. MaxRequests
    /\ hasLastSeq \in BOOLEAN /\ lastSeq \in Numbers
    /\ waitingForKeyFrame \in BOOLEAN
    /\ codecOpen \in BOOLEAN
    /\ wait \in 0 .. Interval
    /\ fed \in Numbers

Init ==
    /\ encoder = "closed" /\ forceNextKeyFrame = TRUE /\ nextSampleSeq = 0 /\ coded = 0
    /\ air = {} /\ requests = 0
    /\ hasLastSeq = FALSE /\ lastSeq = 0
    /\ waitingForKeyFrame = TRUE
    /\ codecOpen = FALSE
    /\ wait = 0
    /\ fed = 0

-----------------------------------------------------------------------------
\* (n + 1) % SeqModulus
Successor(n) == IF n = SeqModulus - 1 THEN 0 ELSE n + 1

\* (nextSampleSeq - n) % SeqModulus: how many samples ago n was given out.
Age(n) == IF n <= nextSampleSeq THEN nextSampleSeq - n ELSE nextSampleSeq + SeqModulus - n

\* Bounds that keep the numbers apart (with 2^32 of them they always are): no
\* number that is on the path or that the decoder remembers is given out again,
\* and of the numbers it can tell apart at least one sample arrives.
Recent(n, margin) == Age(n) + margin < SeqModulus

NumbersLast(margin) ==
    /\ \A s \in air : Recent(s.seq, margin)
    /\ hasLastSeq => Recent(lastSeq, margin)

MayLose(s) ==
    \/ hasLastSeq => Recent(lastSeq, 1)
    \/ \E t \in air \ {s} : Recent(t.seq, 1)

-----------------------------------------------------------------------------
(* VideoEncoderWorker and ScreenVideoSource. *)

\* The next image comes when the path has room (bound).
TakesImage(margin) == NumbersLast(margin) /\ Cardinality(air) < MaxInAir

\* ensureH264Encoder has to open a context: there is none, or the image has
\* another size than the last one (resized).
Reopens(resized) == encoder = "closed" \/ resized

\* pict_type is I when a key frame is forced; opening the context forces one,
\* and the first picture of a context is always one.
IsKey(resized) == forceNextKeyFrame \/ Reopens(resized) \/ encoder = "fresh"

\* The sample of an image that is coded as a key frame or not.
Sample(key) ==
    [seq |-> nextSampleSeq, key |-> key, ref |-> IF key THEN nextSampleSeq ELSE coded]

\* An image is coded and sent.  The encoder may make it a key frame unasked
\* (h264GopFrames_).
EncodeImage(resized, unasked) ==
    /\ TakesImage(1)
    /\ air' = air \cup {Sample(IsKey(resized) \/ unasked)}
    /\ encoder' = "coding"
    /\ forceNextKeyFrame' = FALSE
    /\ nextSampleSeq' = Successor(nextSampleSeq)
    /\ coded' = nextSampleSeq
    /\ UNCHANGED <<requests, guest>>

\* The context cannot be opened: it is closed and the request stays.
OpenEncoderFails(resized) ==
    /\ Reopens(resized)
    /\ TakesImage(2)
    /\ encoder' = "closed"
    /\ nextSampleSeq' = Successor(nextSampleSeq)
    /\ UNCHANGED <<forceNextKeyFrame, coded, path, guest>>

\* The image or the frame cannot be prepared: nothing is coded, the request
\* stays (or is made, by the opened context).
PrepareFails(resized) ==
    /\ TakesImage(2)
    /\ encoder' = IF Reopens(resized) THEN "fresh" ELSE encoder
    /\ forceNextKeyFrame' = (forceNextKeyFrame \/ Reopens(resized))
    /\ nextSampleSeq' = Successor(nextSampleSeq)
    /\ UNCHANGED <<coded, path, guest>>

\* avcodec_send_frame refuses the frame: the request is already cleared.
SendFrameFails(resized) ==
    /\ TakesImage(2)
    /\ encoder' = IF Reopens(resized) THEN "fresh" ELSE encoder
    /\ forceNextKeyFrame' = FALSE
    /\ nextSampleSeq' = Successor(nextSampleSeq)
    /\ UNCHANGED <<coded, path, guest>>

ApplyConfig ==
    /\ encoder' = "closed"
    /\ forceNextKeyFrame' = TRUE
    /\ UNCHANGED <<nextSampleSeq, coded, path, guest>>

\* A request reaches requestKeyFrame.
RequestKeyFrame ==
    /\ requests > 0
    /\ requests' = requests - 1
    /\ forceNextKeyFrame' = TRUE
    /\ UNCHANGED <<encoder, nextSampleSeq, coded, air, guest>>

-----------------------------------------------------------------------------
(* VideoDecoderWorker::handleH264 *)

IsGap(s) == hasLastSeq /\ s.seq # Successor(lastSeq)

\* Fault: late and repeated samples do not count as a gap.
Broken_Ahead(s) == IsGap(s) /\ Age(s.seq) < Age(lastSeq)

\* The stream is broken at s, and the decoder must wait for a key frame.
Broken(s) == IsGap(s)

\* Fault: samples are skipped silently.
MustAsk_GapOnly(s) == Broken(s)

\* requestKeyFrameIfNeeded is called before s is decoded: at a gap, and for
\* every sample that is skipped.
MustAsk(s) == Broken(s) \/ (waitingForKeyFrame /\ ~s.key)

\* What is on the path after n more requests (bound: what is too much is lost).
Requested(n) == IF requests + n < MaxRequests THEN requests + n ELSE MaxRequests

\* The request is sent if the last one is old enough.
Ask == IF wait = 0 THEN 1 ELSE 0
WaitAfterAsk == IF wait = 0 THEN Interval ELSE wait

Takes(s, repeated) ==
    /\ s \in air /\ Recent(s.seq, 1)
    /\ air' = IF repeated THEN air ELSE air \ {s}
    /\ hasLastSeq' = TRUE /\ lastSeq' = s.seq

\* While the decoder waits, what is no key frame is skipped.
SkipSample(s, repeated) ==
    /\ Takes(s, repeated)
    /\ ~s.key
    /\ waitingForKeyFrame \/ Broken(s)
    /\ waitingForKeyFrame' = TRUE
    /\ codecOpen' = (codecOpen /\ ~Broken(s))
    /\ requests' = IF MustAsk(s) THEN Requested(Ask) ELSE requests
    /\ wait' = IF MustAsk(s) THEN WaitAfterAsk ELSE wait
    /\ UNCHANGED <<host, fed>>

Decodes(s) == s.key \/ ~(waitingForKeyFrame \/ Broken(s))

\* The sample is fed to the codec, which is opened if necessary.  A key frame
\* ends the wait and lets the next request out at once.
DecodeSample(s, repeated) ==
    /\ Takes(s, repeated)
    /\ Decodes(s)
    /\ waitingForKeyFrame' = FALSE
    /\ codecOpen' = TRUE
    /\ fed' = s.seq
    /\ requests' = IF MustAsk(s) THEN Requested(Ask) ELSE requests
    /\ wait' = IF s.key THEN 0 ELSE wait
    /\ UNCHANGED host

\* The codec cannot be opened, or the parser or the codec refuses the data:
\* the decoder waits again, and asks again, at once if this was a key frame.
DecoderFails(s, repeated) ==
    /\ Takes(s, repeated)
    /\ Decodes(s)
    /\ waitingForKeyFrame' = TRUE
    /\ codecOpen' = FALSE
    /\ requests' = IF s.key THEN Requested(1 + (IF MustAsk(s) THEN Ask ELSE 0))
                    ELSE Requested(Ask)
    /\ wait' = IF s.key THEN Interval ELSE WaitAfterAsk
    /\ UNCHANGED <<host, fed>>

-----------------------------------------------------------------------------
(* The path, and time. *)

LoseSample(s) ==
    /\ s \in air
    /\ MayLose(s)
    /\ air' = air \ {s}
    /\ UNCHANGED <<requests, host, guest>>

LoseRequest ==
    /\ requests > 0
    /\ requests' = requests - 1
    /\ UNCHANGED <<air, host, guest>>

Tick ==
    /\ wait > 0
    /\ wait' = wait - 1
    /\ UNCHANGED <<host, path, hasLastSeq, lastSeq, waitingForKeyFrame, codecOpen, fed>>

Next ==
    \/ \E resized, unasked \in BOOLEAN : EncodeImage(resized, unasked)
    \/ \E resized \in BOOLEAN :
        OpenEncoderFails(resized) \/ PrepareFails(resized) \/ SendFrameFails(resized)
    \/ ApplyConfig
    \/ RequestKeyFrame
    \/ \E s \in air, repeated \in BOOLEAN :
        SkipSample(s, repeated) \/ DecodeSample(s, repeated) \/ DecoderFails(s, repeated)
    \/ \E s \in air : LoseSample(s)
    \/ LoseRequest
    \/ Tick

Spec == Init /\ [][Next]_vars

\* A key frame that was asked for leaves the encoder.
EncodeAsked == forceNextKeyFrame /\ EncodeImage(FALSE, FALSE)

\* Images are captured and time passes; and nothing fails for ever: a request
\* reaches the encoder, an asked key frame leaves it, a sample reaches the
\* decoder, a key frame is decoded.
Fairness ==
    /\ WF_vars(EncodeImage(FALSE, FALSE))
    /\ WF_vars(Tick)
    /\ WF_vars(\E s \in air : ~Recent(s.seq, 1) /\ LoseSample(s))
    /\ SF_vars(RequestKeyFrame)
    /\ SF_vars(EncodeAsked)
    /\ SF_vars(\E s \in air : SkipSample(s, FALSE))
    /\ SF_vars(\E s \in air : s.key /\ DecodeSample(s, FALSE))

FairSpec == Spec /\ Fairness

-----------------------------------------------------------------------------
\* Whatever the path does to the samples and however often the encoder or the
\* codec is opened again: a codec is fed a key frame, or the sample that was
\* coded against the one it was fed just before.  No picture is decoded across
\* a loss, a repetition or a late sample.
FedInStream ==
    [][\A s \in air, repeated \in BOOLEAN :
            DecodeSample(s, repeated) => s.key \/ (codecOpen /\ fed = s.ref)]_vars

\* A frozen picture does not stay frozen: although requests, answers and codec
\* calls may fail, a decoder that waits gets its key frame, without the help of
\* the encoder's own rhythm.
PictureResumes == waitingForKeyFrame ~> ~waitingForKeyFrame
=============================================================================
