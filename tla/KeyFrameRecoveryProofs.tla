----------------------- MODULE KeyFrameRecoveryProofs -----------------------
(***************************************************************************)
(* Proofs about KeyFrameRecovery, for every modulus, interval and bound.   *)
(***************************************************************************)
EXTENDS KeyFrameRecovery, FiniteSetTheorems, TLAPS

\* The numbers that still matter: on the path, or remembered by the decoder.
Live == {s.seq : s \in air} \cup (IF hasLastSeq THEN {lastSeq} ELSE {})

\* An open codec was fed the last sample that arrived, and a closed one is what
\* the decoder waits for.
CodecFollows ==
    /\ codecOpen <=> ~waitingForKeyFrame
    /\ codecOpen => hasLastSeq /\ fed = lastSeq

\* A live number is not given out again, and the youngest number, if it is
\* live, is the one the next sample will be coded against.
NumbersApart ==
    /\ nextSampleSeq \notin Live
    /\ \A n \in Live : Successor(n) = nextSampleSeq => coded = n

\* A sample that follows a live number was coded against it.
RefsArePredecessors ==
    \A s \in air, n \in Live : ~s.key /\ s.seq = Successor(n) => s.ref = n

\* TypeOK without the size of the path.
Typed ==
    /\ encoder \in {"closed", "fresh", "coding"}
    /\ forceNextKeyFrame \in BOOLEAN
    /\ nextSampleSeq \in Numbers /\ coded \in Numbers
    /\ air \subseteq Samples
    /\ requests \in 0 .. MaxRequests
    /\ hasLastSeq \in BOOLEAN /\ lastSeq \in Numbers
    /\ waitingForKeyFrame \in BOOLEAN
    /\ codecOpen \in BOOLEAN
    /\ wait \in 0 .. Interval
    /\ fed \in Numbers

PathBounded == IsFiniteSet(air) /\ Cardinality(air) <= MaxInAir

IInv == Typed /\ PathBounded /\ CodecFollows /\ NumbersApart /\ RefsArePredecessors

-----------------------------------------------------------------------------
\* The successor of a number is a number, another one, and tells it.
LEMMA SuccessorFacts ==
    /\ \A n \in Numbers : Successor(n) \in Numbers /\ Successor(n) # n
    /\ \A m, n \in Numbers : Successor(m) = Successor(n) => m = n
BY SeqModulusAssumption DEF Successor, Numbers

\* A recent number is not the one that comes after the next.
LEMMA RecentFacts ==
    ASSUME nextSampleSeq \in Numbers, NEW n \in Numbers, Recent(n, 1)
    PROVE  n # Successor(nextSampleSeq)
BY SeqModulusAssumption DEF Recent, Age, Successor, Numbers

\* What was recent with a margin of two is recent with a margin of one.
LEMMA MarginShrinks ==
    ASSUME nextSampleSeq \in Numbers, NEW n \in Numbers, Recent(n, 2)
    PROVE  Recent(n, 1)
BY SeqModulusAssumption DEF Recent, Age, Numbers

\* Live numbers are numbers.
LEMMA LiveIsNumbers == Typed => Live \subseteq Numbers
BY DEF Typed, Live, Samples

\* A guard on the numbers is a guard on every live one.
LEMMA LiveIsRecent ==
    ASSUME NumbersLast(1) PROVE \A n \in Live : Recent(n, 1)
BY DEF NumbersLast, Live

LEMMA LiveIsRecent2 ==
    ASSUME Typed, NumbersLast(2) PROVE \A n \in Live : Recent(n, 1)
<1>1. \A n \in Live : Recent(n, 2)
  BY DEF NumbersLast, Live
<1> QED BY <1>1, LiveIsNumbers, MarginShrinks DEF Typed

-----------------------------------------------------------------------------
\* The types are kept by every step.
LEMMA TypedStep == ASSUME Typed, [Next]_vars PROVE Typed'
<1> USE DEF Typed
<1> USE SeqModulusAssumption, IntervalAssumption, BoundsAssumption, SuccessorFacts
<1>1. ASSUME NEW resized \in BOOLEAN, NEW unasked \in BOOLEAN, EncodeImage(resized, unasked)
      PROVE  Typed'
  <2>1. Sample(IsKey(resized) \/ unasked) \in Samples
    BY <1>1 DEF Sample, Samples, IsKey, Reopens
  <2> QED BY <1>1, <2>1 DEF EncodeImage, guest
<1>2. ASSUME NEW resized \in BOOLEAN,
             OpenEncoderFails(resized) \/ PrepareFails(resized) \/ SendFrameFails(resized)
      PROVE  Typed'
  BY <1>2 DEF OpenEncoderFails, PrepareFails, SendFrameFails, path, guest
<1>3. CASE ApplyConfig
  BY <1>3 DEF ApplyConfig, path, guest
<1>4. CASE RequestKeyFrame
  BY <1>4 DEF RequestKeyFrame, guest
<1>5. \A n \in Nat : Requested(n) \in 0 .. MaxRequests
  BY DEF Requested
<1>6. ASSUME NEW s \in air, NEW repeated \in BOOLEAN,
             SkipSample(s, repeated) \/ DecodeSample(s, repeated) \/ DecoderFails(s, repeated)
      PROVE  Typed'
  <2>1. s.seq \in Numbers
    BY DEF Samples
  <2>2. Ask \in Nat /\ WaitAfterAsk \in 0 .. Interval
    BY DEF Ask, WaitAfterAsk
  <2>3. air' \subseteq Samples /\ hasLastSeq' \in BOOLEAN /\ lastSeq' \in Numbers
    BY <1>6, <2>1 DEF SkipSample, DecodeSample, DecoderFails, Takes
  <2>4. Requested(Ask) \in 0 .. MaxRequests /\ Requested(1 + Ask) \in 0 .. MaxRequests
        /\ Requested(1) \in 0 .. MaxRequests
    BY <1>5, <2>2
  <2>5. requests' \in 0 .. MaxRequests
    <3>1. CASE SkipSample(s, repeated) \/ DecodeSample(s, repeated)
      BY <3>1, <2>4 DEF SkipSample, DecodeSample
    <3>2. CASE DecoderFails(s, repeated)
      BY <3>2, <2>4 DEF DecoderFails
    <3> QED BY <1>6, <3>1, <3>2
  <2>6. wait' \in 0 .. Interval
    BY <1>6, <2>2 DEF SkipSample, DecodeSample, DecoderFails
  <2>7. waitingForKeyFrame' \in BOOLEAN /\ codecOpen' \in BOOLEAN /\ fed' \in Numbers
    BY <1>6, <2>1, Zenon DEF SkipSample, DecodeSample, DecoderFails
  <2> QED BY <1>6, <2>3, <2>5, <2>6, <2>7, Zenon DEF SkipSample, DecodeSample, DecoderFails, host
<1>7. ASSUME NEW s \in air, LoseSample(s) PROVE Typed'
  BY <1>7 DEF LoseSample, host, guest
<1>8. CASE LoseRequest
  BY <1>8 DEF LoseRequest, host, guest
<1>9. CASE Tick
  BY <1>9 DEF Tick, host, path
<1>10. CASE UNCHANGED vars
  BY <1>10 DEF vars, host, path, guest
<1> QED BY <1>1, <1>2, <1>3, <1>4, <1>6, <1>7, <1>8, <1>9, <1>10 DEF Next

\* The path is kept within its bound.
LEMMA PathBoundedStep == ASSUME Typed, PathBounded, [Next]_vars PROVE PathBounded'
<1> USE BoundsAssumption DEF PathBounded
<1>1. ASSUME air' \subseteq air PROVE PathBounded'
  BY <1>1, FS_Subset, FS_CardinalityType
<1>2. ASSUME NEW resized \in BOOLEAN, NEW unasked \in BOOLEAN, EncodeImage(resized, unasked)
      PROVE  PathBounded'
  <2> DEFINE new == Sample(IsKey(resized) \/ unasked)
  <2>1. air' = air \cup {new} /\ Cardinality(air) < MaxInAir
    BY <1>2 DEF EncodeImage, TakesImage
  <2> HIDE DEF new
  <2>2. IsFiniteSet(air') /\ (Cardinality(air') = Cardinality(air)
                              \/ Cardinality(air') = Cardinality(air) + 1)
    BY <2>1, FS_AddElement
  <2> QED BY <2>1, <2>2, FS_CardinalityType
<1>3. ASSUME NEW s \in air, NEW repeated \in BOOLEAN,
             SkipSample(s, repeated) \/ DecodeSample(s, repeated) \/ DecoderFails(s, repeated)
      PROVE  air' \subseteq air
  BY <1>3 DEF SkipSample, DecodeSample, DecoderFails, Takes
<1>4. ASSUME NEW s \in air, LoseSample(s) PROVE air' \subseteq air
  BY <1>4 DEF LoseSample
<1>5. ASSUME NEW resized \in BOOLEAN,
             OpenEncoderFails(resized) \/ PrepareFails(resized) \/ SendFrameFails(resized)
      PROVE  air' = air
  BY <1>5 DEF OpenEncoderFails, PrepareFails, SendFrameFails, path
<1>6. ASSUME ApplyConfig \/ RequestKeyFrame \/ LoseRequest \/ Tick \/ UNCHANGED vars
      PROVE  air' = air
  BY <1>6 DEF ApplyConfig, RequestKeyFrame, LoseRequest, Tick, vars, path
<1> QED BY <1>1, <1>2, <1>3, <1>4, <1>5, <1>6 DEF Next

-----------------------------------------------------------------------------
\* A captured image that is coded: its number becomes live.
LEMMA EncodeImageStep ==
    ASSUME IInv, Typed', NEW key \in BOOLEAN, NumbersLast(1),
           air' = air \cup {Sample(key)},
           nextSampleSeq' = Successor(nextSampleSeq),
           coded' = nextSampleSeq,
           UNCHANGED <<hasLastSeq, lastSeq>>
    PROVE  NumbersApart' /\ RefsArePredecessors'
<1> USE DEF IInv, Typed
<1> DEFINE new == Sample(key)
<1>1. new.seq = nextSampleSeq /\ new.key = key /\ (~key => new.ref = coded)
  BY DEF Sample
<1>2. Live' = Live \cup {nextSampleSeq}
  BY <1>1 DEF Live
<1>3. Live \subseteq Numbers
  BY LiveIsNumbers
<1>4. \A n \in Live : n # Successor(nextSampleSeq)
  BY <1>3, LiveIsRecent, RecentFacts
<1>5. NumbersApart'
  BY <1>2, <1>3, <1>4, SuccessorFacts DEF NumbersApart
<1>6. ASSUME NEW s \in air', NEW n \in Live', ~s.key, s.seq = Successor(n)
      PROVE  s.ref = n
  <2>1. CASE s \in air /\ n \in Live
    BY <1>6, <2>1 DEF RefsArePredecessors
  <2>2. CASE s \in air /\ n = nextSampleSeq
    <3>1. s.seq \in Live
      BY <2>2 DEF Live
    <3> QED BY <1>4, <1>6, <2>2, <3>1
  <2>3. CASE s = new /\ n \in Live
    BY <1>1, <1>6, <2>3 DEF NumbersApart
  <2>4. CASE s = new /\ n = nextSampleSeq
    BY <1>1, <1>6, <2>4, SuccessorFacts
  <2> QED BY <1>2, <1>6, <2>1, <2>2, <2>3, <2>4
<1> QED BY <1>5, <1>6 DEF RefsArePredecessors

\* A captured image that is not coded: its number never becomes live.
LEMMA SkipImageStep ==
    ASSUME IInv, NumbersLast(2),
           nextSampleSeq' = Successor(nextSampleSeq),
           UNCHANGED <<air, coded, hasLastSeq, lastSeq>>
    PROVE  NumbersApart' /\ RefsArePredecessors'
<1>1. Live' = Live
  BY DEF Live
<1>2. Live \subseteq Numbers /\ nextSampleSeq \in Numbers
  BY LiveIsNumbers DEF IInv, Typed
<1>3. \A n \in Live : n # Successor(nextSampleSeq)
  BY <1>2, LiveIsRecent2, RecentFacts DEF IInv
<1>4. NumbersApart'
  BY <1>1, <1>2, <1>3, SuccessorFacts DEF IInv, NumbersApart
<1> QED BY <1>1, <1>4 DEF IInv, RefsArePredecessors

\* Numbers that stop being live disturb nothing.
LEMMA FewerLive ==
    ASSUME NumbersApart, RefsArePredecessors,
           air' \subseteq air, Live' \subseteq Live,
           UNCHANGED <<nextSampleSeq, coded>>
    PROVE  NumbersApart' /\ RefsArePredecessors'
<1>1. NumbersApart'
  BY DEF NumbersApart, Successor
<1>2. RefsArePredecessors'
  BY DEF RefsArePredecessors, Successor
<1> QED BY <1>1, <1>2

\* Every step keeps the invariant.
LEMMA IInvStep == ASSUME IInv, [Next]_vars PROVE IInv'
<1>1. Typed' /\ PathBounded'
  BY TypedStep, PathBoundedStep DEF IInv
<1>2. ASSUME NEW resized \in BOOLEAN, NEW unasked \in BOOLEAN, EncodeImage(resized, unasked)
      PROVE  CodecFollows' /\ NumbersApart' /\ RefsArePredecessors'
  <2>1. (IsKey(resized) \/ unasked) \in BOOLEAN
    OBVIOUS
  <2>2. NumbersApart' /\ RefsArePredecessors'
    BY <1>1, <1>2, <2>1, EncodeImageStep DEF EncodeImage, TakesImage, guest
  <2> QED BY <1>2, <2>2 DEF EncodeImage, guest, IInv, CodecFollows
<1>3. ASSUME NEW resized \in BOOLEAN,
             OpenEncoderFails(resized) \/ PrepareFails(resized) \/ SendFrameFails(resized)
      PROVE  CodecFollows' /\ NumbersApart' /\ RefsArePredecessors'
  <2>1. NumbersApart' /\ RefsArePredecessors'
    BY <1>3, SkipImageStep
       DEF OpenEncoderFails, PrepareFails, SendFrameFails, TakesImage, path, guest
  <2> QED BY <1>3, <2>1
          DEF OpenEncoderFails, PrepareFails, SendFrameFails, guest, IInv, CodecFollows
<1>4. ASSUME ApplyConfig \/ RequestKeyFrame \/ LoseRequest \/ Tick \/ UNCHANGED vars
      PROVE  CodecFollows' /\ NumbersApart' /\ RefsArePredecessors'
  <2>1. UNCHANGED <<air, nextSampleSeq, coded, hasLastSeq, lastSeq, waitingForKeyFrame,
                    codecOpen, fed>>
    BY <1>4 DEF ApplyConfig, RequestKeyFrame, LoseRequest, Tick, vars, path, guest, host
  <2> QED BY <2>1 DEF IInv, CodecFollows, NumbersApart, RefsArePredecessors, Live
<1>5. ASSUME NEW s \in air, LoseSample(s)
      PROVE  CodecFollows' /\ NumbersApart' /\ RefsArePredecessors'
  <2>1. air' \subseteq air /\ Live' \subseteq Live
    BY <1>5 DEF LoseSample, Live, guest
  <2>2. NumbersApart' /\ RefsArePredecessors'
    BY <1>5, <2>1, FewerLive DEF LoseSample, host, IInv
  <2> QED BY <1>5, <2>2 DEF LoseSample, guest, IInv, CodecFollows
<1>6. ASSUME NEW s \in air, NEW repeated \in BOOLEAN,
             SkipSample(s, repeated) \/ DecodeSample(s, repeated) \/ DecoderFails(s, repeated)
      PROVE  CodecFollows' /\ NumbersApart' /\ RefsArePredecessors'
  <2>1. Takes(s, repeated) /\ UNCHANGED host
    BY <1>6 DEF SkipSample, DecodeSample, DecoderFails
  <2>2. air' \subseteq air /\ Live' \subseteq Live
    BY <2>1 DEF Takes, Live
  <2>3. NumbersApart' /\ RefsArePredecessors'
    BY <2>1, <2>2, FewerLive DEF host, IInv
  <2>4. CASE SkipSample(s, repeated)
    <3>1. waitingForKeyFrame \/ Broken(s)
      BY <2>4 DEF SkipSample
    <3>2. codecOpen' = FALSE /\ waitingForKeyFrame' = TRUE
      BY <2>4, <3>1 DEF SkipSample, IInv, CodecFollows, Typed
    <3> QED BY <2>3, <3>2 DEF CodecFollows
  <2>5. CASE DecodeSample(s, repeated)
    BY <2>3, <2>5 DEF DecodeSample, Takes, CodecFollows
  <2>6. CASE DecoderFails(s, repeated)
    BY <2>3, <2>6 DEF DecoderFails, CodecFollows
  <2> QED BY <1>6, <2>3, <2>4, <2>5, <2>6
<1>7. CodecFollows' /\ NumbersApart' /\ RefsArePredecessors'
  BY <1>2, <1>3, <1>4, <1>5, <1>6 DEF Next
<1> QED BY <1>1, <1>7 DEF IInv

LEMMA IInvInit == Init => IInv
<1> SUFFICES ASSUME Init PROVE IInv
  OBVIOUS
<1>0. 0 \in Numbers /\ 0 \in 0 .. Interval /\ 0 \in 0 .. MaxRequests
  BY SeqModulusAssumption, IntervalAssumption, BoundsAssumption DEF Numbers
<1>1. Typed
  BY <1>0 DEF Init, Typed
<1>2. PathBounded
  BY FS_EmptySet, BoundsAssumption DEF Init, PathBounded
<1>3. Live = {}
  BY DEF Init, Live
<1> QED BY <1>1, <1>2, <1>3 DEF IInv, Init, CodecFollows, NumbersApart, RefsArePredecessors

\* The strengthened invariant holds in every reachable state.
THEOREM Invariant == Spec => []IInv
BY IInvInit, IInvStep, PTL DEF Spec

\* Type correctness, with the path kept within its bound.
THEOREM TypeCorrect == Spec => []TypeOK
<1>1. IInv => TypeOK
  BY DEF IInv, Typed, PathBounded, TypeOK
<1> QED BY <1>1, Invariant, PTL

\* No picture is decoded across a loss, a repetition or a late sample: what is
\* fed to the codec is a key frame or was coded against what it was fed before.
THEOREM FedInStreamHolds == Spec => FedInStream
<1> DEFINE A == \A s \in air, repeated \in BOOLEAN :
                  DecodeSample(s, repeated) => s.key \/ (codecOpen /\ fed = s.ref)
<1>1. IInv => A
  <2> SUFFICES ASSUME IInv, NEW s \in air, NEW repeated \in BOOLEAN,
                      DecodeSample(s, repeated), ~s.key
               PROVE  codecOpen /\ fed = s.ref
    OBVIOUS
  <2>1. ~waitingForKeyFrame /\ ~Broken(s)
    BY DEF DecodeSample, Decodes
  <2>2. codecOpen /\ hasLastSeq /\ fed = lastSeq
    BY <2>1 DEF IInv, CodecFollows
  <2>3. s.seq = Successor(lastSeq) /\ lastSeq \in Live
    BY <2>1, <2>2 DEF Broken, IsGap, Live
  <2> QED BY <2>2, <2>3 DEF IInv, RefsArePredecessors
<1>2. Spec => [][A]_vars
  BY <1>1, Invariant, PTL
<1> QED BY <1>2 DEF FedInStream
=============================================================================
