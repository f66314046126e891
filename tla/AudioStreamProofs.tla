-------------------------- MODULE AudioStreamProofs --------------------------
(***************************************************************************)
(* What AudioStream guarantees for any streams, any sizes of the buffers   *)
(* and queues and any number of frames and resets.                         *)
(*                                                                         *)
(* That a stream is heard in order is no invariant of the mixer alone: it  *)
(* holds because the frames of a stream are in order all the way from the  *)
(* reorder buffer to the device.  AInv says so.                            *)
(***************************************************************************)
EXTENDS AudioStream, SequenceTheorems, FiniteSetTheorems, WellFoundedInduction,
        NaturalsInduction, TLAPS

\* The frames of stream s in queue q.
OfStream(q, s) == {q[i] : i \in {j \in DOMAIN q : q[j].stream = s}}

AllBefore(F, G) == \A f \in F, g \in G : Before(f, g)

Increasing(q, s) ==
    \A i, j \in DOMAIN q : i < j /\ q[i].stream = s /\ q[j].stream = s => Before(q[i], q[j])

\* The frame that is due comes after every frame that was put in order.
Ahead(s) == [epoch |-> epoch, seq |-> reorder[s].next]

Mixed(s) == OfStream(mixer[s], s)
Playable(s) == OfStream(toPlay, s)
Emitted(s) == OfStream(toSync, s)

\* The frames of a stream are in order from the device back to the buffer.
StreamInOrder(s) ==
    /\ Increasing(mixer[s], s) /\ Increasing(toPlay, s) /\ Increasing(toSync, s)
    /\ AllBefore(Mixed(s), Playable(s) \cup Emitted(s))
    /\ AllBefore(Playable(s), Emitted(s))
    /\ AllBefore({heard[s]}, Mixed(s) \cup Playable(s) \cup Emitted(s))
    /\ AllBefore({heard[s]} \cup Mixed(s) \cup Playable(s) \cup Emitted(s), {Ahead(s)})

\* A queue of the mixer holds frames of its stream only.
MixerIsSorted == \A s \in Streams : \A i \in DOMAIN mixer[s] : mixer[s][i].stream = s

\* After a reset nothing is buffered until a frame arrives.
FreshIsEmpty == \A s \in Streams : ~reorder[s].valid => reorder[s] = Empty

AInv ==
    /\ TypeOK
    /\ GapsAreBridged
    /\ OffIsOff
    /\ FreshIsEmpty
    /\ MixerIsSorted
    /\ \A s \in Streams : StreamInOrder(s)

-----------------------------------------------------------------------------
(* Sequences of frames *)

LEMMA BeforeIsTransitive ==
    ASSUME NEW f, NEW g, NEW h, Before(f, g), Before(g, h),
           f.epoch \in Nat, g.epoch \in Nat, h.epoch \in Nat,
           f.seq \in Nat, g.seq \in Nat, h.seq \in Nat
    PROVE  Before(f, h)
BY DEF Before

LEMMA TailOfStream ==
    ASSUME NEW q \in Seq(Frame), q # <<>>, NEW s, Increasing(q, s)
    PROVE  /\ Head(q) \in Frame /\ Tail(q) \in Seq(Frame)
           /\ Increasing(Tail(q), s)
           /\ OfStream(Tail(q), s) \subseteq OfStream(q, s)
           /\ Head(q).stream = s =>
                /\ Head(q) \in OfStream(q, s)
                /\ AllBefore({Head(q)}, OfStream(Tail(q), s))
<1>1. /\ Len(q) \in Nat /\ Len(q) > 0 /\ Head(q) = q[1] /\ q[1] \in Frame /\ Tail(q) \in Seq(Frame)
      /\ DOMAIN q = 1 .. Len(q) /\ DOMAIN Tail(q) = 1 .. Len(q) - 1
      /\ \A i \in 1 .. Len(q) - 1 : Tail(q)[i] = q[i + 1]
  OBVIOUS
<1>2. 1 \in DOMAIN q
  BY <1>1
<1>3. \A i \in DOMAIN Tail(q) : i \in Nat /\ i + 1 \in DOMAIN q /\ i + 1 > 1 /\ Tail(q)[i] = q[i + 1]
  BY <1>1
<1>4. Increasing(Tail(q), s)
  <2> SUFFICES ASSUME NEW i \in DOMAIN Tail(q), NEW j \in DOMAIN Tail(q), i < j,
                      Tail(q)[i].stream = s, Tail(q)[j].stream = s
               PROVE  Before(Tail(q)[i], Tail(q)[j])
    BY DEF Increasing
  <2>1. i + 1 < j + 1 /\ i + 1 \in DOMAIN q /\ j + 1 \in DOMAIN q
    BY <1>3
  <2> QED
    BY <1>3, <2>1 DEF Increasing
<1>5. OfStream(Tail(q), s) \subseteq OfStream(q, s)
  BY <1>3 DEF OfStream
<1>6. ASSUME Head(q).stream = s
      PROVE  Head(q) \in OfStream(q, s) /\ AllBefore({Head(q)}, OfStream(Tail(q), s))
  <2>1. Head(q) \in OfStream(q, s)
    BY <1>1, <1>2, <1>6 DEF OfStream
  <2>2. ASSUME NEW i \in DOMAIN Tail(q), Tail(q)[i].stream = s
        PROVE  Before(q[1], Tail(q)[i])
    BY <1>1, <1>2, <1>3, <1>6, <2>2 DEF Increasing
  <2> QED
    BY <1>1, <2>1, <2>2 DEF OfStream, AllBefore
<1> QED
  BY <1>1, <1>4, <1>5, <1>6

LEMMA AppendToStream ==
    ASSUME NEW q \in Seq(Frame), NEW f \in Frame, NEW s, Increasing(q, s),
           f.stream = s => AllBefore(OfStream(q, s), {f})
    PROVE  /\ Append(q, f) \in Seq(Frame)
           /\ Increasing(Append(q, f), s)
           /\ f.stream = s => OfStream(Append(q, f), s) \subseteq OfStream(q, s) \cup {f}
           /\ f.stream # s => OfStream(Append(q, f), s) \subseteq OfStream(q, s)
<1>1. /\ Append(q, f) \in Seq(Frame) /\ Len(q) \in Nat
      /\ DOMAIN q = 1 .. Len(q) /\ DOMAIN Append(q, f) = 1 .. Len(q) + 1
      /\ \A i \in 1 .. Len(q) + 1 : Append(q, f)[i] = IF i = Len(q) + 1 THEN f ELSE q[i]
  OBVIOUS
<1>2. \A i \in DOMAIN Append(q, f) :
        \/ i \in DOMAIN q /\ Append(q, f)[i] = q[i]
        \/ i = Len(q) + 1 /\ Append(q, f)[i] = f
  BY <1>1
<1>3. Increasing(Append(q, f), s)
  <2> SUFFICES ASSUME NEW i \in DOMAIN Append(q, f), NEW j \in DOMAIN Append(q, f), i < j,
                      Append(q, f)[i].stream = s, Append(q, f)[j].stream = s
               PROVE  Before(Append(q, f)[i], Append(q, f)[j])
    BY DEF Increasing
  <2>1. i \in DOMAIN q /\ Append(q, f)[i] = q[i]
    BY <1>1, <1>2
  <2>2. CASE j \in DOMAIN q /\ Append(q, f)[j] = q[j]
    BY <2>1, <2>2 DEF Increasing
  <2>3. CASE Append(q, f)[j] = f
    <3>1. q[i] \in OfStream(q, s)
      BY <2>1 DEF OfStream
    <3> QED
      BY <2>1, <2>3, <3>1 DEF AllBefore
  <2> QED
    BY <1>2, <2>2, <2>3
<1>4. OfStream(Append(q, f), s) \subseteq OfStream(q, s) \cup {f}
  BY <1>2 DEF OfStream
<1>5. f.stream # s => OfStream(Append(q, f), s) \subseteq OfStream(q, s)
  BY <1>2 DEF OfStream
<1> QED
  BY <1>1, <1>3, <1>4, <1>5

LEMMA ConcatStreams ==
    ASSUME NEW q \in Seq(Frame), NEW t \in Seq(Frame), NEW s, Increasing(q, s), Increasing(t, s),
           AllBefore(OfStream(q, s), OfStream(t, s))
    PROVE  /\ q \o t \in Seq(Frame)
           /\ Increasing(q \o t, s)
           /\ OfStream(q \o t, s) \subseteq OfStream(q, s) \cup OfStream(t, s)
<1> DEFINE c == q \o t
<1>1. /\ c \in Seq(Frame) /\ Len(q) \in Nat /\ Len(t) \in Nat
      /\ DOMAIN q = 1 .. Len(q) /\ DOMAIN t = 1 .. Len(t) /\ DOMAIN c = 1 .. Len(q) + Len(t)
      /\ \A i \in 1 .. Len(q) + Len(t) : c[i] = IF i <= Len(q) THEN q[i] ELSE t[i - Len(q)]
  BY ConcatProperties, LenProperties
<1> HIDE DEF c
<1>2. \A i \in DOMAIN c :
        \/ i \in DOMAIN q /\ c[i] = q[i]
        \/ i > Len(q) /\ i - Len(q) \in DOMAIN t /\ c[i] = t[i - Len(q)]
  BY <1>1
<1>3. OfStream(c, s) \subseteq OfStream(q, s) \cup OfStream(t, s)
  BY <1>2 DEF OfStream
<1>4. Increasing(c, s)
  <2> SUFFICES ASSUME NEW i \in DOMAIN c, NEW j \in DOMAIN c, i < j,
                      c[i].stream = s, c[j].stream = s
               PROVE  Before(c[i], c[j])
    BY DEF Increasing
  <2>0. i \in Nat /\ j \in Nat /\ Len(q) \in Nat
    BY <1>1
  <2>1. CASE i \in DOMAIN q /\ c[i] = q[i] /\ j \in DOMAIN q /\ c[j] = q[j]
    BY <2>1 DEF Increasing
  <2>2. CASE i \in DOMAIN q /\ c[i] = q[i] /\ j - Len(q) \in DOMAIN t /\ c[j] = t[j - Len(q)]
    <3>1. c[i] \in OfStream(q, s) /\ c[j] \in OfStream(t, s)
      BY <2>2 DEF OfStream
    <3> QED
      BY <3>1 DEF AllBefore
  <2>3. CASE /\ i - Len(q) \in DOMAIN t /\ c[i] = t[i - Len(q)]
             /\ j - Len(q) \in DOMAIN t /\ c[j] = t[j - Len(q)]
    <3>1. i - Len(q) < j - Len(q)
      BY <2>0
    <3> QED
      BY <2>3, <3>1 DEF Increasing
  <2>4. ~(i > Len(q) /\ j \in DOMAIN q)
    BY <1>1, <2>0
  <2> QED
    BY <1>2, <2>1, <2>2, <2>3, <2>4
<1> QED
  BY <1>1, <1>3, <1>4 DEF c

\* A run of frames has the numbers from one to another, in order.
LEMMA RunFacts ==
    ASSUME NEW s \in Streams, NEW from \in Nat, NEW to \in Nat, from <= to, epoch \in Nat
    PROVE  /\ Run(s, from, to) \in Seq(Frame)
           /\ \A u : Increasing(Run(s, from, to), u)
           /\ \A f \in OfStream(Run(s, from, to), s) :
                f.epoch = epoch /\ f.seq \in Nat /\ from <= f.seq /\ f.seq < to
           /\ \A u : u # s => OfStream(Run(s, from, to), u) = {}
<1> DEFINE r == Run(s, from, to)
<1>1. /\ to - from \in Nat /\ DOMAIN r = 1 .. to - from
      /\ \A i \in 1 .. to - from :
            r[i] = [stream |-> s, epoch |-> epoch, seq |-> from + i - 1]
  BY DEF Run
<1>2. \A i \in 1 .. to - from : i \in Nat /\ i >= 1 /\ from + i - 1 \in Nat /\ from + i - 1 < to /\ from <= from + i - 1
  BY <1>1
<1>3. r \in Seq(Frame)
  BY <1>1, <1>2 DEF Run, Frame
<1> HIDE DEF r
<1>4. ASSUME NEW u PROVE Increasing(r, u)
  BY <1>1, <1>2 DEF Increasing, Before
<1>5. ASSUME NEW f \in OfStream(r, s)
      PROVE  f.epoch = epoch /\ f.seq \in Nat /\ from <= f.seq /\ f.seq < to
  BY <1>1, <1>2 DEF OfStream
<1>6. ASSUME NEW u, u # s PROVE OfStream(r, u) = {}
  BY <1>1, <1>6 DEF OfStream
<1> QED
  BY <1>3, <1>4, <1>5, <1>6 DEF r

-----------------------------------------------------------------------------
(* The reorder buffer *)

LEMMA MinOfNaturals ==
    ASSUME NEW S, S \subseteq Nat, S # {}
    PROVE  Min(S) \in S /\ \A y \in S : Min(S) <= y
<1> DEFINE R == OpToRel(<, Nat)
<1>1. IsWellFoundedOn(R, Nat)
  BY NatLessThanWellFounded
<1>2. \A x, y \in Nat : y < x => <<y, x>> \in R
  BY DEF OpToRel
<1> HIDE DEF R
<1>3. PICK x \in S : \A y \in S : ~ (<<y, x>> \in R)
  <2>1. ASSUME NEW Q, IsWellFoundedOn(Q, Nat)
        PROVE  \E x \in S : \A y \in S : ~ (<<y, x>> \in Q)
    BY <2>1, WFMin, Zenon
  <2> QED
    BY <1>1, <2>1
<1>4. ASSUME NEW y \in S PROVE x <= y
  <2>1. x \in Nat /\ y \in Nat
    OBVIOUS
  <2>2. ~ (y < x)
    BY <1>2, <1>3, <2>1, Zenon
  <2> QED
    BY <2>1, <2>2
<1> QED
  BY <1>4 DEF Min

\* What the buffer holds after frame n, when the run that begins at From was taken.
RunStart(B, next, n) == From(B \cup {n}, next)
Rest(B, next, n, to) == (B \cup {n}) \ (RunStart(B, next, n) .. to - 1)

LEMMA Drained ==
    ASSUME NEW B \in SUBSET Seqs, NEW next \in 0 .. MaxSeq + 1, NEW n \in Seqs,
           \A m \in B : m > next, Cardinality(B) < MaxBuffered,
           n >= next, n \notin B,
           NEW to \in RunStart(B, next, n) .. MaxSeq + 1, to \notin B \cup {n}
    PROVE  /\ RunStart(B, next, n) \in Nat /\ next <= RunStart(B, next, n)
           /\ to \in Nat /\ RunStart(B, next, n) <= to /\ to <= MaxSeq + 1
           /\ Rest(B, next, n, to) \in SUBSET Seqs
           /\ \A m \in Rest(B, next, n, to) : m > to
           /\ Cardinality(Rest(B, next, n, to)) < MaxBuffered
<1> DEFINE b == B \cup {n}
           from == RunStart(B, next, n)
           rest == Rest(B, next, n, to)
<1>0. from = From(b, next) /\ rest = b \ (from .. to - 1) /\ b = B \cup {n} /\ to \in from .. MaxSeq + 1 /\ to \notin b
  BY DEF RunStart, Rest
<1> HIDE DEF b, from, rest
<1>1. /\ MaxSeq \in Nat /\ MaxBuffered \in Nat /\ b \subseteq Seqs /\ n \in Nat /\ next \in Nat
      /\ \A m \in b : m \in Nat /\ m >= next
  BY <1>0, SizeAssumption, BoundAssumption DEF Seqs
<1>2. /\ IsFiniteSet(B) /\ IsFiniteSet(b)
      /\ Cardinality(B) \in Nat /\ Cardinality(b) = Cardinality(B) + 1
  <2>1. IsFiniteSet(0 .. MaxSeq)
    BY <1>1, FS_Interval
  <2>2. IsFiniteSet(B)
    BY <2>1, FS_Subset DEF Seqs
  <2> QED
    BY <1>0, <2>2, FS_AddElement, FS_CardinalityType
<1>3. Min(b) \in b /\ \A m \in b : Min(b) <= m
  <2>1. b # {} /\ b \subseteq Nat
    BY <1>0, <1>1
  <2> QED
    BY <2>1, MinOfNaturals
<1>4. /\ from \in Nat /\ next <= from
      /\ \A m \in b : m >= from
      /\ from \in b \/ Cardinality(b) < MaxBuffered
  <2>1. CASE next \in b \/ Cardinality(b) < MaxBuffered
    <3>1. from = next
      BY <1>0, <2>1 DEF From
    <3>2. from \in b \/ Cardinality(b) < MaxBuffered
      BY <2>1, <3>1
    <3>3. next <= next
      BY <1>1
    <3> QED
      BY <1>1, <3>1, <3>2, <3>3
  <2>2. CASE ~(next \in b \/ Cardinality(b) < MaxBuffered)
    <3>1. from = Min(b)
      BY <1>0, <2>2 DEF From
    <3> QED
      BY <1>1, <1>3, <3>1
  <2> QED
    BY <2>1, <2>2
<1>5. to \in Nat /\ from <= to /\ to <= MaxSeq + 1
  BY <1>0, <1>1, <1>4
<1>6. ASSUME NEW m \in rest PROVE m > to
  <2>1. m \in Nat /\ m >= from /\ m # to /\ m \notin from .. to - 1
    BY <1>0, <1>1, <1>4
  <2>2. m > to - 1
    BY <1>4, <1>5, <2>1
  <2> QED
    BY <1>5, <2>1, <2>2
<1>7. IsFiniteSet(rest) /\ Cardinality(rest) \in Nat /\ Cardinality(rest) <= Cardinality(b)
  <2>1. rest \subseteq b
    BY <1>0
  <2> QED
    BY <1>2, <2>1, FS_Subset, FS_CardinalityType
<1>8. from \in b => Cardinality(rest) < Cardinality(b)
  <2>1. from \in b => from \notin rest
    BY <1>0, <1>1, <1>4, <1>5
  <2>2. Cardinality(rest) = Cardinality(b) => b = rest
    BY <1>0, <1>2, FS_Subset
  <2> QED
    BY <1>2, <1>7, <2>1, <2>2
<1>9. Cardinality(rest) < MaxBuffered
  BY <1>1, <1>2, <1>4, <1>7, <1>8
<1>10. rest \in SUBSET Seqs
  BY <1>0, <1>1
<1> QED
  BY <1>4, <1>5, <1>6, <1>9, <1>10 DEF from, rest

-----------------------------------------------------------------------------
(* What an operation of the service does to the frames *)

\* Facts about the frames under way.
LEMMA FramesAreFrames ==
    ASSUME TypeOK, NEW s \in Streams
    PROVE  /\ \A f \in Mixed(s) \cup Playable(s) \cup Emitted(s) : f \in Frame /\ f.stream = s
           /\ \A f \in {heard[s]} \cup Mixed(s) \cup Playable(s) \cup Emitted(s) \cup {Ahead(s)} :
                f.epoch \in Nat /\ f.seq \in Nat
           /\ mixer[s] \in Seq(Frame)
<1>1. ASSUME NEW q \in Seq(Frame)
      PROVE  \A f \in OfStream(q, s) : f \in Frame /\ f.stream = s
  <2>1. \A i \in DOMAIN q : q[i] \in Frame
    BY LenProperties, ElementOfSeq
  <2> QED
    BY <2>1 DEF OfStream
<1>2. mixer[s] \in Seq(Frame) /\ toPlay \in Seq(Frame) /\ toSync \in Seq(Frame)
  BY DEF TypeOK
<1>3. \A f \in Mixed(s) \cup Playable(s) \cup Emitted(s) : f \in Frame /\ f.stream = s
  BY <1>1, <1>2 DEF Mixed, Playable, Emitted
<1>4. \A f \in Frame : f.epoch \in Nat /\ f.seq \in Nat
  BY DEF Frame
<1>5. heard[s].epoch \in Nat /\ heard[s].seq \in Nat
  BY DEF TypeOK
<1>6. Ahead(s).epoch \in Nat /\ Ahead(s).seq \in Nat
  BY BoundAssumption DEF TypeOK, Ahead
<1> QED
  BY <1>2, <1>3, <1>4, <1>5, <1>6

\* An operation may empty the mixer and reset the buffers, but puts nothing in.
LEMMA OperationKeeps ==
    ASSUME AInv, UNCHANGED <<toSync, toPlay, heard>>,
           mixer' = mixer \/ mixer' = Clear,
           UNCHANGED <<reorder, epoch>> \/ ResetReorderBuffers
    PROVE  /\ GapsAreBridged' /\ FreshIsEmpty' /\ MixerIsSorted'
           /\ \A s \in Streams : StreamInOrder(s)'
<1>0. Cardinality({}) = 0 /\ MaxBuffered \in Nat \ {0}
  BY FS_EmptySet, SizeAssumption
<1>1. GapsAreBridged' /\ FreshIsEmpty'
  <2>1. CASE UNCHANGED <<reorder, epoch>>
    BY <2>1 DEF AInv, GapsAreBridged, FreshIsEmpty
  <2>2. CASE ResetReorderBuffers
    <3>1. \A s \in Streams : reorder'[s] = Empty
      BY <2>2 DEF ResetReorderBuffers
    <3>2. Empty.buffer = {} /\ 0 < MaxBuffered
      BY <1>0 DEF Empty
    <3> QED
      BY <1>0, <3>1, <3>2 DEF GapsAreBridged, FreshIsEmpty
  <2> QED
    BY <2>1, <2>2
<1>2. MixerIsSorted'
  BY DEF AInv, MixerIsSorted, Clear
<1>3. ASSUME NEW s \in Streams
      PROVE  StreamInOrder(s)'
  <2>1. StreamInOrder(s)
    BY DEF AInv
  <2>2. Increasing(mixer'[s], s) /\ OfStream(mixer'[s], s) \subseteq OfStream(mixer[s], s)
    <3>1. CASE mixer' = mixer
      BY <2>1, <3>1 DEF StreamInOrder
    <3>2. CASE mixer' = Clear
      <4>1. mixer'[s] = <<>> /\ DOMAIN <<>> = {}
        BY <3>2 DEF Clear
      <4> QED
        BY <4>1 DEF Increasing, OfStream
    <3> QED
      BY <3>1, <3>2
  <2> DEFINE under == {heard[s]} \cup Mixed(s) \cup Playable(s) \cup Emitted(s)
  <2>3. AllBefore(under, {Ahead(s)'})
    <3>1. CASE UNCHANGED <<reorder, epoch>>
      BY <2>1, <3>1 DEF StreamInOrder, Ahead
    <3>2. CASE ResetReorderBuffers
      <4>1. epoch \in Nat /\ epoch' = epoch + 1
        BY <3>2 DEF AInv, TypeOK, ResetReorderBuffers
      <4>2. \A f \in under : f.epoch <= epoch /\ f.epoch \in Nat
        BY <2>1, <4>1, FramesAreFrames DEF AInv, StreamInOrder, AllBefore, Before, Ahead
      <4> QED
        BY <4>1, <4>2 DEF AllBefore, Before, Ahead
    <3> QED
      BY <3>1, <3>2
  <2> QED
    BY <2>1, <2>2, <2>3 DEF StreamInOrder, Mixed, Playable, Emitted, AllBefore
<1> QED
  BY <1>1, <1>2, <1>3

\* The steps that pass no frame on.
Operation ==
    \/ \E on \in SUBSET Streams, playback, mixerOk \in BOOLEAN : ApplyConfig(on, playback, mixerOk)
    \/ \E r \in Roles : SetRole(r)
    \/ Start \/ Stop
    \/ \E s \in Streams, on \in BOOLEAN : SetSourceEnabled(s, on)
    \/ \E on \in BOOLEAN : SetPlaybackEnabled(on)
    \/ \E on \in BOOLEAN : SetAudioEnabled(on)
    \/ DeviceStops \/ CaptureFails
    \/ UNCHANGED vars

\* What the operations change of the service, and how.
ServiceTypeOK ==
    /\ role \in Roles /\ running \in BOOLEAN
    /\ enabled \subseteq Streams /\ capturing \subseteq Streams
    /\ playbackEnabled \in BOOLEAN /\ syncEnabled \in BOOLEAN /\ playing \in BOOLEAN

LEMMA OperationIsQuiet ==
    ASSUME Operation
    PROVE  /\ UNCHANGED <<toSync, toPlay, heard, deviceOk>>
           /\ mixer' = mixer \/ mixer' = Clear
           /\ UNCHANGED <<reorder, epoch>> \/ ResetReorderBuffers
<1>1. CASE \E on \in SUBSET Streams, playback, mixerOk \in BOOLEAN : ApplyConfig(on, playback, mixerOk)
  BY <1>1 DEF ApplyConfig, Control, Stopped, sync
<1>2. CASE \E r \in Roles : SetRole(r)
  BY <1>2 DEF SetRole, Control, Stopped, sync
<1>3. CASE Start \/ Stop
  BY <1>3 DEF Start, Stop, Control, Stopped, sync
<1>4. CASE \E s \in Streams, on \in BOOLEAN : SetSourceEnabled(s, on)
  BY <1>4 DEF SetSourceEnabled, Control, sync
<1>5. CASE \E on \in BOOLEAN : SetPlaybackEnabled(on)
  BY <1>5 DEF SetPlaybackEnabled, Control, sync
<1>6. CASE \/ \E on \in BOOLEAN : SetAudioEnabled(on)
           \/ DeviceStops \/ CaptureFails \/ UNCHANGED vars
  BY <1>6 DEF SetAudioEnabled, DeviceStops, CaptureFails, sync, output, vars
<1> QED
  BY <1>1, <1>2, <1>3, <1>4, <1>5, <1>6 DEF Operation

LEMMA ServiceKeeps ==
    ASSUME TypeOK, OffIsOff, Operation
    PROVE  ServiceTypeOK' /\ OffIsOff'
<1> DEFINE NoFrames == \A s \in Streams : mixer'[s] = <<>>
<1>0. ServiceTypeOK /\ (mixer' = Clear => NoFrames)
  BY DEF TypeOK, ServiceTypeOK, Clear
<1>1. ASSUME NEW on \in SUBSET Streams, NEW playback \in BOOLEAN, NEW mixerOk \in BOOLEAN,
             ApplyConfig(on, playback, mixerOk)
      PROVE  ServiceTypeOK' /\ OffIsOff'
  <2>1. CASE running
    BY <1>0, <1>1, <2>1 DEF ServiceTypeOK, OffIsOff, ApplyConfig, Control, Stopped, Sources, sync
  <2>2. CASE ~running
    <3>1. capturing = {} /\ ~playing /\ \A s \in Streams : mixer[s] = <<>>
      BY <1>0, <2>2 DEF OffIsOff, ServiceTypeOK
    <3> QED
      BY <1>0, <1>1, <2>2, <3>1 DEF ServiceTypeOK, OffIsOff, ApplyConfig, Control, sync
  <2> QED
    BY <2>1, <2>2
<1>2. ASSUME NEW r \in Roles, SetRole(r)
      PROVE  ServiceTypeOK' /\ OffIsOff'
  BY <1>0, <1>2 DEF ServiceTypeOK, OffIsOff, SetRole, Control, Stopped, sync
<1>3. CASE Start
  BY <1>0, <1>3 DEF ServiceTypeOK, OffIsOff, Start, Control, Sources, sync
<1>4. CASE Stop
  BY <1>0, <1>4 DEF ServiceTypeOK, OffIsOff, Stop, Control, Stopped, sync
<1>5. ASSUME NEW s \in Streams, NEW on \in BOOLEAN, SetSourceEnabled(s, on)
      PROVE  ServiceTypeOK' /\ OffIsOff'
  BY <1>0, <1>5 DEF ServiceTypeOK, OffIsOff, SetSourceEnabled, Captured, Control, sync
<1>6. ASSUME NEW on \in BOOLEAN, SetPlaybackEnabled(on)
      PROVE  ServiceTypeOK' /\ OffIsOff'
  BY <1>0, <1>6 DEF ServiceTypeOK, OffIsOff, SetPlaybackEnabled, Control, sync
<1>7. ASSUME NEW on \in BOOLEAN, SetAudioEnabled(on)
      PROVE  ServiceTypeOK' /\ OffIsOff'
  BY <1>0, <1>7 DEF ServiceTypeOK, OffIsOff, SetAudioEnabled, service, output
<1>8. CASE DeviceStops
  BY <1>0, <1>8 DEF ServiceTypeOK, OffIsOff, DeviceStops, service, sync
<1>9. CASE CaptureFails
  BY <1>0, <1>9 DEF ServiceTypeOK, OffIsOff, CaptureFails, sync, output
<1>10. CASE UNCHANGED vars
  BY <1>0, <1>10 DEF ServiceTypeOK, OffIsOff, service, sync, output, vars
<1> QED
  BY <1>1, <1>2, <1>3, <1>4, <1>5, <1>6, <1>7, <1>8, <1>9, <1>10 DEF Operation

LEMMA OperationsKeep ==
    ASSUME AInv, Operation
    PROVE  AInv' /\ UNCHANGED heard
<1>1. /\ UNCHANGED <<toSync, toPlay, heard, deviceOk>>
      /\ mixer' = mixer \/ mixer' = Clear
      /\ UNCHANGED <<reorder, epoch>> \/ ResetReorderBuffers
  BY OperationIsQuiet
<1>2. ServiceTypeOK' /\ OffIsOff'
  BY ServiceKeeps DEF AInv
<1>3. mixer' \in [Streams -> Seq(Frame)]
  <2>1. <<>> \in Seq(Frame)
    OBVIOUS
  <2>2. Clear \in [Streams -> Seq(Frame)]
    BY <2>1 DEF Clear
  <2> QED
    BY <1>1, <2>2 DEF AInv, TypeOK
<1>4. /\ reorder' \in [Streams -> [buffer : SUBSET Seqs, next : 0 .. MaxSeq + 1, valid : BOOLEAN]]
      /\ epoch' \in Nat \ {0}
  <2>1. Empty \in [buffer : SUBSET Seqs, next : 0 .. MaxSeq + 1, valid : BOOLEAN]
    BY BoundAssumption DEF Empty
  <2> QED
    BY <1>1, <2>1 DEF AInv, TypeOK, ResetReorderBuffers
<1>5. TypeOK'
  BY <1>1, <1>2, <1>3, <1>4 DEF AInv, TypeOK, ServiceTypeOK
<1> QED
  BY <1>1, <1>2, <1>5, OperationKeeps DEF AInv

-----------------------------------------------------------------------------
(* The steps that pass frames on *)

LEMMA ReadyKeeps ==
    ASSUME AInv, OnAudioFrameReady
    PROVE  AInv' /\ UNCHANGED heard
<1> DEFINE f == Head(toSync)
<1>1. /\ toSync # <<>> /\ toSync' = Tail(toSync)
      /\ toPlay' = Append(toPlay, f) \/ toPlay' = toPlay
      /\ UNCHANGED <<role, running, enabled, playbackEnabled, capturing, reorder, epoch, syncEnabled,
                     mixer, playing, heard, deviceOk>>
  BY DEF OnAudioFrameReady, service, output
<1>2. toSync \in Seq(Frame) /\ toPlay \in Seq(Frame) /\ f \in Frame /\ Tail(toSync) \in Seq(Frame)
  BY <1>1 DEF AInv, TypeOK
<1> HIDE DEF f
<1>3. TypeOK'
  <2>1. Append(toPlay, f) \in Seq(Frame)
    BY <1>2
  <2> QED
    BY <1>1, <1>2, <2>1 DEF AInv, TypeOK
<1>4. ASSUME NEW s \in Streams
      PROVE  StreamInOrder(s)'
  <2>1. StreamInOrder(s)
    BY DEF AInv
  <2>2. /\ Increasing(Tail(toSync), s)
        /\ OfStream(Tail(toSync), s) \subseteq Emitted(s)
        /\ f.stream = s => f \in Emitted(s) /\ AllBefore({f}, OfStream(Tail(toSync), s))
    BY <1>1, <1>2, <2>1, TailOfStream DEF StreamInOrder, Emitted, f
  <2>3. f.stream = s => AllBefore(Playable(s), {f})
    BY <2>1, <2>2 DEF StreamInOrder, AllBefore
  <2>4. /\ Increasing(toPlay', s)
        /\ f.stream = s => OfStream(toPlay', s) \subseteq Playable(s) \cup {f}
        /\ f.stream # s => OfStream(toPlay', s) \subseteq Playable(s)
    <3>1. CASE toPlay' = toPlay
      BY <2>1, <3>1 DEF StreamInOrder, Playable
    <3>2. CASE toPlay' = Append(toPlay, f)
      BY <1>2, <2>1, <2>3, <3>2, AppendToStream DEF StreamInOrder, Playable
    <3> QED
      BY <1>1, <3>1, <3>2
  <2> DEFINE P == OfStream(toPlay', s)
             E == OfStream(toSync', s)
  <2>5. E \subseteq Emitted(s) /\ P \subseteq Playable(s) \cup Emitted(s)
    BY <1>1, <2>2, <2>4
  <2>6. AllBefore(P, E)
    BY <1>1, <2>1, <2>2, <2>4 DEF StreamInOrder, AllBefore
  <2> HIDE DEF P, E
  <2>7. /\ AllBefore(Mixed(s), P \cup E)
        /\ AllBefore({heard[s]}, Mixed(s) \cup P \cup E)
        /\ AllBefore({heard[s]} \cup Mixed(s) \cup P \cup E, {Ahead(s)})
    BY <2>1, <2>5 DEF StreamInOrder, AllBefore
  <2>8. Increasing(mixer[s], s) /\ Increasing(toSync', s)
    BY <1>1, <2>1, <2>2 DEF StreamInOrder
  <2> QED
    BY <1>1, <2>4, <2>6, <2>7, <2>8 DEF StreamInOrder, Mixed, Playable, Emitted, Ahead, P, E
<1> QED
  BY <1>1, <1>3, <1>4 DEF AInv, GapsAreBridged, OffIsOff, FreshIsEmpty, MixerIsSorted

LEMMA ReceiveKeeps ==
    ASSUME AInv, NEW s \in Streams, NEW n \in Seqs, OnAudioSampleBytesReceived(s, n)
    PROVE  AInv' /\ UNCHANGED heard
<1> DEFINE Buffers == [buffer : SUBSET Seqs, next : 0 .. MaxSeq + 1, valid : BOOLEAN]
<1>0. epoch \in Nat /\ MaxSeq \in Nat /\ reorder \in [Streams -> Buffers]
      /\ toSync \in Seq(Frame) /\ toPlay \in Seq(Frame) /\ n \in Nat
  BY BoundAssumption DEF AInv, TypeOK, Seqs
<1>1. ASSUME NEW B \in SUBSET Seqs, NEW next \in 0 .. MaxSeq + 1,
             B = IF reorder[s].valid THEN reorder[s].buffer ELSE {},
             next = IF reorder[s].valid THEN reorder[s].next ELSE n,
             NEW b, b = B \cup {n}, NEW from, from = From(b, next),
             n >= next, n \notin B,
             NEW to \in from .. MaxSeq + 1, from .. to - 1 \subseteq b, to \notin b,
             toSync' = toSync \o Run(s, from, to),
             reorder' = [reorder EXCEPT ![s] =
                [buffer |-> b \ (from .. to - 1), next |-> to, valid |-> TRUE]]
      PROVE  AInv' /\ UNCHANGED heard
  <2>1. (\A m \in B : m > next) /\ Cardinality(B) < MaxBuffered
    <3>1. CASE reorder[s].valid
      BY <1>1, <3>1 DEF AInv, GapsAreBridged
    <3>2. CASE ~reorder[s].valid
      BY <1>1, <3>2, FS_EmptySet, SizeAssumption
    <3> QED
      BY <3>1, <3>2
  <2>2. /\ from \in Nat /\ next <= from
        /\ to \in Nat /\ from <= to /\ to <= MaxSeq + 1
        /\ b \ (from .. to - 1) \in SUBSET Seqs
        /\ \A m \in b \ (from .. to - 1) : m > to
        /\ Cardinality(b \ (from .. to - 1)) < MaxBuffered
    <3>1. from = RunStart(B, next, n) /\ b \ (from .. to - 1) = Rest(B, next, n, to)
      BY <1>1 DEF RunStart, Rest
    <3>2. to \in RunStart(B, next, n) .. MaxSeq + 1 /\ to \notin B \cup {n}
      BY <1>1, <3>1
    <3>3. /\ RunStart(B, next, n) \in Nat /\ next <= RunStart(B, next, n)
          /\ to \in Nat /\ RunStart(B, next, n) <= to /\ to <= MaxSeq + 1
          /\ Rest(B, next, n, to) \in SUBSET Seqs
          /\ \A m \in Rest(B, next, n, to) : m > to
          /\ Cardinality(Rest(B, next, n, to)) < MaxBuffered
      BY <1>1, <2>1, <3>2, Drained
    <3> QED
      BY <3>1, <3>3
  <2>3. reorder[s].next \in Nat /\ reorder[s].next <= from
    <3>1. reorder[s].next \in Nat
      BY <1>0
    <3>2. ~reorder[s].valid => reorder[s].next = 0
      BY DEF AInv, FreshIsEmpty, Empty
    <3> QED
      BY <1>1, <2>2, <3>1, <3>2
  <2> DEFINE run == Run(s, from, to)
  <2>4. /\ run \in Seq(Frame)
        /\ \A u : Increasing(run, u)
        /\ \A f \in OfStream(run, s) : f.epoch = epoch /\ f.seq \in Nat /\ from <= f.seq /\ f.seq < to
        /\ \A u : u # s => OfStream(run, u) = {}
    BY <1>0, <2>2, RunFacts
  <2> HIDE DEF run
  <2>5. /\ toSync' = toSync \o run
        /\ UNCHANGED <<role, running, enabled, playbackEnabled, capturing, epoch, toPlay, syncEnabled,
                       mixer, playing, heard, deviceOk>>
    BY <1>1 DEF OnAudioSampleBytesReceived, service, output, run
  <2>6. /\ reorder' \in [Streams -> Buffers]
        /\ reorder'[s].next = to /\ reorder'[s].valid
        /\ reorder'[s].buffer = b \ (from .. to - 1)
        /\ \A u \in Streams : u # s => reorder'[u] = reorder[u]
    <3>1. [buffer |-> b \ (from .. to - 1), next |-> to, valid |-> TRUE] \in Buffers
      BY <1>0, <2>2
    <3> QED
      BY <1>0, <1>1, <3>1
  <2> HIDE DEF Buffers
  <2>7. TypeOK'
    <3>1. toSync' \in Seq(Frame)
      BY <1>0, <2>4, <2>5, ConcatProperties
    <3> QED
      BY <2>5, <2>6, <3>1 DEF AInv, TypeOK, Buffers
  <2>8. GapsAreBridged' /\ FreshIsEmpty'
    <3>1. ASSUME NEW u \in Streams
          PROVE  /\ \A m \in reorder'[u].buffer : m > reorder'[u].next
                 /\ Cardinality(reorder'[u].buffer) < MaxBuffered
                 /\ ~reorder'[u].valid => reorder'[u] = Empty
      <4>1. CASE u = s
        BY <2>2, <2>6, <4>1
      <4>2. CASE u # s
        BY <2>6, <4>2 DEF AInv, GapsAreBridged, FreshIsEmpty
      <4> QED
        BY <4>1, <4>2
    <3> QED
      BY <3>1 DEF GapsAreBridged, FreshIsEmpty
  <2>9. ASSUME NEW u \in Streams
        PROVE  StreamInOrder(u)'
    <3>1. StreamInOrder(u)
      BY DEF AInv
    <3>2. \A f \in {heard[u]} \cup Mixed(u) \cup Playable(u) \cup Emitted(u) \cup {Ahead(u)} :
                f.epoch \in Nat /\ f.seq \in Nat
      BY FramesAreFrames DEF AInv
    <3> DEFINE R == OfStream(run, u)
    <3>3. AllBefore({heard[u]} \cup Mixed(u) \cup Playable(u) \cup Emitted(u), R)
      <4>1. CASE u # s
        BY <2>4, <4>1 DEF AllBefore
      <4>2. CASE u = s
        <5>1. ASSUME NEW f \in {heard[s]} \cup Mixed(s) \cup Playable(s) \cup Emitted(s),
                     NEW g \in OfStream(run, s)
              PROVE  Before(f, g)
          <6>1. Before(f, Ahead(s)) /\ f.epoch \in Nat /\ f.seq \in Nat
            BY <3>1, <3>2, <4>2, <5>1 DEF StreamInOrder, AllBefore
          <6>2. g.epoch = epoch /\ g.seq \in Nat /\ reorder[s].next <= g.seq
            BY <2>2, <2>3, <2>4
          <6> QED
            BY <1>0, <2>3, <6>1, <6>2 DEF Before, Ahead
        <5> QED
          BY <4>2, <5>1 DEF AllBefore
      <4> QED
        BY <4>1, <4>2
    <3>4. AllBefore({heard[u]} \cup Mixed(u) \cup Playable(u) \cup Emitted(u) \cup R, {Ahead(u)'})
      <4>1. CASE u # s
        <5>1. Ahead(u)' = Ahead(u) /\ R = {}
          BY <2>4, <2>5, <2>6, <4>1 DEF Ahead
        <5> QED
          BY <3>1, <5>1 DEF StreamInOrder, AllBefore
      <4>2. CASE u = s
        <5>1. Ahead(s)'.epoch = epoch /\ Ahead(s)'.seq = to
          BY <2>5, <2>6 DEF Ahead
        <5>2. ASSUME NEW f \in {heard[s]} \cup Mixed(s) \cup Playable(s) \cup Emitted(s)
              PROVE  Before(f, Ahead(s)')
          <6>1. Before(f, Ahead(s)) /\ f.epoch \in Nat /\ f.seq \in Nat
            BY <3>1, <3>2, <4>2, <5>2 DEF StreamInOrder, AllBefore
          <6>2. f.epoch < epoch \/ (f.epoch = epoch /\ f.seq < reorder[s].next)
            BY <6>1 DEF Before, Ahead
          <6> QED
            BY <1>0, <2>2, <2>3, <5>1, <6>1, <6>2 DEF Before
        <5>3. ASSUME NEW g \in OfStream(run, s)
              PROVE  Before(g, Ahead(s)')
          BY <2>4, <5>1, <5>3 DEF Before
        <5> QED
          BY <4>2, <5>2, <5>3 DEF AllBefore
      <4> QED
        BY <4>1, <4>2
    <3>5. /\ Increasing(toSync', u)
          /\ OfStream(toSync', u) \subseteq Emitted(u) \cup R
      <4>1. Increasing(toSync, u) /\ Increasing(run, u) /\ AllBefore(OfStream(toSync, u), OfStream(run, u))
        BY <2>4, <3>1, <3>3 DEF StreamInOrder, Emitted, AllBefore
      <4> QED
        BY <1>0, <2>4, <2>5, <4>1, ConcatStreams DEF Emitted
    <3> DEFINE E == OfStream(toSync', u)
    <3> HIDE DEF R, E
    <3>6. /\ AllBefore(Mixed(u), Playable(u) \cup E)
          /\ AllBefore(Playable(u), E)
          /\ AllBefore({heard[u]}, Mixed(u) \cup Playable(u) \cup E)
          /\ AllBefore({heard[u]} \cup Mixed(u) \cup Playable(u) \cup E, {Ahead(u)'})
      <4>1. E \subseteq Emitted(u) \cup R
        BY <3>5 DEF E
      <4> QED
        BY <3>1, <3>3, <3>4, <4>1 DEF StreamInOrder, AllBefore
    <3> QED
      BY <2>5, <3>1, <3>5, <3>6 DEF StreamInOrder, Mixed, Playable, Emitted, E
  <2> QED
    BY <2>5, <2>7, <2>8, <2>9 DEF AInv, OffIsOff, MixerIsSorted
<1> DEFINE r == IF reorder[s].valid THEN reorder[s] ELSE [Empty EXCEPT !.next = n, !.valid = TRUE]
<1>2. /\ r.buffer = IF reorder[s].valid THEN reorder[s].buffer ELSE {}
      /\ r.next = IF reorder[s].valid THEN reorder[s].next ELSE n
      /\ r.buffer \in SUBSET Seqs /\ r.next \in 0 .. MaxSeq + 1
  BY <1>0 DEF Empty, Seqs
<1>3. n >= r.next /\ n \notin r.buffer
  BY DEF OnAudioSampleBytesReceived, IsNew
<1> DEFINE B == r.buffer
           b == B \cup {n}
           from == From(b, r.next)
<1>4. PICK to \in from .. MaxSeq + 1 :
        /\ from .. to - 1 \subseteq b /\ to \notin b
        /\ toSync' = toSync \o Run(s, from, to)
        /\ reorder' = [reorder EXCEPT ![s] =
              [buffer |-> b \ (from .. to - 1), next |-> to, valid |-> TRUE]]
  BY DEF OnAudioSampleBytesReceived
<1>5. b = B \cup {n} /\ from = From(b, r.next)
  OBVIOUS
<1> DEFINE next == r.next
<1>6. /\ B \in SUBSET Seqs /\ next \in 0 .. MaxSeq + 1
      /\ B = IF reorder[s].valid THEN reorder[s].buffer ELSE {}
      /\ next = IF reorder[s].valid THEN reorder[s].next ELSE n
      /\ n >= next /\ n \notin B /\ from = From(b, next)
  BY <1>2, <1>3
<1> HIDE DEF r, B, b, from, next
<1> QED
  BY <1>1, <1>4, <1>5, <1>6, Zenon

\* Taking a frame out of a queue of one stream, or putting one in, leaves the
\* queue one of that stream.
LEMMA SortedQueues ==
    ASSUME NEW q \in Seq(Frame), NEW s, \A i \in DOMAIN q : q[i].stream = s
    PROVE  /\ q # <<>> => \A i \in DOMAIN Tail(q) : Tail(q)[i].stream = s
           /\ \A f \in Frame : f.stream = s =>
                \A i \in DOMAIN Append(q, f) : Append(q, f)[i].stream = s
<1>1. ASSUME q # <<>>, NEW i \in DOMAIN Tail(q) PROVE Tail(q)[i].stream = s
  <2>1. i \in Nat /\ i + 1 \in DOMAIN q /\ Tail(q)[i] = q[i + 1]
    BY <1>1
  <2> QED
    BY <2>1
<1>2. ASSUME NEW f \in Frame, f.stream = s, NEW i \in DOMAIN Append(q, f)
      PROVE  Append(q, f)[i].stream = s
  <2>1. /\ Len(q) \in Nat /\ DOMAIN q = 1 .. Len(q) /\ DOMAIN Append(q, f) = 1 .. Len(q) + 1
        /\ \A j \in 1 .. Len(q) + 1 : Append(q, f)[j] = IF j = Len(q) + 1 THEN f ELSE q[j]
    OBVIOUS
  <2>2. Append(q, f)[i] = f \/ (i \in DOMAIN q /\ Append(q, f)[i] = q[i])
    BY <1>2, <2>1
  <2> QED
    BY <1>2, <2>2
<1> QED
  BY <1>1, <1>2

\* A frame is put into the queue of its stream; if that is full, its oldest
\* frame is dropped.
LEMMA EnqueuedFacts ==
    ASSUME NEW q \in Seq(Frame), NEW f \in Frame, Increasing(q, f.stream),
           AllBefore(OfStream(q, f.stream), {f}),
           \A i \in DOMAIN q : q[i].stream = f.stream
    PROVE  /\ Enqueued(q, f) \in Seq(Frame)
           /\ Increasing(Enqueued(q, f), f.stream)
           /\ OfStream(Enqueued(q, f), f.stream) \subseteq OfStream(q, f.stream) \cup {f}
           /\ \A i \in DOMAIN Enqueued(q, f) : Enqueued(q, f)[i].stream = f.stream
<1>1. CASE Len(q) < MaxQueued
  <2>1. /\ Append(q, f) \in Seq(Frame)
        /\ Increasing(Append(q, f), f.stream)
        /\ OfStream(Append(q, f), f.stream) \subseteq OfStream(q, f.stream) \cup {f}
    BY AppendToStream
  <2>2. \A i \in DOMAIN Append(q, f) : Append(q, f)[i].stream = f.stream
    BY SortedQueues
  <2> QED
    BY <1>1, <2>1, <2>2 DEF Enqueued
<1>2. CASE ~(Len(q) < MaxQueued)
  <2>1. q # <<>>
    BY <1>2, SizeAssumption
  <2>2. /\ Tail(q) \in Seq(Frame)
        /\ Increasing(Tail(q), f.stream)
        /\ OfStream(Tail(q), f.stream) \subseteq OfStream(q, f.stream)
    BY <2>1, TailOfStream
  <2>3. \A i \in DOMAIN Tail(q) : Tail(q)[i].stream = f.stream
    BY <2>1, SortedQueues
  <2>4. AllBefore(OfStream(Tail(q), f.stream), {f})
    BY <2>2 DEF AllBefore
  <2>5. /\ Append(Tail(q), f) \in Seq(Frame)
        /\ Increasing(Append(Tail(q), f), f.stream)
        /\ OfStream(Append(Tail(q), f), f.stream) \subseteq OfStream(Tail(q), f.stream) \cup {f}
    BY <2>2, <2>4, AppendToStream
  <2>6. \A i \in DOMAIN Append(Tail(q), f) : Append(Tail(q), f)[i].stream = f.stream
    BY <2>2, <2>3, SortedQueues
  <2>7. Enqueued(q, f) = Append(Tail(q), f)
    BY <1>2 DEF Enqueued
  <2> QED
    BY <2>2, <2>5, <2>6, <2>7
<1> QED
  BY <1>1, <1>2

LEMMA ToPlayKeeps ==
    ASSUME AInv, OnAudioFrameToPlay
    PROVE  AInv' /\ UNCHANGED heard
<1> DEFINE f == Head(toPlay)
<1>1. /\ toPlay # <<>> /\ toPlay' = Tail(toPlay)
      /\ \/ MayPlay /\ mixer' = [mixer EXCEPT ![f.stream] = Enqueued(@, f)]
         \/ mixer' = mixer
      /\ UNCHANGED <<role, running, enabled, playbackEnabled, capturing, reorder, epoch, toSync,
                     syncEnabled, playing, heard, deviceOk>>
  BY DEF OnAudioFrameToPlay, service
<1>2. /\ toSync \in Seq(Frame) /\ toPlay \in Seq(Frame) /\ f \in Frame /\ Tail(toPlay) \in Seq(Frame)
      /\ f.stream \in Streams /\ mixer \in [Streams -> Seq(Frame)]
  <2>1. toSync \in Seq(Frame) /\ toPlay \in Seq(Frame) /\ mixer \in [Streams -> Seq(Frame)]
    BY DEF AInv, TypeOK
  <2>2. f \in Frame /\ Tail(toPlay) \in Seq(Frame)
    BY <1>1, <2>1
  <2>3. f.stream \in Streams
    BY <2>2 DEF Frame
  <2> QED
    BY <2>1, <2>2, <2>3
<1>3. ASSUME NEW s \in Streams
      PROVE  /\ Increasing(Tail(toPlay), s)
             /\ OfStream(Tail(toPlay), s) \subseteq Playable(s)
             /\ f.stream = s => f \in Playable(s) /\ AllBefore({f}, OfStream(Tail(toPlay), s))
  BY <1>1, <1>2, TailOfStream DEF AInv, StreamInOrder, Playable
<1> HIDE DEF f
<1> DEFINE q == mixer[f.stream]
<1>4. /\ q \in Seq(Frame)
      /\ Enqueued(q, f) \in Seq(Frame)
      /\ Increasing(Enqueued(q, f), f.stream)
      /\ OfStream(Enqueued(q, f), f.stream) \subseteq OfStream(q, f.stream) \cup {f}
      /\ \A i \in DOMAIN Enqueued(q, f) : Enqueued(q, f)[i].stream = f.stream
  <2>1. q \in Seq(Frame) /\ Increasing(q, f.stream) /\ \A i \in DOMAIN q : q[i].stream = f.stream
    BY <1>2 DEF AInv, StreamInOrder, MixerIsSorted
  <2>2. AllBefore(OfStream(q, f.stream), {f})
    BY <1>2, <1>3 DEF AInv, StreamInOrder, Mixed, AllBefore
  <2> HIDE DEF q
  <2> QED
    BY <1>2, <2>1, <2>2, EnqueuedFacts
<1>5. ASSUME NEW s \in Streams
      PROVE  \/ mixer'[s] = mixer[s]
             \/ s = f.stream /\ MayPlay /\ mixer'[s] = Enqueued(q, f)
  BY <1>1, <1>2
<1>6. TypeOK'
  <2>1. mixer' \in [Streams -> Seq(Frame)]
    BY <1>1, <1>2, <1>4
  <2> QED
    BY <1>1, <1>2, <2>1 DEF AInv, TypeOK
<1>7. OffIsOff' /\ MixerIsSorted'
  <2>1. OffIsOff'
    BY <1>1, <1>5 DEF AInv, OffIsOff, MayPlay
  <2>2. MixerIsSorted'
    BY <1>4, <1>5 DEF AInv, MixerIsSorted
  <2> QED
    BY <2>1, <2>2
<1>8. ASSUME NEW s \in Streams
      PROVE  StreamInOrder(s)'
  <2>1. StreamInOrder(s)
    BY DEF AInv
  <2> DEFINE M == OfStream(mixer'[s], s)
             P == OfStream(toPlay', s)
  <2>2. P \subseteq Playable(s) /\ Increasing(toPlay', s)
    BY <1>1, <1>3
  <2>3. /\ Increasing(mixer'[s], s)
        /\ M \subseteq Mixed(s) \/ (s = f.stream /\ M \subseteq Mixed(s) \cup {f})
    <3>1. CASE mixer'[s] = mixer[s]
      BY <2>1, <3>1 DEF StreamInOrder, Mixed
    <3>2. CASE s = f.stream /\ mixer'[s] = Enqueued(q, f)
      BY <1>4, <3>2 DEF Mixed
    <3> QED
      BY <1>5, <3>1, <3>2
  <2>4. M \subseteq Mixed(s) \cup Playable(s) /\ AllBefore(M, P)
    <3>1. s = f.stream => f \in Playable(s) /\ AllBefore({f}, P)
      BY <1>1, <1>3
    <3>2. AllBefore(Mixed(s), P)
      BY <2>1, <2>2 DEF StreamInOrder, AllBefore
    <3> HIDE DEF M, P
    <3> QED
      BY <2>3, <3>1, <3>2 DEF AllBefore
  <2> HIDE DEF M, P
  <2>5. /\ AllBefore(M, P \cup Emitted(s))
        /\ AllBefore(P, Emitted(s))
        /\ AllBefore({heard[s]}, M \cup P \cup Emitted(s))
        /\ AllBefore({heard[s]} \cup M \cup P \cup Emitted(s), {Ahead(s)})
    BY <2>1, <2>2, <2>4 DEF StreamInOrder, AllBefore
  <2> QED
    BY <1>1, <2>1, <2>2, <2>3, <2>5 DEF StreamInOrder, Mixed, Playable, Emitted, Ahead, M, P
<1> QED
  BY <1>1, <1>6, <1>7, <1>8 DEF AInv, GapsAreBridged, FreshIsEmpty

\* The timer plays the next frame of a stream, which comes after the one before.
LEMMA MixOnceKeeps ==
    ASSUME AInv, MixOnce
    PROVE  /\ AInv'
           /\ \A s \in Streams : heard'[s] # heard[s] => Before(heard[s], heard'[s])
<1> DEFINE Played(s) == [epoch |-> Head(mixer[s]).epoch, seq |-> Head(mixer[s]).seq]
<1>1. /\ running
      /\ mixer' = [s \in Streams |-> IF mixer[s] = <<>> THEN <<>> ELSE Tail(mixer[s])]
      /\ \/ /\ playbackEnabled
            /\ heard' = [s \in Streams |-> IF mixer[s] = <<>> THEN heard[s] ELSE Played(s)]
            /\ playing' = TRUE
         \/ heard' = heard /\ playing' = playing
      /\ UNCHANGED <<role, running, enabled, playbackEnabled, capturing, reorder, epoch,
                     toSync, toPlay, syncEnabled, deviceOk>>
  BY DEF MixOnce, service, sync
<1>2. mixer \in [Streams -> Seq(Frame)] /\ heard \in [Streams -> [epoch : Nat, seq : Nat]]
  BY DEF AInv, TypeOK
<1>3. ASSUME NEW s \in Streams
      PROVE  \/ mixer[s] = <<>> /\ mixer'[s] = <<>> /\ heard'[s] = heard[s]
             \/ mixer[s] # <<>> /\ mixer'[s] = Tail(mixer[s]) /\ heard'[s] \in {heard[s], Played(s)}
  BY <1>1
<1>4. ASSUME NEW s \in Streams, mixer[s] # <<>>
      PROVE  /\ Head(mixer[s]) \in Frame /\ Tail(mixer[s]) \in Seq(Frame)
             /\ Increasing(Tail(mixer[s]), s)
             /\ OfStream(Tail(mixer[s]), s) \subseteq Mixed(s)
             /\ Head(mixer[s]) \in Mixed(s)
             /\ AllBefore({Head(mixer[s])}, OfStream(Tail(mixer[s]), s))
  <2>1. mixer[s] \in Seq(Frame) /\ Increasing(mixer[s], s)
    BY <1>2 DEF AInv, StreamInOrder
  <2>2. 1 \in DOMAIN mixer[s] /\ Head(mixer[s]) = mixer[s][1]
    BY <1>4, <2>1
  <2>3. Head(mixer[s]).stream = s
    BY <2>2 DEF AInv, MixerIsSorted
  <2> QED
    BY <1>4, <2>1, <2>3, TailOfStream DEF Mixed
<1>5. ASSUME NEW s \in Streams, mixer[s] # <<>>
      PROVE  Played(s) \in [epoch : Nat, seq : Nat]
  BY <1>4, <1>5 DEF Frame
<1>6. TypeOK'
  <2>1. mixer' \in [Streams -> Seq(Frame)]
    <3>1. <<>> \in Seq(Frame)
      OBVIOUS
    <3> QED
      BY <1>1, <1>4, <3>1
  <2>2. heard' \in [Streams -> [epoch : Nat, seq : Nat]]
    <3>1. ASSUME NEW s \in Streams
          PROVE  (IF mixer[s] = <<>> THEN heard[s] ELSE Played(s)) \in [epoch : Nat, seq : Nat]
      BY <1>2, <1>5
    <3> HIDE DEF Played
    <3> QED
      BY <1>1, <1>2, <3>1
  <2> QED
    BY <1>1, <2>1, <2>2 DEF AInv, TypeOK
<1>7. OffIsOff' /\ MixerIsSorted'
  <2>1. OffIsOff'
    BY <1>1, <1>3 DEF AInv, OffIsOff
  <2>2. ASSUME NEW s \in Streams
        PROVE  \A i \in DOMAIN mixer'[s] : mixer'[s][i].stream = s
    <3>1. mixer[s] \in Seq(Frame) /\ \A i \in DOMAIN mixer[s] : mixer[s][i].stream = s
      BY <1>2 DEF AInv, MixerIsSorted
    <3>2. mixer[s] # <<>> => \A i \in DOMAIN Tail(mixer[s]) : Tail(mixer[s])[i].stream = s
      BY <3>1, SortedQueues
    <3>3. mixer'[s] = mixer[s] \/ (mixer[s] # <<>> /\ mixer'[s] = Tail(mixer[s]))
      BY <1>3
    <3> QED
      BY <3>1, <3>2, <3>3
  <2> QED
    BY <2>1, <2>2 DEF MixerIsSorted
<1>8. ASSUME NEW s \in Streams
      PROVE  StreamInOrder(s)' /\ (heard'[s] # heard[s] => Before(heard[s], heard'[s]))
  <2>1. StreamInOrder(s)
    BY DEF AInv
  <2> DEFINE M == OfStream(mixer'[s], s)
  <2>2. CASE mixer'[s] = mixer[s] /\ heard'[s] = heard[s]
    BY <1>1, <2>1, <2>2 DEF StreamInOrder, Mixed, Playable, Emitted, Ahead
  <2>3. CASE mixer[s] # <<>> /\ mixer'[s] = Tail(mixer[s]) /\ heard'[s] \in {heard[s], Played(s)}
    <3> DEFINE h == Head(mixer[s])
    <3>1. Increasing(mixer'[s], s) /\ M \subseteq Mixed(s) /\ h \in Mixed(s) /\ AllBefore({h}, M)
      BY <1>4, <2>3
    <3>2. Played(s).epoch = h.epoch /\ Played(s).seq = h.seq
      OBVIOUS
    <3> HIDE DEF h, M, Played
    <3>3. AllBefore({heard'[s]}, M \cup Playable(s) \cup Emitted(s) \cup {Ahead(s)})
      <4>1. CASE heard'[s] = heard[s]
        BY <2>1, <3>1, <4>1 DEF StreamInOrder, AllBefore
      <4>2. CASE heard'[s] = Played(s)
        <5>1. ASSUME NEW g \in M \cup Playable(s) \cup Emitted(s) \cup {Ahead(s)}
              PROVE  Before(h, g)
          BY <2>1, <3>1 DEF StreamInOrder, AllBefore
        <5>2. ASSUME NEW g \in M \cup Playable(s) \cup Emitted(s) \cup {Ahead(s)}
              PROVE  Before(Played(s), g)
          BY <3>2, <5>1 DEF Before
        <5> QED
          BY <4>2, <5>2 DEF AllBefore
      <4> QED
        BY <2>3, <4>1, <4>2
    <3>4. heard'[s] # heard[s] => Before(heard[s], heard'[s])
      <4>1. Before(heard[s], h)
        BY <2>1, <3>1 DEF StreamInOrder, AllBefore
      <4>2. Before(heard[s], Played(s))
        BY <3>2, <4>1 DEF Before
      <4> QED
        BY <2>3, <4>2
    <3>5. /\ AllBefore(M, Playable(s) \cup Emitted(s))
          /\ AllBefore({heard'[s]}, M \cup Playable(s) \cup Emitted(s))
          /\ AllBefore({heard'[s]} \cup M \cup Playable(s) \cup Emitted(s), {Ahead(s)})
      BY <2>1, <3>1, <3>3 DEF StreamInOrder, AllBefore
    <3> QED
      BY <1>1, <2>1, <3>1, <3>4, <3>5 DEF StreamInOrder, Mixed, Playable, Emitted, Ahead, M
  <2> QED
    BY <1>3, <2>2, <2>3
<1> QED
  BY <1>1, <1>6, <1>7, <1>8 DEF AInv, GapsAreBridged, FreshIsEmpty

-----------------------------------------------------------------------------
(* Nothing is dropped on the way to the device *)

\* The frames of stream s that were put in order and not yet played.
Waiting(s) == Mixed(s) \cup Playable(s) \cup Emitted(s)

\* Frame f of s is behind the listener, or it waits to be played, or a later one does.
Covered(s, f) ==
    \/ ~Before(heard[s], f)
    \/ \E g \in Waiting(s) : g = f \/ Before(f, g)

\* Why a frame may be let go: the service is silent, or there is no device.
Excused == ~running \/ ~playbackEnabled \/ ~syncEnabled \/ ~deviceOk

\* A frame that was put in order stays on its way until it, or a later one, is
\* played, unless the service is stopped, reset or silent
\* (AvSyncWorker::onAudioFrameReady, AudioMixer::pushFrame and mixOnce).
NothingIsDropped ==
    [][\A s \in Streams : \A f \in Frame :
          Covered(s, f) => Covered(s, f)' \/ epoch' # epoch \/ Excused \/ Excused']_vars

\* No element but the head leaves a queue, and what is put in is there.
LEMMA StreamsOnlyGrow ==
    ASSUME NEW q \in Seq(Frame), NEW s
    PROVE  /\ q # <<>> => \A g \in OfStream(q, s) : g = Head(q) \/ g \in OfStream(Tail(q), s)
           /\ \A f \in Frame : /\ OfStream(q, s) \subseteq OfStream(Append(q, f), s)
                               /\ f.stream = s => f \in OfStream(Append(q, f), s)
           /\ \A t \in Seq(Frame) : OfStream(q, s) \subseteq OfStream(q \o t, s)
<1>0. Len(q) \in Nat /\ DOMAIN q = 1 .. Len(q)
  OBVIOUS
<1>1. ASSUME q # <<>>, NEW g \in OfStream(q, s)
      PROVE  g = Head(q) \/ g \in OfStream(Tail(q), s)
  <2>1. PICK i \in DOMAIN q : g = q[i] /\ q[i].stream = s
    BY DEF OfStream
  <2>2. CASE i = 1
    BY <1>1, <2>1, <2>2
  <2>3. CASE i # 1
    <3>1. i - 1 \in DOMAIN Tail(q) /\ Tail(q)[i - 1] = q[i]
      BY <1>0, <1>1, <2>1, <2>3
    <3> QED
      BY <2>1, <3>1 DEF OfStream
  <2> QED
    BY <2>2, <2>3
<1>2. ASSUME NEW f \in Frame
      PROVE  /\ OfStream(q, s) \subseteq OfStream(Append(q, f), s)
             /\ f.stream = s => f \in OfStream(Append(q, f), s)
  <2>1. /\ DOMAIN Append(q, f) = 1 .. Len(q) + 1
        /\ \A i \in 1 .. Len(q) + 1 : Append(q, f)[i] = IF i = Len(q) + 1 THEN f ELSE q[i]
    OBVIOUS
  <2>2. /\ Len(q) + 1 \in DOMAIN Append(q, f) /\ Append(q, f)[Len(q) + 1] = f
        /\ \A i \in DOMAIN q : i \in DOMAIN Append(q, f) /\ Append(q, f)[i] = q[i]
    BY <1>0, <2>1
  <2> QED
    BY <2>2 DEF OfStream
<1>3. ASSUME NEW t \in Seq(Frame)
      PROVE  OfStream(q, s) \subseteq OfStream(q \o t, s)
  <2> DEFINE c == q \o t
  <2>1. /\ Len(t) \in Nat /\ DOMAIN c = 1 .. Len(q) + Len(t)
        /\ \A i \in 1 .. Len(q) + Len(t) : c[i] = IF i <= Len(q) THEN q[i] ELSE t[i - Len(q)]
    BY ConcatProperties, LenProperties
  <2> HIDE DEF c
  <2>2. \A i \in DOMAIN q : i \in DOMAIN c /\ c[i] = q[i]
    BY <1>0, <2>1
  <2> QED
    BY <2>2 DEF OfStream, c
<1> QED
  BY <1>1, <1>2, <1>3

\* It is enough that a step keeps every frame that waits.
LEMMA WaitingIsEnough ==
    ASSUME AInv, AInv', NEW s \in Streams,
           heard'[s] = heard[s] \/ Before(heard[s], heard'[s]),
           \A g \in Waiting(s) : Covered(s, g)',
           NEW f \in Frame, Covered(s, f)
    PROVE  Covered(s, f)'
<1>1. /\ heard[s].epoch \in Nat /\ heard[s].seq \in Nat
      /\ heard'[s].epoch \in Nat /\ heard'[s].seq \in Nat
      /\ f.epoch \in Nat /\ f.seq \in Nat
  BY DEF AInv, TypeOK, Frame
<1>2. CASE ~Before(heard[s], f)
  <2>1. ~Before(heard'[s], f)
    BY <1>1, <1>2, BeforeIsTransitive
  <2> QED
    BY <2>1 DEF Covered
<1>3. CASE \E g \in Waiting(s) : g = f \/ Before(f, g)
  <2>1. PICK g \in Waiting(s) : g = f \/ Before(f, g)
    BY <1>3
  <2>2. g.epoch \in Nat /\ g.seq \in Nat /\ Covered(s, g)'
    BY FramesAreFrames DEF AInv, Waiting
  <2>3. CASE ~Before(heard'[s], g)
    <3>1. ~Before(heard'[s], f)
      BY <1>1, <2>1, <2>2, <2>3, BeforeIsTransitive
    <3> QED
      BY <3>1 DEF Covered
  <2>4. CASE \E h \in Waiting(s)' : h = g \/ Before(g, h)
    <3>1. PICK h \in Waiting(s)' : h = g \/ Before(g, h)
      BY <2>4
    <3>2. h.epoch \in Nat /\ h.seq \in Nat
      <4>1. \A x \in Waiting(s)' : x.epoch \in Nat /\ x.seq \in Nat
        <5>1. /\ mixer'[s] \in Seq(Frame) /\ toPlay' \in Seq(Frame) /\ toSync' \in Seq(Frame)
          BY DEF AInv, TypeOK
        <5>2. \A q \in Seq(Frame) : \A x \in OfStream(q, s) : x.epoch \in Nat /\ x.seq \in Nat
          <6>1. \A q \in Seq(Frame) : \A i \in DOMAIN q : q[i] \in Frame
            BY LenProperties, ElementOfSeq
          <6> QED
            BY <6>1 DEF OfStream, Frame
        <5> QED
          BY <5>1, <5>2 DEF Waiting, Mixed, Playable, Emitted
      <4> QED
        BY <4>1
    <3>3. h = f \/ Before(f, h)
      BY <1>1, <2>1, <2>2, <3>1, <3>2, BeforeIsTransitive
    <3> QED
      BY <3>1, <3>3 DEF Covered
  <2> QED
    BY <2>2, <2>3, <2>4 DEF Covered
<1> QED
  BY <1>2, <1>3 DEF Covered

\* A frame that still waits after the step is covered.
LEMMA WaitingIsCovered ==
    ASSUME NEW s, NEW g, g \in Waiting(s)'
    PROVE  Covered(s, g)'
BY DEF Covered

LEMMA OperationExcused ==
    ASSUME AInv, Operation, NEW s \in Streams, NEW g \in Waiting(s)
    PROVE  Covered(s, g)' \/ epoch' # epoch \/ Excused \/ Excused'
<1>1. UNCHANGED <<toSync, toPlay, heard>> /\ epoch \in Nat
  BY OperationIsQuiet DEF AInv, TypeOK
<1>2. CASE mixer' = mixer
  <2>1. g \in Waiting(s)'
    BY <1>1, <1>2 DEF Waiting, Mixed, Playable, Emitted
  <2> QED
    BY <2>1, WaitingIsCovered
<1>3. ASSUME mixer' # mixer
      PROVE  epoch' # epoch \/ Excused \/ Excused'
  <2>1. CASE \E on \in SUBSET Streams, playback, mixerOk \in BOOLEAN : ApplyConfig(on, playback, mixerOk)
    BY <1>1, <2>1 DEF ApplyConfig, ResetReorderBuffers
  <2>2. CASE \E r \in Roles : SetRole(r)
    BY <1>3, <2>2 DEF SetRole, Stopped, Excused
  <2>3. CASE Start \/ Stop
    BY <2>3 DEF Start, Stop, Stopped, Excused
  <2>4. CASE \E on \in BOOLEAN : SetPlaybackEnabled(on)
    BY <1>3, <2>4 DEF SetPlaybackEnabled, Excused
  <2>5. CASE \/ \E u \in Streams, on \in BOOLEAN : SetSourceEnabled(u, on)
             \/ \E on \in BOOLEAN : SetAudioEnabled(on)
             \/ DeviceStops \/ CaptureFails \/ UNCHANGED vars
    BY <1>3, <2>5 DEF SetSourceEnabled, SetAudioEnabled, DeviceStops, CaptureFails, output, vars
  <2> QED
    BY <2>1, <2>2, <2>3, <2>4, <2>5 DEF Operation
<1> QED
  BY <1>2, <1>3

LEMMA ReceiveDropsNothing ==
    ASSUME AInv, NEW u \in Streams, NEW n \in Seqs, OnAudioSampleBytesReceived(u, n),
           NEW s \in Streams, NEW g \in Waiting(s)
    PROVE  Covered(s, g)'
<1>1. toSync \in Seq(Frame) /\ UNCHANGED <<toPlay, mixer>>
  BY DEF AInv, TypeOK, OnAudioSampleBytesReceived, output
<1> DEFINE r == IF reorder[u].valid THEN reorder[u] ELSE [Empty EXCEPT !.next = n, !.valid = TRUE]
           b == r.buffer \cup {n}
<1>2. PICK to \in From(b, r.next) .. MaxSeq + 1 : toSync' = toSync \o Run(u, From(b, r.next), to)
  BY DEF OnAudioSampleBytesReceived
<1>3. r.next \in Nat /\ b \subseteq Nat /\ b # {} /\ MaxSeq \in Nat /\ epoch \in Nat
  BY BoundAssumption DEF AInv, TypeOK, Empty, Seqs
<1> HIDE DEF r, b
<1>4. From(b, r.next) \in Nat
  BY <1>3, MinOfNaturals DEF From
<1> DEFINE from == From(b, r.next)
<1>5. from \in Nat /\ to \in Nat /\ from <= to
  BY <1>2, <1>3, <1>4
<1> HIDE DEF from
<1>6. Run(u, from, to) \in Seq(Frame)
  BY <1>3, <1>5, RunFacts
<1>7. toSync' = toSync \o Run(u, from, to)
  BY <1>2 DEF from
<1>8. Emitted(s) \subseteq OfStream(toSync', s)
  BY <1>1, <1>6, <1>7, StreamsOnlyGrow DEF Emitted
<1>9. g \in Waiting(s)'
  BY <1>1, <1>8 DEF Waiting, Mixed, Playable, Emitted
<1> QED
  BY <1>9, WaitingIsCovered

LEMMA ReadyDropsNothing ==
    ASSUME AInv, OnAudioFrameReady, syncEnabled, NEW s \in Streams, NEW g \in Waiting(s)
    PROVE  Covered(s, g)'
<1> DEFINE f == Head(toSync)
<1>1. /\ toSync # <<>> /\ toSync' = Tail(toSync) /\ toPlay' = Append(toPlay, f) /\ mixer' = mixer
  BY DEF OnAudioFrameReady, output
<1>2. toSync \in Seq(Frame) /\ toPlay \in Seq(Frame) /\ f \in Frame
  BY <1>1 DEF AInv, TypeOK
<1> HIDE DEF f
<1>3. g \in Emitted(s) => g \in OfStream(toSync', s) \/ (g = f /\ f.stream = s)
  <2>1. g \in Emitted(s) => g.stream = s
    BY FramesAreFrames DEF AInv
  <2> QED
    BY <1>1, <1>2, <2>1, StreamsOnlyGrow DEF Emitted, f
<1>4. /\ Playable(s) \subseteq OfStream(toPlay', s)
      /\ f.stream = s => f \in OfStream(toPlay', s)
  BY <1>1, <1>2, StreamsOnlyGrow DEF Playable
<1>5. g \in Waiting(s)'
  BY <1>1, <1>3, <1>4 DEF Waiting, Mixed, Playable, Emitted
<1> QED
  BY <1>5, WaitingIsCovered

LEMMA ToPlayDropsNothing ==
    ASSUME AInv, OnAudioFrameToPlay, MayPlay, NEW s \in Streams, NEW g \in Waiting(s)
    PROVE  Covered(s, g)'
<1> DEFINE f == Head(toPlay)
           q == mixer[s]
<1>1. /\ toPlay # <<>> /\ toPlay' = Tail(toPlay) /\ toSync' = toSync
      /\ mixer' = [mixer EXCEPT ![f.stream] = Enqueued(@, f)]
  BY DEF OnAudioFrameToPlay
<1>2. /\ toPlay \in Seq(Frame) /\ f \in Frame /\ mixer \in [Streams -> Seq(Frame)]
      /\ q \in Seq(Frame) /\ g.stream = s
  <2>1. toPlay \in Seq(Frame) /\ mixer \in [Streams -> Seq(Frame)]
    BY DEF AInv, TypeOK
  <2>2. g.stream = s
    BY FramesAreFrames DEF AInv, Waiting
  <2> QED
    BY <1>1, <2>1, <2>2
<1>3. /\ g \in Playable(s) => g = f \/ g \in OfStream(toPlay', s)
      /\ f.stream = s => f \in Playable(s)
  <2>1. Increasing(toPlay, s)
    BY DEF AInv, StreamInOrder
  <2> QED
    BY <1>1, <1>2, <2>1, TailOfStream, StreamsOnlyGrow DEF Playable
<1> HIDE DEF f
<1>4. CASE f.stream # s
  <2>1. mixer'[s] = mixer[s] /\ g # f
    BY <1>1, <1>2, <1>4
  <2>2. g \in Waiting(s)'
    BY <1>1, <1>3, <2>1 DEF Waiting, Mixed, Playable, Emitted
  <2> QED
    BY <2>2, WaitingIsCovered
<1>5. CASE f.stream = s
  <2>1. mixer'[s] = Enqueued(q, f)
    BY <1>1, <1>2, <1>5
  <2> HIDE DEF q
  <2>2. /\ f \in OfStream(Enqueued(q, f), s)
        /\ \A x \in OfStream(q, s) : x \in OfStream(Enqueued(q, f), s) \/ (q # <<>> /\ x = Head(q))
    <3>1. CASE Len(q) < MaxQueued
      BY <1>2, <1>5, <3>1, StreamsOnlyGrow DEF Enqueued
    <3>2. CASE ~(Len(q) < MaxQueued)
      <4>1. q # <<>> /\ Tail(q) \in Seq(Frame) /\ Enqueued(q, f) = Append(Tail(q), f)
        BY <1>2, <3>2, SizeAssumption DEF Enqueued
      <4>2. /\ OfStream(Tail(q), s) \subseteq OfStream(Append(Tail(q), f), s)
            /\ f \in OfStream(Append(Tail(q), f), s)
        BY <1>2, <1>5, <4>1, StreamsOnlyGrow
      <4>3. \A x \in OfStream(q, s) : x = Head(q) \/ x \in OfStream(Tail(q), s)
        BY <1>2, <4>1, StreamsOnlyGrow
      <4> QED
        BY <4>1, <4>2, <4>3
    <3> QED
      BY <3>1, <3>2
  <2>3. \A x \in Mixed(s) : Before(x, f)
    BY <1>3, <1>5 DEF AInv, StreamInOrder, AllBefore
  <2>4. f \in Waiting(s)'
    BY <2>1, <2>2 DEF Waiting, Mixed
  <2>5. \/ g \in Waiting(s)' \/ Before(g, f)
    BY <1>1, <1>3, <2>1, <2>2, <2>3, <2>4 DEF Waiting, Mixed, Playable, Emitted, q
  <2> QED
    BY <2>4, <2>5 DEF Covered
<1> QED
  BY <1>4, <1>5

LEMMA MixOnceDropsNothing ==
    ASSUME AInv, MixOnce, ~Excused, NEW s \in Streams, NEW g \in Waiting(s)
    PROVE  Covered(s, g)'
<1>1. /\ mixer'[s] = IF mixer[s] = <<>> THEN <<>> ELSE Tail(mixer[s])
      /\ mixer[s] # <<>> =>
            heard'[s] = [epoch |-> Head(mixer[s]).epoch, seq |-> Head(mixer[s]).seq]
      /\ UNCHANGED <<toSync, toPlay>>
  BY DEF MixOnce, Excused, CanPlay, sync
<1>2. mixer[s] \in Seq(Frame) /\ g.epoch \in Nat /\ g.seq \in Nat
  BY FramesAreFrames DEF AInv, Waiting
<1>3. CASE mixer[s] # <<>> /\ g = Head(mixer[s])
  <2>1. heard'[s].epoch = g.epoch /\ heard'[s].seq = g.seq
    BY <1>1, <1>3
  <2>2. ~Before(heard'[s], g)
    BY <1>2, <2>1 DEF Before
  <2> QED
    BY <2>2 DEF Covered
<1>4. CASE ~(mixer[s] # <<>> /\ g = Head(mixer[s]))
  <2>1. g \in Mixed(s) => g \in OfStream(mixer'[s], s)
    BY <1>1, <1>2, <1>4, StreamsOnlyGrow DEF Mixed
  <2>2. g \in Waiting(s)'
    BY <1>1, <2>1 DEF Waiting, Mixed, Playable, Emitted
  <2> QED
    BY <2>2, WaitingIsCovered
<1> QED
  BY <1>3, <1>4

-----------------------------------------------------------------------------
(* The theorems *)

LEMMA InitHolds ==
    ASSUME Init
    PROVE  AInv
<1>1. <<>> \in Seq(Frame) /\ DOMAIN <<>> = {}
  OBVIOUS
<1>2. TypeOK
  <2>1. Empty \in [buffer : SUBSET Seqs, next : 0 .. MaxSeq + 1, valid : BOOLEAN]
    BY BoundAssumption DEF Empty
  <2>2. NoFrame \in [epoch : Nat, seq : Nat]
    BY DEF NoFrame
  <2>3. 1 \in Nat \ {0}
    OBVIOUS
  <2> QED
    BY <1>1, <2>1, <2>2, <2>3 DEF Init, TypeOK, Roles
<1>3. GapsAreBridged /\ FreshIsEmpty
  <2>1. \A s \in Streams : reorder[s] = Empty
    BY DEF Init
  <2>2. Empty.buffer = {} /\ Cardinality({}) < MaxBuffered
    BY FS_EmptySet, SizeAssumption DEF Empty
  <2> QED
    BY <2>1, <2>2 DEF GapsAreBridged, FreshIsEmpty
<1>4. OffIsOff /\ MixerIsSorted
  BY <1>1 DEF Init, OffIsOff, MixerIsSorted
<1>5. ASSUME NEW s \in Streams
      PROVE  StreamInOrder(s)
  <2>1. mixer[s] = <<>> /\ toPlay = <<>> /\ toSync = <<>>
    BY DEF Init
  <2>2. Increasing(<<>>, s) /\ OfStream(<<>>, s) = {}
    BY <1>1 DEF Increasing, OfStream
  <2>3. Before(heard[s], Ahead(s))
    BY DEF Init, Before, Ahead, NoFrame
  <2> QED
    BY <2>1, <2>2, <2>3 DEF StreamInOrder, Mixed, Playable, Emitted, AllBefore
<1> QED
  BY <1>2, <1>3, <1>4, <1>5 DEF AInv

LEMMA StepHolds ==
    ASSUME AInv, [Next]_vars
    PROVE  /\ AInv'
           /\ \A s \in Streams : heard'[s] # heard[s] => Before(heard[s], heard'[s])
<1>1. CASE Operation
  BY <1>1, OperationsKeep
<1>2. CASE \E s \in Streams, n \in Seqs : OnAudioSampleBytesReceived(s, n)
  BY <1>2, ReceiveKeeps
<1>3. CASE OnAudioFrameReady
  BY <1>3, ReadyKeeps
<1>4. CASE OnAudioFrameToPlay
  BY <1>4, ToPlayKeeps
<1>5. CASE MixOnce
  BY <1>5, MixOnceKeeps
<1> QED
  BY <1>1, <1>2, <1>3, <1>4, <1>5 DEF Next, Operation

\* The frames of every stream are in order from the device back to the buffer.
THEOREM AudioInvariant == Spec => []AInv
<1>1. Init => AInv
  BY InitHolds
<1>2. AInv /\ [Next]_vars => AInv'
  BY StepHolds
<1> QED
  BY <1>1, <1>2, PTL DEF Spec

\* Type correctness, for any streams and any bounds.
THEOREM TypeCorrect == Spec => []TypeOK
<1>1. AInv => TypeOK
  BY DEF AInv
<1> QED
  BY <1>1, AudioInvariant, PTL

\* A missing frame never blocks a stream: the reorder buffer gives it up before
\* it is full, and keeps no frame that is late
\* (AudioServiceWorker::drainReorderBuffer).
THEOREM GapsBridged == Spec => []GapsAreBridged
<1>1. AInv => GapsAreBridged
  BY DEF AInv
<1> QED
  BY <1>1, AudioInvariant, PTL

\* What is switched off neither captures nor plays, whatever is still on its way
\* (AudioServiceWorker::stop, setPlaybackEnabled, onAudioFrameToPlay).
THEOREM OffStaysOff == Spec => []OffIsOff
<1>1. AInv => OffIsOff
  BY DEF AInv
<1> QED
  BY <1>1, AudioInvariant, PTL

\* A stream is heard in the order of its numbers between two resets, whatever
\* the network does, and never goes back across one (AudioMixer::mixOnce).
THEOREM HeardInOrderHolds == Spec => HeardInOrder
<1>1. AInv /\ [Next]_vars =>
        [\A s \in Streams : heard'[s] # heard[s] => Before(heard[s], heard'[s])]_vars
  BY StepHolds
<1> QED
  BY <1>1, AudioInvariant, PTL DEF Spec, HeardInOrder

LEMMA StepDropsNothing ==
    ASSUME AInv, [Next]_vars, NEW s \in Streams, NEW f \in Frame, Covered(s, f)
    PROVE  Covered(s, f)' \/ epoch' # epoch \/ Excused \/ Excused'
<1> SUFFICES ASSUME ~Excused, ~Excused', epoch' = epoch
             PROVE  Covered(s, f)'
  OBVIOUS
<1>1. ASSUME NEW g \in Waiting(s)
      PROVE  Covered(s, g)'
  <2>1. CASE Operation
    BY <2>1, OperationExcused
  <2>2. CASE \E u \in Streams, n \in Seqs : OnAudioSampleBytesReceived(u, n)
    BY <2>2, ReceiveDropsNothing
  <2>3. CASE OnAudioFrameReady
    BY <2>3, ReadyDropsNothing DEF Excused
  <2>4. CASE OnAudioFrameToPlay
    BY <2>4, ToPlayDropsNothing DEF Excused, MayPlay
  <2>5. CASE MixOnce
    BY <2>5, MixOnceDropsNothing
  <2> QED
    BY <2>1, <2>2, <2>3, <2>4, <2>5 DEF Next, Operation
<1>2. AInv' /\ (heard'[s] = heard[s] \/ Before(heard[s], heard'[s]))
  BY StepHolds
<1> QED
  BY <1>1, <1>2, WaitingIsEnough

\* The safety half of EmittedIsHeard, for frames of any number: what was put in
\* order is not lost on the way to the device, unless the service is stopped,
\* reset or silent or there is no device (AvSyncWorker::onAudioFrameReady,
\* AudioMixer::pushFrame and mixOnce).  That it moves on is the fairness TLC checks.
THEOREM NothingIsDroppedHolds == Spec => NothingIsDropped
<1>1. AInv /\ [Next]_vars =>
        [\A s \in Streams : \A f \in Frame :
            Covered(s, f) => Covered(s, f)' \/ epoch' # epoch \/ Excused \/ Excused']_vars
  BY StepDropsNothing
<1> QED
  BY <1>1, AudioInvariant, PTL DEF Spec, NothingIsDropped
=============================================================================
