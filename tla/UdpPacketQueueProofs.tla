------------------------ MODULE UdpPacketQueueProofs ------------------------
(***************************************************************************)
(* What UdpPacketQueue guarantees for any number of packets, any frames    *)
(* and any values of packetsPerTick, however often the socket refuses.     *)
(***************************************************************************)
EXTENDS UdpPacketQueue, SequenceTheorems, TLAPS

\* Control packets are numbered as they are queued: the wire, followed by the
\* queue, is increasing.
ControlIsOrdered ==
    /\ ControlInOrder
    /\ \A i, j \in DOMAIN controlQueue : i < j => controlQueue[i] < controlQueue[j]
    /\ \A i \in DOMAIN controlWire, j \in DOMAIN controlQueue : controlWire[i] < controlQueue[j]
    /\ \A i \in DOMAIN controlWire : controlWire[i] <= queued["control"]
    /\ \A j \in DOMAIN controlQueue : controlQueue[j] <= queued["control"]

\* A tick runs only while the timer does.
TickIsTimed == phase # "idle" => timer

QInv ==
    /\ TypeOK
    /\ MediaNotLost
    /\ ControlIsOrdered
    /\ QueuedIsTicking
    /\ TickIsTimed

-----------------------------------------------------------------------------
(* Sequences *)

LEMMA AppendFacts ==
    ASSUME NEW S, NEW s \in Seq(S), NEW e \in S
    PROVE  /\ Append(s, e) \in Seq(S)
           /\ Len(Append(s, e)) = Len(s) + 1
           /\ \A i \in 1 .. Len(s) + 1 : Append(s, e)[i] = IF i = Len(s) + 1 THEN e ELSE s[i]
OBVIOUS

LEMMA ElementsOfAppend ==
    ASSUME NEW S, NEW s \in Seq(S), NEW e \in S
    PROVE  Elements(Append(s, e)) = Elements(s) \cup {e}
<1>1. /\ Len(s) \in Nat
      /\ DOMAIN s = 1 .. Len(s) /\ DOMAIN Append(s, e) = 1 .. Len(s) + 1
      /\ \A i \in 1 .. Len(s) + 1 : Append(s, e)[i] = IF i = Len(s) + 1 THEN e ELSE s[i]
  BY AppendFacts
<1>2. ASSUME NEW x
      PROVE  x \in Elements(Append(s, e)) <=> x \in Elements(s) \cup {e}
  <2>1. CASE x = e
    BY <1>1, <2>1 DEF Elements
  <2>2. CASE x # e
    BY <1>1, <2>2 DEF Elements
  <2> QED
    BY <2>1, <2>2
<1> QED
  BY <1>2

LEMMA ElementsOfTail ==
    ASSUME NEW S, NEW s \in Seq(S), s # <<>>
    PROVE  Elements(s) = Elements(Tail(s)) \cup {Head(s)}
<1>1. /\ Len(s) \in Nat /\ Len(s) > 0 /\ Head(s) = s[1]
      /\ DOMAIN s = 1 .. Len(s) /\ DOMAIN Tail(s) = 1 .. Len(s) - 1
      /\ \A i \in 1 .. Len(s) - 1 : Tail(s)[i] = s[i + 1]
  OBVIOUS
<1>2. \A i \in 1 .. Len(s) : i = 1 \/ (i - 1 \in 1 .. Len(s) - 1 /\ s[i] = Tail(s)[i - 1])
  BY <1>1
<1>3. ASSUME NEW i \in 1 .. Len(s)
      PROVE  s[i] \in Elements(Tail(s)) \cup {Head(s)}
  BY <1>1, <1>2 DEF Elements
<1>4. \A i \in 1 .. Len(s) - 1 : i + 1 \in 1 .. Len(s) /\ Tail(s)[i] = s[i + 1]
  BY <1>1
<1>5. 1 \in 1 .. Len(s)
  BY <1>1
<1>6. Elements(Tail(s)) \subseteq Elements(s) /\ Head(s) \in Elements(s)
  BY <1>1, <1>4, <1>5 DEF Elements
<1>7. Elements(s) \subseteq Elements(Tail(s)) \cup {Head(s)}
  BY <1>1, <1>3 DEF Elements
<1> QED
  BY <1>6, <1>7

LEMMA ElementsOfConcat ==
    ASSUME NEW S, NEW s \in Seq(S), NEW t \in Seq(S)
    PROVE  Elements(s \o t) = Elements(s) \cup Elements(t)
<1>1. /\ Len(s) \in Nat /\ Len(t) \in Nat
      /\ DOMAIN s = 1 .. Len(s) /\ DOMAIN t = 1 .. Len(t)
      /\ DOMAIN (s \o t) = 1 .. Len(s) + Len(t)
      /\ \A i \in 1 .. Len(s) + Len(t) :
            (s \o t)[i] = IF i <= Len(s) THEN s[i] ELSE t[i - Len(s)]
  BY ConcatProperties, LenProperties
<1>2. \A i \in 1 .. Len(s) : i \in 1 .. Len(s) + Len(t) /\ (s \o t)[i] = s[i]
  BY <1>1
<1>3. \A i \in 1 .. Len(t) : i + Len(s) \in 1 .. Len(s) + Len(t) /\ (s \o t)[i + Len(s)] = t[i]
  BY <1>1
<1>4. \A i \in 1 .. Len(s) + Len(t) :
            \/ i \in 1 .. Len(s) /\ (s \o t)[i] = s[i]
            \/ i - Len(s) \in 1 .. Len(t) /\ (s \o t)[i] = t[i - Len(s)]
  BY <1>1
<1>5. ASSUME NEW x
      PROVE  x \in Elements(s \o t) <=> x \in Elements(s) \cup Elements(t)
  BY <1>1, <1>2, <1>3, <1>4 DEF Elements
<1> QED
  BY <1>5

LEMMA Channels ==
    ASSUME TypeOK, NEW c \in {"control", "media"}
    PROVE  queued[c] \in Nat /\ queued[c] <= MaxPackets
BY PacketsAssumption DEF TypeOK

\* The packets of a frame continue the numbering of their channel.
LEMMA FrameFacts ==
    ASSUME TypeOK, NEW c \in {"control", "media"}, NEW n \in FrameSizes, queued[c] + n <= MaxPackets
    PROVE  /\ n \in Nat /\ n > 0
           /\ Frame(c, n) \in Seq(Packets)
           /\ Len(Frame(c, n)) = n
           /\ \A i \in 1 .. n : Frame(c, n)[i] = queued[c] + i
           /\ Elements(Frame(c, n)) = (queued[c] + 1) .. (queued[c] + n)
<1>1. n \in Nat /\ n > 0 /\ queued[c] \in Nat
  BY PacketsAssumption, Channels
<1>2. Frame(c, n) \in Seq(Packets) /\ Len(Frame(c, n)) = n
  BY <1>1, PacketsAssumption DEF Frame, Packets
<1>3. DOMAIN Frame(c, n) = 1 .. n /\ \A i \in 1 .. n : Frame(c, n)[i] = queued[c] + i
  BY DEF Frame
<1>4. ASSUME NEW x
      PROVE  x \in Elements(Frame(c, n)) <=> x \in (queued[c] + 1) .. (queued[c] + n)
  <2>1. ASSUME x \in (queued[c] + 1) .. (queued[c] + n)
        PROVE  x - queued[c] \in 1 .. n /\ x = queued[c] + (x - queued[c])
    BY <1>1, <2>1
  <2> QED
    BY <1>1, <1>3, <2>1 DEF Elements
<1> QED
  BY <1>1, <1>2, <1>3, <1>4

-----------------------------------------------------------------------------
(* The actions *)

LEMMA InitHolds ==
    ASSUME Init
    PROVE  QInv
<1>1. Len(<<>>) = 0 /\ DOMAIN <<>> = {} /\ 1 .. 0 = {}
  OBVIOUS
<1>2. TypeOK
  <2>1. 0 \in 0 .. MaxPackets /\ <<>> \in Seq(Packets)
    BY PacketsAssumption
  <2>2. queued \in [{"control", "media"} -> 0 .. MaxPackets]
    BY <2>1 DEF Init
  <2> QED
    BY <2>1, <2>2 DEF Init, TypeOK
<1>3. MediaNotLost
  <2>1. Elements(<<>>) = {}
    BY <1>1, Zenon DEF Elements
  <2> QED
    BY <1>1, <2>1 DEF Init, MediaNotLost
<1>4. ControlIsOrdered
  BY <1>1 DEF Init, ControlIsOrdered, ControlInOrder
<1> QED
  BY <1>2, <1>3, <1>4 DEF Init, QInv, QueuedIsTicking, TickIsTimed

\* What a step on the control channel leaves of the media channel.
LEMMA MediaKept ==
    ASSUME QInv, UNCHANGED <<mediaQueue, mediaWire>>, queued'["media"] = queued["media"]
    PROVE  MediaNotLost'
BY DEF QInv, MediaNotLost, Elements

LEMMA ControlKept ==
    ASSUME QInv, UNCHANGED <<controlQueue, controlWire>>, queued'["control"] = queued["control"]
    PROVE  ControlIsOrdered'
BY DEF QInv, ControlIsOrdered, ControlInOrder

LEMMA QueueMediaKeeps ==
    ASSUME QInv, NEW n \in FrameSizes, OnPacketsReadyToSend("media", n)
    PROVE  QInv'
<1> DEFINE f == Frame("media", n)
           k == queued["media"]
<1>1. /\ n \in Nat /\ k \in Nat /\ k + n <= MaxPackets /\ n > 0
      /\ f \in Seq(Packets) /\ Len(f) = n /\ Elements(f) = (k + 1) .. (k + n)
  BY FrameFacts, Channels DEF QInv, OnPacketsReadyToSend
<1>2. /\ mediaQueue' = mediaQueue \o f
      /\ queued' = [queued EXCEPT !["media"] = k + n]
      /\ timer' = TRUE
      /\ UNCHANGED <<controlQueue, controlWire, mediaWire, packetsPerTick, phase, sent>>
  BY DEF OnPacketsReadyToSend, Enqueued, wires
<1> HIDE DEF f
<1>3. mediaQueue \in Seq(Packets) /\ mediaWire \in Seq(Packets)
  BY DEF QInv, TypeOK
<1>4. mediaQueue' \in Seq(Packets) /\ Len(mediaQueue') = Len(mediaQueue) + n
  BY <1>1, <1>2, <1>3, ConcatProperties
<1>5. /\ queued' \in [{"control", "media"} -> 0 .. MaxPackets]
      /\ queued'["media"] = k + n /\ queued'["control"] = queued["control"]
  BY <1>1, <1>2, PacketsAssumption DEF QInv, TypeOK
<1>6. TypeOK'
  BY <1>2, <1>4, <1>5 DEF QInv, TypeOK
<1>7. MediaNotLost'
  <2>1. Elements(mediaQueue') = Elements(mediaQueue) \cup ((k + 1) .. (k + n))
    BY <1>1, <1>2, <1>3, ElementsOfConcat
  <2>2. Elements(mediaWire)' = Elements(mediaWire)
    BY <1>2 DEF Elements
  <2>3. 1 .. k + n = (1 .. k) \cup ((k + 1) .. (k + n))
    BY <1>1
  <2>4. Elements(mediaQueue) \cup Elements(mediaWire) = 1 .. k /\ Len(mediaQueue) + Len(mediaWire) = k
    BY DEF QInv, MediaNotLost
  <2>5. (Len(mediaQueue) + Len(mediaWire))' = k + n
    BY <1>1, <1>2, <1>3, <1>4, <2>4, LenProperties
  <2> QED
    BY <1>5, <2>1, <2>2, <2>3, <2>4, <2>5 DEF MediaNotLost
<1>8. ControlIsOrdered'
  BY <1>2, <1>5, ControlKept
<1> QED
  BY <1>2, <1>6, <1>7, <1>8 DEF QInv, QueuedIsTicking, TickIsTimed

LEMMA QueueControlKeeps ==
    ASSUME QInv, NEW n \in FrameSizes, OnPacketsReadyToSend("control", n)
    PROVE  QInv'
<1> DEFINE f == Frame("control", n)
           k == queued["control"]
           q == controlQueue
<1>1. /\ n \in Nat /\ k \in Nat /\ k + n <= MaxPackets /\ n > 0
      /\ f \in Seq(Packets) /\ Len(f) = n /\ \A i \in 1 .. n : f[i] = k + i
  BY FrameFacts, Channels DEF QInv, OnPacketsReadyToSend
<1>2. /\ controlQueue' = q \o f
      /\ queued' = [queued EXCEPT !["control"] = k + n]
      /\ timer' = TRUE
      /\ UNCHANGED <<mediaQueue, controlWire, mediaWire, packetsPerTick, phase, sent>>
  BY DEF OnPacketsReadyToSend, Enqueued, wires
<1> HIDE DEF f
<1>3. q \in Seq(Packets) /\ controlWire \in Seq(Packets)
  BY DEF QInv, TypeOK
<1>4. /\ controlQueue' \in Seq(Packets) /\ DOMAIN controlQueue' = 1 .. Len(q) + n
      /\ Len(q) \in Nat
      /\ \A i \in 1 .. Len(q) + n :
            controlQueue'[i] = IF i <= Len(q) THEN q[i] ELSE k + (i - Len(q))
  <2>1. /\ q \o f \in Seq(Packets) /\ Len(q \o f) = Len(q) + n /\ Len(q) \in Nat
        /\ \A i \in 1 .. Len(q) + n : (q \o f)[i] = IF i <= Len(q) THEN q[i] ELSE f[i - Len(q)]
    BY <1>1, <1>3, ConcatProperties, LenProperties
  <2>2. \A i \in 1 .. Len(q) + n : i > Len(q) => i - Len(q) \in 1 .. n
    BY <1>1, <2>1
  <2> QED
    BY <1>1, <1>2, <1>3, <2>1, <2>2, LenProperties
<1>5. /\ queued' \in [{"control", "media"} -> 0 .. MaxPackets]
      /\ queued'["control"] = k + n /\ queued'["media"] = queued["media"]
  BY <1>1, <1>2, PacketsAssumption DEF QInv, TypeOK
<1>6. TypeOK'
  BY <1>2, <1>4, <1>5 DEF QInv, TypeOK
<1>7. ControlIsOrdered'
  <2>1. /\ \A i, j \in DOMAIN q : i < j => q[i] < q[j]
        /\ \A i \in DOMAIN controlWire, j \in DOMAIN q : controlWire[i] < q[j]
        /\ \A i \in DOMAIN controlWire : controlWire[i] <= k
        /\ \A j \in DOMAIN q : q[j] <= k
    BY DEF QInv, ControlIsOrdered
  <2>2. /\ \A i \in DOMAIN controlWire : controlWire[i] \in Nat
        /\ \A j \in 1 .. Len(q) : q[j] \in Nat
        /\ DOMAIN q = 1 .. Len(q)
    <3>1. DOMAIN q = 1 .. Len(q) /\ DOMAIN controlWire = 1 .. Len(controlWire)
      BY <1>3, LenProperties
    <3>2. /\ \A i \in 1 .. Len(controlWire) : controlWire[i] \in Packets
          /\ \A j \in 1 .. Len(q) : q[j] \in Packets
      BY <1>3, ElementOfSeq
    <3> QED
      BY <3>1, <3>2 DEF Packets
  <2> HIDE DEF k, q
  <2>3. ASSUME NEW i \in DOMAIN controlQueue', NEW j \in DOMAIN controlQueue', i < j
        PROVE  controlQueue'[i] < controlQueue'[j]
    <3>1. i \in Nat /\ j \in Nat /\ i \in 1 .. Len(q) + n /\ j \in 1 .. Len(q) + n
      BY <1>1, <1>4
    <3>2. CASE i <= Len(q) /\ j <= Len(q)
      <4>1. i \in DOMAIN q /\ j \in DOMAIN q
        BY <1>4, <2>2, <3>1, <3>2
      <4>2. q[i] < q[j]
        BY <2>1, <2>3, <4>1
      <4> QED
        BY <1>4, <3>1, <3>2, <4>2
    <3>3. CASE i <= Len(q) /\ j > Len(q)
      <4>1. q[i] <= k /\ q[i] \in Nat
        BY <1>4, <2>1, <2>2, <3>1, <3>3
      <4>2. controlQueue'[i] = q[i] /\ controlQueue'[j] = k + (j - Len(q)) /\ ~(j <= Len(q))
        BY <1>4, <3>1, <3>3
      <4> QED
        BY <1>1, <1>4, <3>1, <3>3, <4>1, <4>2
    <3>4. CASE i > Len(q) /\ j > Len(q)
      <4>1. controlQueue'[i] = k + (i - Len(q)) /\ controlQueue'[j] = k + (j - Len(q))
        BY <1>4, <3>1, <3>4
      <4> QED
        BY <1>1, <1>4, <2>3, <3>1, <4>1
    <3> QED
      BY <1>1, <1>4, <2>3, <3>1, <3>2, <3>3, <3>4
  <2>4. ASSUME NEW j \in DOMAIN controlQueue'
        PROVE  /\ \A i \in DOMAIN controlWire : controlWire[i] < controlQueue'[j]
               /\ controlQueue'[j] <= k + n
    <3>1. j \in Nat /\ j \in 1 .. Len(q) + n
      BY <1>1, <1>4
    <3>2. CASE j <= Len(q)
      <4>1. controlQueue'[j] = q[j] /\ j \in DOMAIN q /\ q[j] \in Nat
        BY <1>4, <2>2, <3>1, <3>2
      <4> QED
        BY <1>1, <2>1, <2>2, <4>1
    <3>3. CASE j > Len(q)
      <4>1. controlQueue'[j] = k + (j - Len(q)) /\ ~(j <= Len(q))
        BY <1>4, <3>1, <3>3
      <4> QED
        BY <1>1, <1>4, <2>1, <2>2, <3>1, <3>3, <4>1
    <3> QED
      BY <1>4, <3>1, <3>2, <3>3
  <2>5. \A i \in DOMAIN controlWire : controlWire[i] <= k + n
    BY <1>1, <2>1, <2>2
  <2>6. ControlInOrder'
    BY <1>2 DEF QInv, ControlIsOrdered, ControlInOrder
  <2> QED
    BY <1>2, <1>5, <2>3, <2>4, <2>5, <2>6 DEF ControlIsOrdered
<1>8. MediaNotLost'
  BY <1>2, <1>5, MediaKept
<1> QED
  BY <1>2, <1>6, <1>7, <1>8 DEF QInv, QueuedIsTicking, TickIsTimed

LEMMA WriteControlKeeps ==
    ASSUME QInv, WriteControl \/ FailControl
    PROVE  QInv'
<1> DEFINE q == controlQueue
           w == controlWire
           h == Head(q)
<1>1. /\ q \in Seq(Packets) /\ q # <<>> /\ w \in Seq(Packets)
      /\ sent \in Nat /\ timer /\ timer' = timer
      /\ controlQueue' = Tail(q) /\ controlWire' \in {w, Append(w, h)}
      /\ sent' \in {sent, sent + 1}
      /\ UNCHANGED <<mediaQueue, packetsPerTick, phase, queued, mediaWire>>
  BY DEF QInv, TypeOK, TickIsTimed, WriteControl, FailControl, MaySend, wires
<1>2. /\ Len(q) \in Nat /\ Len(q) > 0 /\ h = q[1] /\ h \in Packets /\ 1 \in DOMAIN q
      /\ Tail(q) \in Seq(Packets) /\ DOMAIN Tail(q) = 1 .. Len(q) - 1 /\ DOMAIN q = 1 .. Len(q)
      /\ \A i \in DOMAIN Tail(q) : Tail(q)[i] = q[i + 1] /\ i + 1 \in DOMAIN q /\ i + 1 > 1
  BY <1>1
<1>3. /\ Len(w) \in Nat /\ DOMAIN w = 1 .. Len(w)
      /\ Append(w, h) \in Seq(Packets)
      /\ DOMAIN Append(w, h) = 1 .. Len(w) + 1
      /\ \A i \in 1 .. Len(w) + 1 : Append(w, h)[i] = IF i = Len(w) + 1 THEN h ELSE w[i]
  BY <1>1, <1>2, AppendFacts, LenProperties
<1>4. TypeOK'
  <2>1. sent' \in Nat
    BY <1>1
  <2> QED
    BY <1>1, <1>2, <1>3, <2>1 DEF QInv, TypeOK
<1>5. MediaNotLost'
  BY <1>1, MediaKept
<1>6. ASSUME NEW k, k = queued["control"], NEW nq, nq = controlQueue', NEW nw, nw = controlWire'
      PROVE  /\ \A i, j \in DOMAIN nw : i < j => nw[i] < nw[j]
             /\ \A i, j \in DOMAIN nq : i < j => nq[i] < nq[j]
             /\ \A i \in DOMAIN nw, j \in DOMAIN nq : nw[i] < nq[j]
             /\ \A i \in DOMAIN nw : nw[i] <= k
             /\ \A j \in DOMAIN nq : nq[j] <= k
  <2>1. /\ \A i, j \in DOMAIN w : i < j => w[i] < w[j]
        /\ \A i, j \in DOMAIN q : i < j => q[i] < q[j]
        /\ \A i \in DOMAIN w, j \in DOMAIN q : w[i] < q[j]
        /\ \A i \in DOMAIN w : w[i] <= k
        /\ \A j \in DOMAIN q : q[j] <= k
    BY <1>6 DEF QInv, ControlIsOrdered, ControlInOrder
  <2>2. nq = Tail(q) /\ nw \in {w, Append(w, h)}
    BY <1>1, <1>6
  <2> HIDE DEF q, w, h
  <2>3. \A j \in DOMAIN nq : j \in Nat /\ nq[j] = q[j + 1] /\ j + 1 \in DOMAIN q /\ j + 1 > 1
    BY <1>2, <2>2
  <2>4. \A i \in DOMAIN nw : \/ i \in DOMAIN w /\ nw[i] = w[i]
                             \/ i = Len(w) + 1 /\ nw[i] = q[1]
    BY <1>2, <1>3, <2>2
  <2>5. \A i, j \in DOMAIN nq : i < j => nq[i] < nq[j]
    <3> SUFFICES ASSUME NEW i \in DOMAIN nq, NEW j \in DOMAIN nq, i < j
                 PROVE  nq[i] < nq[j]
      OBVIOUS
    <3>1. i + 1 \in DOMAIN q /\ j + 1 \in DOMAIN q /\ i + 1 < j + 1
      BY <2>3
    <3> QED
      BY <2>1, <2>3, <3>1
  <2>6. \A i \in DOMAIN nw, j \in DOMAIN nq : nw[i] < nq[j]
    <3> SUFFICES ASSUME NEW i \in DOMAIN nw, NEW j \in DOMAIN nq
                 PROVE  nw[i] < nq[j]
      OBVIOUS
    <3>1. nq[j] = q[j + 1] /\ j + 1 \in DOMAIN q /\ 1 < j + 1
      BY <2>3
    <3> QED
      BY <1>2, <2>1, <2>4, <3>1
  <2>7. /\ \A i \in DOMAIN nw : nw[i] <= k
        /\ \A j \in DOMAIN nq : nq[j] <= k
    BY <1>2, <2>1, <2>3, <2>4
  <2>8. \A i, j \in DOMAIN nw : i < j => nw[i] < nw[j]
    <3> SUFFICES ASSUME NEW i \in DOMAIN nw, NEW j \in DOMAIN nw, i < j
                 PROVE  nw[i] < nw[j]
      OBVIOUS
    <3>1. i \in DOMAIN w /\ nw[i] = w[i]
      <4>1. i \in 1 .. Len(w) + 1 /\ j \in 1 .. Len(w) + 1
        BY <1>3, <2>4
      <4> QED
        BY <1>3, <2>4, <4>1
    <3> QED
      BY <1>2, <2>1, <2>4, <3>1
  <2> QED
    BY <2>5, <2>6, <2>7, <2>8
<1>7. ControlIsOrdered'
  BY <1>1, <1>6 DEF ControlIsOrdered, ControlInOrder
<1> QED
  BY <1>1, <1>4, <1>5, <1>7 DEF QInv, QueuedIsTicking, TickIsTimed

LEMMA WriteMediaKeeps ==
    ASSUME QInv, WriteMedia \/ FailMedia
    PROVE  QInv'
<1> DEFINE q == mediaQueue
           w == mediaWire
           h == Head(q)
           k == queued["media"]
<1>1. /\ q \in Seq(Packets) /\ q # <<>> /\ w \in Seq(Packets)
      /\ sent \in Nat /\ timer /\ timer' = timer
      /\ \/ mediaQueue' = Tail(q) /\ mediaWire' = Append(w, h)
         \/ mediaQueue' = Append(Tail(q), h) /\ mediaWire' = w
      /\ sent' \in {sent, sent + 1}
      /\ UNCHANGED <<controlQueue, packetsPerTick, phase, queued, controlWire>>
  BY DEF QInv, TypeOK, TickIsTimed, WriteMedia, FailMedia, MaySend, Requeued, wires
<1>2. /\ h \in Packets /\ Tail(q) \in Seq(Packets)
      /\ Len(q) \in Nat /\ Len(Tail(q)) = Len(q) - 1 /\ Len(w) \in Nat
      /\ Elements(q) = Elements(Tail(q)) \cup {h}
  BY <1>1, ElementsOfTail, HeadTailProperties, LenProperties
<1>3. /\ Append(w, h) \in Seq(Packets) /\ Append(Tail(q), h) \in Seq(Packets)
      /\ Len(Append(w, h)) = Len(w) + 1 /\ Len(Append(Tail(q), h)) = Len(q)
      /\ Elements(Append(w, h)) = Elements(w) \cup {h}
      /\ Elements(Append(Tail(q), h)) = Elements(Tail(q)) \cup {h}
  <2>1. /\ Append(w, h) \in Seq(Packets) /\ Len(Append(w, h)) = Len(w) + 1
        /\ Elements(Append(w, h)) = Elements(w) \cup {h}
    BY <1>1, <1>2, AppendFacts, ElementsOfAppend
  <2>2. /\ Append(Tail(q), h) \in Seq(Packets) /\ Len(Append(Tail(q), h)) = Len(Tail(q)) + 1
        /\ Elements(Append(Tail(q), h)) = Elements(Tail(q)) \cup {h}
    <3> DEFINE t == Tail(q)
    <3>1. t \in Seq(Packets) /\ h \in Packets
      BY <1>2
    <3> HIDE DEF t, h
    <3> QED
      BY <3>1, AppendFacts, ElementsOfAppend DEF t
  <2> QED
    BY <1>2, <2>1, <2>2
<1>4. TypeOK'
  <2>1. sent' \in Nat
    BY <1>1
  <2> QED
    BY <1>1, <1>2, <1>3, <2>1 DEF QInv, TypeOK
<1>5. MediaNotLost'
  <2>1. Elements(q) \cup Elements(w) = 1 .. k /\ Len(q) + Len(w) = k
    BY DEF QInv, MediaNotLost
  <2> HIDE DEF q, w, h, k
  <2>2. Elements(mediaQueue') \cup Elements(mediaWire') = 1 .. k
    BY <1>1, <1>2, <1>3, <2>1
  <2>3. Len(mediaQueue') + Len(mediaWire') = k
    <3>1. CASE mediaQueue' = Tail(q) /\ mediaWire' = Append(w, h)
      <4>1. Len(mediaQueue') = Len(q) - 1 /\ Len(mediaWire') = Len(w) + 1
        BY <1>2, <1>3, <3>1
      <4> QED
        BY <1>2, <2>1, <4>1
    <3>2. CASE mediaQueue' = Append(Tail(q), h) /\ mediaWire' = w
      BY <1>3, <2>1, <3>2
    <3> QED
      BY <1>1, <3>1, <3>2
  <2> QED
    BY <1>1, <2>2, <2>3 DEF MediaNotLost, k
<1>6. ControlIsOrdered'
  BY <1>1, ControlKept
<1> QED
  BY <1>1, <1>4, <1>5, <1>6 DEF QInv, QueuedIsTicking, TickIsTimed

\* The steps that touch neither a queue nor a wire.
LEMMA OtherKeeps ==
    ASSUME QInv,
           \/ \E n \in TickSizes : SetTick(n)
           \/ StartTick \/ EndControl \/ EndTick
           \/ UNCHANGED vars
    PROVE  QInv'
<1>1. UNCHANGED <<controlQueue, mediaQueue, queued, controlWire, mediaWire>>
  BY DEF SetTick, StartTick, EndControl, EndTick, vars, queues, wires
<1>2. TypeOK'
  <2>1. packetsPerTick' \in TickSizes /\ sent' \in Nat /\ phase' \in {"idle", "control", "media"}
    BY DEF QInv, TypeOK, SetTick, StartTick, EndControl, EndTick, vars
  <2>2. timer' \in BOOLEAN
    BY DEF QInv, TypeOK, SetTick, StartTick, EndControl, EndTick, StaysActive, vars
  <2> QED
    BY <1>1, <2>1, <2>2 DEF QInv, TypeOK
<1>3. MediaNotLost' /\ ControlIsOrdered'
  BY <1>1, MediaKept, ControlKept
<1>4. QueuedIsTicking' /\ TickIsTimed'
  BY DEF QInv, QueuedIsTicking, TickIsTimed, SetTick, StartTick, EndControl, EndTick, StaysActive,
         vars, queues, wires
<1> QED
  BY <1>2, <1>3, <1>4 DEF QInv

-----------------------------------------------------------------------------
\* The invariant of the queue, for any packets, frames and values of
\* packetsPerTick.
THEOREM QueueInvariant == Spec => []QInv
<1>1. Init => QInv
  BY InitHolds
<1>2. QInv /\ [Next]_vars => QInv'
  BY QueueControlKeeps, QueueMediaKeeps, WriteControlKeeps, WriteMediaKeeps, OtherKeeps DEF Next
<1> QED
  BY <1>1, <1>2, PTL DEF Spec

\* The queues, the wires and the timer hold values of their types.
THEOREM TypeCorrect == Spec => []TypeOK
<1>1. QInv => TypeOK
  BY DEF QInv
<1> QED
  BY <1>1, QueueInvariant, PTL

\* No media packet is dropped or sent twice, however often the socket refuses.
THEOREM MediaIsKept == Spec => []MediaNotLost
<1>1. QInv => MediaNotLost
  BY DEF QInv
<1> QED
  BY <1>1, QueueInvariant, PTL

\* Control packets reach the socket in the order in which they were queued.
THEOREM ControlIsInOrder == Spec => []ControlInOrder
<1>1. QInv => ControlInOrder
  BY DEF QInv, ControlIsOrdered
<1> QED
  BY <1>1, QueueInvariant, PTL

\* No packet waits in a queue while the timer that would send it is stopped.
THEOREM NothingWaitsUntimed == Spec => []QueuedIsTicking
<1>1. QInv => QueuedIsTicking
  BY DEF QInv
<1> QED
  BY <1>1, QueueInvariant, PTL
=============================================================================
