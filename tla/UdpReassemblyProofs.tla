------------------------ MODULE UdpReassemblyProofs ------------------------
(***************************************************************************)
(* What UdpReassembly guarantees, for every number of frames, fragments,   *)
(* restarts and duplicates and every window.                               *)
(***************************************************************************)
EXTENDS UdpReassembly, FiniteSetTheorems, TLAPS

LEMMA SeqsAreNat == \A s \in Seqs : s \in Nat
BY MaxFramesAssumption DEF Seqs

\* Packets lie within their frame.
LEMMA PacketShape ==
    \A p \in Packets :
        /\ Seq(p) \in Seqs
        /\ Count(p) \in Counts
        /\ Frag(p) \in Nat
        /\ <<Seq(p), Count(p)>> \in Frames
BY DEF Packets, Seq, Count, Frag, Frames

\* A packet is its header.
LEMMA PacketIsHeader ==
    \A p, q \in Packets :
        Seq(p) = Seq(q) /\ Count(p) = Count(q) /\ Frag(p) = Frag(q) => p = q
BY DEF Packets, Seq, Count, Frag

\* Frames are told apart by their seq and count.
LEMMA FrameIsHeader ==
    \A p, q \in Packets :
        <<Seq(p), Count(p)>> = <<Seq(q), Count(q)>> <=> Seq(p) = Seq(q) /\ Count(p) = Count(q)
OBVIOUS

\* The newest frame seen, and the start of the window it defines.
LEMMA WindowShape ==
    ASSUME TypeOK, NEW p \in Packets
    PROVE  /\ Newest(p) \in Seqs
           /\ Seq(p) <= Newest(p)
           /\ latestSeenSeq <= Newest(p)
           /\ Newest(p) \in {Seq(p), latestSeenSeq}
           /\ MinAllowedSeq(Newest(p)) \in Nat
           /\ \A s \in Seqs : MinAllowedSeq(Newest(p)) <= s <=> Newest(p) <= s + MaxFrameLag
<1>1. /\ Seq(p) \in Seqs
      /\ latestSeenSeq \in Seqs
      /\ \A s \in Seqs : s \in Nat
      /\ MaxFrameLag \in Nat
    BY PacketShape, SeqsAreNat, WindowAssumption DEF TypeOK
<1>2. /\ Newest(p) \in Seqs
      /\ Seq(p) <= Newest(p)
      /\ latestSeenSeq <= Newest(p)
      /\ Newest(p) \in {Seq(p), latestSeenSeq}
    BY <1>1 DEF Newest
<1>3. /\ MinAllowedSeq(Newest(p)) \in Nat
      /\ \A s \in Seqs : MinAllowedSeq(Newest(p)) <= s <=> Newest(p) <= s + MaxFrameLag
    <2>1. Newest(p) \in Nat
        BY <1>1, <1>2
    <2> QED
        BY <1>1, <2>1 DEF MinAllowedSeq
<1> QED
    BY <1>2, <1>3

\* Frames that fit in one window are never more than MaxFrameLag + 1.
LEMMA FewFrames ==
    ASSUME NEW P \in SUBSET Packets, NEW latest \in Seqs,
           \A p \in P : Seq(p) <= latest /\ latest <= Seq(p) + MaxFrameLag
    PROVE  Cardinality({Seq(p) : p \in P}) <= MaxFrameLag + 1
<1> DEFINE first == IF latest > MaxFrameLag THEN latest - MaxFrameLag ELSE 0
<1>1. first \in Int /\ latest \in Int /\ first <= latest /\ latest - first <= MaxFrameLag
    BY SeqsAreNat, WindowAssumption
<1>2. {Seq(p) : p \in P} \subseteq first .. latest
    <2>1. ASSUME NEW p \in P PROVE Seq(p) \in first .. latest
        <3>1. /\ Seq(p) \in Nat /\ latest \in Nat /\ MaxFrameLag \in Nat
              /\ Seq(p) <= latest /\ latest <= Seq(p) + MaxFrameLag
            BY PacketShape, SeqsAreNat, WindowAssumption
        <3> QED
            BY <3>1
    <2> HIDE DEF first
    <2> QED
        BY <2>1
<1> HIDE DEF first
<1>3. /\ IsFiniteSet(first .. latest)
      /\ Cardinality(first .. latest) = latest - first + 1
    BY <1>1, FS_Interval
<1>4. /\ IsFiniteSet({Seq(p) : p \in P})
      /\ Cardinality({Seq(p) : p \in P}) <= Cardinality(first .. latest)
    BY <1>2, <1>3, FS_Subset
<1>5. Cardinality({Seq(p) : p \in P}) \in Nat
    BY <1>4, FS_CardinalityType
<1> QED
    BY <1>1, <1>3, <1>4, <1>5, WindowAssumption

\* The limit on the number of buffered frames drops none of a window's frames.
LEMMA CapDropsNothing ==
    ASSUME NEW P \in SUBSET Packets, NEW latest \in Seqs,
           \A p \in P : Seq(p) <= latest /\ latest <= Seq(p) + MaxFrameLag
    PROVE  Capped(P) = P
<1> SUFFICES ASSUME NEW q \in P
             PROVE  Cardinality({Seq(r) : r \in {r \in P : Seq(r) > Seq(q)}}) < MaxPendingFrames
    BY DEF Capped
<1> DEFINE newer == {Seq(r) : r \in {r \in P : Seq(r) > Seq(q)}}
<1>1. /\ Seq(q) \in Int /\ latest \in Int /\ Seq(q) <= latest
      /\ latest - Seq(q) <= MaxFrameLag
    <2>1. /\ Seq(q) \in Nat /\ latest \in Nat /\ MaxFrameLag \in Nat
          /\ Seq(q) <= latest /\ latest <= Seq(q) + MaxFrameLag
        BY PacketShape, SeqsAreNat, WindowAssumption
    <2> QED
        BY <2>1
<1>2. newer \subseteq Seq(q) + 1 .. latest
    <2>1. ASSUME NEW r \in P, Seq(r) > Seq(q)
          PROVE  Seq(r) \in Seq(q) + 1 .. latest
        <3>1. Seq(r) \in Nat /\ Seq(q) \in Nat /\ latest \in Nat /\ Seq(r) <= latest
            BY PacketShape, SeqsAreNat
        <3> QED
            BY <2>1, <3>1
    <2> QED
        BY <2>1
<1>3. /\ IsFiniteSet(Seq(q) + 1 .. latest)
      /\ Cardinality(Seq(q) + 1 .. latest) <= latest - Seq(q)
    <2> DEFINE first == Seq(q) + 1
    <2>1. first \in Int /\ latest \in Int /\ latest - first + 1 = latest - Seq(q)
          /\ (first > latest => 0 <= latest - Seq(q))
        BY <1>1
    <2> HIDE DEF first
    <2>2. /\ IsFiniteSet(first .. latest)
          /\ Cardinality(first .. latest) = IF first > latest THEN 0 ELSE latest - first + 1
        BY <2>1, FS_Interval
    <2>3. Cardinality(first .. latest) <= latest - Seq(q)
        BY <1>1, <2>1, <2>2
    <2> QED
        BY <2>2, <2>3 DEF first
<1>4. /\ IsFiniteSet(newer)
      /\ Cardinality(newer) <= Cardinality(Seq(q) + 1 .. latest)
    BY <1>2, <1>3, FS_Subset
<1>5. Cardinality(newer) \in Nat /\ Cardinality(Seq(q) + 1 .. latest) \in Nat
    BY <1>3, <1>4, FS_CardinalityType
<1> HIDE DEF newer
<1>6. Cardinality(newer) < MaxPendingFrames
    BY <1>1, <1>3, <1>4, <1>5, WindowAssumption
<1> QED
    BY <1>6 DEF newer

-----------------------------------------------------------------------------
(* The inductive invariant. *)

\* What is buffered lies in the window.
Windowed == \A p \in pendingFrame : InWindow(Seq(p))

\* No packet newer than latestSeenSeq has arrived.
NewestSeen == \A p \in Packets : arrivals[p] > 0 => Seq(p) <= latestSeenSeq

\* Only packets of frame c have arrived under number s.
Alone(s, c) == \A q \in Packets : Seq(q) = s /\ arrivals[q] > 0 => Count(q) = c

\* A packet that arrived and is in the window is buffered, or was part of an
\* emission, unless packets of another frame came under its number.
ArrivedIsKept ==
    \A p \in Packets :
        InWindow(Seq(p)) /\ arrivals[p] > 0 /\ Alone(Seq(p), Count(p)) =>
            p \in pendingFrame \/ emissions[<<Seq(p), Count(p)>>] > 0

IInv ==
    /\ TypeOK
    /\ Windowed
    /\ NewestSeen
    /\ BuffersConsistent
    /\ EmittedFromArrivals
    /\ ArrivedIsKept

\* After the purge, and the limit, the buffers are those of the new window.
LEMMA KeptIsWindow ==
    ASSUME TypeOK, Windowed, NEW p \in Packets
    PROVE  /\ Kept(p) \subseteq pendingFrame
           /\ Kept(p) \subseteq Packets
           /\ \A q \in pendingFrame : q \in Kept(p) <=> Newest(p) <= Seq(q) + MaxFrameLag
           /\ \A q \in Kept(p) : Seq(q) <= Newest(p)
           /\ TooOld(p) <=> ~(Newest(p) <= Seq(p) + MaxFrameLag)
<1>1. pendingFrame \in SUBSET Packets
    BY DEF TypeOK
<1>2. Purged(Newest(p)) = {q \in pendingFrame : Newest(p) <= Seq(q) + MaxFrameLag}
    <2>1. \A q \in pendingFrame :
            Seq(q) >= MinAllowedSeq(Newest(p)) <=> Newest(p) <= Seq(q) + MaxFrameLag
        BY <1>1, PacketShape, SeqsAreNat, WindowShape
    <2> QED
        BY <2>1 DEF Purged
<1>3. \A q \in Purged(Newest(p)) : Seq(q) <= Newest(p) /\ Newest(p) <= Seq(q) + MaxFrameLag
    <2>1. TAKE q \in Purged(Newest(p))
    <2>2. q \in Packets /\ Newest(p) <= Seq(q) + MaxFrameLag /\ Seq(q) <= latestSeenSeq
        BY <1>1, <1>2 DEF Windowed, InWindow
    <2>3. Seq(q) \in Nat /\ latestSeenSeq \in Nat /\ Newest(p) \in Nat /\ latestSeenSeq <= Newest(p)
        BY <2>2, PacketShape, SeqsAreNat, WindowShape DEF TypeOK
    <2> QED
        BY <2>2, <2>3
<1>4. Kept(p) = Purged(Newest(p))
    <2> DEFINE P == Purged(Newest(p))
    <2>1. P \in SUBSET Packets /\ Newest(p) \in Seqs
        BY <1>1, <1>2, WindowShape
    <2>2. \A q \in P : Seq(q) <= Newest(p) /\ Newest(p) <= Seq(q) + MaxFrameLag
        BY <1>3
    <2> HIDE DEF P
    <2>3. Capped(P) = P
        BY <2>1, <2>2, CapDropsNothing
    <2> QED
        BY <2>3 DEF P, Kept
<1>5. TooOld(p) <=> ~(Newest(p) <= Seq(p) + MaxFrameLag)
    <2>1. MinAllowedSeq(Newest(p)) <= Seq(p) <=> Newest(p) <= Seq(p) + MaxFrameLag
        BY PacketShape, WindowShape
    <2>2. Seq(p) \in Nat /\ MinAllowedSeq(Newest(p)) \in Nat
        BY PacketShape, SeqsAreNat, WindowShape
    <2> QED
        BY <2>1, <2>2 DEF TooOld
<1>6. Kept(p) \subseteq pendingFrame
    BY <1>2, <1>4
<1>7. \A q \in pendingFrame : q \in Kept(p) <=> Newest(p) <= Seq(q) + MaxFrameLag
    BY <1>2, <1>4
<1> QED
    BY <1>1, <1>3, <1>4, <1>5, <1>6, <1>7

\* The invariant gives the properties the model checker verifies.
LEMMA InvariantImplies ==
    ASSUME IInv
    PROVE  PendingBounded /\ InWindowComplete
<1> USE DEF IInv
<1>1. PendingBounded
    <2>1. /\ pendingFrame \in SUBSET Packets
          /\ latestSeenSeq \in Seqs
          /\ \A p \in pendingFrame : Seq(p) <= latestSeenSeq /\ latestSeenSeq <= Seq(p) + MaxFrameLag
        BY DEF TypeOK, Windowed, InWindow
    <2> QED
        BY <2>1, FewFrames, CapDropsNothing DEF PendingBounded, Windowed
<1>2. InWindowComplete
    <2>1. SUFFICES ASSUME NEW s \in Seqs, NEW c \in Counts,
                          InWindow(s),
                          \A p \in Fragments(s, c) : arrivals[p] > 0,
                          \A p \in Packets : Seq(p) = s /\ arrivals[p] > 0 => Count(p) = c,
                          ~(emissions[<<s, c>>] > 0)
                   PROVE  FALSE
        BY DEF InWindowComplete
    <2>2. \A p \in Fragments(s, c) : p \in pendingFrame
        BY <2>1 DEF Fragments, ArrivedIsKept, Alone
    <2>3. PICK p \in Fragments(s, c) : TRUE
        <3>1. <<s, c, 0>> \in Fragments(s, c)
            BY MaxFragmentsAssumption DEF Fragments, Packets, Counts, Seq, Count, Frag
        <3> QED
            BY <3>1
    <2>4. p \in pendingFrame /\ Seq(p) = s /\ Count(p) = c
        BY <2>2, <2>3 DEF Fragments
    <2> QED
        BY <2>2, <2>4 DEF BuffersConsistent
<1> QED
    BY <1>1, <1>2

-----------------------------------------------------------------------------
(* Every step of the receiver preserves it. *)

\* What all outcomes of pushPacket have in common.
LEMMA PushStep ==
    ASSUME IInv, NEW p \in network, Push(p)
    PROVE  /\ p \in Packets
           /\ arrivals' \in [Packets -> Nat]
           /\ arrivals'[p] = arrivals[p] + 1
           /\ \A q \in Packets : q # p => arrivals'[q] = arrivals[q]
           /\ latestSeenSeq' = Newest(p)
           /\ NewestSeen'
           /\ \A q \in Packets :
                q # p /\ InWindow(Seq(q))' /\ arrivals'[q] > 0 /\ Alone(Seq(q), Count(q))'
                => q \in Kept(p) \/ emissions[<<Seq(q), Count(q)>>] > 0
<1> USE DEF IInv
<1>1. /\ p \in Packets
      /\ arrivals' \in [Packets -> Nat]
      /\ arrivals'[p] = arrivals[p] + 1
      /\ \A q \in Packets : q # p => arrivals'[q] = arrivals[q]
      /\ latestSeenSeq' = Newest(p)
    BY DEF Push, TypeOK
<1>2. /\ \A q \in Packets : arrivals[q] \in Nat /\ arrivals'[q] \in Nat
      /\ \A q \in Packets : arrivals[q] > 0 => arrivals'[q] > 0
    BY <1>1 DEF TypeOK
<1>3. NewestSeen'
    <2> SUFFICES ASSUME NEW q \in Packets, arrivals'[q] > 0 PROVE Seq(q) <= Newest(p)
        BY <1>1 DEF NewestSeen
    <2>1. CASE q = p
        BY <1>1, <2>1, WindowShape
    <2>2. CASE q # p
        <3>1. Seq(q) <= latestSeenSeq /\ latestSeenSeq <= Newest(p)
            BY <1>1, <2>2, WindowShape DEF NewestSeen
        <3>2. Seq(q) \in Nat /\ latestSeenSeq \in Nat /\ Newest(p) \in Nat
            BY <1>1, PacketShape, SeqsAreNat, WindowShape DEF TypeOK
        <3> QED
            BY <3>1, <3>2
    <2> QED
        BY <2>1, <2>2
<1>4. ASSUME NEW q \in Packets, q # p, InWindow(Seq(q))', arrivals'[q] > 0,
             Alone(Seq(q), Count(q))'
      PROVE  q \in Kept(p) \/ emissions[<<Seq(q), Count(q)>>] > 0
    <2>1. arrivals[q] > 0 /\ Seq(q) <= latestSeenSeq
        BY <1>1, <1>4 DEF NewestSeen
    <2>2. Newest(p) <= Seq(q) + MaxFrameLag
        BY <1>1, <1>4 DEF InWindow
    <2>3. /\ Seq(q) \in Nat /\ latestSeenSeq \in Nat /\ Newest(p) \in Nat
          /\ MaxFrameLag \in Nat /\ latestSeenSeq <= Newest(p)
        BY <1>1, PacketShape, SeqsAreNat, WindowShape, WindowAssumption DEF TypeOK
    <2>4. InWindow(Seq(q))
        BY <2>1, <2>2, <2>3 DEF InWindow
    <2>5. Alone(Seq(q), Count(q))
        BY <1>2, <1>4 DEF Alone
    <2>6. q \in pendingFrame \/ emissions[<<Seq(q), Count(q)>>] > 0
        BY <2>1, <2>4, <2>5 DEF ArrivedIsKept
    <2> QED
        BY <1>1, <2>2, <2>6, KeptIsWindow
<1> QED
    BY <1>1, <1>3, <1>4

LEMMA TooOldStep ==
    ASSUME IInv, NEW p \in network, PushTooOld(p)
    PROVE  IInv'
<1> USE DEF IInv
<1>1. Push(p) /\ TooOld(p) /\ pendingFrame' = pendingFrame /\ emissions' = emissions
    BY DEF PushTooOld
<1>2. p \in Packets /\ Newest(p) \in Seqs
    BY <1>1, PushStep, WindowShape
<1>3. ~(Newest(p) <= Seq(p) + MaxFrameLag) /\ Newest(p) = latestSeenSeq
    <2>1. ~(Newest(p) <= Seq(p) + MaxFrameLag)
        BY <1>1, <1>2, KeptIsWindow
    <2>2. Newest(p) \in {Seq(p), latestSeenSeq} /\ Seq(p) \in Nat /\ MaxFrameLag \in Nat
        BY <1>2, WindowShape, PacketShape, SeqsAreNat, WindowAssumption
    <2> QED
        BY <2>1, <2>2
<1>4. TypeOK'
    BY <1>1, <1>2, PushStep DEF TypeOK, Push, senderVars
<1>5. Windowed' /\ BuffersConsistent'
    BY <1>1, <1>3, PushStep DEF Windowed, BuffersConsistent, InWindow
<1>6. NewestSeen'
    BY <1>1, PushStep
<1>7. EmittedFromArrivals'
    <2> SUFFICES ASSUME NEW q \in Packets
                 PROVE  emissions[<<Seq(q), Count(q)>>] + (IF q \in pendingFrame THEN 1 ELSE 0)
                            <= arrivals'[q]
        BY <1>1 DEF EmittedFromArrivals
    <2>1. emissions[<<Seq(q), Count(q)>>] + (IF q \in pendingFrame THEN 1 ELSE 0) <= arrivals[q]
        BY DEF EmittedFromArrivals
    <2>2. /\ arrivals[q] \in Nat /\ emissions[<<Seq(q), Count(q)>>] \in Nat
          /\ arrivals'[q] \in {arrivals[q], arrivals[q] + 1}
        BY <1>1, PushStep, PacketShape DEF TypeOK
    <2> QED
        BY <2>1, <2>2
<1>8. ArrivedIsKept'
    <2> SUFFICES ASSUME NEW q \in Packets, InWindow(Seq(q))', arrivals'[q] > 0,
                        Alone(Seq(q), Count(q))'
                 PROVE  q \in pendingFrame \/ emissions[<<Seq(q), Count(q)>>] > 0
        BY <1>1 DEF ArrivedIsKept
    <2>1. CASE q = p
        BY <1>1, <1>3, <2>1, PushStep DEF InWindow
    <2>2. CASE q # p
        BY <1>1, <1>2, <2>2, PushStep, KeptIsWindow
    <2> QED
        BY <2>1, <2>2
<1> QED
    BY <1>4, <1>5, <1>6, <1>7, <1>8

LEMMA RejectedStep ==
    ASSUME IInv, NEW p \in network, PushRejected(p)
    PROVE  IInv'
<1> USE DEF IInv
<1>1. /\ Push(p) /\ ~TooOld(p) /\ Rejected(p)
      /\ pendingFrame' = Kept(p) /\ emissions' = emissions
    BY DEF PushRejected
<1>2. p \in Packets /\ Newest(p) \in Seqs
    BY <1>1, PushStep, WindowShape
<1>3. TypeOK'
    BY <1>1, <1>2, PushStep, KeptIsWindow DEF TypeOK, Push, senderVars
<1>4. Windowed'
    BY <1>1, <1>2, PushStep, KeptIsWindow DEF Windowed, InWindow
<1>5. BuffersConsistent'
    BY <1>1, <1>2, KeptIsWindow DEF BuffersConsistent
<1>6. NewestSeen'
    BY <1>1, PushStep
<1>7. EmittedFromArrivals'
    <2> SUFFICES ASSUME NEW q \in Packets
                 PROVE  emissions[<<Seq(q), Count(q)>>] + (IF q \in Kept(p) THEN 1 ELSE 0)
                            <= arrivals'[q]
        BY <1>1 DEF EmittedFromArrivals
    <2>1. emissions[<<Seq(q), Count(q)>>] + (IF q \in pendingFrame THEN 1 ELSE 0) <= arrivals[q]
        BY DEF EmittedFromArrivals
    <2>2. q \in Kept(p) => q \in pendingFrame
        BY <1>2, KeptIsWindow
    <2>3. /\ arrivals[q] \in Nat /\ emissions[<<Seq(q), Count(q)>>] \in Nat
          /\ arrivals'[q] \in {arrivals[q], arrivals[q] + 1}
        BY <1>1, PushStep, PacketShape DEF TypeOK
    <2> QED
        BY <2>1, <2>2, <2>3
<1>8. ArrivedIsKept'
    <2> SUFFICES ASSUME NEW q \in Packets, InWindow(Seq(q))', arrivals'[q] > 0,
                        Alone(Seq(q), Count(q))'
                 PROVE  q \in Kept(p) \/ emissions[<<Seq(q), Count(q)>>] > 0
        BY <1>1 DEF ArrivedIsKept
    <2>1. CASE q = p
        <3>1. PICK r \in Kept(p) :
                Seq(r) = Seq(p) /\ (Count(r) # Count(p) \/ Frag(r) = Frag(p))
            BY <1>1 DEF Rejected, Buffer
        <3>2. r \in Packets /\ r \in pendingFrame
            BY <1>2, <3>1, KeptIsWindow
        <3>3. arrivals'[r] > 0
            <4>1. emissions[<<Seq(r), Count(r)>>] + 1 <= arrivals[r]
                BY <3>2 DEF EmittedFromArrivals
            <4>2. /\ arrivals[r] \in Nat /\ emissions[<<Seq(r), Count(r)>>] \in Nat
                  /\ arrivals'[r] \in {arrivals[r], arrivals[r] + 1}
                BY <1>1, <3>2, PushStep, PacketShape DEF TypeOK
            <4> QED
                BY <4>1, <4>2
        <3>4. Count(r) = Count(p)
            BY <2>1, <3>1, <3>2, <3>3 DEF Alone
        <3> QED
            BY <1>2, <2>1, <3>1, <3>2, <3>4, PacketIsHeader
    <2>2. CASE q # p
        BY <1>1, <2>2, PushStep
    <2> QED
        BY <2>1, <2>2
<1> QED
    BY <1>3, <1>4, <1>5, <1>6, <1>7, <1>8

\* A packet that is not rejected is new, and agrees with its buffer.
LEMMA AcceptedIsNew ==
    ASSUME IInv, NEW p \in network, Push(p), ~TooOld(p), ~Rejected(p)
    PROVE  /\ p \notin pendingFrame
           /\ \A q \in Kept(p) : Seq(q) = Seq(p) => q \in Buffer(p) /\ Count(q) = Count(p)
           /\ Buffer(p) \subseteq Kept(p)
           /\ \A q \in Buffer(p) : Seq(q) = Seq(p)
<1> USE DEF IInv
<1>1. p \in Packets
    BY PushStep
<1>2. \A q \in Kept(p) : Seq(q) = Seq(p) =>
        q \in Buffer(p) /\ Count(q) = Count(p) /\ Frag(q) # Frag(p)
    BY DEF Rejected, Buffer
<1>3. p \notin Kept(p)
    BY <1>2
<1>4. p \notin pendingFrame
    BY <1>1, <1>3, KeptIsWindow
<1> QED
    BY <1>2, <1>4 DEF Buffer

LEMMA StoredStep ==
    ASSUME IInv, NEW p \in network, PushStored(p)
    PROVE  IInv'
<1> USE DEF IInv
<1>1. /\ Push(p) /\ ~TooOld(p) /\ ~Rejected(p) /\ ~Completes(p)
      /\ pendingFrame' = Kept(p) \cup {p} /\ emissions' = emissions
    BY DEF PushStored
<1>2. p \in Packets /\ Newest(p) \in Seqs /\ Seq(p) <= Newest(p)
    BY <1>1, PushStep, WindowShape
<1>3. TypeOK'
    BY <1>1, <1>2, PushStep, KeptIsWindow DEF TypeOK, Push, senderVars
<1>4. Windowed'
    <2>1. Newest(p) <= Seq(p) + MaxFrameLag
        BY <1>1, <1>2, KeptIsWindow
    <2> QED
        BY <1>1, <1>2, <2>1, PushStep, KeptIsWindow DEF Windowed, InWindow
<1>5. BuffersConsistent'
    <2> SUFFICES ASSUME NEW q \in Kept(p) \cup {p}, NEW r \in Kept(p) \cup {p},
                        Seq(q) = Seq(r)
                 PROVE  /\ Count(q) = Count(r)
                        /\ \E f \in Fragments(Seq(q), Count(q)) : f \notin Kept(p) \cup {p}
        BY <1>1 DEF BuffersConsistent
    <2>1. CASE Seq(q) = Seq(p)
        <3>1. Count(q) = Count(p) /\ Count(r) = Count(p)
            BY <1>1, <2>1, AcceptedIsNew
        <3>2. PICK f \in Fragments(Seq(p), Count(p)) : f \notin Buffer(p) \cup {p}
            BY <1>1 DEF Completes
        <3>3. f \notin Kept(p)
            BY <1>1, <3>2, AcceptedIsNew DEF Fragments
        <3> QED
            BY <2>1, <3>1, <3>2, <3>3
    <2>2. CASE Seq(q) # Seq(p)
        <3>1. q \in pendingFrame /\ r \in pendingFrame
            BY <1>2, <2>2, KeptIsWindow
        <3>2. PICK f \in Fragments(Seq(q), Count(q)) : f \notin pendingFrame
            BY <3>1 DEF BuffersConsistent
        <3>3. f \notin Kept(p) /\ f # p
            BY <1>2, <2>2, <3>2, KeptIsWindow DEF Fragments
        <3> QED
            BY <3>1, <3>2, <3>3 DEF BuffersConsistent
    <2> QED
        BY <2>1, <2>2
<1>6. NewestSeen'
    BY <1>1, PushStep
<1>7. EmittedFromArrivals'
    <2> SUFFICES ASSUME NEW q \in Packets
                 PROVE  emissions[<<Seq(q), Count(q)>>]
                            + (IF q \in Kept(p) \cup {p} THEN 1 ELSE 0) <= arrivals'[q]
        BY <1>1 DEF EmittedFromArrivals
    <2>1. emissions[<<Seq(q), Count(q)>>] + (IF q \in pendingFrame THEN 1 ELSE 0) <= arrivals[q]
        BY DEF EmittedFromArrivals
    <2>2. /\ q \in Kept(p) => q \in pendingFrame
          /\ p \notin pendingFrame
        BY <1>1, <1>2, KeptIsWindow, AcceptedIsNew
    <2>3. /\ arrivals[q] \in Nat /\ emissions[<<Seq(q), Count(q)>>] \in Nat
          /\ q = p => arrivals'[q] = arrivals[q] + 1
          /\ q # p => arrivals'[q] = arrivals[q]
        BY <1>1, PushStep, PacketShape DEF TypeOK
    <2> QED
        BY <2>1, <2>2, <2>3
<1>8. ArrivedIsKept'
    BY <1>1, PushStep DEF ArrivedIsKept
<1> QED
    BY <1>3, <1>4, <1>5, <1>6, <1>7, <1>8

LEMMA CompletesStep ==
    ASSUME IInv, NEW p \in network, PushCompletes(p)
    PROVE  IInv'
<1> USE DEF IInv
<1>1. /\ Push(p) /\ ~TooOld(p) /\ ~Rejected(p) /\ Completes(p)
      /\ pendingFrame' = Kept(p) \ Buffer(p)
      /\ emissions' = [emissions EXCEPT ![<<Seq(p), Count(p)>>] = @ + 1]
    BY DEF PushCompletes
<1>2. p \in Packets /\ Newest(p) \in Seqs
    BY <1>1, PushStep, WindowShape
<1>3. /\ emissions' \in [Frames -> Nat]
      /\ \A q \in Packets :
            emissions'[<<Seq(q), Count(q)>>] =
                IF Seq(q) = Seq(p) /\ Count(q) = Count(p)
                THEN emissions[<<Seq(q), Count(q)>>] + 1
                ELSE emissions[<<Seq(q), Count(q)>>]
    <2>1. emissions \in [Frames -> Nat] /\ <<Seq(p), Count(p)>> \in Frames
        BY <1>2, PacketShape DEF TypeOK
    <2>2. emissions' \in [Frames -> Nat]
        BY <1>1, <2>1
    <2>3. ASSUME NEW q \in Packets
          PROVE  emissions'[<<Seq(q), Count(q)>>] =
                    IF Seq(q) = Seq(p) /\ Count(q) = Count(p)
                    THEN emissions[<<Seq(q), Count(q)>>] + 1
                    ELSE emissions[<<Seq(q), Count(q)>>]
        <3>1. <<Seq(q), Count(q)>> \in Frames
            BY PacketShape
        <3> QED
            BY <1>1, <1>2, <2>1, <3>1, FrameIsHeader
    <2> QED
        BY <2>2, <2>3
<1>4. TypeOK'
    BY <1>1, <1>2, <1>3, PushStep, KeptIsWindow DEF TypeOK, Push, senderVars
<1>5. Windowed'
    BY <1>1, <1>2, PushStep, KeptIsWindow DEF Windowed, InWindow
<1>6. BuffersConsistent'
    BY <1>1, <1>2, KeptIsWindow DEF BuffersConsistent
<1>7. NewestSeen'
    BY <1>1, PushStep
<1>8. EmittedFromArrivals'
    <2> SUFFICES ASSUME NEW q \in Packets
                 PROVE  emissions'[<<Seq(q), Count(q)>>]
                            + (IF q \in Kept(p) \ Buffer(p) THEN 1 ELSE 0) <= arrivals'[q]
        BY <1>1 DEF EmittedFromArrivals
    <2>1. emissions[<<Seq(q), Count(q)>>] + (IF q \in pendingFrame THEN 1 ELSE 0) <= arrivals[q]
        BY DEF EmittedFromArrivals
    <2>2. /\ q \in Kept(p) => q \in pendingFrame
          /\ p \notin pendingFrame
        BY <1>1, <1>2, KeptIsWindow, AcceptedIsNew
    <2>3. /\ arrivals[q] \in Nat /\ emissions[<<Seq(q), Count(q)>>] \in Nat
          /\ q = p => arrivals'[q] = arrivals[q] + 1
          /\ q # p => arrivals'[q] = arrivals[q]
        BY <1>1, PushStep, PacketShape DEF TypeOK
    <2>4. CASE Seq(q) = Seq(p) /\ Count(q) = Count(p)
        <3>1. q \in Buffer(p) \cup {p}
            BY <1>1, <2>4 DEF Completes, Fragments
        <3>2. q \notin Kept(p) \ Buffer(p)
            BY <2>2, <3>1
        <3>3. q = p \/ q \in pendingFrame
            BY <1>1, <2>2, <3>1, AcceptedIsNew
        <3>4. emissions'[<<Seq(q), Count(q)>>] = emissions[<<Seq(q), Count(q)>>] + 1
            BY <1>3, <2>4
        <3> QED
            BY <2>1, <2>2, <2>3, <3>2, <3>3, <3>4
    <2>5. CASE ~(Seq(q) = Seq(p) /\ Count(q) = Count(p))
        <3>1. emissions'[<<Seq(q), Count(q)>>] = emissions[<<Seq(q), Count(q)>>]
            BY <1>3, <2>5
        <3> QED
            BY <2>1, <2>2, <2>3, <2>5, <3>1
    <2> QED
        BY <2>4, <2>5
<1>9. ArrivedIsKept'
    <2> SUFFICES ASSUME NEW q \in Packets, InWindow(Seq(q))', arrivals'[q] > 0,
                        Alone(Seq(q), Count(q))'
                 PROVE  q \in Kept(p) \ Buffer(p) \/ emissions'[<<Seq(q), Count(q)>>] > 0
        BY <1>1 DEF ArrivedIsKept
    <2>1. emissions[<<Seq(q), Count(q)>>] \in Nat
        BY PacketShape DEF TypeOK
    <2>2. CASE Seq(q) = Seq(p) /\ Count(q) = Count(p)
        BY <1>3, <2>1, <2>2
    <2>3. CASE ~(Seq(q) = Seq(p) /\ Count(q) = Count(p))
        <3>1. q \in Kept(p) \/ emissions[<<Seq(q), Count(q)>>] > 0
            BY <1>1, <2>3, PushStep
        <3>2. q \notin Buffer(p)
            BY <1>1, <2>3, AcceptedIsNew
        <3> QED
            BY <1>3, <2>3, <3>1, <3>2
    <2> QED
        BY <2>2, <2>3
<1> QED
    BY <1>4, <1>5, <1>6, <1>7, <1>8, <1>9

-----------------------------------------------------------------------------
(* The theorems. *)

LEMMA InitiallyHolds == Init => IInv
<1> SUFFICES ASSUME Init PROVE IInv
    OBVIOUS
<1>1. 0 \in Seqs /\ \A p \in Packets : Seq(p) \in Nat /\ <<Seq(p), Count(p)>> \in Frames
    BY PacketShape, SeqsAreNat, MaxFramesAssumption DEF Seqs
<1>2. TypeOK
    BY <1>1, MaxFramesAssumption, BoundsAssumption DEF Init, TypeOK
<1>3. Windowed /\ BuffersConsistent
    BY DEF Init, Windowed, BuffersConsistent
<1>4. NewestSeen /\ ArrivedIsKept
    BY DEF Init, NewestSeen, ArrivedIsKept
<1>5. EmittedFromArrivals
    BY <1>1 DEF Init, EmittedFromArrivals
<1> QED
    BY <1>2, <1>3, <1>4, <1>5 DEF IInv

LEMMA Inductive == IInv /\ [Next]_vars => IInv'
<1> SUFFICES ASSUME IInv, [Next]_vars PROVE IInv'
    OBVIOUS
<1> DEFINE receiverKept == UNCHANGED receiverVars
<1>1. ASSUME TypeOK', receiverKept PROVE IInv'
    BY <1>1 DEF receiverVars, IInv, Windowed, InWindow, NewestSeen, BuffersConsistent,
                EmittedFromArrivals, ArrivedIsKept, Alone
<1>2. ASSUME NEW c \in Counts, SendFrame(c) PROVE IInv'
    <2>1. Fragments(nextFrameSeq, c) \subseteq Packets
        BY DEF Fragments
    <2>2. TypeOK'
        BY <1>2, <2>1, MaxFramesAssumption DEF IInv, TypeOK, SendFrame, receiverVars
    <2> QED
        BY <1>1, <1>2, <2>2 DEF SendFrame
<1>3. CASE RestartSender
    <2>1. TypeOK'
        BY <1>3, MaxFramesAssumption, BoundsAssumption
        DEF IInv, TypeOK, RestartSender, receiverVars
    <2> QED
        BY <1>1, <1>3, <2>1 DEF RestartSender
<1>4. CASE UNCHANGED vars
    <2>1. TypeOK' /\ receiverKept
        BY <1>4 DEF IInv, TypeOK, vars, senderVars, receiverVars
    <2> QED
        BY <1>1, <2>1
<1> QED
    BY <1>2, <1>3, <1>4, TooOldStep, RejectedStep, StoredStep, CompletesStep DEF Next

\* The inductive invariant holds in every reachable state.
THEOREM Invariance == Spec => []IInv
<1>1. Init => IInv
    BY InitiallyHolds
<1>2. IInv /\ [Next]_vars => IInv'
    BY Inductive
<1> QED
    BY <1>1, <1>2, PTL DEF Spec

\* Type correctness of the sender, the path and PeerState.
THEOREM TypeCorrect == Spec => []TypeOK
<1>1. IInv => TypeOK
    BY DEF IInv
<1> QED
    BY <1>1, Invariance, PTL

\* Memory stays bounded by the window: the buffers of pushPacket are those of at
\* most MaxFrameLag + 1 frames, and its limit MaxPendingFramesPerPeer is never
\* what drops a frame.
THEOREM BuffersBounded == Spec => []PendingBounded
<1>1. IInv => PendingBounded
    BY InvariantImplies
<1> QED
    BY <1>1, Invariance, PTL

\* A buffer of pushPacket only ever holds fragments with one header, and never
\* a complete frame.
THEOREM BuffersAreConsistent == Spec => []BuffersConsistent
<1>1. IInv => BuffersConsistent
    BY DEF IInv
<1> QED
    BY <1>1, Invariance, PTL

\* frameReady is emitted at most once per arrival of each of its fragments.
THEOREM NothingInvented == Spec => []EmittedFromArrivals
<1>1. IInv => EmittedFromArrivals
    BY DEF IInv
<1> QED
    BY <1>1, Invariance, PTL

\* In any order of arrival, a frame of the window whose fragments have all
\* arrived has been emitted by pushPacket.
THEOREM WindowIsComplete == Spec => []InWindowComplete
<1>1. IInv => InWindowComplete
    BY InvariantImplies
<1> QED
    BY <1>1, Invariance, PTL
=============================================================================
