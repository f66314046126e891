-------------------------- MODULE RateControlProofs --------------------------
(***************************************************************************)
(* Proofs about RateControl, for all bitrates, factors, thresholds and     *)
(* periods.                                                                *)
(***************************************************************************)
EXTENDS RateControl, FiniteSetTheorems, WellFoundedInduction, NaturalsInduction, TLAPS

\* A product over a factor that is at least the divisor does not shrink.
LEMMA DivideGrows ==
    ASSUME NEW r \in Nat, NEW n \in Nat, NEW d \in Nat \ {0}, n >= d
    PROVE  (r * n) \div d \in Nat /\ (r * n) \div d >= r
<1> DEFINE q == (r * n) \div d
           p == r * n
<1>1. p \in Nat /\ p >= r * d
  OBVIOUS
<1>2. q \in Int /\ p < d * (q + 1) /\ d * q <= p
  BY <1>1
<1>3. r * d < d * (q + 1)
  BY <1>1, <1>2
<1>4. r < q + 1
  BY <1>2, <1>3
<1> QED BY <1>2, <1>4

\* A product over a factor that is at most the divisor does not grow.
LEMMA DivideShrinks ==
    ASSUME NEW r \in Nat, NEW n \in Nat, NEW d \in Nat \ {0}, n <= d
    PROVE  (r * n) \div d \in Nat /\ (r * n) \div d <= r
<1> DEFINE q == (r * n) \div d
           p == r * n
<1>1. p \in Nat /\ p <= r * d
  OBVIOUS
<1>2. q \in Int /\ d * q <= p /\ p < d * (q + 1)
  BY <1>1
<1>3. d * q <= d * r
  BY <1>1, <1>2
<1>4. q <= r
  BY <1>2, <1>3
<1>5. q >= 0
  BY <1>1
<1> QED BY <1>2, <1>4, <1>5

\* What is raised stays in the range, for every starting point.
LEMMA RaisedInRange ==
    ASSUME initial \in Nat, NEW r \in Nat, Floor <= r, r <= Ceiling
    PROVE  Raised(r) \in Nat /\ Floor <= Raised(r) /\ Raised(r) <= Ceiling
<1> DEFINE grown == (r * UpNum) \div UpDen
           halfway == (BitrateMax + r) \div 2
<1>1. grown \in Nat /\ grown >= r
  BY DivideGrows, RateAssumption
<1>2. halfway \in Nat /\ Floor <= halfway /\ halfway <= Ceiling
  BY BitrateAssumption DEF Floor, Ceiling
<1>3. Raised(r) = IF grown < halfway THEN grown ELSE halfway
  BY DEF Raised
<1> HIDE DEF grown, halfway
<1>4. Floor \in Nat /\ Ceiling \in Nat
  BY BitrateAssumption DEF Floor, Ceiling
<1> QED BY <1>1, <1>2, <1>3, <1>4

\* What is lowered stays in the range, although half the minimum may be more
\* than what was lowered.
LEMMA LoweredInRange ==
    ASSUME initial \in Nat, NEW r \in Nat, Floor <= r, r <= Ceiling
    PROVE  Lowered(r) \in Nat /\ Floor <= Lowered(r) /\ Lowered(r) <= Ceiling
<1> DEFINE shrunk == (r * DownNum) \div DownDen
           least == BitrateMin \div 2
<1>1. shrunk \in Nat /\ shrunk <= r
  BY DivideShrinks, RateAssumption
<1>2. least \in Nat /\ Floor <= least /\ least <= Ceiling
  BY BitrateAssumption DEF Floor, Ceiling
<1>3. Lowered(r) = IF shrunk > least THEN shrunk ELSE least
  BY DEF Lowered
<1>4. Floor \in Nat /\ Ceiling \in Nat
  BY BitrateAssumption DEF Floor, Ceiling
<1> HIDE DEF shrunk, least
<1> QED BY <1>1, <1>2, <1>3, <1>4

LEMMA PacketsType == ASSUME NEW r \in Nat PROVE PacketsFor(r) \in Nat
<1>1. r % Width \in Nat
  BY PaceAssumption
<1>2. Pace * (r % Width) \in Nat
  BY <1>1, PaceAssumption
<1> HIDE DEF PacketsFor
<1>3. (Pace * (r % Width)) \div PacketSize \in Nat
  BY <1>2, PaceAssumption
<1> QED BY <1>3, PaceAssumption DEF PacketsFor

-----------------------------------------------------------------------------
\* The cooling has not ended before the period since the last lowering.
CoolCoversLowering == coolLeft + sinceLowered > CoolPeriod

RInv == TypeOK /\ BitrateInRange /\ CoolCoversLowering

LEMMA LessType ==
    ASSUME NEW m \in Nat, NEW n \in 0 .. m
    PROVE  Less(n) \in 0 .. m /\ n <= Less(n) + 1
BY DEF Less

\* What one clock loses the other one gains.
LEMMA OneDownOneUp ==
    ASSUME NEW m \in Nat, NEW a \in Nat, NEW b \in Nat, NEW c \in Nat, NEW d \in Nat,
           a + b > m, a <= c + 1, d = b + 1 \/ d > m
    PROVE  c + d > m
OBVIOUS

\* The step of the encoder's thread.
LEMMA EncoderStep == ASSUME RInv, OnTargetBitrateChanged PROVE RInv'
<1> USE DEF RInv
<1>1. initial \in Nat /\ bitrate \in Nat
  BY BitrateAssumption DEF TypeOK
<1>2. bitrate' \in Nat /\ Floor <= bitrate' /\ bitrate' <= Ceiling
  BY <1>1, RaisedInRange, LoweredInRange DEF OnTargetBitrateChanged, BitrateInRange
<1>3. initial' = initial /\ Floor' = Floor /\ Ceiling' = Ceiling
  BY DEF OnTargetBitrateChanged, Floor, Ceiling
<1>4. BitrateInRange'
  BY <1>2, <1>3 DEF BitrateInRange
<1>5. TypeOK'
  BY <1>2 DEF OnTargetBitrateChanged, TypeOK, controller, monitor
<1>6. CoolCoversLowering'
  BY DEF OnTargetBitrateChanged, CoolCoversLowering, controller
<1> QED BY <1>4, <1>5, <1>6

\* Every other step leaves the bitrate alone.
LEMMA SameBitrate ==
    ASSUME RInv, UNCHANGED <<bitrate, initial>> PROVE BitrateInRange'
BY DEF RInv, BitrateInRange, Floor, Ceiling

\* A report, on its way to the controller or lost.
LEMMA SettleStep == ASSUME RInv, NEW arrives \in BOOLEAN, OnSettleTick(arrives) PROVE RInv'
<1> USE DEF RInv
<1>1. BitrateInRange'
  BY SameBitrate DEF OnSettleTick
<1>2. seen' \subseteq Offsets /\ last' \in Offsets /\ count' \in 0 .. MaxFrames
  BY CountAssumption DEF OnSettleTick, Offsets
<1>3. UNCHANGED <<bitrate, initial, packetsPerTick, paceChange, healed>>
  BY DEF OnSettleTick
<1>4. CASE ~arrives
  <2>1. UNCHANGED <<rateChanges, coolLeft, idleLeft, sinceLowered, loss>>
    BY <1>4 DEF OnSettleTick, controller
  <2> QED BY <1>1, <1>2, <1>3, <2>1 DEF TypeOK, CoolCoversLowering
<1>5. CASE arrives
  <2>1. OnReceiverReport(Expected, count)
    BY <1>5 DEF OnSettleTick
  <2>2. loss' \in {"low", "middle", "high"} /\ idleLeft' = idleLeft
    BY <2>1 DEF OnReceiverReport, LossOf
  <2>3. CASE loss' = "high"
    <3>1. rateChanges' = "down" /\ sinceLowered' = 0 /\ coolLeft' = CoolPeriod + 1
      BY <2>1, <2>3 DEF OnReceiverReport, Lower, CoolAfterLoss
    <3>2. sinceLowered' \in 0 .. CoolPeriod + 1 /\ coolLeft' \in 0 .. CoolPeriod + 1
          /\ CoolCoversLowering'
      BY <3>1, PeriodAssumption DEF CoolCoversLowering
    <3> QED BY <1>1, <1>2, <1>3, <2>2, <3>1, <3>2 DEF TypeOK
  <2>4. CASE loss' # "high"
    <3>1. UNCHANGED <<rateChanges, coolLeft, sinceLowered>>
      BY <2>1, <2>4 DEF OnReceiverReport
    <3> QED BY <1>1, <1>2, <1>3, <2>2, <3>1 DEF TypeOK, CoolCoversLowering
  <2> QED BY <2>3, <2>4
<1> QED BY <1>4, <1>5

LEMMA RInvStep == ASSUME RInv, [Next]_vars PROVE RInv'
<1> USE DEF RInv
<1>1. CASE OnTargetBitrateChanged
  BY <1>1, EncoderStep
<1>2. CASE OnChangePacketsPerTick
  <2>1. packetsPerTick' \in Nat
    BY <1>2, PacketsType DEF OnChangePacketsPerTick, TypeOK, None
  <2> QED BY <1>2, <2>1, SameBitrate
          DEF OnChangePacketsPerTick, TypeOK, CoolCoversLowering, controller, monitor
<1>3. CASE OnSendBlock
  BY <1>3, SameBitrate, PeriodAssumption
     DEF OnSendBlock, Lower, TypeOK, CoolCoversLowering, monitor
<1>4. CASE OnProbeTick
  BY <1>4, SameBitrate, PeriodAssumption DEF OnProbeTick, TypeOK, CoolCoversLowering, monitor
<1>5. ASSUME NEW o \in Offsets, OnVideoSample(o) PROVE RInv'
  <2>1. count' \in 0 .. MaxFrames
    BY <1>5, CountAssumption DEF OnVideoSample, TypeOK
  <2> QED BY <1>5, <2>1, SameBitrate
          DEF OnVideoSample, TypeOK, CoolCoversLowering, controller, events
<1>6. ASSUME NEW arrives \in BOOLEAN, OnSettleTick(arrives) PROVE RInv'
  BY <1>6, SettleStep
<1>7. CASE Tick
  <2>1. coolLeft' \in 0 .. CoolPeriod + 1 /\ idleLeft' \in 0 .. IdlePeriod
        /\ coolLeft <= coolLeft' + 1
    BY <1>7, LessType, PeriodAssumption DEF Tick, TypeOK
  <2>2. sinceLowered' \in 0 .. CoolPeriod + 1
        /\ (sinceLowered' = sinceLowered + 1 \/ sinceLowered' > CoolPeriod)
    BY <1>7, PeriodAssumption DEF Tick, TypeOK
  <2>3. coolLeft \in Nat /\ sinceLowered \in Nat /\ coolLeft' \in Nat /\ sinceLowered' \in Nat
    BY <2>1, <2>2, PeriodAssumption DEF TypeOK
  <2>4. coolLeft + sinceLowered > CoolPeriod
    BY DEF CoolCoversLowering
  <2>5. coolLeft' + sinceLowered' > CoolPeriod
    BY <2>1, <2>2, <2>3, <2>4, OneDownOneUp, PeriodAssumption
  <2>6. CoolCoversLowering'
    BY <2>5 DEF CoolCoversLowering
  <2> QED BY <1>7, <2>1, <2>2, <2>6, SameBitrate DEF Tick, TypeOK, events, monitor
<1>8. CASE NetworkHeals
  BY <1>8, SameBitrate
     DEF NetworkHeals, TypeOK, CoolCoversLowering, controller, events, monitor
<1>9. CASE UNCHANGED vars
  BY <1>9, SameBitrate DEF vars, TypeOK, CoolCoversLowering, controller, events, monitor
<1> QED BY <1>1, <1>2, <1>3, <1>4, <1>5, <1>6, <1>7, <1>8, <1>9 DEF Next

LEMMA RInvInit == Init => RInv
<1> SUFFICES ASSUME Init PROVE RInv
  OBVIOUS
<1>1. 0 \in Offsets /\ 0 \in 0 .. MaxFrames
  BY CountAssumption DEF Offsets
<1>2. CoolPeriod + 1 \in 0 .. CoolPeriod + 1 /\ 0 \in 0 .. CoolPeriod + 1 /\ 0 \in 0 .. IdlePeriod
  BY PeriodAssumption
<1>3. bitrate \in Nat /\ packetsPerTick \in Nat /\ initial \in InitialBitrates
  BY BitrateAssumption, PaceAssumption DEF Init
<1>4. TypeOK
  BY <1>1, <1>2, <1>3 DEF Init, TypeOK
<1>5. BitrateInRange
  BY <1>3, BitrateAssumption DEF Init, BitrateInRange, Floor, Ceiling
<1>6. CoolCoversLowering
  BY PeriodAssumption DEF Init, CoolCoversLowering
<1> QED BY <1>4, <1>5, <1>6 DEF RInv

\* The strengthened invariant holds in every reachable state.
THEOREM RateInvariant == Spec => []RInv
BY RInvInit, RInvStep, PTL DEF Spec

THEOREM TypeCorrect == Spec => []TypeOK
BY RateInvariant, PTL DEF RInv

\* No sequence of signals drives the bitrate out of its range.
THEOREM RangeHolds == Spec => []BitrateInRange
BY RateInvariant, PTL DEF RInv

\* Whatever lowered the bitrate, it is not raised within the cooling period.
THEOREM CoolingHolds == Spec => NoRaiseWhileHot
<1> DEFINE A == rateChanges' = "up" /\ rateChanges # "up" => sinceLowered > CoolPeriod
<1>1. RInv /\ [Next]_vars => A
  <2> SUFFICES ASSUME RInv, [Next]_vars, rateChanges' = "up", rateChanges # "up"
               PROVE  sinceLowered > CoolPeriod
    OBVIOUS
  <2>1. OnProbeTick
    BY DEF Next, OnTargetBitrateChanged, OnChangePacketsPerTick, OnSendBlock, Lower,
           OnVideoSample, OnSettleTick, OnReceiverReport, Tick, NetworkHeals, vars, events
  <2> QED BY <2>1, PeriodAssumption DEF OnProbeTick, MayRaise, RInv, CoolCoversLowering, TypeOK
<1>2. Spec => [][A]_vars
  BY <1>1, RateInvariant, PTL DEF Spec
<1> QED BY <1>2 DEF NoRaiseWhileHot

-----------------------------------------------------------------------------
(* The monitor's period *)

\* A set of integers that is bounded from below has a least element.
LEMMA LeastExists ==
    ASSUME NEW b \in Int, NEW S, S \subseteq Int, S # {}, \A x \in S : x >= b
    PROVE  \E x \in S : \A y \in S : x <= y
<1> DEFINE T == {x - b : x \in S}
           R == OpToRel(<, Nat)
<1>0. \A x \in S : x \in Int /\ x >= b /\ x - b \in Nat
  OBVIOUS
<1>1. T \subseteq Nat /\ T # {}
  BY <1>0
<1>2. IsWellFoundedOn(R, Nat)
  BY NatLessThanWellFounded
<1>3. \A x, y \in Nat : y < x => <<y, x>> \in R
  BY DEF OpToRel
<1> HIDE DEF T, R
<1>4. PICK t \in T : \A u \in T : ~ (<<u, t>> \in R)
  <2>1. ASSUME NEW Q, IsWellFoundedOn(Q, Nat)
        PROVE  \E x \in T : \A y \in T : ~ (<<y, x>> \in Q)
    BY <1>1, <2>1, WFMin, Zenon
  <2> QED
    BY <1>2, <2>1
<1>5. \A u \in T : t <= u
  <2> TAKE u \in T
  <2>1. t \in Nat /\ u \in Nat
    BY <1>1
  <2>2. ~ (u < t)
    BY <1>3, <1>4, <2>1, Zenon
  <2> QED
    BY <2>1, <2>2
<1>6. PICK x \in S : t = x - b
  BY DEF T
<1>7. ASSUME NEW y \in S PROVE x <= y
  <2>1. y - b \in T
    BY DEF T
  <2>2. x - b <= y - b
    BY <1>5, <1>6, <2>1
  <2> QED
    BY <2>2
<1> QED
  BY <1>7

LEMMA MinAndMax ==
    ASSUME NEW S, S \subseteq Offsets, S # {}
    PROVE  /\ Min(S) \in S /\ \A y \in S : Min(S) <= y
           /\ Max(S) \in S /\ \A y \in S : Max(S) >= y
<1>0. -MaxLate \in Int /\ -MaxAhead \in Int /\ MaxAhead \in Int
  BY CountAssumption
<1>1. /\ S \subseteq Int
      /\ \A x \in S : x \in Int /\ x >= -MaxLate /\ x <= MaxAhead
  BY CountAssumption DEF Offsets
<1>2. \E x \in S : \A y \in S : x <= y
  BY <1>0, <1>1, LeastExists
<1>3. \E x \in S : \A y \in S : x >= y
  <2> DEFINE N == {-x : x \in S}
  <2>0. \A x \in S : -x \in Int /\ -x >= -MaxAhead
    BY <1>0, <1>1
  <2>1. N \subseteq Int /\ N # {} /\ \A n \in N : n >= -MaxAhead
    BY <2>0
  <2> HIDE DEF N
  <2>2. PICK n \in N : \A m \in N : n <= m
    BY <1>0, <2>1, LeastExists
  <2>3. PICK x \in S : n = -x
    BY DEF N
  <2>4. ASSUME NEW y \in S PROVE x >= y
    <3>1. -y \in N
      BY DEF N
    <3> QED
      BY <1>1, <2>2, <2>3, <3>1
  <2> QED
    BY <2>4
<1>4. Min(S) \in S /\ \A y \in S : Min(S) <= y
  BY <1>2 DEF Min
<1>5. Max(S) \in S /\ \A y \in S : Max(S) >= y
  BY <1>3 DEF Max
<1> QED
  BY <1>4, <1>5

\* What was counted were frames, the first of them and the last among them.
PeriodIsCounted ==
    /\ IsFiniteSet(seen) /\ Cardinality(seen) <= count
    /\ hasFirstSeq => 0 \in seen /\ last \in seen

MInv == TypeOK /\ PeriodIsCounted

\* With no frame missing and none late, no more frames are expected than came.
LEMMA CountedMeansReal == ASSUME MInv, LossLow > 0 PROVE LossIsReal
<1> SUFFICES ASSUME hasFirstSeq, ~(\E o \in Min(seen) .. Max(seen) : o \notin seen),
                    ~(last < Max(seen))
             PROVE  LossOf(Expected, count) = "low"
  BY DEF LossIsReal
<1>1. /\ seen \subseteq Offsets /\ seen # {} /\ 0 \in seen /\ last \in seen
      /\ IsFiniteSet(seen) /\ Cardinality(seen) <= count /\ count \in Nat
      /\ CountWidth \in Nat \ {0} /\ LossLow \in Nat /\ seen \subseteq Int
  BY CountAssumption DEF MInv, TypeOK, PeriodIsCounted, hasFirstSeq, Offsets
<1>2. /\ Min(seen) \in seen /\ Min(seen) <= 0
      /\ Max(seen) \in seen /\ Max(seen) >= 0 /\ Max(seen) >= last
  BY <1>1, MinAndMax
<1> DEFINE m == Max(seen)
<1>3. m \in Nat /\ last = m
  <2>1. last \in Int /\ Max(seen) \in Int
    BY <1>1, <1>2
  <2>2. ~(last < Max(seen))
    OBVIOUS
  <2> QED
    BY <1>2, <2>1, <2>2
<1>4. 0 .. m \subseteq seen
  <2>1. Min(seen) \in Int /\ Min(seen) <= 0
    BY <1>1, <1>2
  <2>2. \A o \in 0 .. m : o \in Min(seen) .. m
    BY <1>3, <2>1
  <2> QED
    BY <2>2
<1> HIDE DEF m
<1>5. m + 1 <= count
  <2>1. IsFiniteSet(0 .. m) /\ Cardinality(0 .. m) = m + 1
    BY <1>3, FS_Interval
  <2>2. Cardinality(0 .. m) <= Cardinality(seen)
    BY <1>1, <1>4, FS_Subset
  <2>3. Cardinality(seen) \in Nat
    BY <1>1, FS_CardinalityType
  <2> QED
    BY <1>1, <1>3, <2>1, <2>2, <2>3
<1> DEFINE e == Expected
<1>6. e \in Nat /\ e <= m + 1
  <2>1. e = (m + 1) % CountWidth
    BY <1>3 DEF Expected
  <2>2. (m + 1) % CountWidth \in Nat /\ (m + 1) % CountWidth <= m + 1
    BY <1>1, <1>3
  <2> QED
    BY <2>1, <2>2
<1> HIDE DEF e
<1>7. e = 0 \/ 100 * (e - count) < LossLow * e
  <2>1. e - count <= 0 /\ e - count \in Int
    BY <1>1, <1>3, <1>5, <1>6
  <2>2. 100 * (e - count) <= 0
    BY <2>1
  <2>3. e # 0 => LossLow * e > 0
    BY <1>1, <1>6
  <2>4. LossLow * e \in Nat
    BY <1>1, <1>6
  <2> QED
    BY <2>1, <2>2, <2>3, <2>4
<1> QED
  BY <1>7 DEF LossOf, e

LEMMA MInvStep == ASSUME MInv, TypeOK', [Next]_vars PROVE MInv'
<1>1. CASE UNCHANGED monitor
  BY <1>1 DEF MInv, PeriodIsCounted, hasFirstSeq, monitor
<1>2. ASSUME NEW o \in Offsets, OnVideoSample(o)
      PROVE  PeriodIsCounted'
  <2>1. /\ IsFiniteSet(seen) /\ Cardinality(seen) \in Nat /\ Cardinality(seen) <= count
        /\ count \in Nat
    BY CountAssumption, FS_CardinalityType DEF MInv, TypeOK, PeriodIsCounted
  <2>2. seen' = seen \cup {o} /\ last' = o /\ count' = count + 1
    BY <1>2 DEF OnVideoSample
  <2>3. /\ IsFiniteSet(seen \cup {o})
        /\ Cardinality(seen \cup {o}) = Cardinality(seen)
           \/ Cardinality(seen \cup {o}) = Cardinality(seen) + 1
    BY <2>1, FS_AddElement
  <2>4. 0 \in seen'
    BY <1>2, <2>2 DEF OnVideoSample, MayArrive, hasFirstSeq, MInv, PeriodIsCounted
  <2> QED
    BY <2>1, <2>2, <2>3, <2>4 DEF PeriodIsCounted, hasFirstSeq
<1>3. ASSUME NEW arrives \in BOOLEAN, OnSettleTick(arrives)
      PROVE  PeriodIsCounted'
  <2>1. seen' = {} /\ count' = 0
    BY <1>3 DEF OnSettleTick
  <2> QED
    BY <2>1, FS_EmptySet DEF PeriodIsCounted, hasFirstSeq
<1>4. \/ UNCHANGED monitor
      \/ \E o \in Offsets : OnVideoSample(o)
      \/ \E arrives \in BOOLEAN : OnSettleTick(arrives)
  BY DEF Next, OnTargetBitrateChanged, OnChangePacketsPerTick, OnSendBlock, OnProbeTick,
         Tick, NetworkHeals, vars
<1> QED
  BY <1>1, <1>2, <1>3, <1>4 DEF MInv

\* Unless every count is a loss (LossLow is 0), a report never tells of a loss
\* when all frames came in time, whatever the width of the counters
\* (ReceiverMonitorWorker::onSettleTick).
THEOREM LossHolds == LossLow > 0 => (Spec => []LossIsReal)
<1> SUFFICES ASSUME LossLow > 0 PROVE Spec => []LossIsReal
  OBVIOUS
<1>1. Init => MInv
  BY RInvInit, FS_EmptySet DEF Init, MInv, RInv, PeriodIsCounted, hasFirstSeq
<1>2. MInv /\ RInv /\ RInv' /\ [Next]_vars => MInv'
  BY MInvStep DEF RInv
<1>3. MInv => LossIsReal
  BY CountedMeansReal
<1> QED
  BY <1>1, <1>2, <1>3, RateInvariant, PTL DEF Spec
=============================================================================
