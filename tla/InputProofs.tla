-------------------------- MODULE InputProofs --------------------------
(***************************************************************************)
(* What the way of the guest's input guarantees, in two parts that share   *)
(* nothing but the library: InputCapture, from the user's key to the       *)
(* sample that is sent, for all sets of keys and queues of any length; and *)
(* InputChannel, from there to the injection, for every MaxEvents,         *)
(* CheckPerTick and set of devices.                                        *)
(***************************************************************************)
EXTENDS InputChannel, InputCapture, SequenceTheorems, TLAPS

-----------------------------------------------------------------------------
(***************************************************************************)
(* InputCapture.  The inductive invariant CaptureInv says what the three   *)
(* parties believe while events are still on their way: the user's fingers *)
(* (down), the worker's thread (pressedKeys, controlActive), the host.     *)
(* What is said of the worker holds unless a loss of control is queued.    *)
(***************************************************************************)

\* The key whose release the hook is about to handle.
Releasing == IF hook.busy /\ ~hook.pressed THEN {hook.key} ELSE {}

\* The hook handles a press of a key that is down, and a release of one that is
\* not; it never handles a press of ESC.
HookAgrees ==
    hook.busy => (hook.pressed <=> hook.key \in down) /\ (hook.pressed => hook.key # Esc)

\* A key the guest believes to be pressed is down or about to be released, unless
\* a loss of control is still to be handled.
PressedAgree == pressedKeys \subseteq down \cup Releasing \/ Mentions(posted, {"off"})

\* Without control there is nothing to release, unless the same is true.
NothingWithoutControl ==
    ~(hooked /\ controlActive) =>
        (pressedKeys = {} /\ ~hook.busy) \/ Mentions(posted, {"off"})

\* The last change of control the worker will see is the widget's.
SwitchesAgree ==
    Mentions(posted, Switches) =>
        LastIs(posted, Switches, IF inputControlActive THEN "on" ELSE "off")

\* While nothing is to be seen, the worker agrees already.
ControlAgrees ==
    ~Mentions(posted, Switches) /\ controlActive => inputControlActive

\* Before the hook is there the guest's system sees every key; under control it
\* takes no key for held that was not down when control was taken.
LocalKeysAgree ==
    /\ LocalHeldHasCause
    /\ ~hooked => localHeld \subseteq down
    /\ hooked /\ controlActive => localHeld \subseteq crossed

-----------------------------------------------------------------------------
(* Queues: what is mentioned in one and comes last in it, when an element is *)
(* appended or taken.                                                        *)

LEMMA AppendIndices ==
    ASSUME NEW S, NEW s \in Seq(S), NEW e \in S
    PROVE  /\ Append(s, e) \in Seq(S) /\ Len(s) \in Nat
           /\ DOMAIN s = 1 .. Len(s) /\ DOMAIN Append(s, e) = 1 .. (Len(s) + 1)
           /\ Append(s, e)[Len(s) + 1] = e
           /\ \A i \in 1 .. Len(s) : Append(s, e)[i] = s[i]
OBVIOUS

LEMMA MentionsAppend ==
    ASSUME NEW S, NEW s \in Seq(S), NEW e \in S, NEW A
    PROVE  Mentions(Append(s, e), A) <=> (e \in A \/ Mentions(s, A))
BY AppendIndices DEF Mentions

LEMMA LastIsAppend ==
    ASSUME NEW S, NEW s \in Seq(S), NEW e \in S, NEW A, NEW p \in A
    PROVE  LastIs(Append(s, e), A, p) <=> IF e \in A THEN e = p ELSE LastIs(s, A, p)
BY AppendIndices DEF LastIs

LEMMA TailIndices ==
    ASSUME NEW S, NEW s \in Seq(S), s # <<>>
    PROVE  /\ Tail(s) \in Seq(S) /\ Head(s) \in S /\ Len(s) \in Nat /\ Len(s) > 0
           /\ DOMAIN s = 1 .. Len(s) /\ DOMAIN Tail(s) = 1 .. (Len(s) - 1)
           /\ Head(s) = s[1]
           /\ \A i \in 1 .. (Len(s) - 1) : Tail(s)[i] = s[i + 1]
OBVIOUS

LEMMA MentionsTail ==
    ASSUME NEW S, NEW s \in Seq(S), s # <<>>, NEW A
    PROVE  Mentions(s, A) <=> (Head(s) \in A \/ Mentions(Tail(s), A))
<1>1. ASSUME NEW i \in DOMAIN s, s[i] \in A, i # 1
      PROVE  i - 1 \in DOMAIN Tail(s) /\ Tail(s)[i - 1] \in A
    BY <1>1, TailIndices
<1>2. ASSUME NEW i \in DOMAIN Tail(s), Tail(s)[i] \in A
      PROVE  i + 1 \in DOMAIN s /\ s[i + 1] \in A
    BY <1>2, TailIndices
<1>3. 1 \in DOMAIN s /\ Head(s) = s[1]
    BY TailIndices
<1> QED
    BY <1>1, <1>2, <1>3 DEF Mentions

LEMMA LastIsTail ==
    ASSUME NEW S, NEW s \in Seq(S), s # <<>>, NEW A, NEW p \in A
    PROVE  LastIs(s, A, p) <=> IF Mentions(Tail(s), A) THEN LastIs(Tail(s), A, p)
                               ELSE Head(s) = p
<1>1. ASSUME Mentions(Tail(s), A), LastIs(s, A, p)
      PROVE  LastIs(Tail(s), A, p)
    <2>1. PICK i \in DOMAIN s : s[i] = p /\ \A j \in DOMAIN s : s[j] \in A => j <= i
        BY <1>1 DEF LastIs
    <2>2. PICK m \in DOMAIN Tail(s) : Tail(s)[m] \in A
        BY <1>1 DEF Mentions
    <2>3. m + 1 \in DOMAIN s /\ s[m + 1] \in A
        BY <2>2, TailIndices
    <2>4. i >= m + 1
        BY <2>1, <2>3
    <2>5. i - 1 \in DOMAIN Tail(s) /\ Tail(s)[i - 1] = p
        BY <2>1, <2>2, <2>4, TailIndices
    <2>6. ASSUME NEW j \in DOMAIN Tail(s), Tail(s)[j] \in A
          PROVE  j <= i - 1
        <3>1. j + 1 \in DOMAIN s /\ s[j + 1] \in A
            BY <2>6, TailIndices
        <3>2. j + 1 <= i
            BY <2>1, <3>1
        <3> QED
            BY <3>2, <2>1, TailIndices
    <2> QED
        BY <2>5, <2>6 DEF LastIs
<1>2. ASSUME LastIs(Tail(s), A, p)
      PROVE  LastIs(s, A, p)
    <2>1. PICK i \in DOMAIN Tail(s) :
              Tail(s)[i] = p /\ \A j \in DOMAIN Tail(s) : Tail(s)[j] \in A => j <= i
        BY <1>2 DEF LastIs
    <2>2. i + 1 \in DOMAIN s /\ s[i + 1] = p
        BY <2>1, TailIndices
    <2>3. ASSUME NEW j \in DOMAIN s, s[j] \in A
          PROVE  j <= i + 1
        <3>1. j # 1 => j - 1 \in DOMAIN Tail(s) /\ Tail(s)[j - 1] \in A
            BY <2>3, TailIndices
        <3>2. j # 1 => j - 1 <= i
            BY <2>1, <3>1
        <3> QED
            BY <3>2, <2>1, TailIndices
    <2> QED
        BY <2>2, <2>3 DEF LastIs
<1>3. ASSUME ~Mentions(Tail(s), A), LastIs(s, A, p)
      PROVE  Head(s) = p
    <2>1. PICK i \in DOMAIN s : s[i] = p
        BY <1>3 DEF LastIs
    <2>2. i # 1 => i - 1 \in DOMAIN Tail(s) /\ Tail(s)[i - 1] \in A
        BY <2>1, TailIndices
    <2> QED
        BY <1>3, <2>1, <2>2, TailIndices DEF Mentions
<1>4. ASSUME ~Mentions(Tail(s), A), Head(s) = p
      PROVE  LastIs(s, A, p)
    <2>1. 1 \in DOMAIN s /\ s[1] = p
        BY <1>4, TailIndices
    <2>2. ASSUME NEW j \in DOMAIN s, s[j] \in A
          PROVE  j <= 1
        <3>1. j # 1 => j - 1 \in DOMAIN Tail(s) /\ Tail(s)[j - 1] \in A
            BY <2>2, TailIndices
        <3> QED
            BY <1>4, <3>1 DEF Mentions
    <2> QED
        BY <2>1, <2>2 DEF LastIs
<1> QED
    BY <1>1, <1>2, <1>3, <1>4

\* A change of control is posted twice.
LEMMA PostsTwice ==
    ASSUME NEW S, posted \in Seq(S), NEW e \in S
    PROVE  Posts(e) = Append(Append(posted, e), e)
BY DEF Posts

-----------------------------------------------------------------------------
Posted == {"on", "off", "down", "up"}

LEMMA PostedTwice ==
    ASSUME posted \in Seq(Posted), NEW e \in Posted
    PROVE  /\ Posts(e) \in Seq(Posted)
           /\ \A A : Mentions(Posts(e), A) <=> (e \in A \/ Mentions(posted, A))
           /\ \A A : \A p \in A : LastIs(Posts(e), A, p) <=>
                                      IF e \in A THEN e = p ELSE LastIs(posted, A, p)
<1> DEFINE once == Append(posted, e)
<1>1. once \in Seq(Posted) /\ Posts(e) = Append(once, e)
    BY PostsTwice
<1>2. \A A : Mentions(once, A) <=> (e \in A \/ Mentions(posted, A))
    BY MentionsAppend
<1>3. \A A : \A p \in A : LastIs(once, A, p) <=> IF e \in A THEN e = p ELSE LastIs(posted, A, p)
    BY LastIsAppend
<1> HIDE DEF once
<1>4. \A A : Mentions(Posts(e), A) <=> (e \in A \/ Mentions(once, A))
    BY <1>1, MentionsAppend
<1>5. \A A : \A p \in A : LastIs(Posts(e), A, p) <=> IF e \in A THEN e = p ELSE LastIs(once, A, p)
    BY <1>1, LastIsAppend
<1>6. Posts(e) \in Seq(Posted)
    BY <1>1, AppendIndices
<1> QED
    BY <1>2, <1>3, <1>4, <1>5, <1>6

LEMMA NothingMapped == <<>> \in PartialMaps /\ DOMAIN <<>> = {}
<1>1. {} \in SUBSET (Keys \ {Esc}) /\ <<>> \in [{} -> Keys]
    OBVIOUS
<1> QED
    BY <1>1 DEF PartialMaps

LEMMA MappedType ==
    ASSUME mapped \in PartialMaps
    PROVE  /\ pressedKeys \subseteq Keys \ {Esc}
           /\ \A k \in pressedKeys : mapped[k] \in Keys
BY DEF PartialMaps, pressedKeys

\* With a mapping or without one, a key goes down as a key.
LEMMA MappedToType ==
    ASSUME CaptureTypeOK, NEW k \in Keys
    PROVE  MappedTo(k) \in Keys
<1>1. PICK S \in SUBSET (Keys \ {Esc}) : keyMappings \in [S -> Keys]
    BY DEF CaptureTypeOK, PartialMaps
<1>2. k \in DOMAIN keyMappings => keyMappings[k] \in Keys
    BY <1>1
<1> QED
    BY <1>2 DEF MappedTo

\* What a change of control does, whoever calls it.
LEMMA ControlSet ==
    ASSUME CaptureTypeOK, NEW active \in BOOLEAN, SetControlActive(active)
    PROVE  /\ controlActive' = active /\ mapped' \in PartialMaps
           /\ forgotten' \subseteq Targets /\ crossed' \subseteq Keys
           /\ active => mapped' = mapped /\ forgotten' = forgotten
           /\ ~active => /\ pressedKeys' = {} /\ crossed' = crossed
                         /\ forgotten' = forgotten \cup {mapped[k] : k \in pressedKeys}
BY NothingMapped, MappedType
   DEF SetControlActive, CaptureTypeOK, pressedKeys, Remaining, Targets

LEMMA SampleSent ==
    ASSUME toInject \in Seq(Sample), NEW h \in Targets, NEW p \in BOOLEAN, Send(h, p)
    PROVE  /\ [target |-> h, pressed |-> p] \in Sample
           /\ toInject' = Append(toInject, [target |-> h, pressed |-> p])
           /\ toInject' \in Seq(Sample)
<1>1. [target |-> h, pressed |-> p] \in Sample
    BY DEF Sample
<1>2. toInject' = Append(toInject, [target |-> h, pressed |-> p])
    BY DEF Send
<1> QED
    BY <1>1, <1>2, AppendIndices

LEMMA CaptureTypeStep ==
    ASSUME CaptureTypeOK, HookAgrees, [CaptureNext]_captureVars
    PROVE  CaptureTypeOK'
<1> USE DEF capture, history
<1>1. CASE StartCapture
    BY <1>1 DEF StartCapture, CaptureTypeOK
<1>2. ASSUME NEW k \in Keys, NEW p \in BOOLEAN, UserKey(k, p)
      PROVE  CaptureTypeOK'
    <2>1. hook' \in [key : Keys, pressed : BOOLEAN, busy : BOOLEAN]
        <3>1. hook' = hook \/ hook' = [key |-> k, pressed |-> p, busy |-> TRUE]
            BY <1>2 DEF UserKey
        <3>2. [key |-> k, pressed |-> p, busy |-> TRUE]
                \in [key : Keys, pressed : BOOLEAN, busy : BOOLEAN]
            OBVIOUS
        <3> QED
            BY <3>1, <3>2 DEF CaptureTypeOK
    <2>2. /\ controlActive' \in BOOLEAN /\ mapped' \in PartialMaps
          /\ forgotten' \subseteq Targets /\ crossed' \subseteq Keys
        BY <1>2, ControlSet DEF UserKey, CaptureTypeOK
    <2>3. down' \subseteq Keys \cup Buttons /\ localHeld' \subseteq Keys
        BY <1>2 DEF UserKey, CaptureTypeOK
    <2> QED
        BY <1>2, <2>1, <2>2, <2>3 DEF UserKey, CaptureTypeOK
<1>3. CASE HandleKey
    <2> DEFINE k == hook.key
    <2>1. k \in Keys /\ hook.busy /\ hook' = Idle /\ Idle \in [key : Keys, pressed : BOOLEAN, busy : BOOLEAN]
        BY <1>3, KeysAssumption DEF HandleKey, CaptureTypeOK, Idle
    <2>2. CASE hook.pressed /\ k \notin pressedKeys
        <3>1. k \in Keys \ {Esc}
            BY <2>1, <2>2 DEF HookAgrees
        <3>2. MappedTo(k) \in Keys
            BY <2>1, MappedToType
        <3>3. mapped' = [j \in pressedKeys \cup {k} |-> IF j = k THEN MappedTo(k) ELSE mapped[j]]
            BY <1>3, <2>2 DEF HandleKey
        <3>4. pressedKeys \cup {k} \in SUBSET (Keys \ {Esc})
            BY <3>1, MappedType DEF CaptureTypeOK
        <3>5. mapped' \in [pressedKeys \cup {k} -> Keys]
            BY <3>2, <3>3, MappedType DEF CaptureTypeOK
        <3>6. mapped' \in PartialMaps
            BY <3>4, <3>5 DEF PartialMaps
        <3>7. toInject' \in Seq(Sample)
            BY <1>3, <2>2, <3>2, SampleSent DEF HandleKey, Targets, CaptureTypeOK
        <3> QED
            BY <1>3, <2>1, <2>2, <3>6, <3>7 DEF HandleKey, CaptureTypeOK
    <2>3. CASE ~hook.pressed /\ k \in pressedKeys
        <3>1. Released(k) \in Keys
            BY <2>3, MappedType DEF Released, CaptureTypeOK
        <3>2. mapped' = [j \in pressedKeys \ {k} |-> mapped[j]]
            BY <1>3, <2>3 DEF HandleKey
        <3>3. pressedKeys \ {k} \in SUBSET (Keys \ {Esc})
            BY MappedType DEF CaptureTypeOK
        <3>4. mapped' \in [pressedKeys \ {k} -> Keys]
            BY <3>2, MappedType DEF CaptureTypeOK
        <3>5. mapped' \in PartialMaps
            BY <3>3, <3>4 DEF PartialMaps
        <3>6. toInject' \in Seq(Sample)
            BY <1>3, <2>3, <3>1, SampleSent DEF HandleKey, Targets, CaptureTypeOK
        <3>7. forgotten' \subseteq Targets
            BY <1>3, <2>3 DEF HandleKey, CaptureTypeOK
        <3> QED
            BY <1>3, <2>1, <2>3, <3>5, <3>6, <3>7 DEF HandleKey, CaptureTypeOK
    <2>4. CASE hook.pressed <=> k \in pressedKeys
        BY <1>3, <2>1, <2>4 DEF HandleKey, CaptureTypeOK
    <2> QED
        BY <1>3, <2>2, <2>3, <2>4 DEF HandleKey
<1>4. CASE PressButton
    <2>1. posted \in Seq(Posted) /\ "down" \in Posted /\ "on" \in Posted
        BY DEF Posted, CaptureTypeOK
    <2>2. posted' \in Seq(Posted)
        <3>1. CASE inputControlActive
            BY <1>4, <2>1, <3>1, AppendIndices DEF PressButton
        <3>2. CASE ~inputControlActive
            <4>1. Posts("on") \in Seq(Posted)
                BY <2>1, PostedTwice
            <4> QED
                BY <1>4, <2>1, <3>2, <4>1, AppendIndices DEF PressButton
        <3> QED
            BY <3>1, <3>2
    <2>3. /\ controlActive' \in BOOLEAN /\ mapped' \in PartialMaps
          /\ forgotten' \subseteq Targets /\ crossed' \subseteq Keys
        BY <1>4, ControlSet DEF PressButton, CaptureTypeOK
    <2> QED
        BY <1>4, <2>2, <2>3 DEF PressButton, CaptureTypeOK, Posted
<1>5. CASE ReleaseButton
    <2>1. posted' \in Seq(Posted)
        <3>1. posted \in Seq(Posted) /\ "up" \in Posted
            BY DEF CaptureTypeOK, Posted
        <3>2. Append(posted, "up") \in Seq(Posted)
            BY <3>1, AppendIndices
        <3> QED
            BY <1>5, <3>1, <3>2 DEF ReleaseButton
    <2> QED
        BY <1>5, <2>1 DEF ReleaseButton, CaptureTypeOK, Posted, Targets
<1>6. CASE FocusOut
    <2>1. posted \in Seq(Posted) /\ "off" \in Posted
        BY DEF Posted, CaptureTypeOK
    <2>2. posted' \in Seq(Posted)
        BY <1>6, <2>1, PostedTwice DEF FocusOut
    <2>3. /\ controlActive' \in BOOLEAN /\ mapped' \in PartialMaps
          /\ forgotten' \subseteq Targets /\ crossed' \subseteq Keys
        BY <1>6, ControlSet DEF FocusOut, CaptureTypeOK
    <2> QED
        BY <1>6, <2>2, <2>3 DEF FocusOut, CaptureTypeOK, Posted
<1>7. CASE WorkerTakesControl
    <2>1. /\ controlActive' \in BOOLEAN /\ mapped' \in PartialMaps
          /\ forgotten' \subseteq Targets /\ crossed' \subseteq Keys
        BY <1>7, ControlSet DEF WorkerTakesControl, CaptureTypeOK
    <2> QED
        BY <1>7, <2>1, TailIndices DEF WorkerTakesControl, CaptureTypeOK
<1>8. CASE WorkerTakesMouse
    <2>1. toInject' \in Seq(Sample)
        BY <1>8, SampleSent DEF WorkerTakesMouse, Targets, Buttons, CaptureTypeOK
    <2>2. posted' \in Seq({"on", "off", "down", "up"})
        BY <1>8, TailIndices DEF WorkerTakesMouse, CaptureTypeOK
    <2> QED
        BY <1>8, <2>1, <2>2 DEF WorkerTakesMouse, CaptureTypeOK
<1>9. CASE HostExecutes
    <2>1. toInject' \in Seq(Sample) /\ Head(toInject) \in Sample
        BY <1>9, TailIndices DEF HostExecutes, CaptureTypeOK
    <2>2. hostHeld' \subseteq Targets /\ forgotten' \subseteq Targets
        BY <1>9, <2>1 DEF HostExecutes, CaptureTypeOK, Injected, Sample, Targets
    <2> QED
        BY <1>9, <2>1, <2>2 DEF HostExecutes, CaptureTypeOK
<1>10. CASE UNCHANGED captureVars
    BY <1>10 DEF captureVars, CaptureTypeOK
<1> QED
    BY <1>1, <1>2, <1>3, <1>4, <1>5, <1>6, <1>7, <1>8, <1>9, <1>10 DEF CaptureNext

Agreement == HookAgrees /\ PressedAgree /\ NothingWithoutControl

LEMMA AgreementStep ==
    ASSUME CaptureTypeOK, Agreement, [CaptureNext]_captureVars
    PROVE  Agreement'
<1> USE DEF Agreement, capture, history
<1>1. CASE StartCapture
    BY <1>1 DEF StartCapture, HookAgrees, PressedAgree, NothingWithoutControl, Releasing,
                pressedKeys
<1>2. ASSUME NEW k \in Keys, NEW p \in BOOLEAN, UserKey(k, p)
      PROVE  Agreement'
    <2> USE DEF UserKey, HookAgrees, PressedAgree, NothingWithoutControl, Releasing
    <2>1. ~hook.busy /\ posted' = posted /\ hooked' = hooked
        BY <1>2
    <2>2. CASE ~(hooked /\ controlActive)
        <3>1. hook' = hook /\ mapped' = mapped /\ pressedKeys' = pressedKeys
              /\ controlActive' = controlActive
            BY <1>2, <2>2 DEF pressedKeys
        <3>2. pressedKeys = {} \/ Mentions(posted, {"off"})
            BY <2>2
        <3> QED
            BY <2>1, <2>2, <3>1, <3>2
    <2>3. CASE hooked /\ controlActive /\ k = Esc /\ p
        <3>1. hook' = hook /\ SetControlActive(FALSE)
            BY <1>2, <2>3
        <3>2. pressedKeys' = {}
            BY <3>1, ControlSet
        <3> QED
            BY <2>1, <3>1, <3>2
    <2>4. CASE hooked /\ controlActive /\ ~(k = Esc /\ p)
        <3>1. hook' = [key |-> k, pressed |-> p, busy |-> TRUE] /\ controlActive' = controlActive
              /\ pressedKeys' = pressedKeys
            BY <1>2, <2>4 DEF pressedKeys
        <3>2. hook'.key = k /\ hook'.pressed = p /\ hook'.busy = TRUE
            BY <3>1
        <3>3. HookAgrees'
            BY <1>2, <2>4, <3>2 DEF CaptureTypeOK
        <3>4. PressedAgree'
            BY <1>2, <2>1, <3>1, <3>2
        <3> QED
            BY <2>1, <2>4, <3>1, <3>3, <3>4
    <2> QED
        BY <2>2, <2>3, <2>4
<1>3. CASE HandleKey
    <2> USE DEF HookAgrees, PressedAgree, NothingWithoutControl, Releasing
    <2>1. hook.busy /\ hook'.busy = FALSE /\ posted' = posted /\ down' = down /\ hooked' = hooked
          /\ controlActive' = controlActive
        BY <1>3 DEF HandleKey, Idle
    <2>2. pressedKeys' \subseteq down \/ Mentions(posted, {"off"})
        <3>1. CASE hook.pressed /\ hook.key \notin pressedKeys
            <4>1. mapped' = [j \in pressedKeys \cup {hook.key} |->
                                IF j = hook.key THEN MappedTo(hook.key) ELSE mapped[j]]
                BY <1>3, <3>1 DEF HandleKey
            <4>2. pressedKeys' = pressedKeys \cup {hook.key}
                BY <4>1 DEF pressedKeys
            <4> QED
                BY <2>1, <3>1, <4>2
        <3>2. CASE ~hook.pressed /\ hook.key \in pressedKeys
            <4>1. mapped' = [j \in pressedKeys \ {hook.key} |-> mapped[j]]
                BY <1>3, <3>2 DEF HandleKey
            <4>2. pressedKeys' = pressedKeys \ {hook.key}
                BY <4>1 DEF pressedKeys
            <4> QED
                BY <2>1, <3>2, <4>2
        <3>3. CASE hook.pressed <=> hook.key \in pressedKeys
            <4>1. pressedKeys' = pressedKeys
                BY <1>3, <3>3 DEF HandleKey, pressedKeys
            <4> QED
                BY <2>1, <3>3, <4>1
        <3> QED
            BY <1>3, <3>1, <3>2, <3>3 DEF HandleKey
    <2>3. (hooked /\ controlActive) \/ Mentions(posted, {"off"})
        BY <2>1
    <2> QED
        BY <2>1, <2>2, <2>3
<1>4. CASE PressButton
    <2> USE DEF HookAgrees, PressedAgree, NothingWithoutControl, Releasing
    <2>1. posted \in Seq(Posted) /\ "down" \in Posted /\ "on" \in Posted
        BY DEF Posted, CaptureTypeOK
    <2>2. Mentions(posted, {"off"}) => Mentions(posted', {"off"})
        <3>1. CASE inputControlActive
            BY <1>4, <2>1, <3>1, MentionsAppend DEF PressButton
        <3>2. CASE ~inputControlActive
            <4>1. Posts("on") \in Seq(Posted)
                  /\ (Mentions(posted, {"off"}) => Mentions(Posts("on"), {"off"}))
                BY <2>1, PostedTwice
            <4> QED
                BY <1>4, <2>1, <3>2, <4>1, MentionsAppend DEF PressButton
        <3> QED
            BY <3>1, <3>2
    <2>3. /\ hook' = hook /\ hooked' = hooked /\ mapped' = mapped /\ pressedKeys' = pressedKeys
          /\ controlActive => controlActive'
        BY <1>4, ControlSet DEF PressButton, pressedKeys
    <2>4. down \subseteq down' /\ \A k \in Keys : k \in down' <=> k \in down
        BY <1>4, KeysAssumption DEF PressButton, Buttons
    <2>5. HookAgrees'
        BY <2>3, <2>4 DEF CaptureTypeOK
    <2> QED
        BY <2>2, <2>3, <2>4, <2>5
<1>5. CASE ReleaseButton
    <2> USE DEF HookAgrees, PressedAgree, NothingWithoutControl, Releasing
    <2>1. posted \in Seq(Posted) /\ "up" \in Posted
        BY DEF Posted, CaptureTypeOK
    <2>2. Mentions(posted, {"off"}) => Mentions(posted', {"off"})
        BY <1>5, <2>1, MentionsAppend DEF ReleaseButton
    <2>3. /\ hook' = hook /\ hooked' = hooked /\ pressedKeys' = pressedKeys
          /\ controlActive' = controlActive
        BY <1>5 DEF ReleaseButton, pressedKeys
    <2>4. \A k \in Keys : k \in down' <=> k \in down
        BY <1>5, KeysAssumption DEF ReleaseButton, Buttons
    <2>5. HookAgrees'
        BY <2>3, <2>4 DEF CaptureTypeOK
    <2>6. pressedKeys \subseteq Keys
        BY MappedType DEF CaptureTypeOK
    <2>7. pressedKeys \subseteq down \cup Releasing => pressedKeys \subseteq down' \cup Releasing
        BY <2>4, <2>6
    <2> QED
        BY <2>2, <2>3, <2>5, <2>7
<1>6. CASE FocusOut
    <2>1. posted \in Seq(Posted) /\ "off" \in Posted
        BY DEF Posted, CaptureTypeOK
    <2>2. Mentions(posted', {"off"})
        BY <1>6, <2>1, PostedTwice DEF FocusOut
    <2>3. hook' = hook /\ down' = down
        BY <1>6 DEF FocusOut
    <2> QED
        BY <2>2, <2>3 DEF HookAgrees, PressedAgree, NothingWithoutControl
<1>7. CASE WorkerTakesControl
    <2>1. /\ ~hook.busy /\ posted # <<>> /\ Head(posted) \in {"on", "off"}
          /\ posted' = Tail(posted) /\ SetControlActive(Head(posted) = "on")
          /\ hook' = hook /\ down' = down /\ hooked' = hooked
        BY <1>7 DEF WorkerTakesControl
    <2>2. CASE Head(posted) = "on"
        <3>1. SetControlActive(TRUE)
            BY <2>1, <2>2
        <3>2. Mentions(posted, {"off"}) => Mentions(posted', {"off"})
            BY <2>1, <2>2, MentionsTail DEF CaptureTypeOK
        <3>3. controlActive' /\ pressedKeys' = pressedKeys
            BY <3>1, ControlSet DEF pressedKeys
        <3> QED
            BY <2>1, <3>2, <3>3 DEF HookAgrees, PressedAgree, NothingWithoutControl, Releasing
    <2>3. CASE Head(posted) = "off"
        <3>1. SetControlActive(FALSE)
            BY <2>1, <2>3
        <3>2. pressedKeys' = {}
            BY <3>1, ControlSet
        <3> QED
            BY <2>1, <3>2 DEF HookAgrees, PressedAgree, NothingWithoutControl
    <2> QED
        BY <2>1, <2>2, <2>3
<1>8. CASE WorkerTakesMouse
    <2>1. /\ posted # <<>> /\ Head(posted) \in {"down", "up"} /\ posted' = Tail(posted)
          /\ hook' = hook /\ down' = down /\ hooked' = hooked /\ pressedKeys' = pressedKeys
          /\ controlActive' = controlActive
        BY <1>8 DEF WorkerTakesMouse, pressedKeys
    <2>2. Mentions(posted, {"off"}) => Mentions(posted', {"off"})
        BY <2>1, MentionsTail DEF CaptureTypeOK
    <2> QED
        BY <2>1, <2>2 DEF HookAgrees, PressedAgree, NothingWithoutControl, Releasing
<1>9. CASE HostExecutes
    BY <1>9 DEF HostExecutes, HookAgrees, PressedAgree, NothingWithoutControl, Releasing,
                 pressedKeys
<1>10. CASE UNCHANGED captureVars
    BY <1>10 DEF captureVars, HookAgrees, PressedAgree, NothingWithoutControl, Releasing,
                 pressedKeys
<1> QED
    BY <1>1, <1>2, <1>3, <1>4, <1>5, <1>6, <1>7, <1>8, <1>9, <1>10 DEF CaptureNext

Control == SwitchesAgree /\ ControlAgrees

LEMMA ControlStep ==
    ASSUME CaptureTypeOK, Control, [CaptureNext]_captureVars
    PROVE  Control'
<1> DEFINE wanted == IF inputControlActive THEN "on" ELSE "off"
<1> USE DEF Control, SwitchesAgree, ControlAgrees
<1>1. posted \in Seq(Posted) /\ inputControlActive \in BOOLEAN
    BY DEF Posted, CaptureTypeOK
<1>2. /\ "down" \in Posted /\ "up" \in Posted /\ "on" \in Posted /\ "off" \in Posted
      /\ "down" \notin Switches /\ "up" \notin Switches
      /\ "on" \in Switches /\ "off" \in Switches /\ wanted \in Switches
    BY DEF Posted, Switches
\* An element that is no switch may come and go.
<1>3. ASSUME NEW e \in {"down", "up"}, posted' = Append(posted, e),
             inputControlActive' = inputControlActive, controlActive' = controlActive
      PROVE  Control'
    BY <1>1, <1>2, <1>3, MentionsAppend, LastIsAppend
<1>4. ASSUME posted # <<>>, posted' = Tail(posted), inputControlActive' = inputControlActive,
             Head(posted) \in Switches => controlActive' = (Head(posted) = "on"),
             Head(posted) \notin Switches => controlActive' = controlActive
      PROVE  Control'
    <2>1. Mentions(posted, Switches) <=>
              (Head(posted) \in Switches \/ Mentions(posted', Switches))
        BY <1>1, <1>4, MentionsTail
    <2>2. LastIs(posted, Switches, wanted) <=>
              IF Mentions(posted', Switches) THEN LastIs(posted', Switches, wanted)
              ELSE Head(posted) = wanted
        BY <1>1, <1>2, <1>4, LastIsTail
    <2>3. SwitchesAgree'
        BY <2>1, <2>2, <1>4
    <2>4. ControlAgrees'
        BY <2>1, <2>2, <1>1, <1>4
    <2> QED
        BY <2>3, <2>4
<1>5. ASSUME UNCHANGED <<posted, inputControlActive>>, controlActive' => controlActive
      PROVE  Control'
    BY <1>5
<1>6. CASE StartCapture
    BY <1>5, <1>6 DEF StartCapture
<1>7. ASSUME NEW k \in Keys, NEW p \in BOOLEAN, UserKey(k, p)
      PROVE  Control'
    <2>1. UNCHANGED <<posted, inputControlActive>>
        BY <1>7 DEF UserKey
    <2>2. controlActive' => controlActive
        BY <1>7 DEF UserKey, SetControlActive
    <2> QED
        BY <1>5, <2>1, <2>2
<1>8. CASE HandleKey
    BY <1>5, <1>8 DEF HandleKey
<1>9. CASE PressButton
    <2>1. CASE inputControlActive
        BY <1>3, <1>9, <2>1 DEF PressButton, capture
    <2>2. CASE ~inputControlActive
        <3>1. inputControlActive' = TRUE /\ posted' = Append(Posts("on"), "down")
            BY <1>9, <2>2 DEF PressButton
        <3>2. Posts("on") \in Seq(Posted) /\ LastIs(Posts("on"), Switches, "on")
            BY <1>1, <1>2, PostedTwice
        <3>3. LastIs(posted', Switches, "on")
            BY <1>2, <3>1, <3>2, LastIsAppend
        <3> QED
            BY <3>1, <3>3
    <2> QED
        BY <2>1, <2>2
<1>10. CASE ReleaseButton
    <2>1. CASE inputControlActive
        BY <1>3, <1>10, <2>1 DEF ReleaseButton, capture
    <2>2. CASE ~inputControlActive
        BY <1>5, <1>10, <2>2 DEF ReleaseButton, capture
    <2> QED
        BY <2>1, <2>2
<1>11. CASE FocusOut
    <2>1. inputControlActive' = FALSE /\ posted' = Posts("off")
        BY <1>11 DEF FocusOut
    <2>2. LastIs(posted', Switches, "off") /\ Mentions(posted', Switches)
        BY <1>1, <1>2, <2>1, PostedTwice
    <2> QED
        BY <2>1, <2>2
<1>12. CASE WorkerTakesControl
    <2>1. /\ posted # <<>> /\ Head(posted) \in Switches /\ posted' = Tail(posted)
          /\ inputControlActive' = inputControlActive
          /\ controlActive' = (Head(posted) = "on")
        BY <1>12 DEF WorkerTakesControl, SetControlActive, Switches
    <2> QED
        BY <1>4, <2>1
<1>13. CASE WorkerTakesMouse
    <2>1. /\ posted # <<>> /\ Head(posted) \notin Switches /\ posted' = Tail(posted)
          /\ inputControlActive' = inputControlActive /\ controlActive' = controlActive
        BY <1>13 DEF WorkerTakesMouse, Switches, capture
    <2> QED
        BY <1>4, <2>1
<1>14. CASE HostExecutes
    BY <1>5, <1>14 DEF HostExecutes, capture
<1>15. CASE UNCHANGED captureVars
    BY <1>5, <1>15 DEF captureVars, capture
<1> QED
    BY <1>6, <1>7, <1>8, <1>9, <1>10, <1>11, <1>12, <1>13, <1>14, <1>15
       DEF CaptureNext

LEMMA LocalKeysStep ==
    ASSUME CaptureTypeOK, LocalKeysAgree, [CaptureNext]_captureVars
    PROVE  LocalKeysAgree'
<1> USE DEF LocalKeysAgree, LocalHeldHasCause, capture, history
<1>1. localHeld \subseteq Keys
    BY DEF CaptureTypeOK
\* A change of control keeps the agreement, with all keys where they are.
<1>2. ASSUME NEW active \in BOOLEAN, SetControlActive(active),
             UNCHANGED <<down, localHeld, hooked>>
      PROVE  LocalKeysAgree'
    BY <1>1, <1>2 DEF SetControlActive
<1>3. CASE StartCapture
    BY <1>1, <1>3 DEF StartCapture
<1>4. ASSUME NEW k \in Keys, NEW p \in BOOLEAN, UserKey(k, p)
      PROVE  LocalKeysAgree'
    <2>1. down' = (IF p THEN down \cup {k} ELSE down \ {k}) /\ hooked' = hooked
        BY <1>4 DEF UserKey
    <2>2. CASE ~(hooked /\ controlActive)
        <3>1. /\ localHeld' = IF p THEN localHeld \cup {k} ELSE localHeld \ {k}
              /\ crossed' = IF p THEN crossed ELSE crossed \ {k}
              /\ controlActive' = controlActive
            BY <1>4, <2>2 DEF UserKey, Swallowed
        <3> QED
            BY <2>1, <2>2, <3>1
    <2>3. CASE hooked /\ controlActive
        <3>1. localHeld' = localHeld /\ crossed' = crossed
            BY <1>4, <2>3 DEF UserKey, Swallowed, SetControlActive
        <3> QED
            BY <2>1, <2>3, <3>1
    <2> QED
        BY <2>2, <2>3
<1>5. CASE HandleKey
    BY <1>5 DEF HandleKey
<1>6. CASE PressButton
    <2>1. down' = down \cup Buttons /\ hooked' = hooked /\ localHeld' = localHeld
        BY <1>6 DEF PressButton
    <2>2. CASE inputControlActive
        BY <1>6, <2>1, <2>2 DEF PressButton
    <2>3. CASE ~inputControlActive
        BY <1>1, <1>6, <2>1, <2>3 DEF PressButton, SetControlActive
    <2> QED
        BY <2>2, <2>3
<1>7. CASE ReleaseButton
    <2>1. \A k \in Keys : k \notin Buttons
        BY KeysAssumption DEF Buttons
    <2> QED
        BY <1>1, <1>7, <2>1 DEF ReleaseButton
<1>8. CASE FocusOut
    BY <1>2, <1>8 DEF FocusOut
<1>9. CASE WorkerTakesControl
    <2>1. (Head(posted) = "on") \in BOOLEAN
        OBVIOUS
    <2> QED
        BY <1>2, <1>9, <2>1 DEF WorkerTakesControl
<1>10. CASE WorkerTakesMouse
    BY <1>10 DEF WorkerTakesMouse
<1>11. CASE HostExecutes
    BY <1>11 DEF HostExecutes
<1>12. CASE UNCHANGED captureVars
    BY <1>12 DEF captureVars
<1> QED
    BY <1>3, <1>4, <1>5, <1>6, <1>7, <1>8, <1>9, <1>10, <1>11, <1>12 DEF CaptureNext

-----------------------------------------------------------------------------
(* What the host will hold *)

Press(h) == [target |-> h, pressed |-> TRUE]

LEMMA SampleIsOf ==
    ASSUME NEW e \in Sample, NEW h \in Targets
    PROVE  /\ e.target \in Targets /\ e.pressed \in BOOLEAN
           /\ e \in SamplesOf(h) <=> e.target = h
           /\ e = Press(h) <=> e.target = h /\ e.pressed
           /\ Press(h) \in SamplesOf(h)
BY DEF Sample, SamplesOf, Press

\* A sample that is sent decides about its target.
LEMMA SendDecides ==
    ASSUME CaptureTypeOK, NEW h \in Targets, NEW p \in BOOLEAN, Send(h, p),
           hostHeld' = hostHeld
    PROVE  WillArrive' = IF p THEN WillArrive \cup {h} ELSE WillArrive \ {h}
<1> DEFINE e == [target |-> h, pressed |-> p]
<1>1. toInject \in Seq(Sample) /\ e \in Sample /\ toInject' = Append(toInject, e)
    BY SampleSent DEF CaptureTypeOK
<1>2. e.target = h /\ e.pressed = p
    OBVIOUS
<1> HIDE DEF e
<1>3. ASSUME NEW g \in Targets
      PROVE  g \in WillArrive' <=> IF g = h THEN p ELSE g \in WillArrive
    <2>1. Mentions(toInject', SamplesOf(g)) <=> (e.target = g \/ Mentions(toInject, SamplesOf(g)))
        BY <1>1, SampleIsOf, MentionsAppend
    <2>2. LastIs(toInject', SamplesOf(g), Press(g)) <=>
              IF e.target = g THEN e = Press(g) ELSE LastIs(toInject, SamplesOf(g), Press(g))
        BY <1>1, SampleIsOf, LastIsAppend
    <2>3. e.target = g => (e = Press(g) <=> p)
        BY <1>1, <1>2, SampleIsOf
    <2> QED
        BY <1>2, <2>1, <2>2, <2>3 DEF WillArrive, Press
<1>4. WillArrive \subseteq Targets /\ WillArrive' \subseteq Targets
    BY DEF WillArrive
<1> QED
    BY <1>3, <1>4

\* Executing a sample changes nothing of what will be held; ignoring one can only
\* leave a target held that it would have released.
LEMMA ExecutionDecides ==
    ASSUME CaptureTypeOK, toInject # <<>>, toInject' = Tail(toInject)
    PROVE  LET e == Head(toInject) IN
           /\ e \in Sample
           /\ hostHeld' = Injected(hostHeld, e) => WillArrive' = WillArrive
           /\ hostHeld' = hostHeld =>
                  WillArrive' \subseteq WillArrive \cup (IF e.pressed THEN {} ELSE {e.target})
<1> DEFINE e == Head(toInject)
<1>1. toInject \in Seq(Sample) /\ e \in Sample
    BY TailIndices DEF CaptureTypeOK
<1> HIDE DEF e
<1>2. ASSUME NEW g \in Targets
      PROVE  /\ Mentions(toInject, SamplesOf(g)) <=>
                    (e.target = g \/ Mentions(toInject', SamplesOf(g)))
             /\ LastIs(toInject, SamplesOf(g), Press(g)) <=>
                    IF Mentions(toInject', SamplesOf(g))
                    THEN LastIs(toInject', SamplesOf(g), Press(g))
                    ELSE e.target = g /\ e.pressed
    BY <1>1, SampleIsOf, MentionsTail, LastIsTail DEF e
<1>3. WillArrive \subseteq Targets /\ WillArrive' \subseteq Targets
    BY DEF WillArrive
<1>4. ASSUME hostHeld' = Injected(hostHeld, e)
      PROVE  WillArrive' = WillArrive
    <2>1. ASSUME NEW g \in Targets
          PROVE  g \in hostHeld' <=> IF e.target = g THEN e.pressed ELSE g \in hostHeld
        BY <1>1, <1>4, SampleIsOf DEF Injected
    <2>2. ASSUME NEW g \in Targets
          PROVE  g \in WillArrive' <=> g \in WillArrive
        BY <1>1, <1>2, <2>1 DEF WillArrive, Press
    <2> QED
        BY <1>3, <2>2
<1>5. ASSUME hostHeld' = hostHeld
      PROVE  WillArrive' \subseteq WillArrive \cup (IF e.pressed THEN {} ELSE {e.target})
    <2>1. ASSUME NEW g \in Targets, g \in WillArrive'
          PROVE  g \in WillArrive \/ (~e.pressed /\ g = e.target)
        BY <1>1, <1>2, <1>5, <2>1 DEF WillArrive, Press
    <2> QED
        BY <1>3, <2>1
<1> QED
    BY <1>1, <1>4, <1>5 DEF e

\* A click that is posted decides about the button, a switch about nothing.
LEMMA PostDecides ==
    ASSUME posted \in Seq(Posted), NEW e \in Posted, posted' = Append(posted, e),
           WillArrive' = WillArrive
    PROVE  /\ e = "down" => WillBeHeld' = WillBeHeld \cup Buttons
           /\ e = "up" => WillBeHeld' = WillBeHeld \ Buttons
           /\ e \in Switches => WillBeHeld' = WillBeHeld
<1>1. "down" \in Clicks /\ "up" \in Clicks /\ Switches \cap Clicks = {}
    BY DEF Clicks, Switches
<1>2. Mentions(posted', Clicks) <=> (e \in Clicks \/ Mentions(posted, Clicks))
    BY MentionsAppend
<1>3. LastIs(posted', Clicks, "down") <=>
          IF e \in Clicks THEN e = "down" ELSE LastIs(posted, Clicks, "down")
    BY <1>1, LastIsAppend
<1>4. Button \in Targets /\ WillArrive \subseteq Targets
    BY DEF Targets, Buttons, WillArrive
<1> QED
    BY <1>1, <1>2, <1>3, <1>4 DEF WillBeHeld, Buttons

LEMMA SwitchesDecideNothing ==
    ASSUME posted \in Seq(Posted), NEW e \in Switches, posted' = Posts(e),
           WillArrive' = WillArrive
    PROVE  WillBeHeld' = WillBeHeld
<1>1. e \in Posted /\ e \notin Clicks /\ "down" \in Clicks
    BY DEF Posted, Switches, Clicks
<1>2. /\ Mentions(posted', Clicks) <=> Mentions(posted, Clicks)
      /\ LastIs(posted', Clicks, "down") <=> LastIs(posted, Clicks, "down")
    BY <1>1, PostedTwice
<1> QED
    BY <1>2 DEF WillBeHeld

\* What the worker takes, it sends.
LEMMA TakingDecidesNothing ==
    ASSUME posted \in Seq(Posted), posted # <<>>, posted' = Tail(posted),
           WillArrive' = CASE Head(posted) = "down" -> WillArrive \cup Buttons
                           [] Head(posted) = "up" -> WillArrive \ Buttons
                           [] OTHER -> WillArrive
    PROVE  WillBeHeld' = WillBeHeld
<1>1. "down" \in Clicks /\ Head(posted) \in Posted
    BY TailIndices DEF Clicks
<1>2. Mentions(posted, Clicks) <=> (Head(posted) \in Clicks \/ Mentions(posted', Clicks))
    BY MentionsTail
<1>3. LastIs(posted, Clicks, "down") <=>
          IF Mentions(posted', Clicks) THEN LastIs(posted', Clicks, "down")
          ELSE Head(posted) = "down"
    BY <1>1, LastIsTail
<1>4. Button \in Targets /\ WillArrive \subseteq Targets
    BY DEF Targets, Buttons, WillArrive
<1>5. Head(posted) \in Clicks <=> (Head(posted) = "down" \/ Head(posted) = "up")
    BY DEF Clicks
<1>6. ASSUME NEW h \in Targets
      PROVE  h \in WillBeHeld' <=> h \in WillBeHeld
    <2>1. CASE h # Button
        <3>1. h \in WillArrive' <=> h \in WillArrive
            BY <2>1 DEF Buttons
        <3> QED
            BY <2>1, <3>1 DEF WillBeHeld
    <2>2. CASE h = Button
        <3>1. CASE Head(posted) = "down"
            BY <1>2, <1>3, <1>4, <1>5, <2>2, <3>1 DEF WillBeHeld, Buttons
        <3>2. CASE Head(posted) = "up"
            BY <1>2, <1>3, <1>4, <1>5, <2>2, <3>2 DEF WillBeHeld, Buttons
        <3>3. CASE Head(posted) # "down" /\ Head(posted) # "up"
            BY <1>2, <1>3, <1>4, <1>5, <2>2, <3>3 DEF WillBeHeld, Buttons
        <3> QED
            BY <3>1, <3>2, <3>3
    <2> QED
        BY <2>1, <2>2
<1>7. WillBeHeld \subseteq Targets /\ WillBeHeld' \subseteq Targets
    BY DEF WillBeHeld
<1> QED
    BY <1>6, <1>7

\* The keys the guest knows to hold something on the host.
KeysHold == {mapped[k] : k \in pressedKeys}

LEMMA HeldStep ==
    ASSUME CaptureTypeOK, HookAgrees, HeldHasCause, [CaptureNext]_captureVars
    PROVE  HeldHasCause'
<1>1. HeldHasCause <=> WillBeHeld \subseteq KeysHold \cup (down \cap Buttons) \cup forgotten
    BY DEF HeldHasCause, KeysHold
<1>2. HeldHasCause' <=>
          WillBeHeld' \subseteq KeysHold' \cup (down' \cap Buttons) \cup forgotten'
    BY DEF HeldHasCause, KeysHold
<1>3. posted \in Seq(Posted) /\ Button \in Targets /\ KeysHold \subseteq Keys
    BY MappedType DEF CaptureTypeOK, Posted, Targets, Buttons, KeysHold
<1>4. /\ "down" \in Posted /\ "up" \in Posted
      /\ "on" \in Switches /\ "off" \in Switches /\ "on" \in Posted /\ "off" \in Posted
    BY DEF Posted, Switches
\* When nothing is sent or executed, only what is posted counts.
<1>5. ASSUME UNCHANGED <<toInject, hostHeld>>
      PROVE  WillArrive' = WillArrive /\ (posted' = posted => WillBeHeld' = WillBeHeld)
    BY <1>5 DEF WillArrive, WillBeHeld
\* A change of control forgets what it clears.
<1>6. ASSUME NEW active \in BOOLEAN, SetControlActive(active)
      PROVE  KeysHold \cup forgotten \subseteq KeysHold' \cup forgotten'
    BY <1>6, ControlSet DEF KeysHold, pressedKeys
<1>7. CASE StartCapture
    <2>1. UNCHANGED <<toInject, hostHeld, posted, mapped, down, forgotten>>
        BY <1>7 DEF StartCapture
    <2> QED
        BY <1>1, <1>2, <1>5, <2>1 DEF KeysHold, pressedKeys
<1>8. ASSUME NEW k \in Keys, NEW p \in BOOLEAN, UserKey(k, p)
      PROVE  HeldHasCause'
    <2>1. UNCHANGED <<toInject, hostHeld, posted>> /\ down' \cap Buttons = down \cap Buttons
        BY <1>8, KeysAssumption DEF UserKey, Buttons
    <2>2. KeysHold \cup forgotten \subseteq KeysHold' \cup forgotten'
        <3>1. CASE SetControlActive(FALSE)
            BY <1>6, <3>1
        <3>2. CASE UNCHANGED <<mapped, forgotten>>
            BY <3>2 DEF KeysHold, pressedKeys
        <3> QED
            BY <1>8, <3>1, <3>2 DEF UserKey
    <2> QED
        BY <1>1, <1>2, <1>5, <2>1, <2>2
<1>9. CASE HandleKey
    <2> DEFINE k == hook.key
    <2>1. UNCHANGED <<hostHeld, posted, down>> /\ k \in Keys
        BY <1>9 DEF HandleKey, CaptureTypeOK
    <2>2. ASSUME NEW h \in Keys, NEW p \in BOOLEAN, Send(h, p)
          PROVE  WillBeHeld' = IF p THEN WillBeHeld \cup {h} ELSE WillBeHeld \ {h}
        <3>1. WillArrive' = IF p THEN WillArrive \cup {h} ELSE WillArrive \ {h}
            BY <2>1, <2>2, SendDecides DEF Targets
        <3>2. h # Button /\ h \in Targets
            BY KeysAssumption DEF Targets
        <3> QED
            BY <2>1, <3>1, <3>2 DEF WillBeHeld
    <2>3. CASE hook.pressed /\ k \notin pressedKeys
        <3>1. /\ mapped' = [j \in pressedKeys \cup {k} |->
                              IF j = k THEN MappedTo(k) ELSE mapped[j]]
              /\ Send(MappedTo(k), TRUE) /\ forgotten' = forgotten
            BY <1>9, <2>3 DEF HandleKey
        <3>2. KeysHold' = KeysHold \cup {MappedTo(k)}
            <4>1. pressedKeys' = pressedKeys \cup {k} /\ mapped'[k] = MappedTo(k)
                  /\ \A j \in pressedKeys : mapped'[j] = mapped[j]
                BY <2>3, <3>1 DEF pressedKeys
            <4> QED
                BY <4>1 DEF KeysHold
        <3>3. MappedTo(k) \in Keys
            BY <2>1, MappedToType
        <3>4. WillBeHeld' = WillBeHeld \cup {MappedTo(k)}
            BY <2>2, <3>1, <3>3
        <3> QED
            BY <1>1, <1>2, <2>1, <3>1, <3>2, <3>4
    <2>4. CASE ~hook.pressed /\ k \in pressedKeys
        <3>1. /\ mapped' = [j \in pressedKeys \ {k} |-> mapped[j]]
              /\ Send(mapped[k], FALSE) /\ forgotten' = forgotten \ {mapped[k]}
            BY <1>9, <2>4 DEF HandleKey, Released
        <3>2. KeysHold \subseteq KeysHold' \cup {mapped[k]}
            <4>1. pressedKeys' = pressedKeys \ {k} /\ \A j \in pressedKeys' : mapped'[j] = mapped[j]
                BY <3>1 DEF pressedKeys
            <4> QED
                BY <4>1 DEF KeysHold
        <3>3. mapped[k] \in Keys
            BY <2>4, MappedType DEF CaptureTypeOK
        <3>4. WillBeHeld' = WillBeHeld \ {mapped[k]}
            BY <2>2, <3>1, <3>3
        <3> QED
            BY <1>1, <1>2, <2>1, <3>1, <3>2, <3>4
    <2>5. CASE hook.pressed <=> k \in pressedKeys
        <3>1. UNCHANGED <<toInject, mapped, forgotten>>
            BY <1>9, <2>5 DEF HandleKey
        <3> QED
            BY <1>1, <1>2, <1>5, <2>1, <3>1 DEF KeysHold, pressedKeys
    <2> QED
        BY <1>9, <2>3, <2>4, <2>5 DEF HandleKey
<1>10. CASE PressButton
    <2>1. UNCHANGED <<toInject, hostHeld>> /\ down' = down \cup Buttons
        BY <1>10 DEF PressButton
    <2>2. KeysHold \cup forgotten \subseteq KeysHold' \cup forgotten'
        BY <1>6, <1>10 DEF PressButton, KeysHold, pressedKeys, history
    <2>3. WillBeHeld' \subseteq WillBeHeld \cup Buttons
        <3>1. CASE inputControlActive
            BY <1>3, <1>4, <1>5, <1>10, <2>1, <3>1, PostDecides DEF PressButton
        <3>2. CASE ~inputControlActive
            <4>1. posted' = Append(Posts("on"), "down") /\ Posts("on") \in Seq(Posted)
                BY <1>3, <1>4, <1>10, <3>2, PostedTwice DEF PressButton
            <4>2. ASSUME NEW h \in Targets, h # Button
                  PROVE  h \in WillBeHeld' <=> h \in WillBeHeld
                BY <1>5, <2>1, <4>2 DEF WillBeHeld
            <4>3. WillBeHeld \subseteq Targets /\ WillBeHeld' \subseteq Targets
                BY DEF WillBeHeld
            <4> QED
                BY <4>2, <4>3 DEF Buttons
        <3> QED
            BY <3>1, <3>2
    <2> QED
        BY <1>1, <1>2, <2>1, <2>2, <2>3
<1>11. CASE ReleaseButton
    <2>1. UNCHANGED <<toInject, hostHeld, mapped>> /\ down' = down \ Buttons
        BY <1>11 DEF ReleaseButton, capture
    <2>2. KeysHold' = KeysHold
        BY <2>1 DEF KeysHold, pressedKeys
    <2>3. CASE inputControlActive
        <3>1. posted' = Append(posted, "up") /\ forgotten' = forgotten \ Buttons
            BY <1>11, <2>3 DEF ReleaseButton
        <3>2. WillBeHeld' = WillBeHeld \ Buttons
            BY <1>3, <1>4, <1>5, <2>1, <3>1, PostDecides
        <3> QED
            BY <1>1, <1>2, <2>1, <2>2, <3>1, <3>2
    <2>4. CASE ~inputControlActive
        <3>1. posted' = posted /\ forgotten' = forgotten \cup Buttons
            BY <1>11, <2>4 DEF ReleaseButton
        <3> QED
            BY <1>1, <1>2, <1>5, <2>1, <2>2, <3>1
    <2> QED
        BY <2>3, <2>4
<1>12. CASE FocusOut
    <2>1. UNCHANGED <<toInject, hostHeld, down>> /\ posted' = Posts("off")
          /\ SetControlActive(FALSE)
        BY <1>12 DEF FocusOut
    <2>2. WillBeHeld' = WillBeHeld
        BY <1>3, <1>4, <1>5, <2>1, SwitchesDecideNothing
    <2> QED
        BY <1>1, <1>2, <1>6, <2>1, <2>2
<1>13. CASE WorkerTakesControl
    <2>1. /\ UNCHANGED <<toInject, hostHeld, down>> /\ posted # <<>> /\ posted' = Tail(posted)
          /\ Head(posted) # "down" /\ Head(posted) # "up"
          /\ SetControlActive(Head(posted) = "on") /\ (Head(posted) = "on") \in BOOLEAN
        BY <1>13 DEF WorkerTakesControl
    <2>2. WillArrive' = CASE Head(posted) = "down" -> WillArrive \cup Buttons
                          [] Head(posted) = "up" -> WillArrive \ Buttons
                          [] OTHER -> WillArrive
        BY <1>5, <2>1
    <2>3. WillBeHeld' = WillBeHeld
        BY <1>3, <2>1, <2>2, TakingDecidesNothing
    <2> QED
        BY <1>1, <1>2, <1>6, <2>1, <2>3
<1>14. CASE WorkerTakesMouse
    <2>1. /\ posted # <<>> /\ posted' = Tail(posted) /\ Head(posted) \in {"down", "up"}
          /\ Send(Button, Head(posted) = "down") /\ (Head(posted) = "down") \in BOOLEAN
          /\ UNCHANGED <<hostHeld, down, mapped, forgotten>>
        BY <1>14 DEF WorkerTakesMouse, capture, history
    <2>2. WillArrive' = IF Head(posted) = "down" THEN WillArrive \cup {Button}
                        ELSE WillArrive \ {Button}
        BY <1>3, <2>1, SendDecides
    <2>3. WillArrive' = CASE Head(posted) = "down" -> WillArrive \cup Buttons
                          [] Head(posted) = "up" -> WillArrive \ Buttons
                          [] OTHER -> WillArrive
        BY <2>1, <2>2 DEF Buttons
    <2>4. WillBeHeld' = WillBeHeld
        BY <1>3, <2>1, <2>3, TakingDecidesNothing
    <2> QED
        BY <1>1, <1>2, <2>1, <2>4 DEF KeysHold, pressedKeys
<1>15. CASE HostExecutes
    <2> DEFINE e == Head(toInject)
    <2>1. /\ toInject # <<>> /\ toInject' = Tail(toInject)
          /\ UNCHANGED <<down, posted, mapped>>
        BY <1>15 DEF HostExecutes, capture
    <2>2. KeysHold' = KeysHold
        BY <2>1 DEF KeysHold, pressedKeys
    <2>3. CASE hostHeld' = Injected(hostHeld, e) /\ forgotten' = forgotten
        <3>1. WillArrive' = WillArrive
            BY <2>1, <2>3, ExecutionDecides
        <3>2. WillBeHeld' = WillBeHeld
            BY <2>1, <3>1 DEF WillBeHeld
        <3> QED
            BY <1>1, <1>2, <2>1, <2>2, <2>3, <3>2
    <2>4. CASE /\ e.target = Button /\ hostHeld' = hostHeld
               /\ forgotten' = IF e.pressed THEN forgotten ELSE forgotten \cup Buttons
        <3>1. WillArrive' \subseteq WillArrive \cup (IF e.pressed THEN {} ELSE {e.target})
            BY <2>1, <2>4, ExecutionDecides
        <3>2. WillBeHeld' \subseteq WillBeHeld \cup (IF e.pressed THEN {} ELSE {e.target})
            BY <2>1, <3>1 DEF WillBeHeld
        <3>3. WillBeHeld' \subseteq WillBeHeld \cup (IF e.pressed THEN {} ELSE Buttons)
            BY <2>4, <3>2 DEF Buttons
        <3> QED
            BY <1>1, <1>2, <2>1, <2>2, <2>4, <3>3
    <2> QED
        BY <1>15, <2>3, <2>4 DEF HostExecutes
<1>16. CASE UNCHANGED captureVars
    <2>1. UNCHANGED <<toInject, hostHeld, posted, mapped, down, forgotten>>
        BY <1>16 DEF captureVars, capture, history
    <2> QED
        BY <1>1, <1>2, <1>5, <2>1 DEF KeysHold, pressedKeys
<1> QED
    BY <1>7, <1>8, <1>9, <1>10, <1>11, <1>12, <1>13, <1>14, <1>15, <1>16
       DEF CaptureNext

-----------------------------------------------------------------------------
CaptureInv ==
    /\ CaptureTypeOK
    /\ Agreement
    /\ Control
    /\ LocalKeysAgree
    /\ HeldHasCause

LEMMA CaptureInvStarts == CaptureInit => CaptureInv
<1> SUFFICES ASSUME CaptureInit PROVE CaptureInv
    OBVIOUS
<1> USE DEF CaptureInit
<1>1. CaptureTypeOK
    <2>1. Idle \in [key : Keys, pressed : BOOLEAN, busy : BOOLEAN]
        BY KeysAssumption DEF Idle
    <2>2. <<>> \in Seq({"on", "off", "down", "up"}) /\ <<>> \in Seq(Sample)
        OBVIOUS
    <2> QED
        BY <2>1, <2>2, NothingMapped DEF CaptureTypeOK
<1>2. Agreement
    BY NothingMapped
       DEF Agreement, HookAgrees, PressedAgree, NothingWithoutControl, Releasing, Idle,
           pressedKeys
<1>3. Control
    BY DEF Control, SwitchesAgree, ControlAgrees, Mentions
<1>4. LocalKeysAgree
    BY DEF LocalKeysAgree, LocalHeldHasCause
<1>5. HeldHasCause
    <2>1. WillArrive = {}
        BY DEF WillArrive, Mentions
    <2>2. WillBeHeld = {}
        BY <2>1 DEF WillBeHeld, Mentions
    <2> QED
        BY <2>2 DEF HeldHasCause
<1> QED
    BY <1>1, <1>2, <1>3, <1>4, <1>5 DEF CaptureInv

\* CaptureInv holds in every state of every run.
LEMMA CaptureInvHolds == CaptureSpec => []CaptureInv
<1>1. CaptureInv /\ [CaptureNext]_captureVars => CaptureInv'
    BY CaptureTypeStep, AgreementStep, ControlStep, LocalKeysStep, HeldStep
       DEF CaptureInv, Agreement
<1> QED
    BY CaptureInvStarts, <1>1, PTL DEF CaptureSpec

\* The keys, queues and flags of InputCapture, VideoWidget and the host stay in
\* their types: in particular ESC is never among the pressed keys, and what is sent
\* is a key of the host or the button (InputCapture::mapKey).
THEOREM CaptureTypeIsOK == CaptureSpec => []CaptureTypeOK
BY CaptureInvHolds, PTL DEF CaptureInv

\* Whatever the host will hold once everything has arrived, the guest knows and
\* will release, the user still holds, or the guest forgot when it gave up control:
\* for every set of keys and mappings, and queues of any length.
THEOREM HeldAlwaysHasCause == CaptureSpec => []HeldHasCause
BY CaptureInvHolds, PTL DEF CaptureInv

\* The guest's own system is left with a key held only if control was taken while
\* it was down.
THEOREM LocalHeldAlwaysHasCause == CaptureSpec => []LocalHeldHasCause
BY CaptureInvHolds, PTL DEF CaptureInv, LocalKeysAgree

\* When the worker's thread has caught up, InputCapture's keys are down and it
\* captures only for a widget that has control, in spite of the race of the direct
\* call with the hook.
THEOREM CaptureAlwaysAgrees == CaptureSpec => []CaptureAgreesWithUser
<1>1. CaptureInv => CaptureAgreesWithUser
    <2> SUFFICES ASSUME CaptureInv, posted = <<>>, ~hook.busy
                 PROVE  pressedKeys \subseteq down /\ (controlActive => inputControlActive)
        BY DEF CaptureAgreesWithUser
    <2>1. ~Mentions(posted, {"off"}) /\ ~Mentions(posted, Switches)
        BY DEF Mentions
    <2> QED
        BY <2>1 DEF CaptureInv, Agreement, PressedAgree, Releasing, Control, ControlAgrees
<1> QED
    BY CaptureInvHolds, <1>1, PTL

\* Nothing is on its way from the user's fingers to the host.
CaptureAtRest == posted = <<>> /\ ~hook.busy /\ toInject = <<>>

\* When nothing is on its way and the user holds nothing, the host holds nothing but
\* what was forgotten: no order of hook, window and worker leaves a key behind that
\* a later event would have to release (the safety half of LettingGoLetsGo).
THEOREM LetGoAtRest ==
    CaptureSpec => [](CaptureAtRest /\ down = {} => hostHeld \subseteq forgotten)
<1>1. CaptureInv => (CaptureAtRest /\ down = {} => hostHeld \subseteq forgotten)
    <2> SUFFICES ASSUME CaptureInv, CaptureAtRest, down = {}
                 PROVE  hostHeld \subseteq forgotten
        OBVIOUS
    <2>1. ~Mentions(posted, {"off"}) /\ ~Mentions(posted, Clicks)
          /\ \A h : ~Mentions(toInject, SamplesOf(h))
        BY DEF CaptureAtRest, Mentions
    <2>2. hostHeld \subseteq Targets
        BY DEF CaptureInv, CaptureTypeOK
    <2>3. hostHeld \subseteq WillArrive
        BY <2>1, <2>2 DEF WillArrive
    <2>4. hostHeld \subseteq WillBeHeld
        BY <2>1, <2>2, <2>3 DEF WillBeHeld
    <2>5. pressedKeys = {}
        BY <2>1 DEF CaptureInv, Agreement, PressedAgree, Releasing, CaptureAtRest
    <2> QED
        BY <2>4, <2>5 DEF CaptureInv, HeldHasCause
<1> QED
    BY CaptureInvHolds, <1>1, PTL

-----------------------------------------------------------------------------
(***************************************************************************)
(* InputChannel.  The inductive invariant IInv relates the three places a  *)
(* sample can be remembered (the sender's queue, the receiver's buffer,    *)
(* the receiver's expectedSeq) and the acknowledgements in flight.         *)
(***************************************************************************)

\* Only captured samples travel and are buffered.
OnlyCaptured ==
    /\ expectedSeq <= nextSeq
    /\ \A s \in waitToBeAck \cup pending : s < nextSeq
    /\ \A s \in Seqs : Reliable(s) \in toHost => s < nextSeq

\* An acknowledgement in flight covers nothing the host has not passed, unless
\* it is the ambiguous ackSeq 0.
AcksAreCovered == \A a \in toGuest : a < expectedSeq \/ a = 0

\* What the host has not passed has not been injected; no sample is injected
\* twice; a keyboard sample the host has passed has been injected.
InjectionsMatch ==
    \A s \in Seqs :
        /\ injections[s] \in {0, 1}
        /\ expectedSeq <= s => injections[s] = 0
        /\ s < expectedSeq /\ device[s] = Keyboard => injections[s] = 1

IInv ==
    /\ TypeOK
    /\ OnlyCaptured
    /\ PendingAhead
    /\ AcksAreCovered
    /\ UnreceivedIsKept
    /\ InjectionsMatch

USE MaxEventsAssumption, DevicesAssumption
    DEF Seqs, Keyboard, Mouse, guestVars, hostVars

\* Both shapes of message are messages; different samples make different ones.
LEMMA MessageType ==
    /\ Move \in Messages
    /\ \A s \in Seqs : /\ Reliable(s) \in Messages
                       /\ Reliable(s) # Move
                       /\ \A t \in Seqs : Reliable(s) = Reliable(t) => s = t
  <1>1. 0 \in Seqs
    OBVIOUS
  <1>2. Move \in Messages
    BY <1>1 DEF Move, Messages
  <1>3. \A s \in Seqs : Reliable(s) \in Messages
    BY DEF Reliable, Messages
  <1>4. \A s \in Seqs : Reliable(s) # Move
    <2>1. Move.reliable = FALSE
      BY DEF Move
    <2>2. \A s \in Seqs : Reliable(s).reliable = TRUE
      BY DEF Reliable
    <2>3. QED
      BY <2>1, <2>2, Zenon
  <1>5. \A s, t \in Seqs : Reliable(s) = Reliable(t) => s = t
    <2>1. \A s \in Seqs : Reliable(s).seq = s
      BY DEF Reliable
    <2>2. QED
      BY <2>1
  <1>6. QED
    BY <1>2, <1>3, <1>4, <1>5

-----------------------------------------------------------------------------
(* Type correctness. *)

LEMMA InitTypeOK == Init => TypeOK
  BY DEF Init, TypeOK

LEMMA StepTypeOK == TypeOK /\ [Next]_vars => TypeOK'
  <1> SUFFICES ASSUME TypeOK, [Next]_vars PROVE TypeOK'
    OBVIOUS
  <1> USE DEF TypeOK
  <1>1. CASE \E d \in Devices : Capture(d)
    BY <1>1, MessageType DEF Capture
  <1>2. CASE CaptureMove
    BY <1>2, MessageType DEF CaptureMove
  <1>3. CASE \E a \in Seqs : GuestReceiveAck(a)
    BY <1>3 DEF GuestReceiveAck
  <1>4. CASE CheckRepost
    <2>1. CheckWindow \subseteq Seqs
      BY DEF CheckWindow
    <2>2. PICK last \in CheckWindow :
            toHost' = toHost \cup {Reliable(s) : s \in {t \in CheckWindow : t <= last}}
      BY <1>4 DEF CheckRepost
    <2>3. toHost' \subseteq Messages
      BY <2>1, <2>2, MessageType
    <2>4. QED
      BY <1>4, <2>3 DEF CheckRepost
  <1>5. CASE HostMove
    BY <1>5 DEF HostMove, Deliver
  <1>6. ASSUME NEW s \in Seqs, HostReceive(s) PROVE TypeOK'
    <2>1. CASE HostDuplicate(s)
      BY <2>1 DEF HostDuplicate, Deliver
    <2>2. CASE HostExpected(s)
      <3>1. PICK n \in s + 1 .. MaxEvents :
              /\ expectedSeq' = n
              /\ pending' = Drained(s, n)
              /\ injections' = [t \in Seqs |->
                                  IF t = s \/ t \in Replayed(s, n)
                                  THEN injections[t] + 1 ELSE injections[t]]
              /\ toGuest' = toGuest \cup {s, n - 1}
        BY <2>2 DEF HostExpected
      <3>2. toGuest' \subseteq Seqs /\ pending' \subseteq Seqs /\ expectedSeq' \in 0 .. MaxEvents
        BY <3>1 DEF Drained
      <3>3. injections' \in [Seqs -> Nat]
        BY <3>1
      <3>4. QED
        BY <2>2, <3>2, <3>3 DEF HostExpected, Deliver
    <2>3. CASE HostGap(s)
      BY <2>3 DEF HostGap, Deliver, GapAck
    <2>4. QED
      BY <1>6, <2>1, <2>2, <2>3 DEF HostReceive
  <1>7. CASE LoseSample
    BY <1>7 DEF LoseSample
  <1>8. CASE LoseAck
    BY <1>8 DEF LoseAck
  <1>9. CASE UNCHANGED vars
    BY <1>9 DEF vars
  <1>10. QED
    BY <1>1, <1>2, <1>3, <1>4, <1>5, <1>6, <1>7, <1>8, <1>9 DEF Next

\* Every variable keeps its type: in particular no acknowledgement ever
\* carries the wrapped value expectedSeq_ - 1 of a host that expects 0.
THEOREM TypeCorrect == Spec => []TypeOK
  BY InitTypeOK, StepTypeOK, PTL DEF Spec

-----------------------------------------------------------------------------
(* The inductive invariant. *)

LEMMA InitIInv == Init => IInv
  BY InitTypeOK
     DEF IInv, Init, OnlyCaptured, PendingAhead, AcksAreCovered,
         UnreceivedIsKept, InjectionsMatch

\* A capture extends the sender's queue and the path, nothing on the host.
LEMMA CaptureKeepsIInv ==
    ASSUME IInv, TypeOK', NEW d \in Devices, Capture(d)
    PROVE  IInv'
  <1> USE DEF IInv, TypeOK, Capture
  <1>1. OnlyCaptured'
    BY MessageType DEF OnlyCaptured
  <1>2. PendingAhead' /\ AcksAreCovered' /\ UnreceivedIsKept'
    BY DEF PendingAhead, AcksAreCovered, UnreceivedIsKept
  <1>3. InjectionsMatch'
    BY DEF InjectionsMatch, OnlyCaptured
  <1>4. QED
    BY <1>1, <1>2, <1>3

\* An acknowledgement takes from the queue only what the host has passed, and
\* possibly sample 0.
LEMMA AckKeepsIInv ==
    ASSUME IInv, TypeOK', NEW a \in Seqs, GuestReceiveAck(a)
    PROVE  IInv'
  <1> USE DEF IInv, TypeOK, GuestReceiveAck
  <1>1. UnreceivedIsKept'
    BY DEF UnreceivedIsKept, AcksAreCovered
  <1>2. OnlyCaptured' /\ PendingAhead' /\ AcksAreCovered' /\ InjectionsMatch'
    BY DEF OnlyCaptured, PendingAhead, AcksAreCovered, InjectionsMatch
  <1>3. QED
    BY <1>1, <1>2

\* Reposted samples were captured: they come from the sender's queue.
LEMMA RepostKeepsIInv ==
    ASSUME IInv, TypeOK', CheckRepost
    PROVE  IInv'
  <1> USE DEF IInv, TypeOK
  <1>1. PICK last \in CheckWindow :
          toHost' = toHost \cup {Reliable(s) : s \in {t \in CheckWindow : t <= last}}
    BY DEF CheckRepost
  <1>2. CheckWindow \subseteq waitToBeAck
    BY DEF CheckWindow
  <1>3. OnlyCaptured'
    BY <1>1, <1>2, MessageType DEF OnlyCaptured, CheckRepost
  <1>4. PendingAhead' /\ AcksAreCovered' /\ UnreceivedIsKept' /\ InjectionsMatch'
    BY DEF CheckRepost, PendingAhead, AcksAreCovered, UnreceivedIsKept, InjectionsMatch
  <1>5. QED
    BY <1>3, <1>4

\* The expected sample and the run behind it: the host moves to n, the first
\* seq it does not hold.
LEMMA ExpectedKeepsIInv ==
    ASSUME IInv, TypeOK', NEW s \in Seqs, HostExpected(s)
    PROVE  IInv'
  <1> USE DEF IInv, TypeOK
  <1>1. PICK n \in s + 1 .. MaxEvents :
          /\ s + 1 .. n - 1 \subseteq pending
          /\ n \notin pending
          /\ expectedSeq' = n
          /\ pending' = Drained(s, n)
          /\ injections' = [t \in Seqs |->
                              IF t = s \/ t \in Replayed(s, n)
                              THEN injections[t] + 1 ELSE injections[t]]
          /\ toGuest' = toGuest \cup {s, n - 1}
    BY DEF HostExpected
  <1>2. /\ s = expectedSeq /\ s < nextSeq
        /\ toHost' \subseteq toHost
        /\ UNCHANGED <<nextSeq, device, waitToBeAck>>
    BY MessageType DEF HostExpected, Deliver, OnlyCaptured
  <1>3. n <= nextSeq
    <2>1. CASE n = s + 1
      BY <1>2, <2>1
    <2>2. CASE n # s + 1
      <3>1. n - 1 \in s + 1 .. n - 1
        BY <2>2
      <3>2. n - 1 \in pending
        BY <1>1, <3>1
      <3>3. n - 1 < nextSeq
        BY <3>2 DEF OnlyCaptured
      <3>4. QED
        BY <3>3
    <2>3. QED
      BY <2>1, <2>2
  <1>4. OnlyCaptured'
    BY <1>1, <1>2, <1>3 DEF OnlyCaptured, Drained
  <1>5. PendingAhead'
    BY <1>1, <1>2 DEF PendingAhead, Drained
  <1>6. AcksAreCovered'
    BY <1>1, <1>2 DEF AcksAreCovered
  <1>7. UnreceivedIsKept'
    BY <1>1, <1>2 DEF UnreceivedIsKept
  <1>8. InjectionsMatch'
    <2> SUFFICES ASSUME NEW t \in Seqs
                 PROVE  /\ injections'[t] \in {0, 1}
                        /\ n <= t => injections'[t] = 0
                        /\ t < n /\ device[t] = Keyboard => injections'[t] = 1
      BY <1>1, <1>2 DEF InjectionsMatch
    <2>1. injections'[t] = IF t = s \/ t \in Replayed(s, n)
                           THEN injections[t] + 1 ELSE injections[t]
      BY <1>1
    <2>2. t < s => t \notin Replayed(s, n) /\ injections'[t] = injections[t]
      BY <2>1 DEF Replayed
    <2>3. s <= t => injections[t] = 0
      BY <1>2 DEF InjectionsMatch
    <2>4. s <= t /\ t < n /\ device[t] = Keyboard => t = s \/ t \in Replayed(s, n)
      BY DEF Replayed
    <2>5. n <= t => t # s /\ t \notin Replayed(s, n)
      BY DEF Replayed
    <2>6. QED
      BY <1>2, <2>1, <2>2, <2>3, <2>4, <2>5 DEF InjectionsMatch
  <1>9. QED
    BY <1>4, <1>5, <1>6, <1>7, <1>8

\* A repeated sample only brings another acknowledgement.
LEMMA DuplicateKeepsIInv ==
    ASSUME IInv, TypeOK', NEW s \in Seqs, HostDuplicate(s)
    PROVE  IInv'
  <1> USE DEF IInv, TypeOK, HostDuplicate, Deliver
  <1>1. AcksAreCovered'
    BY DEF AcksAreCovered
  <1>2. OnlyCaptured' /\ PendingAhead' /\ UnreceivedIsKept' /\ InjectionsMatch'
    BY DEF OnlyCaptured, PendingAhead, UnreceivedIsKept, InjectionsMatch
  <1>3. QED
    BY <1>1, <1>2

\* A sample beyond a gap was captured, and the acknowledgement stops short of
\* the gap.
LEMMA GapKeepsIInv ==
    ASSUME IInv, TypeOK', NEW s \in Seqs, HostGap(s)
    PROVE  IInv'
  <1> USE DEF IInv, TypeOK, HostGap, Deliver
  <1>1. AcksAreCovered'
    BY DEF AcksAreCovered, GapAck
  <1>2. OnlyCaptured' /\ PendingAhead'
    BY DEF OnlyCaptured, PendingAhead
  <1>3. UnreceivedIsKept' /\ InjectionsMatch'
    BY DEF UnreceivedIsKept, InjectionsMatch
  <1>4. QED
    BY <1>1, <1>2, <1>3

LEMMA StepIInv == IInv /\ [Next]_vars => IInv'
  <1> SUFFICES ASSUME IInv, [Next]_vars PROVE IInv'
    OBVIOUS
  <1>0. TypeOK'
    BY StepTypeOK DEF IInv
  <1> USE <1>0
  <1>1. CASE \E d \in Devices : Capture(d)
    BY <1>1, CaptureKeepsIInv
  <1>2. CASE CaptureMove
    BY <1>2, MessageType
       DEF CaptureMove, IInv, TypeOK, OnlyCaptured, PendingAhead, AcksAreCovered,
           UnreceivedIsKept, InjectionsMatch
  <1>3. CASE \E a \in Seqs : GuestReceiveAck(a)
    BY <1>3, AckKeepsIInv
  <1>4. CASE CheckRepost
    BY <1>4, RepostKeepsIInv
  <1>5. CASE HostMove \/ LoseSample
    <2>1. toHost' \subseteq toHost /\ UNCHANGED <<guestVars, toGuest, hostVars>>
      BY <1>5 DEF HostMove, Deliver, LoseSample
    <2>2. QED
      BY <2>1 DEF IInv, TypeOK, OnlyCaptured, PendingAhead, AcksAreCovered,
                  UnreceivedIsKept, InjectionsMatch
  <1>6. CASE \E s \in Seqs : HostReceive(s)
    BY <1>6, DuplicateKeepsIInv, ExpectedKeepsIInv, GapKeepsIInv DEF HostReceive
  <1>7. CASE LoseAck
    BY <1>7 DEF LoseAck, IInv, TypeOK, OnlyCaptured, PendingAhead, AcksAreCovered,
                UnreceivedIsKept, InjectionsMatch
  <1>8. CASE UNCHANGED vars
    BY <1>8 DEF vars, IInv, TypeOK, OnlyCaptured, PendingAhead, AcksAreCovered,
                UnreceivedIsKept, InjectionsMatch
  <1>9. QED
    BY <1>1, <1>2, <1>3, <1>4, <1>5, <1>6, <1>7, <1>8 DEF Next

LEMMA Invariance == Spec => []IInv
  BY InitIInv, StepIInv, PTL DEF Spec

\* pendingSamples_ never holds a key the receiver is past.
THEOREM PendingStaysAhead == Spec => []PendingAhead
  <1>1. IInv => PendingAhead
    BY DEF IInv
  <1>2. QED
    BY <1>1, Invariance, PTL

\* However samples and acknowledgements are lost, repeated or reordered, the
\* sender keeps every sample after the first until the host is past it.
THEOREM NothingForgotten == Spec => []UnreceivedIsKept
  <1>1. IInv => UnreceivedIsKept
    BY DEF IInv
  <1>2. QED
    BY <1>1, Invariance, PTL

\* An acknowledged key event was injected.
THEOREM KeysInjected == Spec => []KeyboardInjected
  <1>1. IInv => KeyboardInjected
    BY DEF IInv, InjectionsMatch, KeyboardInjected
  <1>2. QED
    BY <1>1, Invariance, PTL

\* When the sender has nothing left to repost and the host got the first sample,
\* every key the guest captured was injected: what checkRepost forgets has arrived
\* (the safety half of DeliveredOnceStarted).
THEOREM AllInjectedAtRest ==
    Spec => [](waitToBeAck = {} /\ expectedSeq > 0 =>
                  \A s \in Seqs : s < nextSeq /\ device[s] = Keyboard => injections[s] = 1)
  <1>1. IInv => (waitToBeAck = {} /\ expectedSeq > 0 =>
                    \A s \in Seqs : s < nextSeq /\ device[s] = Keyboard => injections[s] = 1)
    <2>1. SUFFICES ASSUME IInv, waitToBeAck = {}, expectedSeq > 0,
                          NEW s \in Seqs, s < nextSeq, device[s] = Keyboard
                   PROVE  injections[s] = 1
      OBVIOUS
    <2>2. s < expectedSeq
      BY <2>1 DEF IInv, UnreceivedIsKept
    <2>3. QED
      BY <2>1, <2>2 DEF IInv, InjectionsMatch
  <1>2. QED
    BY <1>1, Invariance, PTL

-----------------------------------------------------------------------------
(* Order, and the promise kept. *)

\* Only HostExpected injects: the effect of any other step on the host's and
\* the guest's counters.
LEMMA OtherSteps ==
    ASSUME [Next]_vars, ~ \E s \in Seqs : HostExpected(s)
    PROVE  /\ UNCHANGED <<expectedSeq, injections>>
           /\ \/ UNCHANGED <<nextSeq, device>>
              \/ \E d \in Devices : Capture(d)
  BY DEF vars, Next, Capture, CaptureMove, GuestReceiveAck, CheckRepost, HostMove,
         HostReceive, HostDuplicate, HostGap, LoseSample, LoseAck

\* What one HostExpected step does to the injection counters, in the terms of
\* the promise: every sample the host has not passed was never injected.
LEMMA ExpectedEffect ==
    ASSUME IInv, IInv', NEW s \in Seqs, HostExpected(s)
    PROVE  /\ expectedSeq < expectedSeq' /\ expectedSeq' <= nextSeq
           /\ UNCHANGED <<nextSeq, device>>
           /\ \A t \in Seqs :
                IF expectedSeq <= t /\ t < expectedSeq' /\ (t = s \/ device[t] = Keyboard)
                THEN injections[t] = 0 /\ injections'[t] = 1
                ELSE injections'[t] = injections[t]
  <1> USE DEF IInv, TypeOK
  <1>1. PICK n \in s + 1 .. MaxEvents :
          /\ expectedSeq' = n
          /\ injections' = [t \in Seqs |->
                              IF t = s \/ t \in Replayed(s, n)
                              THEN injections[t] + 1 ELSE injections[t]]
    BY DEF HostExpected
  <1>2. s = expectedSeq /\ UNCHANGED <<nextSeq, device>>
    BY DEF HostExpected
  <1>3. expectedSeq < expectedSeq' /\ expectedSeq' <= nextSeq
    BY <1>1, <1>2 DEF OnlyCaptured
  <1>4. ASSUME NEW t \in Seqs
        PROVE IF expectedSeq <= t /\ t < expectedSeq' /\ (t = s \/ device[t] = Keyboard)
              THEN injections[t] = 0 /\ injections'[t] = 1
              ELSE injections'[t] = injections[t]
    <2>1. (expectedSeq <= t /\ t < n /\ (t = s \/ device[t] = Keyboard))
             <=> (t = s \/ t \in Replayed(s, n))
      BY <1>1, <1>2 DEF Replayed
    <2>2. expectedSeq <= t => injections[t] = 0
      BY DEF InjectionsMatch
    <2>3. QED
      BY <1>1, <2>1, <2>2
  <1>5. QED
    BY <1>2, <1>3, <1>4

\* A step injects only samples that were never injected, none of them behind
\* a later one: reposted and duplicated samples cannot overtake or repeat.
THEOREM OrderedExactlyOnce == Spec => InjectedInOrder
  <1> DEFINE InOrder == \A s \in Seqs : injections'[s] # injections[s] =>
                          /\ injections[s] = 0 /\ injections'[s] = 1
                          /\ \A t \in Seqs : t > s => injections[t] = 0
  <1>1. IInv /\ IInv' /\ [Next]_vars => [InOrder]_vars
    <2> SUFFICES ASSUME IInv, IInv', [Next]_vars PROVE InOrder
      OBVIOUS
    <2>1. CASE \E s \in Seqs : HostExpected(s)
      <3>1. PICK s \in Seqs : HostExpected(s)
        BY <2>1
      <3> SUFFICES ASSUME NEW t \in Seqs, injections'[t] # injections[t]
                   PROVE  /\ injections[t] = 0 /\ injections'[t] = 1
                          /\ \A u \in Seqs : u > t => injections[u] = 0
        OBVIOUS
      <3>2. expectedSeq <= t /\ injections[t] = 0 /\ injections'[t] = 1
        BY <3>1, ExpectedEffect
      <3>3. \A u \in Seqs : u > t => injections[u] = 0
        BY <3>2 DEF IInv, TypeOK, InjectionsMatch
      <3>4. QED
        BY <3>2, <3>3
    <2>2. CASE ~ \E s \in Seqs : HostExpected(s)
      BY <2>2, OtherSteps
    <2>3. QED
      BY <2>1, <2>2
  <1>2. QED
    BY <1>1, Invariance, PTL DEF Spec, InjectedInOrder

\* The channel implements OrderedInput for keyboard samples: a captured sample
\* is ACapture, the expected sample with its run is AInject, every other step
\* of the sender, the receiver and the path is invisible.
THEOREM ChannelKeepsPromise == Spec => PromiseKept
  <1> USE DEF Promise!Samples
  <1>1. Init => Promise!AInit
    BY DEF Init, Promise!AInit, InjectedOrPassed
  <1>2. IInv /\ IInv' /\ [Next]_vars => [Promise!ANext]_(Promise!avars)
    <2> SUFFICES ASSUME IInv, IInv', [Next]_vars
                 PROVE  [Promise!ANext]_(Promise!avars)
      OBVIOUS
    <2>1. CASE \E s \in Seqs : HostExpected(s)
      <3>1. PICK s \in Seqs : HostExpected(s)
        BY <2>1
      <3>2. /\ expectedSeq < expectedSeq' /\ expectedSeq' <= nextSeq
            /\ UNCHANGED <<nextSeq, device>>
        BY <3>1, ExpectedEffect
      <3>3. PICK n \in expectedSeq + 1 .. nextSeq : expectedSeq' = n
        BY <3>2 DEF IInv, TypeOK
      <3>4. ASSUME NEW t \in Seqs
            PROVE  InjectedOrPassed'[t] = IF t \in expectedSeq .. n - 1
                                          THEN InjectedOrPassed[t] + 1
                                          ELSE InjectedOrPassed[t]
        <4>1. /\ InjectedOrPassed[t] = IF device[t] = Keyboard \/ expectedSeq <= t
                                       THEN injections[t] ELSE 1
              /\ InjectedOrPassed'[t] = IF device[t] = Keyboard \/ n <= t
                                        THEN injections'[t] ELSE 1
          BY <3>2, <3>3 DEF InjectedOrPassed
        <4>2. expectedSeq <= t => injections[t] = 0
          BY DEF IInv, InjectionsMatch
        <4>3. IF expectedSeq <= t /\ t < n /\ (t = s \/ device[t] = Keyboard)
              THEN injections[t] = 0 /\ injections'[t] = 1
              ELSE injections'[t] = injections[t]
          BY <3>1, <3>3, ExpectedEffect
        <4>4. t \in expectedSeq .. n - 1 <=> expectedSeq <= t /\ t < n
          BY DEF IInv, TypeOK
        <4>5. QED
          BY <4>1, <4>2, <4>3, <4>4 DEF IInv, TypeOK
      <3>5. InjectedOrPassed' = [t \in Seqs |-> IF t \in expectedSeq .. n - 1
                                                THEN InjectedOrPassed[t] + 1
                                                ELSE InjectedOrPassed[t]]
        BY <3>4 DEF InjectedOrPassed
      <3>6. Promise!AInject
        BY <3>2, <3>3, <3>5 DEF Promise!AInject
      <3>7. QED
        BY <3>6 DEF Promise!ANext
    <2>2. CASE ~ \E s \in Seqs : HostExpected(s)
      <3>1. CASE UNCHANGED <<nextSeq, device>>
        BY <2>2, <3>1, OtherSteps DEF Promise!avars, InjectedOrPassed
      <3>2. CASE \E d \in Devices : Capture(d)
        <4>1. /\ UNCHANGED <<expectedSeq, injections>>
              /\ nextSeq < MaxEvents /\ nextSeq' = nextSeq + 1
              /\ \A t \in Seqs : t < expectedSeq => device'[t] = device[t]
          BY <3>2 DEF Capture, OnlyCaptured, IInv, TypeOK
        <4>2. InjectedOrPassed' = InjectedOrPassed
          BY <4>1 DEF IInv, TypeOK, InjectedOrPassed
        <4>3. Promise!ACapture
          BY <4>1, <4>2 DEF Promise!ACapture
        <4>4. QED
          BY <4>3 DEF Promise!ANext
      <3>3. QED
        BY <2>2, <3>1, <3>2, OtherSteps
    <2>3. QED
      BY <2>1, <2>2
  <1>3. QED
    BY <1>1, <1>2, Invariance, InitIInv, PTL DEF Spec, PromiseKept, Promise!ASpec
=============================================================================
