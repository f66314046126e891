---------------------------- MODULE InputCapture ----------------------------
(***************************************************************************)
(* InputCapture: the way of a key or a mouse button from the guest's user  *)
(* to the host's system.                                                   *)
(*                                                                         *)
(* VideoWidget takes control when it is clicked and gives it up when it    *)
(* loses the focus.  It tells InputCapture three times: once directly from *)
(* the window's thread (InputService::setControlActive) and twice through  *)
(* the event queue of the worker's thread, where the keyboard hook runs.   *)
(* The direct call can fall between the two halves of the hook: the test   *)
(* of controlActive_ and the handling of the key.  Each access to the two  *)
(* containers is taken as atomic, though nothing in the code makes it so.  *)
(*                                                                         *)
(* The channel below is InputChannel: samples arrive in the order they     *)
(* were sent, but a mouse sample that waited for a missing one is ignored. *)
(***************************************************************************)
EXTENDS Naturals, Sequences

CONSTANTS
    Keys, Esc,              \* the virtual keys, of both sides; VK_ESCAPE is one of them
    Button,                 \* the mouse button, on both sides
    MaxPosted, MaxInFlight  \* bounds on the two queues

ASSUME KeysAssumption == Esc \in Keys /\ Button \notin Keys
ASSUME BoundAssumption == MaxPosted \in Nat /\ MaxInFlight \in Nat

VARIABLES
    down,                   \* the keys and the button the user holds
    localHeld,              \* the keys the guest's own system takes for held
    inputControlActive,     \* of VideoWidget
    posted,                 \* events posted to the worker's thread
    hooked, controlActive,  \* keyboardHook_, controlActive_
    keyMappings,            \* set by the constructor
    mapped,                 \* activeMappings_; its domain is pressedKeys_
    hook,                   \* the key whose handling has passed the first test
    toInject,               \* samples on their way
    hostHeld,               \* what the host's system takes for held
    forgotten,              \* history: held on the host, but no longer known to the guest
    crossed                 \* history: keys that were down when control was taken

capture == <<hooked, controlActive, keyMappings, mapped, hook>>
history == <<forgotten, crossed>>
captureVars ==
    <<down, localHeld, inputControlActive, posted, capture, toInject, hostHeld, history>>

Idle == [key |-> Esc, pressed |-> FALSE, busy |-> FALSE]

Buttons == {Button}
Targets == Keys \cup Buttons
Sample == [target : Targets, pressed : BOOLEAN]
PartialMaps == UNION {[S -> Keys] : S \in SUBSET (Keys \ {Esc})}

CaptureTypeOK ==
    /\ down \subseteq Keys \cup Buttons /\ localHeld \subseteq Keys
    /\ inputControlActive \in BOOLEAN /\ hooked \in BOOLEAN /\ controlActive \in BOOLEAN
    /\ posted \in Seq({"on", "off", "down", "up"})
    /\ keyMappings \in PartialMaps /\ mapped \in PartialMaps
    /\ hook \in [key : Keys, pressed : BOOLEAN, busy : BOOLEAN]
    /\ toInject \in Seq(Sample)
    /\ hostHeld \subseteq Targets /\ forgotten \subseteq Targets
    /\ crossed \subseteq Keys

CaptureInit ==
    /\ down = {} /\ localHeld = {} /\ inputControlActive = FALSE
    /\ posted = <<>> /\ hooked = FALSE /\ controlActive = FALSE
    /\ keyMappings \in PartialMaps /\ mapped = <<>> /\ hook = Idle
    /\ toInject = <<>> /\ hostHeld = {} /\ forgotten = {} /\ crossed = {}

pressedKeys == DOMAIN mapped

-----------------------------------------------------------------------------
(* InputCapture *)

Remaining == <<>>

\* setControlActive
SetControlActive(active) ==
    /\ controlActive' = active
    /\ mapped' = IF active THEN mapped ELSE Remaining
    /\ forgotten' = IF active THEN forgotten
                              ELSE forgotten \cup {mapped[k] : k \in pressedKeys}
    /\ crossed' = IF active /\ ~controlActive /\ hooked
                  THEN crossed \cup (down \cap Keys) ELSE crossed

\* start(), when the connection is ready.
StartCapture ==
    /\ ~hooked
    /\ hooked' = TRUE
    /\ crossed' = IF controlActive THEN down \cap Keys ELSE crossed
    /\ UNCHANGED <<down, localHeld, inputControlActive, posted, controlActive, keyMappings,
                   mapped, hook, toInject, hostHeld, forgotten>>

\* Fault: the guest's own system sees a key go down even under control.
Swallowed_UpOnly(p) == hooked /\ controlActive /\ ~p

\* The hook eats every event while control is active.
Swallowed(p) == hooked /\ controlActive

\* The user presses, holds or releases key k; the system calls the hook, which
\* tests controlActive_ and the escape key.
UserKey(k, p) ==
    /\ ~hook.busy /\ Len(toInject) < MaxInFlight
    /\ p \/ k \in down
    /\ down' = IF p THEN down \cup {k} ELSE down \ {k}
    /\ IF Swallowed(p)
       THEN UNCHANGED localHeld
       ELSE localHeld' = IF p THEN localHeld \cup {k} ELSE localHeld \ {k}
    /\ IF hooked /\ controlActive
       THEN IF k = Esc /\ p
            THEN SetControlActive(FALSE) /\ UNCHANGED hook
            ELSE /\ hook' = [key |-> k, pressed |-> p, busy |-> TRUE]
                 /\ UNCHANGED <<controlActive, mapped, forgotten, crossed>>
       ELSE /\ crossed' = IF p THEN crossed ELSE crossed \ {k}
            /\ UNCHANGED <<controlActive, mapped, hook, forgotten>>
    /\ UNCHANGED <<inputControlActive, posted, hooked, keyMappings, toInject, hostHeld>>

Send(h, p) == toInject' = Append(toInject, [target |-> h, pressed |-> p])

\* Fault: a key without a mapping is looked up without a default.
MappedTo_NoDefault(k) == IF k \in DOMAIN keyMappings THEN keyMappings[k] ELSE 0

\* mapKey, for a key that goes down: a key without a mapping keeps its own code.
MappedTo(k) == IF k \in DOMAIN keyMappings THEN keyMappings[k] ELSE k

\* Fault: a key goes up under its own code.
Released_Itself(k) == k

\* mapKey, for a key that goes up: what it was mapped to when it went down.
Released(k) == mapped[k]

\* The rest of handleKeyboardEvent: a repeated key down, and a key up that has
\* no key down, are not sent.
HandleKey ==
    LET k == hook.key IN
    /\ hook.busy
    /\ hook' = Idle
    /\ \/ /\ hook.pressed /\ k \notin pressedKeys
          /\ mapped' = [j \in pressedKeys \cup {k} |->
                          IF j = k THEN MappedTo(k) ELSE mapped[j]]
          /\ Send(MappedTo(k), TRUE)
          /\ UNCHANGED forgotten
       \/ /\ ~hook.pressed /\ k \in pressedKeys
          /\ mapped' = [j \in pressedKeys \ {k} |-> mapped[j]]
          /\ Send(Released(k), FALSE)
          /\ forgotten' = forgotten \ {Released(k)}
       \/ /\ hook.pressed <=> k \in pressedKeys
          /\ UNCHANGED <<mapped, toInject, forgotten>>
    /\ UNCHANGED <<down, localHeld, inputControlActive, posted, hooked, controlActive,
                   keyMappings, hostHeld, crossed>>

-----------------------------------------------------------------------------
(* VideoWidget, in the window's thread *)

\* Fault: the change is only told directly.
Posts_None(e) == posted

\* What a change of control posts, besides the direct call.
Posts(e) == posted \o <<e, e>>

\* mousePressEvent: a click takes control if the widget does not have it.
PressButton ==
    /\ Button \notin down
    /\ Len(posted) + 3 <= MaxPosted
    /\ down' = down \cup Buttons
    /\ IF inputControlActive
       THEN /\ posted' = Append(posted, "down")
            /\ UNCHANGED <<inputControlActive, controlActive, mapped, history>>
       ELSE /\ inputControlActive' = TRUE
            /\ SetControlActive(TRUE)
            /\ posted' = Append(Posts("on"), "down")
    /\ UNCHANGED <<localHeld, hooked, keyMappings, hook, toInject, hostHeld>>

\* mouseReleaseEvent: not reported by a widget that has lost control.
ReleaseButton ==
    /\ Button \in down
    /\ Len(posted) < MaxPosted
    /\ down' = down \ Buttons
    /\ IF inputControlActive
       THEN posted' = Append(posted, "up") /\ forgotten' = forgotten \ Buttons
       ELSE forgotten' = forgotten \cup Buttons /\ UNCHANGED posted
    /\ UNCHANGED <<localHeld, inputControlActive, capture, toInject, hostHeld, crossed>>

\* focusOutEvent, closeEvent
FocusOut ==
    /\ inputControlActive
    /\ Len(posted) + 2 <= MaxPosted
    /\ inputControlActive' = FALSE
    /\ SetControlActive(FALSE)
    /\ posted' = Posts("off")
    /\ UNCHANGED <<down, localHeld, hooked, keyMappings, hook, toInject, hostHeld>>

-----------------------------------------------------------------------------
(* The worker's thread takes its next event; it is not inside the hook. *)

WorkerTakesControl ==
    /\ ~hook.busy
    /\ posted # <<>> /\ Head(posted) \in {"on", "off"}
    /\ posted' = Tail(posted)
    /\ SetControlActive(Head(posted) = "on")
    /\ UNCHANGED <<down, localHeld, inputControlActive, hooked, keyMappings, hook, toInject,
                   hostHeld>>

\* onMouseInputSampleReady
WorkerTakesMouse ==
    /\ ~hook.busy
    /\ posted # <<>> /\ Head(posted) \in {"down", "up"}
    /\ Len(toInject) < MaxInFlight
    /\ posted' = Tail(posted)
    /\ Send(Button, Head(posted) = "down")
    /\ UNCHANGED <<down, localHeld, inputControlActive, capture, hostHeld, history>>

\* Fault: a key or button that goes up is injected without its KEYUP flag.
Injected_NoUpFlag(held, e) == held \cup {e.target}

\* What the host holds after sample e.
Injected(held, e) == IF e.pressed THEN held \cup {e.target} ELSE held \ {e.target}

\* InputReceiver and InputInjector execute the next sample; a mouse sample that
\* had to wait for a missing one is ignored.
HostExecutes ==
    LET e == Head(toInject) IN
    /\ toInject # <<>>
    /\ toInject' = Tail(toInject)
    /\ \/ hostHeld' = Injected(hostHeld, e) /\ UNCHANGED forgotten
       \/ /\ e.target = Button
          /\ forgotten' = IF e.pressed THEN forgotten ELSE forgotten \cup Buttons
          /\ UNCHANGED hostHeld
    /\ UNCHANGED <<down, localHeld, inputControlActive, posted, capture, crossed>>

-----------------------------------------------------------------------------
CaptureNext ==
    \/ StartCapture
    \/ \E k \in Keys, p \in BOOLEAN : UserKey(k, p)
    \/ HandleKey
    \/ PressButton
    \/ ReleaseButton
    \/ FocusOut
    \/ WorkerTakesControl
    \/ WorkerTakesMouse
    \/ HostExecutes

CaptureSpec == CaptureInit /\ [][CaptureNext]_captureVars

\* The hook returns, the event loop of the worker runs, and the channel delivers.
CaptureFairSpec ==
    /\ CaptureSpec
    /\ WF_captureVars(HandleKey)
    /\ WF_captureVars(WorkerTakesControl) /\ WF_captureVars(WorkerTakesMouse)
    /\ WF_captureVars(HostExecutes)

-----------------------------------------------------------------------------
(* The last element of queue s that matters *)

\* s has an element of A.
Mentions(s, A) == \E i \in DOMAIN s : s[i] \in A

\* The last element of s that is in A is p.
LastIs(s, A, p) ==
    \E i \in DOMAIN s : s[i] = p /\ \A j \in DOMAIN s : s[j] \in A => j <= i

Clicks == {"down", "up"}
Switches == {"on", "off"}
SamplesOf(h) == [target : {h}, pressed : BOOLEAN]

\* What the host will hold when all samples on their way have arrived.
WillArrive ==
    {h \in Targets : IF Mentions(toInject, SamplesOf(h))
                     THEN LastIs(toInject, SamplesOf(h), [target |-> h, pressed |-> TRUE])
                     ELSE h \in hostHeld}

\* What it will hold when the clicks have followed that the worker has not taken.
WillBeHeld ==
    {h \in Targets : IF h = Button /\ Mentions(posted, Clicks)
                     THEN LastIs(posted, Clicks, "down")
                     ELSE h \in WillArrive}

\* A key held on the host for good has a cause: the guest knows a key that is
\* down and will release it when that key goes up, or the widget knows the button
\* is down, or it was forgotten when control was given up (InputCapture::mapKey,
\* doc/input_api.md:395).
HeldHasCause ==
    WillBeHeld \subseteq {mapped[k] : k \in pressedKeys} \cup (down \cap Buttons) \cup forgotten

\* The guest's own system takes a key for held, that the user does not hold, only
\* if the key was down when control was taken: its release was eaten by the hook
\* (InputCapture::handleKeyboardEvent).
LocalHeldHasCause == localHeld \ down \subseteq crossed

\* Once the worker's thread has caught up with the window's, the keys the guest
\* believes to be pressed are down, and control is active only if the widget has
\* it, whatever the direct calls have raced with.
CaptureAgreesWithUser ==
    posted = <<>> /\ ~hook.busy =>
        /\ pressedKeys \subseteq down
        /\ controlActive => inputControlActive

\* When the user lets go of everything, the host does too, except of what was
\* forgotten (InputCapture, InputSender, InputReceiver together).
LettingGoLetsGo ==
    down = {} ~> (hostHeld \subseteq forgotten \/ down # {})
=============================================================================
