---------------------------- MODULE ServiceStartup ----------------------------
(***************************************************************************)
(* ServiceStartup: how the services of one client come up, and what they   *)
(* hand to each other meanwhile.                                           *)
(*                                                                         *)
(* ClientApp gives every service its role and connects them; when the      *)
(* session is ready, P2pSessionWorker tells the services one by one, in    *)
(* the order their slots were connected.  Every service has a thread with  *)
(* an event queue, and all of them run while the session's thread is still *)
(* telling the rest.  A media or control service that does not run yet     *)
(* refuses what it is given, and nothing but a log entry remembers it.     *)
(*                                                                         *)
(* What is sent is not followed into the session, nor is what is received  *)
(* after its last service: UdpPacketQueue, UdpReassembly, AudioStream,     *)
(* KeyFrameRecovery, RateControl and InputChannel model these.             *)
(***************************************************************************)
EXTENDS Naturals, Sequences

CONSTANTS
    MaxEvents               \* bound on the events in all queues, for what comes from outside

ASSUME BoundAssumption == MaxEvents \in Nat

VARIABLES
    role,                   \* of ClientApp
    online,                 \* bound, connected, and back in the event loop
    p2pReady,               \* p2pReady_ of the session
    toBeTold,               \* the threads p2pReady has still to be posted to
    queue,                  \* per thread: the events posted to it
    serviceRole, running    \* role_ and running_ per service

startupVars == <<role, online, p2pReady, toBeTold, queue, serviceRole, running>>

Services == {"media", "control", "audio", "input"}
Threads == Services \cup {"main", "encoder", "decoder", "monitor"}
Roles == {"Unknown", "Host", "Guest"}

Kinds == {"video", "audio", "input", "mouse", "keyFrameRequest", "report"}

\* What is posted: a role, the news of the session, or a sample to be sent or
\* received; early if the session received it before it was ready.
Event == [do : {"role", "ready", "send", "receive"}, what : Kinds \cup Roles, early : BOOLEAN]

RoleEvent(r) == [do |-> "role", what |-> r, early |-> FALSE]
Ready == [do |-> "ready", what |-> "Unknown", early |-> FALSE]
ToSend(k) == [do |-> "send", what |-> k, early |-> FALSE]
Received(k, early) == [do |-> "receive", what |-> k, early |-> early]

StartupTypeOK ==
    /\ role \in Roles
    /\ online \in BOOLEAN /\ p2pReady \in BOOLEAN
    /\ toBeTold \in Seq(Threads)
    /\ queue \in [Threads -> Seq(Event)]
    /\ serviceRole \in [Services -> Roles]
    /\ running \in [Services \cup {"main"} -> BOOLEAN]

StartupInit ==
    /\ role = "Unknown" /\ online = FALSE
    /\ p2pReady = FALSE /\ toBeTold = <<>>
    /\ queue = [t \in Threads |-> <<>>]
    /\ serviceRole = [s \in Services |-> "Unknown"]
    /\ running = [t \in Services \cup {"main"} |-> FALSE]

\* posts[t] is added to the queue of each thread t that it is defined for.
Post(q, posts) == [t \in Threads |-> IF t \in DOMAIN posts THEN q[t] \o posts[t] ELSE q[t]]

Waiting == [t \in Threads |-> Len(queue[t])]

\* Bound: the outside waits while many events are under way.
FewEvents ==
    LET total[S \in SUBSET Threads] ==
            IF S = {} THEN 0
            ELSE LET t == CHOOSE t \in S : TRUE IN Waiting[t] + total[S \ {t}]
    IN total[Threads] < MaxEvents

-----------------------------------------------------------------------------
(* ClientApp *)

\* Fault: the input service is not told its role.
RolePosts_NoInput(r) == [t \in {"audio"} |-> <<RoleEvent(r)>>]

\* The roles that are posted; media and control wait for theirs to be taken.
RolePosts(r) == [t \in {"audio", "input"} |-> <<RoleEvent(r)>>]

\* Fault: a second start leaves the role of the control service alone.
BlockingRoles_First(r) ==
    [s \in {"media", "control"} |->
        IF s = "control" /\ role # "Unknown" THEN serviceRole[s] ELSE r]

BlockingRoles(r) == [s \in {"media", "control"} |-> r]

\* startAsHost, startAsGuest.  When the port cannot be bound, the input service
\* keeps its role, nothing is connected, and the application may start again.
StartAs(r, bound) ==
    /\ ~online /\ FewEvents
    /\ role' = r
    /\ serviceRole' = [s \in Services |->
          IF s \in {"media", "control"} THEN BlockingRoles(r)[s] ELSE serviceRole[s]]
    /\ online' = bound
    /\ queue' = Post(queue, IF bound THEN RolePosts(r)
                            ELSE [t \in {"audio"} |-> <<RoleEvent(r)>>])
    /\ UNCHANGED <<p2pReady, toBeTold, running>>

-----------------------------------------------------------------------------
(* The session's thread *)

\* Fault: the audio service is connected first.
TellOrder_AudioFirst == <<"main", "audio", "media", "control", "input">>

\* Fault: the news is posted to the session itself instead of the main thread.
TellOrder_NoRelay == <<"session", "media", "control", "audio", "input">>

\* The order of the connections: P2pSession relays to the main thread, then
\* ClientApp::connectCommonSignals.
TellOrder == <<"main", "media", "control", "audio", "input">>

\* markP2pReady
MarkP2pReady ==
    /\ online /\ ~p2pReady
    /\ p2pReady' = TRUE
    /\ toBeTold' = TellOrder
    /\ UNCHANGED <<role, online, queue, serviceRole, running>>

Tell ==
    /\ toBeTold # <<>>
    /\ toBeTold' = Tail(toBeTold)
    /\ queue' = Post(queue, [t \in {Head(toBeTold)} |-> <<Ready>>])
    /\ UNCHANGED <<role, online, p2pReady, serviceRole, running>>

\* What the peer's services send.
FromPeer == IF role = "Host" THEN {"audio", "input", "keyFrameRequest", "report"}
                             ELSE {"video", "audio", "input"}

MediaKinds == {"video", "audio"}

\* onFrameReady: frames are handed on whether or not the session is ready, but
\* not in the middle of its own news.
SessionReceives(k) ==
    /\ online /\ toBeTold = <<>> /\ FewEvents
    /\ k \in FromPeer
    /\ queue' = Post(queue, [t \in {IF k \in MediaKinds THEN "media" ELSE "control"} |->
                                <<Received(k, ~p2pReady)>>])
    /\ UNCHANGED <<role, online, p2pReady, toBeTold, serviceRole, running>>

-----------------------------------------------------------------------------
(* The threads take their events one by one. *)

\* canSend
MaySend(s, k) ==
    \/ s = "media" /\ k \in MediaKinds
    \/ s = "control" /\ k \in {"input", "mouse", "report"}
    \/ s = "control" /\ k = "keyFrameRequest" /\ serviceRole[s] = "Guest"

\* Does service s, media or control, let event e pass?
Accepts(s, e) ==
    /\ running[s]
    /\ e.do = "send" => serviceRole[s] # "Unknown" /\ MaySend(s, e.what)

\* Where a sample that media or control has received goes; the connections of
\* the role decide whether anybody is there.
Onward(k) ==
    CASE k = "video" -> IF role = "Guest" THEN {"decoder", "monitor"} ELSE {}
      [] k = "audio" -> {"audio"}
      [] k = "input" -> {"input"}
      [] k = "keyFrameRequest" -> IF role = "Host" THEN {"encoder"} ELSE {}
      [] OTHER -> {}

\* What a thread posts when it takes event e: media and control hand on what they
\* receive; the decoder may ask for a key frame, the monitor may report, the
\* encoder encodes the image; the host acknowledges input; a click is sent on.
Answers(t, e) ==
    CASE t \in {"media", "control"} /\ e.do = "receive" /\ Accepts(t, e) ->
            {[n \in Onward(e.what) |-> <<e>>]}
      [] t = "decoder" -> {<<>>, [n \in {"control"} |-> <<ToSend("keyFrameRequest")>>]}
      [] t = "monitor" -> {<<>>, [n \in {"control"} |-> <<ToSend("report")>>]}
      [] t = "encoder" /\ e.do = "send" -> {<<>>, [n \in {"media"} |-> <<ToSend("video")>>]}
      [] t = "input" /\ e.do = "receive" /\ serviceRole[t] = "Host" ->
            {[n \in {"control"} |-> <<ToSend("input")>>]}
      [] t = "input" /\ e.do = "send" /\ serviceRole[t] = "Guest" ->
            {[n \in {"control"} |-> <<e>>]}
      [] OTHER -> {<<>>}

\* setRole, start, and the samples.  A service without a role does not start;
\* on the main thread the host starts to take pictures of its screen.
Take(t) ==
    LET e == Head(queue[t]) IN
    /\ queue[t] # <<>>
    /\ serviceRole' = IF e.do = "role" THEN [serviceRole EXCEPT ![t] = e.what] ELSE serviceRole
    /\ running' = IF e.do # "ready" THEN running
                  ELSE [running EXCEPT ![t] =
                          IF t = "main" THEN role = "Host" ELSE serviceRole[t] # "Unknown"]
    /\ \E a \in Answers(t, e) : queue' = Post([queue EXCEPT ![t] = Tail(@)], a)
    /\ UNCHANGED <<role, online, p2pReady, toBeTold>>

-----------------------------------------------------------------------------
(* What begins in a service that runs, and what the user does *)

Begins(t, posts) ==
    /\ FewEvents
    /\ queue' = Post(queue, posts)
    /\ UNCHANGED <<role, online, p2pReady, toBeTold, serviceRole, running>>

\* ScreenVideoSource's timer, on the main thread.
ScreenShot == running["main"] /\ Begins("main", [t \in {"encoder"} |-> <<ToSend("video")>>])

\* A captured frame of the microphone or the desktop.
CaptureAudio == running["audio"] /\ Begins("audio", [t \in {"media"} |-> <<ToSend("audio")>>])

\* The keyboard hook of the guest, the mouse timer of the host.
CaptureInput == running["input"] /\ Begins("input", [t \in {"control"} |-> <<ToSend("input")>>])

\* The user clicks into the video window, which the guest shows at once.
Click == role = "Guest" /\ Begins("main", [t \in {"input"} |-> <<ToSend("mouse")>>])

-----------------------------------------------------------------------------
StartupNext ==
    \/ \E r \in {"Host", "Guest"}, bound \in BOOLEAN : StartAs(r, bound)
    \/ MarkP2pReady
    \/ Tell
    \/ \E k \in Kinds : SessionReceives(k)
    \/ \E t \in Threads : Take(t)
    \/ ScreenShot
    \/ CaptureAudio
    \/ CaptureInput
    \/ Click

StartupSpec == StartupInit /\ [][StartupNext]_startupVars

\* Every thread runs.
StartupFairSpec == StartupSpec /\ WF_startupVars(Tell) /\ \A t \in Threads : WF_startupVars(Take(t))

-----------------------------------------------------------------------------
\* Media and control refuse nothing but what came too early: a frame the session
\* received before it was ready, the video of a host whose main thread is ahead
\* of the session's, a click before the session was ready.  So no audio, no key
\* frame request, no report and no key is ever lost to the order in which the
\* services start (ClientApp::connectCommonSignals).
RefusedOnlyEarly ==
    \A s \in {"media", "control"} :
        queue[s] # <<>> =>
            LET e == Head(queue[s]) IN
            e.do \in {"send", "receive"} /\ ~Accepts(s, e) =>
                e.early \/ (e.do = "send" /\ e.what \in {"video", "mouse"})

\* Whatever runs, runs in the role the application was last started in.
RunningHasRole == \A s \in Services : running[s] => serviceRole[s] = role

\* Every service comes up once the session is ready, and the host's screen is
\* captured.
ReadyStartsAll ==
    p2pReady ~> \A s \in Services : running[s] /\ (role = "Host" => running["main"])
=============================================================================
