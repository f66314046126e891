---------------------------- MODULE OrderedInput ----------------------------
(***************************************************************************)
(* What the input channel promises its user, without a network: reliable   *)
(* input samples (key and mouse-button events, wheel turns) are numbered   *)
(* in the order the guest captures them and the host injects each of them  *)
(* exactly once, in that order, possibly several at a time.                *)
(***************************************************************************)
EXTENDS Naturals

CONSTANT MaxEvents      \* how many samples the guest may capture

VARIABLES
    captured,           \* number of samples the guest has captured
    applied,            \* the samples 0 .. applied-1 have been injected
    injections          \* injections[s]: how often sample s was injected

avars == <<captured, applied, injections>>

Samples == 0 .. MaxEvents - 1

AInit ==
    /\ captured = 0
    /\ applied = 0
    /\ injections = [s \in Samples |-> 0]

ACapture ==
    /\ captured < MaxEvents
    /\ captured' = captured + 1
    /\ UNCHANGED <<applied, injections>>

\* The host injects the next samples, a run of at least one.
AInject ==
    \E n \in applied + 1 .. captured :
        /\ applied' = n
        /\ injections' = [s \in Samples |->
                            IF s \in applied .. n - 1
                            THEN injections[s] + 1 ELSE injections[s]]
        /\ UNCHANGED captured

ANext == ACapture \/ AInject

ASpec == AInit /\ [][ANext]_avars

\* Nothing captured stays uninjected for ever.
AFairSpec == ASpec /\ WF_avars(AInject)
=============================================================================
