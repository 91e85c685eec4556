----------------------------- MODULE MCEscalation -----------------------------
(* Instances of Escalation for TLC.                                        *)
EXTENDS Escalation, TLC

CONSTANTS w1, w2, d1, d2

(* Two plans of different lengths, so that a re-fire can shrink or extend  *)
(* the ladder under a job of the earlier plan.                             *)
MixedLadders == { << "SLACK" >>, << "SLACK", "VOICE" >> }
FullLadder   == { << "SLACK", "WHATSAPP", "VOICE" >> }

Everything == Requests \cup Faults

(* What the safety run allows; the other requests and faults are in the    *)
(* liveness run.                                                           *)
SafetyEvents == {"fire", "retry", "pause", "reconcile", "crash"}

LongLadders == { << "SLACK", "VOICE" >> }
LivenessEvents == {"fire", "crash", "flush", "refuse", "evict"}

FireEvents  == {"fire"}

Symmetric == Permutations({w1, w2}) \cup Permutations({d1, d2})
=============================================================================
