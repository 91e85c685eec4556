----------------------------- MODULE MCVoiceCalls -----------------------------
(* Instances of VoiceCalls for TLC.                                        *)
EXTENDS VoiceCalls, TLC

CONSTANTS n1, n2, n3, n4, n5, n6

Base ==
  [notifyDashboard |-> TRUE, notifySlack |-> FALSE, notifyWhatsapp |-> FALSE,
   notifyEmail |-> FALSE, notifyVoice |-> TRUE, notifyMinSeverity |-> "MEDIUM",
   escalationEnabled |-> TRUE, escalationMaxStage |-> 2, voiceEnabled |-> TRUE,
   voiceCriticalEvents |-> {"OFFER", "INTERVIEW"}, cleanupCategories |-> {},
   voiceMaxCallsPerDay |-> 2, voiceQuietHoursStart |-> 0, voiceQuietHoursEnd |-> 0]

(* No calls in the night, which wraps midnight; or none at all.            *)
ByDay     == [Base EXCEPT !.voiceQuietHoursStart = 1, !.voiceQuietHoursEnd = 0]
NoCalls   == [ByDay EXCEPT !.voiceEnabled = FALSE]

SomeSettings == {ByDay, NoCalls}

Offer == [category |-> "JOB", subCategory |-> "OFFER", requiresAction |-> TRUE,
          needsReview |-> FALSE, isUnwanted |-> FALSE, isProtectedSender |-> FALSE,
          deadline |-> NoDeadline]

Accepted == [Offer EXCEPT !.subCategory = "OFFER_ACCEPTED"]

SomeEmails == {Offer, Accepted}
SomeFaults == {"flush", "crash", "lost", "incr", "get", "count"}

Symmetric == Permutations(Notifications)
=============================================================================
