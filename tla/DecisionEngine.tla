---------------------------- MODULE DecisionEngine ----------------------------
(***************************************************************************)
(* decide: from an analysed email and its user's settings to the           *)
(* notification, its escalation ladder and whether a call may be placed.   *)
(* The function is pure.  DecisionChanges follows it through changes of    *)
(* its inputs, and VoiceCalls takes the plan of every notification from it. *)
(***************************************************************************)
EXTENDS Integers, Sequences, SequencesExt

CONSTANT NoDeadline   \* the deadline of an email that states none

SeverityOrder == << "INFO", "LOW", "MEDIUM", "HIGH", "CRITICAL" >>
Severity      == ToSet(SeverityOrder)
Rank(sev)     == CHOOSE i \in 1..5 : SeverityOrder[i] = sev

SeverityAtLeast(actual, minimum) == Rank(actual) >= Rank(minimum)

EscalationStages == << "SLACK", "WHATSAPP", "VOICE" >>

HighImportance ==
  {"SHORTLISTED", "ASSESSMENT", "INTERVIEW", "NEXT_ROUND", "FINAL_ROUND", "OFFER",
   "OFFER_ACCEPTED", "RECRUITER_CONTACT"}
NeverCleanup   == {"JOB", "PERSONAL", "TRANSACTIONAL"}
Bulk           == {"PROMOTIONAL", "SPAM", "NEWSLETTER"}
Rounds         == {"INTERVIEW", "FINAL_ROUND", "NEXT_ROUND"}
Offers         == {"OFFER", "OFFER_ACCEPTED"}
Terminals      == {"REJECTION", "WITHDRAWN"}

(* EmailCategory and JobSubCategory, and null for mail that has none.      *)
Category    == {"JOB", "PROMOTIONAL", "SPAM", "NEWSLETTER", "SOCIAL", "PERSONAL",
                "TRANSACTIONAL", "OTHER"}
SubCategory == {"APPLICATION_RECEIVED", "APPLICATION_ACKNOWLEDGED", "SHORTLISTED", "ASSESSMENT",
                "INTERVIEW", "NEXT_ROUND", "FINAL_ROUND", "RECRUITER_CONTACT", "OFFER",
                "OFFER_ACCEPTED", "REJECTION", "WITHDRAWN", "JOB_ALERT", "OTHER_JOB", "NONE"}

Email == [category : Category, subCategory : SubCategory, requiresAction : BOOLEAN,
          needsReview : BOOLEAN, isUnwanted : BOOLEAN, isProtectedSender : BOOLEAN,
          deadline : Int \cup {NoDeadline}]

Within(e, days) == e.deadline # NoDeadline /\ e.deadline <= days

(* Faulty variant: a deadline that has passed presses nobody.              *)
SeverityIgnoringPast(e) ==
  LET pressing == (Within(e, 7) /\ e.deadline >= 0) \/ e.requiresAction
  IN  IF e.subCategory \in Offers THEN "CRITICAL"
      ELSE IF e.subCategory \in Rounds /\ pressing THEN "CRITICAL" ELSE "HIGH"

(* severityForJobEvent.  A deadline that has passed counts as imminent.    *)
SeverityForJobEvent(e) ==
  LET pressing == Within(e, 7) \/ e.requiresAction
      sub      == e.subCategory
  IN  CASE sub \in Offers -> "CRITICAL"
        [] sub \in Rounds \cup {"ASSESSMENT"} -> IF pressing THEN "CRITICAL" ELSE "HIGH"
        [] sub \in {"SHORTLISTED"} \cup Terminals -> "HIGH"
        [] sub = "RECRUITER_CONTACT" -> IF e.requiresAction THEN "HIGH" ELSE "MEDIUM"
        [] sub \in {"APPLICATION_ACKNOWLEDGED", "APPLICATION_RECEIVED"} -> "MEDIUM"
        [] sub \in {"JOB_ALERT", "OTHER_JOB"} -> "LOW"
        [] OTHER -> IF e.requiresAction THEN "MEDIUM" ELSE "LOW"

SeverityOf(e) ==
  IF e.category = "JOB" THEN SeverityForJobEvent(e)
  ELSE IF e.needsReview THEN "MEDIUM" ELSE "LOW"

NotificationTypeFor(e) ==
  LET sub == e.subCategory
  IN  CASE e.needsReview -> "REVIEW_REQUIRED"
        [] ~e.needsReview /\ e.category # "JOB" -> "NONE"
        [] OTHER ->
             CASE sub \in Offers -> "OFFER_RECEIVED"
               [] sub \in Terminals -> "REJECTION_RECEIVED"
               [] sub = "RECRUITER_CONTACT" -> "RECRUITER_ACTION"
               [] sub \in Rounds \cup {"ASSESSMENT", "SHORTLISTED"} ->
                    IF e.requiresAction THEN "RECRUITER_ACTION" ELSE "JOB_STATUS_CHANGE"
               [] OTHER -> "JOB_STATUS_CHANGE"

VoiceEvents == {"OFFER", "INTERVIEW", "ASSESSMENT", "RECRUITER_ACTION", "DEADLINE_APPROACHING"}

(* Faulty variant: the sub-category itself, which no settings list.        *)
VoiceEventKeyRaw(e) == e.subCategory

VoiceEventKeyFor(e) ==
  LET sub == e.subCategory
  IN  CASE sub \in Offers -> "OFFER"
        [] sub \in Rounds -> "INTERVIEW"
        [] sub = "ASSESSMENT" -> "ASSESSMENT"
        [] sub = "RECRUITER_CONTACT" -> "RECRUITER_ACTION"
        [] OTHER -> IF Within(e, 3) THEN "DEADLINE_APPROACHING" ELSE "NONE"

IsImportant(e) ==
  /\ e.category = "JOB"
  /\ e.subCategory \in HighImportance \cup Terminals \/ e.requiresAction

ShouldNotify(e, s) ==
  /\ NotificationTypeFor(e) # "NONE"
  /\ s.notifyDashboard
  /\ e.needsReview \/ SeverityAtLeast(SeverityOf(e), s.notifyMinSeverity)

RequiresAck(e, s) ==
  /\ ShouldNotify(e, s)
  /\ s.escalationEnabled
  /\ SeverityOf(e) = "CRITICAL" \/ (SeverityOf(e) = "HIGH" /\ e.requiresAction)
  /\ ~e.needsReview

MaxStageOf(s) ==
  IF s.escalationMaxStage < 0 THEN 0
  ELSE IF s.escalationMaxStage > Len(EscalationStages) - 1 THEN Len(EscalationStages) - 1
  ELSE s.escalationMaxStage

StageOn(s, stage) ==
  CASE stage = "SLACK"    -> s.notifySlack
    [] stage = "WHATSAPP" -> s.notifyWhatsapp
    [] stage = "VOICE"    -> s.notifyVoice /\ s.voiceEnabled

(* Faulty variant: the ladder is cut after the channels are filtered.      *)
StagesCutLast(s) ==
  LET on == SelectSeq(EscalationStages, LAMBDA stage : StageOn(s, stage))
  IN  { on[i] : i \in { j \in DOMAIN on : j <= MaxStageOf(s) + 1 } }

(* The stages of the ladder, whose order is that of EscalationStages.      *)
Stages(s) ==
  { EscalationStages[i] : i \in { j \in 1..(MaxStageOf(s) + 1) : StageOn(s, EscalationStages[j]) } }

VoiceEligible(e, s) ==
  /\ s.voiceEnabled
  /\ s.notifyVoice
  /\ "VOICE" \in Stages(s)
  /\ VoiceEventKeyFor(e) # "NONE"
  /\ VoiceEventKeyFor(e) \in s.voiceCriticalEvents
  /\ e.subCategory \notin Terminals \cup {"JOB_ALERT"}
  /\ SeverityAtLeast(SeverityOf(e), "HIGH")

(* Faulty variant: bulk mail is a candidate whatever its category allows.  *)
CleanupCandidateUnguarded(e, s) ==
  e.isUnwanted \/ e.category \in s.cleanupCategories

CleanupCandidate(e, s) ==
  /\ e.isUnwanted \/ e.category \in Bulk
  /\ e.category \in s.cleanupCategories
  /\ e.category \notin NeverCleanup
  /\ ~e.isProtectedSender

Decide(e, s) ==
  [isImportant      |-> IsImportant(e),
   shouldNotify     |-> ShouldNotify(e, s),
   notificationType |-> NotificationTypeFor(e),
   severity         |-> SeverityOf(e),
   requiresAck      |-> RequiresAck(e, s),
   channels         |-> [dashboard |-> s.notifyDashboard,
                         slack     |-> s.notifySlack /\ SeverityAtLeast(SeverityOf(e), "HIGH"),
                         whatsapp  |-> s.notifyWhatsapp /\ SeverityAtLeast(SeverityOf(e), "HIGH"),
                         email     |-> s.notifyEmail /\ SeverityAtLeast(SeverityOf(e), "MEDIUM")],
   enabled          |-> RequiresAck(e, s) /\ s.escalationEnabled /\ Stages(s) # {},
   stages           |-> Stages(s),
   voiceEligible    |-> VoiceEligible(e, s),
   voiceEventKey    |-> VoiceEventKeyFor(e),
   cleanupCandidate |-> CleanupCandidate(e, s)]

=============================================================================
