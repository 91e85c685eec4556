---------------------------- MODULE DecisionChanges ----------------------------
(***************************************************************************)
(* The decision on one email while its inputs change: the user edits one   *)
(* setting, or a later analysis finds a deadline or a required action or   *)
(* the user confirms an uncertain one.  The properties compare the         *)
(* decisions before and after.  Its names are its own, so that a module    *)
(* can extend it together with VoiceCalls.                                 *)
(***************************************************************************)
EXTENDS DecisionEngine

CONSTANTS
  Analysed,       \* emails as they are first analysed
  Defaults,       \* the settings of a new account
  Deadlines,      \* days to a deadline, negative when it has passed
  Severities,     \* values of notifyMinSeverity
  EventSets,      \* values of voiceCriticalEvents
  CategorySets    \* values of cleanupCategories

(* The columns of UserSettings that decide reads, as settingsPatchSchema   *)
(* bounds them.                                                            *)
SettingsRow ==
  [notifyDashboard : BOOLEAN, notifySlack : BOOLEAN, notifyWhatsapp : BOOLEAN,
   notifyEmail : BOOLEAN, notifyVoice : BOOLEAN, notifyMinSeverity : Severity,
   escalationEnabled : BOOLEAN, escalationMaxStage : 0..2, voiceEnabled : BOOLEAN,
   voiceCriticalEvents : SUBSET VoiceEvents, cleanupCategories : SUBSET (Bulk \cup {"OTHER"})]

ASSUME InputsAssumption ==
  /\ Analysed \subseteq Email
  /\ Deadlines \subseteq Int
  /\ Defaults \in SettingsRow
  /\ Severities \subseteq Severity
  /\ EventSets \subseteq SUBSET VoiceEvents
  /\ CategorySets \subseteq SUBSET (Bulk \cup {"OTHER"})

VARIABLES email, userSettings

inputs == << email, userSettings >>

Switches == {"notifyDashboard", "notifySlack", "notifyWhatsapp", "notifyVoice",
             "escalationEnabled", "voiceEnabled"}

(* updateSettings.  Enabling calls also switches the voice channel on.     *)
Switch(key, on) ==
  /\ userSettings[key] # on
  /\ userSettings' = IF key = "voiceEnabled" /\ on
                     THEN [userSettings EXCEPT !.voiceEnabled = TRUE, !.notifyVoice = TRUE]
                     ELSE [userSettings EXCEPT ![key] = on]
  /\ UNCHANGED email

Choose ==
  /\ \/ \E sev \in Severities : userSettings' = [userSettings EXCEPT !.notifyMinSeverity = sev]
     \/ \E m \in 0..2 : userSettings' = [userSettings EXCEPT !.escalationMaxStage = m]
     \/ \E events \in EventSets : userSettings' = [userSettings EXCEPT !.voiceCriticalEvents = events]
     \/ \E cats \in CategorySets : userSettings' = [userSettings EXCEPT !.cleanupCategories = cats]
  /\ UNCHANGED email

(* A later analysis of the same email.                                     *)
FindDeadline ==
  /\ \E d \in Deadlines :
       /\ email.deadline # NoDeadline => d < email.deadline
       /\ email' = [email EXCEPT !.deadline = d]
  /\ UNCHANGED userSettings

FindAction ==
  /\ ~email.requiresAction
  /\ email' = [email EXCEPT !.requiresAction = TRUE]
  /\ UNCHANGED userSettings

Confirm ==
  /\ email.needsReview
  /\ email' = [email EXCEPT !.needsReview = FALSE]
  /\ UNCHANGED userSettings

ChangesInit == email \in Analysed /\ userSettings = Defaults

ChangesNext ==
  \/ \E key \in Switches, on \in BOOLEAN : Switch(key, on)
  \/ Choose \/ FindDeadline \/ FindAction \/ Confirm

ChangesSpec == ChangesInit /\ [][ChangesNext]_inputs

-----------------------------------------------------------------------------
(* Correctness.                                                            *)

(* Settings t ask for no more than settings s do.                              *)
Quieter(s, t) ==
  /\ \A key \in Switches : t[key] => s[key]
  /\ SeverityAtLeast(t.notifyMinSeverity, s.notifyMinSeverity)
  /\ t.escalationMaxStage <= s.escalationMaxStage
  /\ t.voiceCriticalEvents \subseteq s.voiceCriticalEvents

(* Email f is email e with more pressure on the user.                      *)
MoreUrgent(e, f) ==
  /\ e.needsReview = f.needsReview
  /\ e.requiresAction => f.requiresAction
  /\ e.deadline = NoDeadline \/ (f.deadline # NoDeadline /\ f.deadline <= e.deadline)

Before == Decide(email, userSettings)
After  == Decide(email', userSettings')

(* An email the user must acknowledge, or that counts as important, is     *)
(* never at the same time a candidate for cleanup, whatever categories the *)
(* user put up for cleanup and whatever the analysis calls unwanted.       *)
NeverBothWays ==
  CleanupCandidate(email, userSettings) => ~IsImportant(email) /\ ~RequiresAck(email, userSettings)

(* Asking for less never brings more: switching something off, raising the *)
(* minimum severity, lowering the last stage or removing an event from the *)
(* voice list adds no notification, no acknowledgement, no ladder, no      *)
(* stage and no call.                                                      *)
AskingForLess ==
  [][ Quieter(userSettings, userSettings') /\ UNCHANGED email =>
        /\ After.shouldNotify => Before.shouldNotify
        /\ After.requiresAck => Before.requiresAck
        /\ After.enabled => Before.enabled
        /\ After.voiceEligible => Before.voiceEligible
        /\ After.stages \subseteq Before.stages ]_inputs

(* More pressure never makes the email quieter: a nearer deadline or a     *)
(* required action lowers no severity and takes back no notification, no   *)
(* acknowledgement and no permission to call.                              *)
PressureIsHeard ==
  [][ MoreUrgent(email, email') /\ UNCHANGED userSettings =>
        /\ Rank(After.severity) >= Rank(Before.severity)
        /\ Before.shouldNotify => After.shouldNotify
        /\ Before.requiresAck => After.requiresAck
        /\ Before.voiceEligible => After.voiceEligible ]_inputs
=============================================================================
