------------------------------ MODULE MCDecisions ------------------------------
(* An instance of DecisionChanges for TLC.                                 *)
EXTENDS DecisionChanges

SomeDeadlines == {-1, 2, 6}

Recruitment ==
  [category : {"JOB"},
   subCategory : {"OFFER", "INTERVIEW", "SHORTLISTED", "RECRUITER_CONTACT", "REJECTION",
                  "APPLICATION_RECEIVED", "JOB_ALERT", "NONE"},
   requiresAction : BOOLEAN, needsReview : BOOLEAN, isUnwanted : {TRUE},
   isProtectedSender : {FALSE}, deadline : {NoDeadline}]

Other ==
  [category : {"PROMOTIONAL", "PERSONAL"}, subCategory : {"NONE"},
   requiresAction : BOOLEAN, needsReview : BOOLEAN, isUnwanted : BOOLEAN,
   isProtectedSender : {FALSE}, deadline : {NoDeadline}]

SomeEmails == Recruitment \cup Other

SchemaDefaults ==
  [notifyDashboard |-> TRUE, notifySlack |-> FALSE, notifyWhatsapp |-> FALSE,
   notifyEmail |-> FALSE, notifyVoice |-> FALSE, notifyMinSeverity |-> "MEDIUM",
   escalationEnabled |-> TRUE, escalationMaxStage |-> 2, voiceEnabled |-> FALSE,
   voiceCriticalEvents |-> {"OFFER", "INTERVIEW", "ASSESSMENT", "RECRUITER_ACTION"},
   cleanupCategories |-> {"PROMOTIONAL", "SPAM", "NEWSLETTER"}]

SomeSeverities == {"MEDIUM", "CRITICAL"}
SomeEvents     == { {"OFFER", "INTERVIEW", "ASSESSMENT", "RECRUITER_ACTION"},
                    {"INTERVIEW", "DEADLINE_APPROACHING"} }
SomeCategories == { {"PROMOTIONAL", "SPAM", "NEWSLETTER"} }
=============================================================================
