------------------------------ MODULE ClientCache ------------------------------
(***************************************************************************)
(* The browser's copy of the server's answers.  One query of the catalogue *)
(* is followed: its fetches, the mutations a user makes on the pages that  *)
(* offer them, and the invalidations that are to bring the copy back in    *)
(* step.  What a query shows and a mutation writes are sets of facets: a   *)
(* mutation concerns a query when they meet.                               *)
(***************************************************************************)
EXTENDS Naturals, FiniteSets

CONSTANTS
  Followed,   \* the queries of the catalogue a behaviour may follow
  Chased,     \* those of them for which a mutation may follow another
  MaxClicks,  \* bound on the mutations of a behaviour that may
  MaxFaults   \* bound on refused or lost calls

ASSUME BoundsAssumption == MaxClicks \in Nat \ {0} /\ MaxFaults \in Nat

-----------------------------------------------------------------------------
(* What the queries show.                                                  *)

ShowsSummary       == {"application"}
ShowsCounters      == {"email", "analysis"}
ShowsSchedule      == {"prefs", "mailbox", "scan", "email"}
ShowsCleanup       == {"proposal", "prefs"}
ShowsCounts        == {"notice"}
ShowsDashboard     == {"person", "application", "timeline"} \cup ShowsSummary \cup ShowsCounters
                        \cup ShowsSchedule \cup ShowsCleanup \cup ShowsCounts
ShowsApplications  == {"application", "timeline", "filing"}
ShowsApplication   == {"application", "timeline", "filing", "email", "analysis", "notice"}
ShowsRejected      == {"application", "filing", "email", "analysis"}
ShowsEmails        == {"email", "analysis", "application", "filing", "proposal"}
ShowsEmail         == {"email", "analysis", "application", "filing", "mailbox", "proposal", "notice"}
ShowsAccounts      == {"mailbox", "email"}
ShowsNotifications == {"notice", "application"}
ShowsProposals     == {"proposal", "email", "analysis"}
ShowsAnalytics     == {"application", "timeline", "analysis", "proposal", "notice"}
ShowsSettings      == {"person", "prefs", "integration"}
ShowsAudit         == {"audit"}
ShowsPrivacy       == {"prefs", "mailbox", "rows", "audit"}   \* numbers of rows
ShowsMe            == {"person", "prefs", "mailbox"}

Shows ==
  [ me            |-> ShowsMe,           dashboard     |-> ShowsDashboard,
    applications  |-> ShowsApplications, summary       |-> ShowsSummary,
    application   |-> ShowsApplication,  rejected      |-> ShowsRejected,
    emails        |-> ShowsEmails,       counters      |-> ShowsCounters,
    email         |-> ShowsEmail,        scanStatus    |-> ShowsSchedule,
    accounts      |-> ShowsAccounts,     notifications |-> ShowsNotifications,
    counts        |-> ShowsCounts,       proposals     |-> ShowsProposals,
    cleanup       |-> ShowsCleanup,      analytics     |-> ShowsAnalytics,
    settings      |-> ShowsSettings,     audit         |-> ShowsAudit,
    privacy       |-> ShowsPrivacy ]

Views == DOMAIN Shows
ASSUME FollowedAssumption == Followed \subseteq Views /\ Chased \subseteq Followed

Polled == {"dashboard", "counters", "accounts", "scanStatus", "notifications", "counts", "cleanup"}

-----------------------------------------------------------------------------
(* What the mutations write.  Those that hand work to a queue write most   *)
(* of it after they have answered.                                         *)

OverrideWrites    == {"application", "timeline", "rows", "audit"}
NoteWrites        == {"timeline", "rows"}
DuplicateWrites   == {"application", "timeline", "filing", "notice", "rows", "audit"}
AnalysisWrites    == {"analysis", "email", "rows", "audit"}
ReviewWrites      == {"email", "analysis", "application", "timeline", "filing", "rows", "audit"}
ReprocessWrites   == {"email", "analysis", "application", "timeline", "filing", "notice", "proposal", "rows", "audit"}
ScanWrites        == {"mailbox", "scan"} \cup ReprocessWrites
GmailWrites       == {"mailbox", "audit"}
AcknowledgeWrites == {"notice", "audit"}
PauseWrites       == {"notice"}
ApproveWrites     == {"proposal", "email", "rows", "audit"}
RevertWrites      == {"proposal", "email", "audit"}
SettingsWrites    == {"prefs", "person", "audit"}
IntegrationWrites == {"integration", "audit"}
ForgetWrites      == {"email", "analysis", "scan", "application", "timeline", "filing", "proposal", "notice", "rows", "audit"}

Writes ==
  [ overrideStatus   |-> OverrideWrites,    addNote          |-> NoteWrites,
    decideDuplicate  |-> DuplicateWrites,   overrideAnalysis |-> AnalysisWrites,
    resolveReview    |-> ReviewWrites,      reprocess        |-> ReprocessWrites,
    disconnectGmail  |-> GmailWrites,       triggerScan      |-> ScanWrites,
    acknowledge      |-> AcknowledgeWrites, pause            |-> PauseWrites,
    retry            |-> PauseWrites,       approve          |-> ApproveWrites,
    revert           |-> RevertWrites,      updateSettings   |-> SettingsWrites,
    integrate        |-> IntegrationWrites, deleteEmailData  |-> ForgetWrites ]

Ops      == DOMAIN Writes
Deferred == {"triggerScan", "reprocess", "retry"}

-----------------------------------------------------------------------------
(* What the mutations invalidate: keys match by prefix.                    *)

ApplicationKeys  == {"applications", "summary", "application", "rejected"}
EmailKeys        == {"emails", "counters", "email"}
NotificationKeys == {"notifications", "counts"}
CleanupKeys      == {"proposals", "cleanup"}
SettingsKeys     == {"settings", "audit", "privacy"}

OverrideRefreshes    == ApplicationKeys \cup {"dashboard"}
NoteRefreshes        == {"application"}
DuplicateRefreshes   == ApplicationKeys \cup {"dashboard"}
AnalysisRefreshes    == EmailKeys \cup {"dashboard"}
ReviewRefreshes      == EmailKeys \cup ApplicationKeys \cup {"dashboard"}
ReprocessRefreshes   == EmailKeys \cup {"dashboard"}
GmailRefreshes       == {"accounts", "me", "dashboard"}
ScanRefreshes        == {"scanStatus", "dashboard"}
ScanRefreshesLater   == EmailKeys \cup ApplicationKeys   \* four seconds on
AcknowledgeRefreshes == NotificationKeys \cup {"dashboard"}
PauseRefreshes       == NotificationKeys
RetryRefreshes       == NotificationKeys
\* Faulty variant: the proposals themselves are forgotten.
ApproveRefreshesInbox == EmailKeys \cup {"dashboard"}
ApproveRefreshes     == CleanupKeys \cup EmailKeys \cup {"dashboard"}
RevertRefreshes      == CleanupKeys
\* Faulty variant: the form that was edited is not read again.
SettingsRefreshesElsewhere == {"me", "dashboard"}
SettingsRefreshes    == SettingsKeys \cup {"me", "dashboard"}
IntegrationRefreshes == SettingsKeys
ForgetRefreshes      == {"privacy", "dashboard"} \cup EmailKeys \cup ApplicationKeys

Refreshes ==
  [ overrideStatus   |-> OverrideRefreshes,    addNote          |-> NoteRefreshes,
    decideDuplicate  |-> DuplicateRefreshes,   overrideAnalysis |-> AnalysisRefreshes,
    resolveReview    |-> ReviewRefreshes,      reprocess        |-> ReprocessRefreshes,
    disconnectGmail  |-> GmailRefreshes,       triggerScan      |-> ScanRefreshes,
    acknowledge      |-> AcknowledgeRefreshes, pause            |-> PauseRefreshes,
    retry            |-> RetryRefreshes,       approve          |-> ApproveRefreshes,
    revert           |-> RevertRefreshes,      updateSettings   |-> SettingsRefreshes,
    integrate        |-> IntegrationRefreshes, deleteEmailData  |-> ForgetRefreshes ]

-----------------------------------------------------------------------------
(* The pages: what each mounts and offers.  The shell is around them all;  *)
(* the sections of the settings page are pages of their own.               *)

Part(views, ops) == [views |-> views, ops |-> ops]

AppShell          == Part({"me", "counts", "scanStatus"}, {"triggerScan"})
DashboardPage     == Part({"dashboard", "scanStatus"}, {"triggerScan"})
ApplicationsPage  == Part({"summary", "applications"}, {})
ApplicationPage   == Part({"application"}, {"overrideStatus", "addNote", "decideDuplicate"})
EmailsPage        == Part({"counters", "emails"}, {})
EmailDrawer       == Part({"counters", "emails", "email"}, {"reprocess", "resolveReview", "overrideAnalysis"})
CleanupPage       == Part({"cleanup", "proposals"}, {"approve", "revert"})
NotificationsPage == Part({"settings", "notifications", "counts"}, {"acknowledge", "pause", "retry"})
RejectedPage      == Part({"rejected"}, {})
AnalyticsPage     == Part({"analytics"}, {})
AuditPage         == Part({"audit"}, {})
AccountSection    == Part({"settings"}, {"updateSettings"})
EscalationSection == Part({"settings"}, {"updateSettings"})
VoiceSection      == Part({"settings"}, {"updateSettings"})
CleanupSection    == Part({"settings"}, {"updateSettings"})
ScanSection       == Part({"settings", "accounts"}, {"updateSettings", "triggerScan"})
ChannelsSection   == Part({"settings"}, {"updateSettings", "integrate"})
GmailSection      == Part({"settings", "accounts"}, {"disconnectGmail"})
PrivacySection    == Part({"settings", "privacy", "me"}, {"deleteEmailData", "updateSettings"})
SecuritySection   == Part({"settings", "me"}, {})

Page ==
  [ dashboard |-> DashboardPage, applications  |-> ApplicationsPage,  application |-> ApplicationPage,
    emails    |-> EmailsPage,    email         |-> EmailDrawer,       cleanup     |-> CleanupPage,
    rejected  |-> RejectedPage,  notifications |-> NotificationsPage, analytics   |-> AnalyticsPage,
    audit     |-> AuditPage,     account       |-> AccountSection,    escalation  |-> EscalationSection,
    voice     |-> VoiceSection,  categories    |-> CleanupSection,    scanning    |-> ScanSection,
    channels  |-> ChannelsSection, gmail       |-> GmailSection,      privacy     |-> PrivacySection,
    security  |-> SecuritySection ]

ShownOn(p)   == Page[p].views \cup AppShell.views
OfferedOn(p) == Page[p].ops \cup AppShell.ops

-----------------------------------------------------------------------------
VARIABLES
  view,    \* the query that is followed
  page,    \* the page the user is on
  op,      \* the mutations clicked: kind, pc and the list a settings switch sends
  truth,   \* the mutations whose effect the server holds
  data,    \* whether there is an answer in the cache, and the mutations it shows
  stale,   \* whether the answer is marked invalid or has aged
  error,   \* whether the last fetch failed
  fetch,   \* the fetch under way: where it is and what its answer shows
  later,   \* whether the timer of a manual scan runs
  missed,  \* mutations whose invalidation joined a fetch that was under way
  hasty,   \* settings switches flipped, or overtaken, before the page had settled
  used     \* faults so far

vars == << view, page, op, truth, data, stale, error, fetch, later, missed, hasty, used >>

Clicks    == 1..MaxClicks
Idle      == [kind |-> "none", pc |-> "idle", list |-> {}]
NoAnswer  == [has |-> FALSE, shows |-> {}]
NoFetch   == [pc |-> "none", shows |-> {}]
Started   == [pc |-> "sent", shows |-> {}]
Fault     == used < MaxFaults /\ used' = used + 1

Touching == [v \in Views |-> { k \in Ops : Writes[k] \cap Shows[v] # {} \/ v \in Refreshes[k] }]
Mounted  == view \in ShownOn(page)

(* The pages that mount the query or offer something that concerns it, and *)
(* one that does not; of pages that mount and offer the same, one.         *)
Near(v) ==
  { p \in DOMAIN Page : \/ v \in ShownOn(p) \/ Page[p].ops \cap Touching[v] # {}
                        \/ p = (IF v = "audit" THEN "rejected" ELSE "audit") }
Nearby == [v \in Views |-> { CHOOSE p \in Near(v) : Page[p] = part : part \in { Page[p] : p \in Near(v) } }]

-----------------------------------------------------------------------------
(* The query cache.                                                        *)

Mounts(p) ==
  /\ page' = p
  /\ fetch' = IF view \in ShownOn(p) /\ ~Mounted /\ fetch = NoFetch /\ (~data.has \/ stale)
              THEN Started ELSE fetch

GoTo(p) ==
  /\ p \in Nearby[view] \ {page}
  /\ Mounts(p)
  /\ UNCHANGED << view, op, truth, data, stale, error, later, missed, hasty, used >>

Age ==
  /\ data.has /\ ~stale
  /\ stale' = TRUE
  /\ UNCHANGED << view, page, op, truth, data, error, fetch, later, missed, hasty, used >>

Collect ==
  /\ ~Mounted /\ fetch = NoFetch /\ data.has
  /\ data' = NoAnswer /\ stale' = FALSE /\ error' = FALSE
  /\ UNCHANGED << view, page, op, truth, fetch, later, missed, hasty, used >>

Refetch ==
  /\ Mounted /\ fetch = NoFetch
  /\ fetch' = Started
  /\ UNCHANGED << view, page, op, truth, data, stale, error, later, missed, hasty, used >>

Focus == (stale \/ ~data.has) /\ Refetch
Poll  == view \in Polled /\ Refetch

ServerReads ==
  /\ fetch.pc = "sent"
  /\ fetch' = [pc |-> "answered", shows |-> truth]
  /\ UNCHANGED << view, page, op, truth, data, stale, error, later, missed, hasty, used >>

Receive ==
  /\ fetch.pc = "answered"
  /\ data' = [has |-> TRUE, shows |-> fetch.shows]
  /\ stale' = FALSE /\ error' = FALSE
  /\ fetch' = NoFetch
  /\ UNCHANGED << view, page, op, truth, later, missed, hasty, used >>

FetchFails ==
  /\ fetch # NoFetch
  /\ Fault
  /\ error' = TRUE
  /\ fetch' = NoFetch
  /\ UNCHANGED << view, page, op, truth, data, stale, later, missed, hasty >>

(* A running fetch is begun again when the query is on the page and has an *)
(* answer; otherwise it goes on, and its answer clears the mark.           *)
Joins == fetch # NoFetch /\ ~(Mounted /\ data.has)

\* Faulty variant: an answer that is not there is marked.
InvalidateBlindly(marks) ==
  /\ stale' = TRUE
  /\ fetch' = IF Mounted /\ ~Joins THEN Started ELSE fetch
  /\ missed' = IF Joins THEN missed \cup marks ELSE missed

Invalidate(marks) ==
  /\ stale' = (stale \/ data.has)
  /\ fetch' = IF Mounted /\ ~Joins THEN Started ELSE fetch
  /\ missed' = IF Joins THEN missed \cup marks ELSE missed

-----------------------------------------------------------------------------
(* The mutations.                                                          *)

(* The forms of the settings page are there when its query has answered    *)
(* and did not fail; every switch of a list sends the list it shows.       *)
FormShown == view # "settings" \/ (data.has /\ ~error)
IsEdit(i) == view = "settings" /\ op[i].kind = "updateSettings"
Edits     == { i \in Clicks : IsEdit(i) }
Pending   == { i \in Edits : op[i].pc \in {"sent", "served"} }

RecordHaste(i, k) ==
  IF view = "settings" /\ k = "updateSettings"
  THEN hasty' = hasty \cup Pending
                      \cup { j \in Edits : fetch # NoFetch \/ j \in missed }
                      \cup (IF Pending # {} THEN {i} ELSE {})
  ELSE UNCHANGED hasty

Click(i, k) ==
  /\ op[i] = Idle /\ \A j \in 1..(i - 1) : op[j] # Idle
  /\ i > 1 => view \in Chased
  /\ k \in OfferedOn(page) \cap Touching[view]
  /\ k = "updateSettings" => FormShown
  /\ op' = [op EXCEPT ![i] = [kind |-> k, pc |-> "sent", list |-> (data.shows \cap Edits) \cup {i}]]
  /\ RecordHaste(i, k)
  /\ UNCHANGED << view, page, truth, data, stale, error, fetch, later, missed, used >>

(* The server replaces a list by the one it is sent.                       *)
Carry(i) ==
  IF IsEdit(i) THEN truth' = (truth \ Edits) \cup op[i].list
  ELSE IF op[i].kind \in Deferred THEN UNCHANGED truth
  ELSE truth' = truth \cup {i}

Serve(i) ==
  /\ op[i].pc = "sent"
  /\ op' = [op EXCEPT ![i].pc = "served"]
  /\ Carry(i)
  /\ UNCHANGED << view, page, data, stale, error, fetch, later, missed, hasty, used >>

(* Refused, or answered to nobody: an error is shown and nothing refreshed.*)
Fails(i) ==
  /\ op[i].pc \in {"sent", "served"}
  /\ Fault
  /\ op' = [op EXCEPT ![i].pc = "failed"]
  /\ UNCHANGED << view, page, truth, data, stale, error, fetch, later, missed, hasty >>

OnSuccess(i) ==
  /\ op[i].pc = "served"
  /\ op' = [op EXCEPT ![i].pc = "done"]
  /\ IF view \in Refreshes[op[i].kind] THEN Invalidate({i}) ELSE UNCHANGED << stale, fetch, missed >>
  /\ later' = (later \/ op[i].kind = "triggerScan")
  /\ UNCHANGED << view, page, truth, data, error, hasty, used >>

TimerFires ==
  /\ later
  /\ later' = FALSE
  /\ IF view \in ScanRefreshesLater THEN Invalidate({}) ELSE UNCHANGED << stale, fetch, missed >>
  /\ UNCHANGED << view, page, op, truth, data, error, hasty, used >>

(* The worker does what was handed to it.                                  *)
WorkerWrites(i) ==
  /\ op[i].kind \in Deferred /\ op[i].pc \in {"served", "done", "failed"}
  /\ i \notin truth
  /\ truth' = truth \cup {i}
  /\ UNCHANGED << view, page, op, data, stale, error, fetch, later, missed, hasty, used >>

-----------------------------------------------------------------------------
Init ==
  /\ view \in Followed
  /\ page = "audit"
  /\ op = [i \in Clicks |-> Idle]
  /\ truth = {}
  /\ data = NoAnswer
  /\ stale = FALSE /\ error = FALSE
  /\ fetch = IF Mounted THEN Started ELSE NoFetch
  /\ later = FALSE
  /\ missed = {} /\ hasty = {}
  /\ used = 0

Cache   == Age \/ Collect \/ Focus \/ Poll \/ ServerReads \/ Receive \/ FetchFails \/ TimerFires
Next ==
  \/ Cache
  \/ \E p \in DOMAIN Page : GoTo(p)
  \/ \E i \in Clicks : \/ \E k \in Ops : Click(i, k)
                       \/ Serve(i) \/ Fails(i) \/ OnSuccess(i) \/ WorkerWrites(i)

Spec == Init /\ [][Next]_vars

(* Calls come to an end and an open page polls.                            *)
Fairness == WF_vars(ServerReads) /\ WF_vars(Receive) /\ WF_vars(Poll)
FairSpec == Spec /\ Fairness

-----------------------------------------------------------------------------
Past     == { i \in Clicks : op[i].pc \in {"served", "failed", "done"} }
Mutation == [kind : Ops \cup {"none"}, pc : {"idle", "sent", "served", "failed", "done"}, list : SUBSET Clicks]

(* Type correctness: faults stay within their bound, an answer shows and a *)
(* list names only mutations the server has dealt with, and nothing is     *)
(* stale that is not there.                                                *)
TypeOK ==
  /\ view \in Followed /\ page \in DOMAIN Page
  /\ op \in [Clicks -> Mutation]
  /\ truth \subseteq Past
  /\ data \in [has : BOOLEAN, shows : SUBSET Past]
  /\ fetch \in [pc : {"none", "sent", "answered"}, shows : SUBSET Past]
  /\ \A i \in Clicks : op[i].list \subseteq Past \cup {i}
  /\ stale \in BOOLEAN /\ error \in BOOLEAN /\ later \in BOOLEAN
  /\ stale => data.has
  /\ missed \subseteq Clicks /\ hasty \subseteq Clicks
  /\ used \in 0..MaxFaults

(* A switch of a list in the settings that was saved stays saved, although *)
(* every switch sends the whole list as the page shows it: only a switch   *)
(* flipped before an earlier one and the refetch after it were over can    *)
(* undo it.                                                                *)
EditsKept == \A i \in Edits : op[i].pc = "done" /\ i \notin truth => i \in hasty

(* Mutations nobody tells a query about that is not polled.                *)
Gaps ==
  ({"addNote"} \X {"applications", "analytics", "privacy"})
    \cup ({"overrideStatus", "decideDuplicate"} \X {"emails", "email", "analytics", "audit", "privacy"})
    \cup ({"overrideAnalysis"} \X {"application", "rejected", "proposals", "analytics", "audit", "privacy"})
    \cup ({"resolveReview"} \X {"proposals", "analytics", "audit", "privacy"})
    \cup ({"acknowledge", "pause"} \X {"application", "email", "analytics"})
    \cup ({"acknowledge"} \X {"audit", "privacy"})
    \cup ({"approve"} \X {"application", "rejected", "analytics", "audit", "privacy"})
    \cup ({"revert"} \X {"application", "rejected", "emails", "email", "analytics", "audit", "privacy"})
    \cup ({"disconnectGmail"} \X {"email", "audit", "privacy"})
    \cup ({"deleteEmailData"} \X {"proposals", "analytics", "audit"})

Owed(i) ==
  /\ op[i].pc = "done" /\ i \in truth /\ Mounted
  /\ \/ view \in Polled
     \/ << op[i].kind, view >> \notin Gaps /\ op[i].kind \notin Deferred /\ i \notin missed

(* A page that is open catches up with every mutation that succeeded, or   *)
(* shows an error, for the queries that are polled and for the others      *)
(* whose hook names them, unless the invalidation met a fetch under way.   *)
CatchesUp ==
  \A i \in Clicks : Owed(i) ~> (i \in data.shows \/ ~Mounted \/ i \notin truth \/ error)
=============================================================================
