# MailOps: a formal model

MailOps reads a user's Gmail, classifies each message with an AI provider,
files recruitment mail under job applications, notifies the user, escalates
what the user does not acknowledge (Slack, then WhatsApp, then a voice call)
and proposes cleanups of the rest.  The backend is a TypeScript process with
an Express API, BullMQ workers on Redis, a scheduler and a PostgreSQL database
reached through Prisma.  Every `await` is a point where another worker, a
request or a crash can come in between, and almost no operation runs in a
database transaction.  That is what this project is about.

Paths below are relative to `src/backend/src/` (`frontend/` to `src/frontend/`).

## 1. Inventory

| Component | State | Operations | Talks to | What is hard | What makes it correct |
|---|---|---|---|---|---|
| Mailbox scan (`services/gmail/sync.service.ts`, `workers/email-scan.worker.ts`) | `GmailAccount` (history cursor, status, lastScanAt), `ScanJob`, `Email` rows | scan, store, enqueue, advance cursor | Gmail, email queue | cursor against partial failure, hand-off of each stored email, disconnects during a scan | no message is passed over; every stored email is analysed |
| Scheduler (`workers/scheduler.ts`) | none; marks daily runs in Redis | tick: due scans, overdue escalations, daily jobs | all queues | retained job ids, several processes | each due account is scanned again and again |
| Analysis (`services/ai/analysis.service.ts`, `workers/email-processing.worker.ts`) | `Email.processingState`, `EmailAnalysis` | classify, extract, decide, persist, hand over | AI provider, application queue | retries skip what is PROCESSED | every analysed job email is handed on |
| Application pipeline (`services/applications/*`, `workers/application-processing.worker.ts`) | `Application`, `ApplicationEvent`, `Email.applicationId` | match, create, link, move the status, flag and merge duplicates, review decisions | matcher, notifications | read-modify-write of the status by several workers and the user, search then create, crash between two writes | status moves forward, one application per cycle, the timeline proves the status |
| Decision engine (`services/decisions/decision.engine.ts`) | none | `decide` | settings | interplay of severity, settings and plan | louder input never gives a quieter plan, a smaller wish never a louder one |
| Notifications and escalation (`services/notifications/*`, two workers) | `Notification`, `NotificationAttempt`, delayed jobs | create, dispatch, evaluate, sweep, reconcile, acknowledge, resolve, pause, retry | channels, queues | stale reads, jobs for earlier firings, retained ids, crashes after a send | ordered, stoppable, bounded, never dropped |
| Voice gate (`escalation.service.ts` 360-452) | Redis counter per user and day, attempts as fallback | gate, place a call, count | voice provider, settings | check-then-act, two sources of the count, time zones | at most the daily maximum, only with permission |
| Cleanup and retention (`services/cleanup/*`) | `CleanupAction`, Gmail's trash | propose, keep, execute, revert, sweep, purge | Gmail, pipeline | protections checked once per batch, crash between Gmail and the row | nothing important is deleted, everything done can be undone |
| Accounts (`services/auth/*`, `frontend/lib/api.ts`) | `RefreshToken`, `User`, one-time links, the cookies of each browser | sign in, refresh, sign out, revoke, reset, verify | mail | concurrent requests on one token, tabs that share cookies, crashes between two writes | a revoked session stays revoked, tabs do not sign each other out, a link works once |
| Account deletion (`services/account/*`, the workers' guard) | all of the above, `DeletionReceipt` | delete in phases, purge the queues | Google, Redis, database | workers in flight, a consent under way, a second deletion | nothing of the user remains, the receipt is true |
| Settings (`services/settings/*`) | `UserSettings` | update with cross-field guards | decision, gate | read once, used later | the settings in force decide |
| Queues (`queues/index.ts`) | BullMQ jobs in Redis | add, retry, retain, evict | everything | an add of a known id is a no-op, a refused add is logged and dropped | work that was accepted is done |
| Frontend (`frontend/lib/hooks.ts`, `api.ts`, the pages) | React Query's cache: one copy of each answer | fetch, poll, mutate, invalidate | HTTP API | answers that were computed before a change and arrive after it, invalidations that meet a running fetch, edits made on an old copy | an open page catches up, an edit is not undone by another |
| Dashboard, analytics, audit, HTTP | none of their own | read, append | database | - | - |

The hazards of this code, each at its line, are listed in `PROJECT.json`.

## 2. Plan

In order of importance, most important behaviour first.

1. **Escalation** with its promise **EscalationPromise**, and the proofs in
   **EscalationProofs**.  *Done.*
2. **DecisionEngine**, a pure function, with **DecisionChanges**, the module
   that walks through single changes of its inputs.  *Done, with proofs.*
3. **VoiceCalls**, which composes the gate, the counter, the settings and the
   decision.  *Done, with proofs.*
4. **Applications**: from a stored email to the application it is filed under.
   *Done, with proofs.*
5. **MailboxScan**: accounts, scheduler, scan, cursor, the hand-off to the
   analysis.  *Done, with proofs.*
6. **Cleanup**: proposals, batches, reverts, sweep and purge, against the links
   the pipeline makes.  *Done, with proofs.*
7. **Sessions** and **AccountDeletion**: rotation, revocation and one-time links;
   the phases of a deletion against workers in flight.  *Done, with proofs.*
8. **ClientCache**: the frontend's copy of the answers.  *Done, with proofs.*
9. To come: the two hazards that no property covers yet (see `PROJECT.json`).

The proofs about a module `M` are in `MProofs`; `VoiceCallsProofs` also holds
those about DecisionChanges, which it extends as well.

## 3. The modules and the code

### Escalation

One notification.  `note` is the `Notification` row (`stage` is
`escalationStage`, `timer` is `nextEscalationAt` as none / in the future /
due, `plan` is `plan.escalation.stages`, `enabled` is
`plan.escalation.enabled`, `aged` says that `createdAt` has left the dedupe
window), `attempts` its `NotificationAttempt` rows for the ladder, `job` the
escalation queue (a job's id is `esc:<notification>:<stage>`, so there is one
per stage), `eval` the slots of the escalation worker, `dq` and `disp` the
notification queue and its worker, `fire`, `sweep` and `recon` the callers of
`createNotification`, `sweepOverdueEscalations` and `reconcileEscalations`.
`contacts`, `late` and `used` are not in the program: they record what the
properties speak of and bound the requests and faults.

Each database write, queue operation and channel call is an action, because
the code awaits each of them.  `EvaluateStarts` reads the row and keeps the
plan; `Gate`, `Send`, `Record`, `AdvanceStage`, `EnqueueNextStage` and
`FinalizeEscalation` follow in the order of `evaluateEscalation`, and none of
them reads the row again, exactly as in the code.  `Added` is BullMQ's add with
a custom id: a retained job makes it a no-op.  The gate's verdict is a free
choice here; `VoiceCalls` models it.

`EscalationPromise` is what the user is promised: a stage is tried only while
the notification is not silenced or by an evaluation that began before it was,
and only after all quieter stages.  `Promise == INSTANCE EscalationPromise`
maps its variables to functions of the detailed state.

### DecisionEngine, DecisionChanges

`Decide` is `decide` without its wording, over records that hold what the
function reads.  Subcategories and categories are those of
`config/constants.ts`; a deadline is a number of days, of which the limits are
seven (`severityForJobEvent`) and three (`voiceEventKeyFor`).  A plan's `Stages` are a set, because the
code only ever cuts and filters `ESCALATION_STAGES`, whose order they keep.
`DecisionChanges` starts from any email
and the schema's default settings and takes one change at a time: a switch of
`updateSettings` with its cross-field guards, a deadline found or moved closer,
an action found, a confirmation by the user.  The properties compare the
decision before and after the step.

### VoiceCalls

Several notifications whose plan has reached the voice stage, evaluated
`Slots` at a time (the concurrency of the escalation worker).  The settings a
job has read, the count it has read and the permission it was given travel
with it: `Start`, `Gate`, `ReadCounter` or `CountAttempts` (Redis or the
database), `Allow`, `Dial`, `RecordAttempt`, `IncrementVoiceUsage`.  Time moves
in hours from `FirstHour` on; `Hour` is the hour in the user's time zone and `Day` the day of the
counter's key, which is the UTC day, so the two differ by `Offset`.  `sent` holds the
hours of the recorded attempts, which is what the fallback counts; `MaxCap` is the
greatest maximum among the `Settings`.  After a flush `ReadCounter` finds nothing and
`CountAttempts` still counts every recorded call; the increment of the next call then
sets the counter to one, and from there on the check sees that number alone.

### Applications

`state` and `filed` are `Email.processingState` and `Email.applicationId`,
`analysis` the `EmailAnalysis` row, `aq` and `analyst` the email-processing queue
and its worker, `jobs` the application-processing queue (its jobs have
generated ids, so each add is a new job), `app` and `timeline` the `Application`
and `ApplicationEvent` rows.  `proc` holds the slots of the application worker
and the one request of the user that is being served.  `asked` records
`REVIEW_REQUIRED` notifications; `used`, `touched` and `dropped` are not in the
program: the requests, faults and overlooked rows so far, the applications that an override, a merge or a
stale write has touched, and the emails lost at the hand-off to the
application queue or by a merge that files them under nothing.

The worker's path is `processApplicationFromEmail`: `AskForReview`,
`LeaveToCleanup`, `StartUpdate` or `StartSearch` by what its first read finds,
then `SearchMatches` / `SearchIsUnsure` / `SearchFindsNone`, `DetectDuplicate`,
`CreateApplication`, `LinkNew`, then `applyEmailToApplication` in five steps
(`ApplyReads`, `ApplyEvidence`, `ApplyMove`, `ApplyWrites`, `ApplyRelinks`),
`FlagPossibleDuplicate` and `MaybeNotify`.  The user's `LINK` and `CREATE` use the
same five steps.  `ApplicationGone` is the lookup or foreign key that throws
after a merge has deleted the row.

Abstractions.  What the AI provider reads in an email is any of its
`Readings`, anew at each analysis.  A row of the same cycle
carries the same job id or URL and is always among the candidates
(`findApplicationCandidates`); one of a cycle that resembles it may be, too.  What the
matcher makes of the candidates is free: `services/ai/application-matcher.ts` 103-138
takes a configured provider's index and confidence as they come, so it may link any of
them, ask the user, or find none although an identical row is there; the last is one of
the bounded faults, and `used.overlooked` counts it for the cycle.  Only the deterministic provider is bound to that row; under
it the count stays at zero.  The timeline is a set, so an event recorded twice by a
retry is one.  Of an application only what matching, moving and merging use is
kept: `needsReview`, which is for display, is not, so `CONTINUE` (which clears
it) is no action.  The five attempts of a job are not counted: the bounded
faults and merges cannot use them up.

### MailboxScan

One Gmail account.  A message is known by its place in the mailbox's history,
which is its history id, so `arrived` is the mailbox's latest id and
`acct.cursor` the account's `historyId`.  `acct`, `linked` and `granted` are the
account row, what the user believes and what Google honours: the three differ
because a disconnect, an expiry and a scan each write the row without reading
it.  `scanq` is the email-scan queue by job id (`scan:<account>:INITIAL`,
`...:SCHEDULED`, `...:MANUAL:<time>`), `slot` the scans under way with what each
has read (`creds`, `cursor`, `hid`), `tick` the scheduler between its query and
its add, `web` the consent or disconnect that is being served, `email` and `pq`
the rows and the email-processing queue.  `Authorize`, `GetProfile`,
`CollectFromHistory` or `CollectByQuery`, `GetMessages`, `StoreEmail`,
`EnqueueEmail` and `FinishScan` follow `scanGmailAccount`; `dropped` and
`orphans` record what a logged failure or a listing passed over, `began` whether
the user was connected when a scan began.  `Analyze` is the whole of an email's
analysis, with any outcome; Applications takes it apart.

### Cleanup

Messages that are cleanup material, their rows and links, Gmail's Trash and
inbox, and the `CleanupAction` rows as a sequence, the oldest first, because
`upsertAction` writes the latest.  `req` holds the user's requests:
`executeCleanupBatch` reads the emails of the batch once (`Approve`), then works
through `Block`, `KeepAll`, `Authenticate`, and per message `CallGmail`,
`RecordEmail`, `RecordAction`; `revertCleanupAction` is `Revert`, `Restore`,
`Unflag`, `MarkReverted`.  `prop` holds the daily run and the pipeline's workers
that propose, `doomed` what the retention sweep has selected.  `late` records who
had read an email as unlinked that has been linked since, `asked` how often the
user has decided about a message.

### Sessions

One account and its `RefreshToken` rows, one-time links and the cookie jars of
its browsers; the tabs of one browser share a jar and act at the same time, as
`refreshSession` in `frontend/lib/api.ts` shares a refresh only within a tab.
Each database call of a request is a step (`RefreshReads`, `RefreshRotates`,
`IssueTokens`, `Answer`), and the transactions of `resetPassword` and
`verifyEmail` are one step each.  A row's `root` names the sign-in it descends
from, `epoch` the passwords and revocations that had happened when the session
began; both, with `late`, `races`, `piled` and `missed`, are not in the program.

### AccountDeletion

`obliterate` phase by phase for up to two requests, the queues' jobs that carry
the user's id, workers behind `userStillExists`, a request and an OAuth callback
that add jobs or tokens.  The purge reads the jobs of one state after the other
and removes them one at a time while jobs move between states.  `stirred`,
`ahead` and `unseen` are not in the program: jobs touched after the row was
deleted, workers that were past the guard, and grants the deletion could not see.

### ClientCache

One query of the catalogue is followed in each behaviour, so its answer, its
invalid mark and its fetch are single variables and any interleaving with the
mutations is explored.  What an answer shows (`Shows...`) and a mutation writes
(`...Writes`) are sets of facets read off the backend's functions; `...Refreshes`
are the keys each hook of `frontend/lib/hooks.ts` invalidates, which match by
prefix; the parts of the app (`AppShell`, the pages, the sections of the settings
page) say which queries are mounted and which mutations offered.  React Query is
external: a first load or an unmounted fetch goes on when its query is
invalidated and its answer clears the mark, a mounted one is begun again, an
answer ages, is dropped when nobody shows it, is fetched again on focus and, for
the polled queries, on the interval.  `missed` records mutations whose
invalidation joined a running fetch, `hasty` settings switches flipped, or
overtaken, before the page had settled.  Mutations that hand work to a queue
(`Deferred`) write after they have answered.  Not in the catalogue are four hooks
that no component uses (`useReviewQueue`, `useSystemStatus`, `useUpdateApplication`,
`useResolveNotification`), `useDiagnostics`, which shows the health of the server and
nothing of the user's, `useResendVerification`, of which queries show no more than an
entry of the audit, and the hooks of the session, the password and the account itself, and of the
redirect to Google, which are on pages of their own or leave the app.

## 4. What each run checks

| Run | Question | Bounds, and why they are enough | Result |
|---|---|---|---|
| `escalation_safety` | Is the ladder ordered, stoppable and bounded, and does it implement its promise? | two workers (a race needs two), one dispatcher, ladders of one and two stages, two requests of fire / retry / pause / reconcile, one fault; acknowledging and resolving are unbounded | all hold |
| `escalation_liveness` | Is an armed ladder ever stranded by one fault? | one request (the firing), one fault of any kind, ladders of up to two stages | holds |
| `escalation_failed` | Does a broken Slack webhook leave the rest of the ladder? | the full ladder of three, one firing, no fault | violated, a finding |
| `decisions` | Can one change of the input turn the decision the wrong way? | the values the function distinguishes; subcategories by their treatment | all hold |
| `voice_calls` | By how much can the daily maximum be exceeded, and with whose permission is a call dialled? | six notifications, two slots, maximum two, days of two hours, the hour before a UTC midnight and the one after it, one fault; with a flush the bound is five calls, which the run reaches, so six notifications would exceed it | all hold |
| `applications` | What can status, timeline, links and rows be relied on for? | two emails, the second of the same or of a resembling cycle, two slots (each race needs two), one request of any of eight kinds, one fault of any of five, a row that the provider overlooks among them; the names of one cycle contain the other's and not the reverse, as in the search; slots are symmetric | all hold |
| `mailbox_scan` | Does the cursor pass a message over, does each stored email reach the analysis, can a scan begin without consent? | two slots, one manual id besides the two fixed ones, two messages (one before and one during a scan, and a scan that overlaps another), two requests, one fault; a history page that cuts the listing takes a third message, which is left to the proof of `CursorCovers` for every page size | all hold |
| `scan_starved` | Is a due account scanned? | one slot, one message, one request (the consent), no fault | violated, a finding |
| `cleanup` | What may be trashed, what can be undone, what do the records claim? | one message (messages meet only in a batch's one read), two requests at a time and three in all (delete, keep or restore, delete again), one pipeline worker besides the daily run, three actions, one fault | all hold |
| `sessions` | Which sessions outlive a revocation, how many can a sign-in hold, does rotation strand a browser, how often does a link work? | two tabs of one browser and one of another, three tokens (a sign-in, its rotation and a racing one), two links, four requests, one fault; the two tabs are symmetric | all hold |
| `account_deletion` | Who still works after the row is gone, what do the receipts claim, what does the purge leave, do the queues fall silent? | one job (jobs do not meet), one worker, two deletions, one added job, one fault | all hold |
| `client_cache` | Do two settings switches undo each other, does an open page catch up? | each of the 19 queries of the user's data that a page mounts, one mutation, two for the queries an edit is made on (`settings`, `me`), one fault | all hold |

`ForwardUnlessStale`, `DuplicatesBounded` and `NeverStranded` say what remains
true where the documentation promises more: the status goes back only by a
write that acts on a status that has changed since it was read; a cycle has at
most one row per slot, and one for each search whose provider overlooked a row; an email is lost only at the hand-off, or when a second
merge deletes the record the first one kept.
`TimelineReflected` and `EvidenceOfFiling` relate the timeline to the status and
to the email's link and hold through crashes, retries and merges.

`DailyMaximum` is the maximum, one more for every further slot that passed the same
check, one for each fault that hides a call from the check, and for each flush of
Redis what it really costs: not a new maximum, since the fallback counts the recorded
attempts while the counter is missing, but the calls that come after the first one
counted again.  The run reaches the bound, so it is not generous.  A check that
trusts the counter alone (the mutant `ReadCounterOnly`) breaks it.

`CursorCovers` accounts for every message at or before the cursor: stored,
deleted by the user, or in `dropped`, which only a listing that is cut off or a
logged failure fills.  `EvidenceStays` lets a linked email be trashed or swept only
by a request that had read it before it was linked.  `DeletesUndoable` and
`NoFalseRestore` hold for what the user decided once, or once and back: a second
decision overwrites the record of the first (see below).  `StaleSessionsEnd` and
`SessionsCounted` bound what survives a revocation to requests that had passed
their check.  `CatchesUp` is owed for the queries a hook names; the pairs of a
mutation and a query it changes but does not invalidate are `Gaps`, which is
exactly that set.

`CHECK_DEADLOCK FALSE` is set where the system may really stop: the modelled days
of `voice_calls` end, mailboxes receive no more, tokens, requests and jobs are
used up, and without the user the rest waits.  The Escalation runs and
`decisions` never stop.

### Fairness

`FairSpec` of Escalation assumes that a worker that can take a job or go on
with it does so (BullMQ's event loop), that a dispatcher does, that delayed
jobs fall due and timers elapse (time), and that the sweep runs when something
is overdue (`runTick` on its interval, `workers/scheduler.ts` 29-71).  Nothing
obliges the user, a fault, or the removal of a retained job.  Weak fairness is
enough: none of these actions is disabled again and again while it waits.

Where the assumption stops: `NeverDropped` holds for one fault.  With two, a
dispatcher that crashes after arming and then arms again at stage -1, and a
refused add, the retained id of stage 0 blocks the sweep.

`FairSpec` of MailboxScan assumes the same of the scan worker, the requests, the
scheduler's tick, the analysis, and that an account falls due as time passes.
`scan_starved` refutes `DueIsScanned` under it: nothing obliges BullMQ to remove
the finished job whose id blocks the next add.

`FairSpec` of AccountDeletion assumes that workers go on and delayed jobs come
due; the deletion itself may stop anywhere.

`FairSpec` of ClientCache assumes that a call comes to an end and that an open
page polls.  The first is an assumption: `frontend/lib/api.ts` sets no timeout.

### Findings

Two runs are disagreements of the code with its own documentation;
`PROJECT.json` quotes the lines.

* `escalation_failed`: a delivery that fails ends the ladder.
* `scan_starved`: the finished job whose id is retained blocks the next scan.

What passing properties make precise, where the code does less than a comment or
document suggests:

* a job id retained after a pause blocks the sweep's add (`NeverDropped` is
  claimed for the firing alone);
* a status computed from an old read is written over a newer one
  (`ForwardUnlessStale`);
* a refused hand-off to a queue is logged and not picked up again
  (`NeverStranded`, `HandedOver`);
* `services/notifications/escalation.service.ts` 411-413 says that, thanks to the
  fallback, "a Redis flush can never cause a user to receive more calls than their
  configured daily maximum".  With a maximum of two and no two evaluations at once:
  a call is placed and counted, Redis is flushed, the next check counts one recorded
  attempt and lets the second call pass, whose increment sets the counter to one, and
  the check after that reads one and lets a third pass.  With a maximum of one it is as
  the comment says (`DailyMaximum` grants a flush what this takes, and no more);
* the fallback of a scan to the bounded query when its cursor has expired
  (`services/gmail/sync.service.ts` 230-232, 246) is never taken: `call` rewrites every
  404 as "Gmail API request failed" (`services/gmail/client.ts` 232-236), which the
  test for "404" or "history" at line 126 does not match.  The scan fails, and the next
  scheduled one starts from the same cursor, until the user asks for a full rescan;
  `ScanFails` covers it.  For the same
  reason a message deleted between list and fetch, "not an error condition" (line 80),
  is logged as one that could not be fetched;
* "every item is re-validated against the protection rules immediately before the Gmail
  call" (`services/cleanup/cleanup.service.ts` 287-288) and "the rule is re-checked
  immediately before anything is removed from Gmail" (settings page, 680-682): the rule
  is checked once for the whole batch, before its first call, so an email that is linked
  to an application after that is trashed (`EvidenceStays` excuses just these);
* Keep writes SKIPPED over an EXECUTED deletion, which can then no longer be
  undone, where `services/cleanup/cleanup.service.ts` 339 calls it a no-op
  (`DeletesUndoable` asks for one decision);
* a merge re-points the flags of the duplicate at the survivor, which then names
  itself as the earlier application, and its page offers the merge again.
  Accepting it moves the emails onto the record it deletes
  (`services/applications/application.service.ts` 582): they are filed under
  none, and the timeline, which `DATABASE.md` calls append-only, is gone
  (`NeverStranded` and `EvidenceOfFiling` except the emails in `dropped`, and the
  proofs cover any number of merges);
* settings switches of one list, flipped before the page has settled, overwrite
  each other (`EditsKept`), and an invalidation that meets a first load or a
  fetch of a page that was left is lost (`CatchesUp`).

## 5. What is proved

`EscalationProofs` proves, for every set of workers and dispatchers, every
family of ladders, every `MaxStage`, `MaxAttempts`, `MaxQueued`, `MaxEvents` and
`MaxFaults`, from the assumptions named in `Escalation`:

* `TypeCorrect`: `Spec => []TypeOK`.  `TypeOK` ties a worker's step to its
  plan, so it also says that no worker indexes a ladder past its end although
  a re-fire may replace the row's plan at any time.
* `LadderInOrder`: `Spec => []NoStageSkipped`.  The property alone is not
  inductive: a job, a sweep or the row may carry a stage that was never
  earned.  `OrderInv` adds that everything that carries a stage number carries
  an earned one: the row's `stage` and all below it have been attempted, every
  job that exists and every worker under way has all lower stages attempted,
  a worker past `Record` has its own stage attempted, and the sweep holds a
  stage whose lower ones are attempted.  Attempts are never deleted, so
  re-fires and reset stages only weaken what the row claims.
* `StopHeard`: `Spec => []StopIsHeard`, inductive together with the type
  invariant: a worker gets to `gate` or `send` only through `EvaluateStarts`,
  which reads a row that is not silenced, and each silencing request records
  the workers under way.
* `PromiseKept`: `Spec => KeepsPromise`, the refinement, step by step: `Record`
  maps to Try, the start of an evaluation to Begin, an abort to GiveUp, the
  user's requests to ChangeSilence, everything else to a stutter.

One more theorem needs that the set of workers is finite (the queue's
`concurrency` setting makes it so):

* `ContactsCounted`: `Spec => []ContactsBounded`.  The number of contacts says
  nothing of the contacts still to come, so it is not inductive.  `TicketInv`
  counts a stage's contacts together with the workers on their way to its
  channel and with the job that can still send one there: the sum is at most
  one, and one more for each fault.  Taking a job moves the ticket from the
  queue to a worker, a send turns it into a contact, and a finished job is
  retained, so adding the same id again hands out no new one.

`ApplicationsProofs`, for any emails, cycles, readings and analysis workers, any
finite set of slots, and any number of requests and faults:

* `TypeCorrect`.  The type invariant contains the database's foreign keys; to keep
  them, `ProcInv` says of a worker under way that it holds an email, past its
  search a cycle, past the lookup an application that has existed, and that the
  status it is about to write is not below the one it read; `AnalystInv` says
  the same of the analysis.
* `NeverBackByItself`: `Spec => ForwardUnlessStale`.  The only steps that write a
  status are an override and `ApplyWrites`; by `ProcInv` the latter goes up from
  the status it read, so a fall means that status is no longer the row's.
* `OneRowPerSearch`: `Spec => []DuplicatesBounded`.  The rows there are say nothing
  of the rows to come, so `RowInv` counts a cycle's rows together with the slots
  that found none and may still add one: their sum is at most the number of
  slots and the rows that were overlooked.  A search that finds none either meets no row
  of the cycle, so that the sum is then a number of slots, or overlooks one, which is
  counted; creating a row moves a slot's share to the rows.
* `StatusKeepsUp`: `Spec => []TimelineReflected`, inductive together with `ProcInv`: a
  move on the timeline has its writer still at the write, and once the writer is
  past it the status is that of the event or the row is touched.
* `FiledWithEvidence`: `Spec => []EvidenceOfFiling`.  The property lets go of an email
  that a worker has in hand, whatever the worker is about to do with it, so it
  is not inductive.  `EvidenceInv` is stricter: an email that is filed and was
  handed on has its event, or is on its way through the queues, or a slot is
  about to record the event at the very application it is filed under or to find
  that one gone.  `RecordedInv` is what it needs of a slot: past the evidence, the
  event is on the timeline of its application, unless that was merged away.
* `NothingStranded`: `Spec => []NeverStranded`.  `StrandedInv` likewise narrows "some
  worker has it" to a slot that will still file the email, ask about it or run
  again; a slot that only flags or notifies holds an email already filed.

`MailboxScanProofs`, for every number of slots, messages, requests and faults and
every page size:

* `TypeCorrect`, which ties each scan to an active job of its own.
* `CursorHasNoGap`: `Spec => []CursorCovers`.  By `CoverInv`: what is before the
  cursor a scan has read is covered, and once it has listed, everything up to
  the history id it will write is covered or on its list; scans that overlap each
  carry their own claim.
* `EveryEmailHandedOver`: `Spec => []HandedOver`.
* `NoScanWithoutConsent`: `Spec => []ScanNeedsConsent`.  By `ConsentInv`: a scan
  past its authorization read tokens, tokens are in the row only while the user
  is connected, and what a scan writes back never restores them.

`AccountDeletionProofs`, for every set of jobs and any number of workers and
concurrent deletions:

* `TypeCorrect`.
* `NobodyStarts`: `Spec => []OnlyStragglers`.
* `ReceiptTellsTheTruth`: `Spec => []ReceiptIsTrue`.  By `ReceiptInv`, which follows
  what each request has seen of the account and revoked, phase by phase.
* `PurgeMissesNothing`: `Spec => []PurgeIsComplete`.  By `PurgeInv`: a job that
  nobody has touched since the row was deleted stays in its state or moves on
  from delayed to waiting, and the purge, which reads waiting again at the end,
  has either removed it or has its state still ahead.

`ClientCacheProofs`, for every set of followed queries, any number of mutations
and faults:

* `TypeCorrect`.
* `SwitchesKept`: `Spec => []EditsKept`.  The property speaks of what was saved and
  says nothing of the next list to be sent, so it is not inductive.  `KeptInv`
  adds that two switches under way at once are both hasty, that a list on its
  way names itself and every settled switch, and that the copy shows a settled
  switch, or is being read again, or cannot be clicked on.  It needs one fact
  of the catalogue: every page that offers a switch shows the settings.

`VoiceCallsProofs`, for any finite set of notifications, any number of slots, any
emails, settings, time zone and length of a day:

* `TypeCorrect`.
* `PermissionGiven`: `Spec => []PermissionIsCurrent`.  By `PermissionInv`: an
  evaluation nothing has overtaken acts on the settings in force.
* `MaximumKept`: `Spec => []DailyMaximum`.  What is placed says nothing of the calls
  being dialled, so `CountInv` counts both, and holds what was placed against the two
  records the check may read: the counter with the calls on their way to it, and the
  recorded attempts with those still to be recorded.  While the counter is missing only
  the attempts are looked at, so nothing is added on account of the flush until a call
  sets the counter to one: then one call is known, and the rest of the maximum and the
  other slots are what the flush cost (`Gone`).  Any other fault hides one call.

`VoiceCallsProofs` also proves the properties of DecisionChanges, for any emails,
distances of deadlines and sets of choices that fit the columns
(`InputsAssumption`):

* `NeverClaimed`: `ChangesSpec => []NeverBothWays`.  What cleanup claims is no job
  mail, so it is not important, and it notifies only while it awaits a review,
  when nothing has to be acknowledged.
* `LessBringsNoMore`: `ChangesSpec => AskingForLess`.  The settings are compared one
  conjunct of the decision at a time, stage by stage for the ladder.
* `PressureNeverQuiets`: `ChangesSpec => PressureIsHeard`.  A deadline that comes
  closer crosses the limits of seven and three days in one direction only: the first
  raises the severity, the second makes the email one that may call; the rest of the
  decision is monotone in both.

The two action properties need the types of the rows (`InputInv`), which every
change keeps.

`SessionsProofs`, for any browsers, any finite set of tabs and any number of tokens,
links, requests and faults:

* `TypeCorrect`.
* `StaleSessionsCorrect`: `Spec => []StaleSessionsEnd`.  By `StaleInv`, which excuses
  the requests that will still issue a token as it excuses the tokens.
* `LinksCorrect`: `Spec => []LinksCounted`.  By `LinksInv`: a link's uses together
  with the requests about to spend it are at most one, and one more for each
  request that met another; a link that can be opened has none.
* `RotationCorrect`: `Spec => []RotationArrives`.  By `RotationInv`: a browser whose
  token was rotated has a tab that is still exchanging it, or missed the answer.
* `SessionsCorrect`: `Spec => []SessionsCounted`.  By `CountInv`: the usable tokens of
  a sign-in are counted with the requests about to issue one.

`CleanupProofs`, for any messages, requests, workers, actions and faults, the set of
pipeline workers being finite:

* `TypeCorrect`.
* `EvidenceLeftAlone`: `Spec => [][...]_vars`, the property `EvidenceStays`.  By
  `EvidenceInv`: what a request or the sweep has still to do contains no linked email
  but those linked since it read them.
* `ProposalsFew`: `Spec => []ProposalsBounded`.  By `ProposalInv`: the open proposals
  of a message together with the proposers about to add one.
* `DeletionsRecorded` and `RestoresHappened`: `Spec => []DeletesUndoable` and
  `Spec => []NoFalseRestore`.  Both say what holds after one or two decisions, so
  `RecordInv` follows a message through its decisions: before the first nobody is
  concerned with it; after the first one request is, until the result is recorded,
  and an EXECUTED record means that nobody is any more; so a reversal, which needs
  that record, is alone with the message when the second decision starts it.

Every safety and action property of a passing run is the statement of a
theorem.  Only model-checked are the three liveness properties, `NeverDropped`,
`Settles` and `CatchesUp` (liveness under fairness is out of the prover's reach),
and the two refuted ones, for which the counterexample is the result.

## 6. What is not modelled

Message parsing, prompts and provider calls, wording of notifications,
encryption, HTTP routing and rate limits, the arithmetic of dashboards and
analytics, the layout and forms of the pages: they keep no state that another
component's correctness depends on.  In Escalation the deliveries of the base
channels are left out (their outcome never stops the dispatch), and one plan
with escalation enabled or not is chosen at each firing.

Seen while modelling, and outside the models:

* BullMQ (`^5.13`) refuses a custom id with colons unless it has exactly three
  parts; `scan:<id>:MANUAL:<time>` and the ids of the daily cleanup jobs have
  more.  An add of such an id is modelled as accepted or refused.
* `runScanInline` runs a scan in the request outside production.
* A cleanup batch uses the latest connected account, whatever account the email
  came from; one account is modelled.
* The purge of a deletion reads at most 1001 jobs of a state, and its failures are
  neither stored on the receipt nor retried, unlike `queues/index.ts` 321-324
  says.
* `createStoreCommand` in `middleware/security.ts` swallows the reply that a
  script is not loaded, so that a flushed Redis is not given the script again.
* The integration card replaces the whole configuration, so that entering a new
  secret alone erases the other fields (`controllers/settings.controller.ts` 132).
* The quiet hours' guard against an empty window is passed by two patches of one
  field each (`services/settings/settings.service.ts` 95).
* The danger zone takes any 401 or 404 for "the account no longer exists"
  (`frontend/app/(app)/settings/page.tsx` 1480-1497).
