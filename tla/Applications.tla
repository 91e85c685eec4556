----------------------------- MODULE Applications -----------------------------
(***************************************************************************)
(* From a stored email to the job application it is filed under: the       *)
(* analysis worker that reads an email and hands it on, the                *)
(* application-processing worker that matches it, creates or updates an    *)
(* application and appends to its timeline, and the user who decides on    *)
(* what the review queue holds, overrides, merges and reprocesses.         *)
(*                                                                         *)
(* Only resolveDuplicate runs in a transaction.  Every other write is      *)
(* awaited on its own and is a step of its own here: a process goes on     *)
(* with the rows as it read them.                                          *)
(***************************************************************************)
EXTENDS Integers, Sequences, FiniteSets

CONSTANTS
  Emails,       \* stored emails, each queued for analysis
  NoEmail,
  Cycles,       \* application cycles: one employer, one role, one job id
  NoCycle,      \* the company or the role could not be extracted
  Resembles,    \* pairs of different cycles the matcher may take for one
  Readings,     \* for each email, what the AI provider may read in it
  Analysts,     \* slots of the email-processing worker
  Slots,        \* slots of the application-processing worker
  User,         \* the request handler that serves the user
  Overrides,    \* the statuses the user sets by hand
  Enabled,      \* the kinds of request and fault that happen
  MaxRequests,  \* bound on the requests
  MaxFaults     \* bound on the faults

Requests == {"link", "create", "ignore", "not_job", "correct", "override", "merge", "reprocess"}
Faults   == {"crash", "stall", "fail", "refuse", "overlook"}

(* STATUS_RANK and SUBCATEGORY_TO_STATUS.                                  *)
STATUS_RANK ==
  [NO_RESPONSE |-> 0, APPLIED |-> 1, ACKNOWLEDGED |-> 2, SHORTLISTED |-> 3, ASSESSMENT |-> 4,
   INTERVIEW |-> 5, FINAL_ROUND |-> 6, ON_HOLD |-> 6, OFFER |-> 7, ACCEPTED |-> 8,
   REJECTED |-> 9, WITHDRAWN |-> 9]

SUBCATEGORY_TO_STATUS ==
  [APPLICATION_RECEIVED |-> "APPLIED", APPLICATION_ACKNOWLEDGED |-> "ACKNOWLEDGED",
   SHORTLISTED |-> "SHORTLISTED", ASSESSMENT |-> "ASSESSMENT", INTERVIEW |-> "INTERVIEW",
   NEXT_ROUND |-> "INTERVIEW", FINAL_ROUND |-> "FINAL_ROUND",
   RECRUITER_CONTACT |-> "ACKNOWLEDGED", OFFER |-> "OFFER", OFFER_ACCEPTED |-> "ACCEPTED",
   REJECTION |-> "REJECTED", WITHDRAWN |-> "WITHDRAWN"]

Statuses == DOMAIN STATUS_RANK
Terminal == {"REJECTED", "WITHDRAWN"}

(* Subcategories that say nothing of the status, and null.                 *)
Silent        == {"OTHER", "NONE"}
SubCategories == DOMAIN SUBCATEGORY_TO_STATUS \cup Silent

(* An analysis: is it about a job, is the provider unsure, which cycle     *)
(* does it identify, what does it announce; has the user corrected it.     *)
Reading  == [job : BOOLEAN, review : BOOLEAN, cycle : Cycles \cup {NoCycle}, sub : SubCategories]
Analysis == [done : BOOLEAN, corrected : BOOLEAN, job : BOOLEAN, review : BOOLEAN,
             cycle : Cycles \cup {NoCycle}, sub : SubCategories]

ASSUME ProcessesAssumption == User \notin Slots /\ IsFiniteSet(Slots) /\ NoEmail \notin Emails
ASSUME CyclesAssumption    == NoCycle \notin Cycles /\ Resembles \subseteq Cycles \X Cycles
ASSUME ReadingsAssumption  == Readings \in [Emails -> (SUBSET Reading) \ {{}}]
ASSUME BoundsAssumption    ==
  /\ Overrides \subseteq Statuses
  /\ Enabled \subseteq Requests \cup Faults
  /\ MaxRequests \in Nat
  /\ MaxFaults \in Nat

VARIABLES
  state,     \* Email.processingState
  filed,     \* Email.applicationId, 0 for null
  analysis,  \* the EmailAnalysis row
  aq,        \* the email-processing queue
  analyst,   \* the email-processing workers
  jobs,      \* the application-processing queue: how many jobs for each email
  proc,      \* the application-processing workers and the user's request
  app,       \* Application rows, in order of creation
  timeline,  \* ApplicationEvent rows: the links and the status moves
  asked,     \* emails with a REVIEW_REQUIRED notification
  used,      \* how many requests and faults have happened, and for each cycle how
             \* many searches found it new in spite of a row of its own
  touched,   \* applications overridden, merged into, written from a stale read, or
             \* left by a crash with a move recorded and not written
  dropped    \* emails that nothing hands to the application queue again: the add was
             \* refused, a retried analysis was skipped, or a merge un-filed the email

vars == << state, filed, analysis, aq, analyst, jobs, proc, app, timeline, asked,
           used, touched, dropped >>

-----------------------------------------------------------------------------
Processes == Slots \cup {User}

Unread == [done |-> FALSE, corrected |-> FALSE, job |-> FALSE, review |-> FALSE,
           cycle |-> NoCycle, sub |-> "NONE"]

Free == [pc |-> "idle", email |-> NoEmail, sub |-> "NONE", cycle |-> NoCycle, app |-> 0,
         from |-> "APPLIED", to |-> "APPLIED", dup |-> 0]

Off == [pc |-> "idle", email |-> NoEmail, force |-> FALSE, job |-> FALSE, review |-> FALSE]

Ids  == DOMAIN app
Live == { a \in Ids : app[a].live }

Request(kind) ==
  /\ kind \in Enabled
  /\ used.requests < MaxRequests
  /\ used' = [used EXCEPT !.requests = @ + 1]

Fault(kind) ==
  /\ kind \in Enabled
  /\ used.faults < MaxFaults
  /\ used' = [used EXCEPT !.faults = @ + 1]

-----------------------------------------------------------------------------
(* analyzeEmail and its worker.                                            *)

(* A processed email is not analysed again unless forced, nor handed on.   *)
AnalyzeSkips(j) ==
  /\ j \in aq
  /\ ~j.force /\ state[j.email] = "PROCESSED" /\ analysis[j.email].done
  /\ aq' = aq \ {j}
  /\ dropped' = IF analysis[j.email].job THEN dropped \cup {j.email} ELSE dropped
  /\ UNCHANGED << state, filed, analysis, analyst, jobs, proc, app, timeline, asked,
                  used, touched >>

AnalyzeStarts(w, j) ==
  /\ j \in aq
  /\ analyst[w].pc = "idle"
  /\ j.force \/ state[j.email] # "PROCESSED" \/ ~analysis[j.email].done
  /\ aq' = aq \ {j}
  /\ state' = [state EXCEPT ![j.email] = "PROCESSING"]
  /\ analyst' = [analyst EXCEPT ![w] = [Off EXCEPT !.pc = "persist", !.email = j.email,
                                                  !.force = j.force]]
  /\ UNCHANGED << filed, analysis, jobs, proc, app, timeline, asked, used, touched, dropped >>

(* persistAnalysis: an upsert that also replaces what the user corrected.  *)
PersistAnalysis(w) ==
  LET e == analyst[w].email
  IN  /\ analyst[w].pc = "persist"
      /\ \E r \in Readings[e] :
           /\ analysis' = [analysis EXCEPT ![e] =
                [done |-> TRUE, corrected |-> FALSE, job |-> r.job, review |-> r.review,
                 cycle |-> r.cycle, sub |-> r.sub]]
           /\ analyst' = [analyst EXCEPT ![w].pc = "settle", ![w].job = r.job,
                                         ![w].review = r.review]
      /\ UNCHANGED << state, filed, aq, jobs, proc, app, timeline, asked, used, touched, dropped >>

SettleState(w) ==
  /\ analyst[w].pc = "settle"
  /\ state' = [state EXCEPT ![analyst[w].email] =
                 IF analyst[w].review THEN "NEEDS_REVIEW" ELSE "PROCESSED"]
  /\ analyst' = [analyst EXCEPT ![w].pc = "hand"]
  /\ UNCHANGED << filed, analysis, aq, jobs, proc, app, timeline, asked, used, touched, dropped >>

(* Only job mail goes on.  A refused add is logged and dropped.            *)
HandOver(w) ==
  LET e == analyst[w].email
  IN  /\ analyst[w].pc = "hand"
      /\ analyst' = [analyst EXCEPT ![w] = Off]
      /\ \/ /\ analyst[w].job
            /\ jobs' = [jobs EXCEPT ![e] = @ + 1]
            /\ dropped' = dropped \ {e}
            /\ UNCHANGED used
         \/ /\ analyst[w].job
            /\ Fault("refuse")
            /\ dropped' = dropped \cup {e}
            /\ UNCHANGED jobs
         \/ /\ ~analyst[w].job
            /\ UNCHANGED << jobs, used, dropped >>
      /\ UNCHANGED << state, filed, analysis, aq, proc, app, timeline, asked, touched >>

JobOf(w) == [email |-> analyst[w].email, force |-> analyst[w].force]

(* The provider or the database throws: the email is marked FAILED and the *)
(* queue runs the job again.                                               *)
AnalysisFails(w) ==
  /\ analyst[w].pc \in {"persist", "settle"}
  /\ Fault("fail")
  /\ state' = [state EXCEPT ![analyst[w].email] = "FAILED"]
  /\ aq' = aq \cup {JobOf(w)}
  /\ analyst' = [analyst EXCEPT ![w] = Off]
  /\ UNCHANGED << filed, analysis, jobs, proc, app, timeline, asked, touched, dropped >>

(* The process dies: the queue finds the job stalled and runs it again,    *)
(* but a job whose email is PROCESSED by then is skipped.                  *)
AnalystStalls(w) ==
  /\ analyst[w].pc # "idle"
  /\ Fault("stall")
  /\ aq' = aq \cup {JobOf(w)}
  /\ analyst' = [analyst EXCEPT ![w] = Off]
  /\ UNCHANGED << state, filed, analysis, jobs, proc, app, timeline, asked, touched, dropped >>

-----------------------------------------------------------------------------
(* processApplicationFromEmail.                                            *)

Goto(p, pc) == proc' = [proc EXCEPT ![p].pc = pc]

Take(p, e, pc) ==
  proc' = [proc EXCEPT ![p] = [Free EXCEPT !.pc = pc, !.email = e, !.sub = analysis[e].sub,
                                           !.cycle = analysis[e].cycle, !.app = filed[e]]]

(* What the worker does with an email is settled by the first read.        *)
AsksReview(e)   == (analysis[e].review /\ filed[e] = 0)
                   \/ (analysis[e].job /\ filed[e] = 0 /\ analysis[e].cycle = NoCycle)
NothingToDo(e)  == ~AsksReview(e) /\ ~analysis[e].job
UpdatesFiled(e) == analysis[e].job /\ filed[e] # 0
Searches(e)     == analysis[e].job /\ filed[e] = 0 /\ ~AsksReview(e)

(* raiseReviewNotification, the end of the uncertain branches.             *)
AskForReview(p, e) ==
  /\ jobs[e] > 0 /\ proc[p].pc = "idle"
  /\ AsksReview(e)
  /\ jobs' = [jobs EXCEPT ![e] = @ - 1]
  /\ asked' = asked \cup {e}
  /\ UNCHANGED << state, filed, analysis, aq, analyst, proc, app, timeline, used, touched, dropped >>

(* Mail that is not about a job goes to cleanup, which keeps its own state. *)
LeaveToCleanup(p, e) ==
  /\ jobs[e] > 0 /\ proc[p].pc = "idle"
  /\ NothingToDo(e)
  /\ jobs' = [jobs EXCEPT ![e] = @ - 1]
  /\ UNCHANGED << state, filed, analysis, aq, analyst, proc, app, timeline, asked,
                  used, touched, dropped >>

StartUpdate(p, e) ==
  /\ jobs[e] > 0 /\ proc[p].pc = "idle"
  /\ UpdatesFiled(e)
  /\ jobs' = [jobs EXCEPT ![e] = @ - 1]
  /\ Take(p, e, "read")
  /\ UNCHANGED << state, filed, analysis, aq, analyst, app, timeline, asked, used, touched, dropped >>

StartSearch(p, e) ==
  /\ jobs[e] > 0 /\ proc[p].pc = "idle"
  /\ Searches(e)
  /\ jobs' = [jobs EXCEPT ![e] = @ - 1]
  /\ Take(p, e, "search")
  /\ UNCHANGED << state, filed, analysis, aq, analyst, app, timeline, asked, used, touched, dropped >>

(* Faulty variant: a row is a candidate through the emails filed under it. *)
ExactByEmail(c) == { a \in Live : app[a].cycle = c /\ \E e \in Emails : filed[e] = a }

(* findApplicationCandidates: the rows of the same cycle carry the same job *)
(* id and are always among them; rows of other cycles may be.              *)
Exact(c) == { a \in Live : app[a].cycle = c }
Alike(c) == { a \in Live : << c, app[a].cycle >> \in Resembles }

Candidates(c) == Exact(c) \cup Alike(c)

(* matchEmailToApplication: a configured provider's index and confidence   *)
(* are taken as they come.  It may be sure of any candidate, unsure of one *)
(* or find none, even where a row of the very cycle is a candidate; only   *)
(* the deterministic provider is bound to that row.                        *)
SearchMatches(p) ==
  /\ proc[p].pc = "search"
  /\ \E a \in Candidates(proc[p].cycle) :
       proc' = [proc EXCEPT ![p].pc = "read", ![p].app = a]
  /\ UNCHANGED << state, filed, analysis, aq, analyst, jobs, app, timeline, asked,
                  used, touched, dropped >>

SearchIsUnsure(p) ==
  /\ proc[p].pc = "search"
  /\ Candidates(proc[p].cycle) # {}
  /\ asked' = asked \cup {proc[p].email}
  /\ proc' = [proc EXCEPT ![p] = Free]
  /\ UNCHANGED << state, filed, analysis, aq, analyst, jobs, app, timeline,
                  used, touched, dropped >>

(* A provider that names no row where the row of the cycle is listed.      *)
Overlooks(c) ==
  /\ "overlook" \in Enabled
  /\ used.faults < MaxFaults
  /\ used' = [used EXCEPT !.faults = @ + 1, !.overlooked[c] = @ + 1]

SearchFindsNone(p) ==
  LET c == proc[p].cycle
  IN  /\ proc[p].pc = "search"
      /\ IF Exact(c) = {} THEN UNCHANGED used ELSE Overlooks(c)
      /\ Goto(p, "detect")
      /\ UNCHANGED << state, filed, analysis, aq, analyst, jobs, app, timeline, asked,
                      touched, dropped >>

(* findDuplicateCandidates reads again; the verdict is advisory.           *)
DetectDuplicate(p) ==
  LET c == proc[p].cycle
  IN  /\ proc[p].pc = "detect"
      /\ \E d \in {0} \cup Candidates(c) :
           proc' = [proc EXCEPT ![p].pc = "create", ![p].dup = d]
      /\ UNCHANGED << state, filed, analysis, aq, analyst, jobs, app, timeline, asked,
                      used, touched, dropped >>

CreateApplication(p) ==
  /\ proc[p].pc = "create"
  /\ app' = Append(app, [live |-> TRUE, cycle |-> proc[p].cycle, status |-> "APPLIED",
                         prev |-> 0, byUser |-> p = User])
  /\ proc' = [proc EXCEPT ![p].pc = IF p = User THEN "read" ELSE "link",
                          ![p].app = Len(app) + 1]
  /\ UNCHANGED << state, filed, analysis, aq, analyst, jobs, timeline, asked,
                  used, touched, dropped >>

LinkNew(p) ==
  /\ proc[p].pc = "link"
  /\ proc[p].app \in Live
  /\ filed' = [filed EXCEPT ![proc[p].email] = proc[p].app]
  /\ Goto(p, "read")
  /\ UNCHANGED << state, analysis, aq, analyst, jobs, app, timeline, asked, used, touched, dropped >>

-----------------------------------------------------------------------------
(* applyEmailToApplication, called by the worker and for the user.         *)

(* Faulty variant: any status an email names is taken.                     *)
NextStatusUnranked(from, sub) ==
  IF sub \in Silent THEN from ELSE SUBCATEGORY_TO_STATUS[sub]

NextStatus(from, sub) ==
  IF sub \in Silent THEN from
  ELSE LET target == SUBCATEGORY_TO_STATUS[sub]
       IN  IF target \in Terminal \/ STATUS_RANK[target] > STATUS_RANK[from]
           THEN target ELSE from

ApplyReads(p) ==
  /\ proc[p].pc = "read"
  /\ proc[p].app \in Live
  /\ LET from == app[proc[p].app].status
     IN  proc' = [proc EXCEPT ![p].pc = "evidence", ![p].from = from,
                              ![p].to = NextStatus(from, proc[p].sub)]
  /\ UNCHANGED << state, filed, analysis, aq, analyst, jobs, app, timeline, asked,
                  used, touched, dropped >>

Event(p, what) == [app |-> proc[p].app, email |-> proc[p].email, what |-> what]

(* The EMAIL_LINKED event, unless this email already has one here.         *)
ApplyEvidence(p) ==
  /\ proc[p].pc = "evidence"
  /\ proc[p].app \in Live
  /\ timeline' = timeline \cup {Event(p, "LINKED")}
  /\ Goto(p, IF proc[p].to # proc[p].from THEN "move" ELSE "write")
  /\ UNCHANGED << state, filed, analysis, aq, analyst, jobs, app, asked, used, touched, dropped >>

ApplyMove(p) ==
  /\ proc[p].pc = "move"
  /\ proc[p].app \in Live
  /\ timeline' = timeline \cup {Event(p, proc[p].to)}
  /\ Goto(p, "write")
  /\ UNCHANGED << state, filed, analysis, aq, analyst, jobs, app, asked, used, touched, dropped >>

(* Faulty variant: the write is conditional on the status that was read,   *)
(* and nobody looks at whether it took effect.                             *)
ApplyWritesIfUnchanged(p) ==
  LET a == proc[p].app
  IN  /\ proc[p].pc = "write"
      /\ a \in Live
      /\ app' = IF app[a].status = proc[p].from
                THEN [app EXCEPT ![a].status = proc[p].to] ELSE app
      /\ Goto(p, "relink")
      /\ UNCHANGED << state, filed, analysis, aq, analyst, jobs, timeline, asked,
                      used, touched, dropped >>

(* The status is written even when the email did not change it.            *)
ApplyWrites(p) ==
  LET a == proc[p].app
  IN  /\ proc[p].pc = "write"
      /\ a \in Live
      /\ app' = [app EXCEPT ![a].status = proc[p].to]
      /\ touched' = IF app[a].status # proc[p].from THEN touched \cup {a} ELSE touched
      /\ Goto(p, "relink")
      /\ UNCHANGED << state, filed, analysis, aq, analyst, jobs, timeline, asked, used, dropped >>

(* Faulty variant: the email's link is not a foreign key.                  *)
ApplyRelinksUnchecked(p) ==
  /\ proc[p].pc = "relink"
  /\ filed' = [filed EXCEPT ![proc[p].email] = proc[p].app]
  /\ Goto(p, IF p = User THEN "confirm" ELSE IF proc[p].dup # 0 THEN "flag" ELSE "notify")
  /\ UNCHANGED << state, analysis, aq, analyst, jobs, app, timeline, asked, used, touched, dropped >>

ApplyRelinks(p) ==
  /\ proc[p].pc = "relink"
  /\ proc[p].app \in Live
  /\ filed' = [filed EXCEPT ![proc[p].email] = proc[p].app]
  /\ Goto(p, IF p = User THEN "confirm" ELSE IF proc[p].dup # 0 THEN "flag" ELSE "notify")
  /\ UNCHANGED << state, analysis, aq, analyst, jobs, app, timeline, asked, used, touched, dropped >>

FlagPossibleDuplicate(p) ==
  /\ proc[p].pc = "flag"
  /\ proc[p].app \in Live
  /\ app' = [app EXCEPT ![proc[p].app].prev = IF @ = 0 THEN proc[p].dup ELSE @]
  /\ Goto(p, "notify")
  /\ UNCHANGED << state, filed, analysis, aq, analyst, jobs, timeline, asked, used, touched, dropped >>

(* maybeNotify; Escalation models what becomes of the notification.        *)
MaybeNotify(p) ==
  /\ proc[p].pc = "notify"
  /\ proc' = [proc EXCEPT ![p] = Free]
  /\ UNCHANGED << state, filed, analysis, aq, analyst, jobs, app, timeline, asked,
                  used, touched, dropped >>

(* The application is gone: the lookup or a foreign key throws.  The queue *)
(* runs the worker's job again; the user's request fails.                  *)
Retried(p) == IF p = User THEN jobs ELSE [jobs EXCEPT ![proc[p].email] = @ + 1]

ApplicationGone(p) ==
  /\ proc[p].pc \in {"link", "read", "evidence", "move", "write", "relink", "flag", "confirm"}
  /\ proc[p].app \notin Live
  /\ jobs' = Retried(p)
  /\ proc' = [proc EXCEPT ![p] = Free]
  /\ UNCHANGED << state, filed, analysis, aq, analyst, app, timeline, asked, used, touched, dropped >>

(* Faulty variant: the job of a crashed worker is not run again.           *)
CrashForgotten(p) ==
  /\ proc[p].pc # "idle"
  /\ Fault("crash")
  /\ proc' = [proc EXCEPT ![p] = Free]
  /\ UNCHANGED << state, filed, analysis, aq, analyst, jobs, app, timeline, asked, touched, dropped >>

Crash(p) ==
  /\ proc[p].pc # "idle"
  /\ Fault("crash")
  /\ jobs' = Retried(p)
  /\ proc' = [proc EXCEPT ![p] = Free]
  /\ touched' = IF proc[p].pc = "write" THEN touched \cup {proc[p].app} ELSE touched
  /\ UNCHANGED << state, filed, analysis, aq, analyst, app, timeline, asked, dropped >>

-----------------------------------------------------------------------------
(* resolveReviewDecision.  It takes any analysed email, in the review queue *)
(* or not.                                                                 *)

DecideLink(e, a) ==
  /\ proc[User].pc = "idle"
  /\ analysis[e].done /\ analysis[e].cycle # NoCycle
  /\ a \in Live
  /\ Request("link")
  /\ proc' = [proc EXCEPT ![User] = [Free EXCEPT !.pc = "read", !.email = e,
                                                 !.sub = analysis[e].sub, !.app = a]]
  /\ UNCHANGED << state, filed, analysis, aq, analyst, jobs, app, timeline, asked, touched, dropped >>

(* CREATE looks for no candidates.                                         *)
DecideCreate(e) ==
  /\ proc[User].pc = "idle"
  /\ analysis[e].done /\ analysis[e].cycle # NoCycle
  /\ Request("create")
  /\ proc' = [proc EXCEPT ![User] = [Free EXCEPT !.pc = "create", !.email = e,
                                                 !.sub = analysis[e].sub,
                                                 !.cycle = analysis[e].cycle]]
  /\ UNCHANGED << state, filed, analysis, aq, analyst, jobs, app, timeline, asked, touched, dropped >>

(* LINK and CREATE leave processingState as it was.                        *)
Confirm ==
  /\ proc[User].pc = "confirm"
  /\ proc[User].app \in Live
  /\ filed' = [filed EXCEPT ![proc[User].email] = proc[User].app]
  /\ proc' = [proc EXCEPT ![User] = Free]
  /\ UNCHANGED << state, analysis, aq, analyst, jobs, app, timeline, asked, used, touched, dropped >>

DecideIgnore(e) ==
  /\ proc[User].pc = "idle"
  /\ analysis[e].done
  /\ Request("ignore")
  /\ state' = [state EXCEPT ![e] = "SKIPPED"]
  /\ UNCHANGED << filed, analysis, aq, analyst, jobs, proc, app, timeline, asked, touched, dropped >>

DecideNotJob(e) ==
  /\ proc[User].pc = "idle"
  /\ analysis[e].done
  /\ Request("not_job")
  /\ analysis' = [analysis EXCEPT ![e].job = FALSE, ![e].review = FALSE, ![e].sub = "NONE"]
  /\ proc' = [proc EXCEPT ![User] = [Free EXCEPT !.pc = "reclassify", !.email = e]]
  /\ UNCHANGED << state, filed, aq, analyst, jobs, app, timeline, asked, touched, dropped >>

Reclassify ==
  /\ proc[User].pc = "reclassify"
  /\ state' = [state EXCEPT ![proc[User].email] = "PROCESSED"]
  /\ proc' = [proc EXCEPT ![User] = Free]
  /\ UNCHANGED << filed, analysis, aq, analyst, jobs, app, timeline, asked, used, touched, dropped >>

(* overrideEmailAnalysis, naming the company and the role of a job email.  *)
CorrectAnalysis(e, c) ==
  /\ proc[User].pc = "idle"
  /\ Request("correct")
  /\ analysis' = [analysis EXCEPT ![e] = [done |-> TRUE, corrected |-> TRUE, job |-> TRUE,
                                          review |-> FALSE, cycle |-> c, sub |-> @.sub]]
  /\ UNCHANGED << state, filed, aq, analyst, jobs, proc, app, timeline, asked, touched, dropped >>

OverrideStatus(a, status) ==
  /\ proc[User].pc = "idle"
  /\ a \in Live
  /\ Request("override")
  /\ app' = [app EXCEPT ![a].status = status]
  /\ touched' = touched \cup {a}
  /\ UNCHANGED << state, filed, analysis, aq, analyst, jobs, proc, timeline, asked, dropped >>

(* reprocessEmail: the state first, then the forced job.                   *)
ReprocessMarks(e) ==
  /\ proc[User].pc = "idle"
  /\ Request("reprocess")
  /\ state' = [state EXCEPT ![e] = "QUEUED"]
  /\ proc' = [proc EXCEPT ![User] = [Free EXCEPT !.pc = "requeue", !.email = e]]
  /\ UNCHANGED << filed, analysis, aq, analyst, jobs, app, timeline, asked, touched, dropped >>

ReprocessQueues ==
  /\ proc[User].pc = "requeue"
  /\ \/ /\ aq' = aq \cup {[email |-> proc[User].email, force |-> TRUE]}
        /\ UNCHANGED used
     \/ Fault("refuse") /\ UNCHANGED aq
  /\ proc' = [proc EXCEPT ![User] = Free]
  /\ UNCHANGED << state, filed, analysis, analyst, jobs, app, timeline, asked, touched, dropped >>

(* resolveDuplicate, MERGE: one transaction.  The events that move include *)
(* the DUPLICATE_FLAGGED one, which names the application they move to;    *)
(* the newest such event of an application is the one looked at.  Deleting *)
(* a row cascades to the events and clears the emails it still has.        *)
MovedTo(prev, a, x) == IF x = a THEN prev ELSE x

(* Faulty variant: the emails move and the timeline entries do not.        *)
MergedTimelineLeft(a, prev) == { ev \in timeline : ev.app # a }

MergedTimeline(a, prev) ==
  { ev \in { [ev EXCEPT !.app = MovedTo(prev, a, @)] : ev \in timeline } : ev.app # a }

Merge(a) ==
  LET prev == app[a].prev
  IN  /\ proc[User].pc = "idle"
      /\ a \in Live
      /\ prev \in Live
      /\ Request("merge")
      /\ filed' = [e \in Emails |->
                     LET moved == MovedTo(prev, a, filed[e]) IN IF moved = a THEN 0 ELSE moved]
      /\ timeline' = MergedTimeline(a, prev)
      /\ \E newest \in {prev} \cup ({app[prev].prev} \ {0}) :
           app' = [app EXCEPT ![prev].prev = newest, ![a].live = FALSE]
      /\ touched' = touched \cup {prev}
      /\ dropped' = dropped \cup { e \in Emails : filed[e] # 0 /\ filed'[e] = 0 }
      /\ UNCHANGED << state, analysis, aq, analyst, jobs, proc, asked >>

-----------------------------------------------------------------------------
Init ==
  /\ state = [e \in Emails |-> "QUEUED"]
  /\ filed = [e \in Emails |-> 0]
  /\ analysis = [e \in Emails |-> Unread]
  /\ aq = { [email |-> e, force |-> FALSE] : e \in Emails }
  /\ analyst = [w \in Analysts |-> Off]
  /\ jobs = [e \in Emails |-> 0]
  /\ proc = [p \in Processes |-> Free]
  /\ app = << >>
  /\ timeline = {}
  /\ asked = {}
  /\ used = [requests |-> 0, faults |-> 0, overlooked |-> [c \in Cycles |-> 0]]
  /\ touched = {}
  /\ dropped = {}

Analyze(w) == PersistAnalysis(w) \/ SettleState(w) \/ HandOver(w)

TakeJob(p) ==
  \E e \in Emails :
    AskForReview(p, e) \/ LeaveToCleanup(p, e) \/ StartUpdate(p, e) \/ StartSearch(p, e)

Search(p) == SearchMatches(p) \/ SearchIsUnsure(p) \/ SearchFindsNone(p) \/ DetectDuplicate(p)

Apply(p) ==
  \/ ApplyReads(p) \/ ApplyEvidence(p) \/ ApplyMove(p) \/ ApplyWrites(p) \/ ApplyRelinks(p)
  \/ ApplicationGone(p)

WorkOn(p) ==
  \/ Search(p) \/ CreateApplication(p) \/ LinkNew(p) \/ Apply(p)
  \/ FlagPossibleDuplicate(p) \/ MaybeNotify(p)

(* The user's handler creates and applies; the search is the worker's.     *)
Serve == CreateApplication(User) \/ Apply(User) \/ Confirm \/ Reclassify \/ ReprocessQueues

Decide ==
  \/ \E e \in Emails : \/ DecideCreate(e) \/ DecideIgnore(e) \/ DecideNotJob(e)
                       \/ ReprocessMarks(e)
                       \/ \E c \in Cycles : CorrectAnalysis(e, c)
                       \/ \E a \in Ids : DecideLink(e, a)
  \/ \E a \in Ids : Merge(a) \/ \E status \in Overrides : OverrideStatus(a, status)

Next ==
  \/ \E j \in aq : AnalyzeSkips(j) \/ \E w \in Analysts : AnalyzeStarts(w, j)
  \/ \E w \in Analysts : Analyze(w) \/ AnalysisFails(w) \/ AnalystStalls(w)
  \/ \E p \in Slots : TakeJob(p) \/ WorkOn(p)
  \/ Serve \/ Decide
  \/ \E p \in Processes : Crash(p)

Spec == Init /\ [][Next]_vars

-----------------------------------------------------------------------------
(* Correctness.                                                            *)

Steps == {"idle", "search", "detect", "create", "link", "read", "evidence", "move", "write",
          "relink", "flag", "notify", "confirm", "reclassify", "requeue"}

Process == [pc : Steps, email : Emails \cup {NoEmail}, sub : SubCategories,
            cycle : Cycles \cup {NoCycle}, app : Nat,
            from : Statuses, to : Statuses, dup : Nat]

Application == [live : BOOLEAN, cycle : Cycles, status : Statuses, prev : Nat, byUser : BOOLEAN]

Usage == [requests : Nat, faults : Nat, overlooked : [Cycles -> Nat]]

(* The type invariant, with the references the database enforces: an email *)
(* and an event refer to an application that exists.                       *)
TypeOK ==
  /\ state \in [Emails -> {"QUEUED", "PROCESSING", "PROCESSED", "NEEDS_REVIEW", "FAILED", "SKIPPED"}]
  /\ filed \in [Emails -> Live \cup {0}]
  /\ analysis \in [Emails -> Analysis]
  /\ aq \subseteq [email : Emails, force : BOOLEAN]
  /\ analyst \in [Analysts -> [pc : {"idle", "persist", "settle", "hand"},
                               email : Emails \cup {NoEmail},
                               force : BOOLEAN, job : BOOLEAN, review : BOOLEAN]]
  /\ jobs \in [Emails -> Nat]
  /\ proc \in [Processes -> Process]
  /\ app \in Seq(Application)
  /\ timeline \subseteq [app : Live, email : Emails, what : Statuses \cup {"LINKED"}]
  /\ asked \subseteq Emails
  /\ used \in Usage
  /\ touched \subseteq Ids
  /\ dropped \subseteq Emails

FallsBack(a) == STATUS_RANK[app'[a].status] < STATUS_RANK[app[a].status]

(* An application moves back only by the user's own override, or when a    *)
(* process writes the status it computed from one that has changed since:  *)
(* retries, repeated jobs, re-analysed emails, review decisions, late mail *)
(* and mail that announces nothing never move it back by themselves.       *)
ForwardUnlessStale ==
  [][\A a \in Live :
       FallsBack(a) =>
         \/ used'.requests # used.requests
         \/ \E p \in Processes : /\ proc[p].pc = "write" /\ proc'[p].pc = "relink"
                                 /\ proc[p].app = a
                                 /\ proc[p].from # app[a].status]_vars

(* One cycle gives one application row, one more for each further slot of  *)
(* the worker that searched before the first row was there, and one for    *)
(* each search whose provider overlooked a row of the cycle among the      *)
(* candidates - never with the deterministic provider: a crash before or   *)
(* after the row was linked, a retry, a merge or a later email adds none   *)
(* by itself.                                                              *)
DuplicatesBounded ==
  \A c \in Cycles :
    Cardinality({ a \in Live : app[a].cycle = c /\ ~app[a].byUser })
      <= Cardinality(Slots) + used.overlooked[c]

(* The status keeps up with the evidence: once the process that recorded a *)
(* status move on the timeline is past its write, the application is at    *)
(* that status or further, unless its row was touched by the user or by a  *)
(* write from a stale read.                                                *)
TimelineReflected ==
  \A ev \in timeline :
    \/ ev.what = "LINKED"
    \/ ev.app \in touched
    \/ STATUS_RANK[app[ev.app].status] >= STATUS_RANK[ev.what]
    \/ \E p \in Processes : /\ proc[p].pc = "write" /\ proc[p].app = ev.app
                            /\ proc[p].email = ev.email /\ proc[p].to = ev.what

Underway(e) ==
  \/ jobs[e] > 0
  \/ \E p \in Slots : proc[p].email = e
  \/ \E w \in Analysts : analyst[w].email = e
  \/ \E j \in aq : j.email = e

(* An email that is filed has its evidence on the timeline of the very     *)
(* application it is filed under, through crashes between the link and the *)
(* event, through merges and through concurrent decisions; but for an      *)
(* email that the pipeline still has in hand, that the user declared no    *)
(* job or corrected, or that nothing handed on again.                      *)
EvidenceOfFiling ==
  \A e \in Emails :
    filed[e] # 0 /\ ~Underway(e) /\ analysis[e].job /\ ~analysis[e].corrected /\ e \notin dropped
      => [app |-> filed[e], email |-> e, what |-> "LINKED"] \in timeline

Ripe(e)     == analysis[e].job /\ ~analysis[e].corrected
Answered(e) == filed[e] # 0 \/ e \in asked

(* An email found to be about a job is filed, put to the user, or some job *)
(* or worker still has it in hand, whatever crashes, merges and failures   *)
(* come between; it can be lost in two places only, the hand-off from the  *)
(* analysis to the application queue and a merge that deletes the row the  *)
(* email was filed under and leaves it under none.                         *)
NeverStranded == \A e \in Emails : Ripe(e) /\ ~Answered(e) /\ e \notin dropped => Underway(e)
=============================================================================
