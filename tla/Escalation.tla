------------------------------ MODULE Escalation ------------------------------
(***************************************************************************)
(* The life of one notification and of its escalation ladder: the          *)
(* notification row, the jobs of the escalation and notification queues,   *)
(* the workers that run them, the scheduler's sweep, the reconcile         *)
(* endpoint and the user.                                                  *)
(*                                                                         *)
(* Every database write, every queue operation and every call to a channel *)
(* is a step of its own, because the code awaits each of them: a worker    *)
(* acts on the row as it read it when the job started.  Notifications only *)
(* meet in the daily call counter, which VoiceCalls models, so one         *)
(* notification is enough here.                                            *)
(***************************************************************************)
EXTENDS Integers, Sequences, FiniteSets

CONSTANTS
  Workers,      \* slots of the escalation worker
  Dispatchers,  \* slots of the notification worker
  NoWorker,     \* owner of a job that no worker runs
  Ladders,      \* values of plan.escalation.stages
  MaxStage,     \* index of the last stage a ladder can have
  MaxAttempts,  \* DEFAULT_JOB_OPTIONS.attempts
  MaxQueued,    \* bound on the dispatch jobs waiting at once
  Enabled,      \* the kinds of request and fault that happen
  MaxEvents,    \* bound on the requests
  MaxFaults     \* bound on the faults

Channel == {"SLACK", "WHATSAPP", "VOICE"}
Stage   == 0..MaxStage

(* Requests: a (re-)fire of the notification, a manual retry, a pause or   *)
(* unpause, a reconcile.  Faults: a worker's crash, a refused add, a loss  *)
(* of Redis data, and the queue's removal of a retained job.               *)
Requests == {"fire", "retry", "pause", "reconcile"}
Faults   == {"crash", "refuse", "flush", "evict"}

ASSUME WorkersAssumption == NoWorker \notin Workers /\ IsFiniteSet(Workers)
ASSUME StageAssumption   == MaxStage \in Nat
ASSUME LaddersAssumption ==
  Ladders \subseteq { p \in Seq(Channel) : Len(p) <= MaxStage + 1 }
ASSUME BoundsAssumption ==
  /\ MaxAttempts \in Nat \ {0}
  /\ MaxQueued \in Nat
  /\ MaxEvents \in Nat
  /\ MaxFaults \in Nat
  /\ Enabled \subseteq Requests \cup Faults

VARIABLES
  note,      \* the Notification row
  attempts,  \* the NotificationAttempt rows of the ladder
  contacts,  \* calls made to a channel's provider, by stage
  job,       \* the escalation queue: the job whose id names each stage
  eval,      \* the escalation workers
  dq,        \* dispatch jobs waiting in the notification queue
  disp,      \* the notification workers
  fire,      \* the caller of createNotification
  sweep,     \* the scheduler's sweep of overdue escalations
  recon,     \* the reconcile request
  used,      \* how many requests and faults have happened
  late       \* workers already past their stop check when the user stopped it

vars == << note, attempts, contacts, job, eval, dq, disp, fire, sweep, recon, used, late >>

-----------------------------------------------------------------------------
(* The data.                                                               *)

Status   == {"NONE", "PENDING", "SENT", "ACKNOWLEDGED", "ESCALATED", "RESOLVED"}

(* How an attempt ends: SKIPPED before the channel is used, or DECLINED by  *)
(* the channel's own send, which the row also records as SKIPPED.          *)
Result   == {"SENT", "FAILED", "SKIPPED", "DECLINED"}
JobState == {"absent", "delayed", "waiting", "active", "completed", "failed"}

NoPlan == << >>
NoNote == [status |-> "NONE", acked |-> FALSE, paused |-> FALSE, stage |-> -1,
           timer |-> "none", aged |-> FALSE, enabled |-> FALSE, plan |-> NoPlan]
NoJob  == [state |-> "absent", tries |-> 0, owner |-> NoWorker]
Idle   == [pc |-> "idle", stage |-> 0, plan |-> NoPlan, result |-> "SKIPPED"]

Exists == note.status # "NONE"

HasStage(plan, s)  == s < Len(plan)
ChannelAt(plan, s) == plan[s + 1]

(* Faulty variant: the pause flag is not looked at.                        *)
StoppedUnlessPaused == note.acked \/ note.status \in {"ACKNOWLEDGED", "RESOLVED"}

(* The stop conditions an evaluation checks on the row it reads.           *)
Stopped ==
  \/ note.acked
  \/ note.status \in {"ACKNOWLEDGED", "RESOLVED"}
  \/ note.paused

(* What the user's requests leave on the row until the user, or a re-fire, *)
(* takes it back.                                                          *)
Silenced == note.acked \/ note.paused

Busy      == { w \in Workers : eval[w].pc # "idle" }
Attempted == { a.stage : a \in attempts }

Request(kind) ==
  /\ kind \in Enabled
  /\ used.events < MaxEvents
  /\ used' = [used EXCEPT !.events = @ + 1]

Fault(kind) ==
  /\ kind \in Enabled
  /\ used.faults < MaxFaults
  /\ used' = [used EXCEPT !.faults = @ + 1]

(* The silencing requests remember who was past the stop check.            *)
Silence(row) ==
  /\ note' = row
  /\ late' = IF Silenced THEN late ELSE Busy

-----------------------------------------------------------------------------
(* The escalation queue.  The id of a job is its stage; an id that is      *)
(* still known to the queue, retained after completion or failure          *)
(* included, makes an add return without adding anything.                  *)

(* Faulty variant: completed jobs are not retained, so their id is free.   *)
AddedAgain(jobs, s, state) ==
  IF jobs[s].state \in {"absent", "completed"}
  THEN [jobs EXCEPT ![s] = [state |-> state, tries |-> 0, owner |-> NoWorker]]
  ELSE jobs

Added(jobs, s, state) ==
  IF jobs[s].state = "absent"
  THEN [jobs EXCEPT ![s] = [state |-> state, tries |-> 0, owner |-> NoWorker]]
  ELSE jobs

(* enqueueEscalationEvaluation logs and returns null when Redis refuses.   *)
Enqueue(jobs, s, state) ==
  \/ job' = Added(jobs, s, state) /\ UNCHANGED used
  \/ job' = jobs /\ Fault("refuse")

(* A worker can only finish or fail a job whose lock it still holds.       *)
Finished(w) ==
  LET s == eval[w].stage
  IN  IF job[s].owner = w
      THEN [job EXCEPT ![s] = [@ EXCEPT !.state = "completed", !.owner = NoWorker]]
      ELSE job

Failed(w) ==
  LET s == eval[w].stage
  IN  IF job[s].owner = w
      THEN [job EXCEPT ![s] =
             [state |-> IF @.tries + 1 < MaxAttempts THEN "waiting" ELSE "failed",
              tries |-> @.tries + 1, owner |-> NoWorker]]
      ELSE job

Release(w) ==
  /\ eval' = [eval EXCEPT ![w] = Idle]
  /\ late' = late \ {w}

Goto(w, pc) == eval' = [eval EXCEPT ![w].pc = pc]

-----------------------------------------------------------------------------
(* evaluateEscalation.                                                     *)

(* The evaluation reads the row and returns STOPPED.                       *)
EvaluateStops(s) ==
  /\ job[s].state = "waiting"
  /\ Stopped \/ note.stage >= s
  /\ job' = [job EXCEPT ![s] = [@ EXCEPT !.state = "completed"]]
  /\ UNCHANGED << note, attempts, contacts, eval, dq, disp, fire, sweep, recon, used, late >>

(* Faulty variant: the row's stop conditions are not looked at.            *)
EvaluateStartsUnchecked(w, s) ==
  /\ job[s].state = "waiting"
  /\ eval[w].pc = "idle"
  /\ note.stage < s
  /\ job' = [job EXCEPT ![s] = [@ EXCEPT !.state = "active", !.owner = w]]
  /\ eval' = [eval EXCEPT ![w] =
       [pc |-> IF ~HasStage(note.plan, s) THEN "finalize"
               ELSE IF ChannelAt(note.plan, s) = "VOICE" THEN "gate" ELSE "send",
        stage |-> s, plan |-> note.plan, result |-> "SKIPPED"]]
  /\ UNCHANGED << note, attempts, contacts, dq, disp, fire, sweep, recon, used, late >>

(* The evaluation reads the row and goes on with the plan it found there.  *)
EvaluateStarts(w, s) ==
  /\ job[s].state = "waiting"
  /\ eval[w].pc = "idle"
  /\ ~Stopped
  /\ note.stage < s
  /\ job' = [job EXCEPT ![s] = [@ EXCEPT !.state = "active", !.owner = w]]
  /\ eval' = [eval EXCEPT ![w] =
       [pc |-> IF ~HasStage(note.plan, s) THEN "finalize"
               ELSE IF ChannelAt(note.plan, s) = "VOICE" THEN "gate" ELSE "send",
        stage |-> s, plan |-> note.plan, result |-> "SKIPPED"]]
  /\ UNCHANGED << note, attempts, contacts, dq, disp, fire, sweep, recon, used, late >>

(* checkVoiceGate: VoiceCalls models what it looks at.                     *)
Gate(w) ==
  /\ eval[w].pc = "gate"
  /\ \/ Goto(w, "send")
     \/ eval' = [eval EXCEPT ![w].pc = "record", ![w].result = "SKIPPED"]
  /\ UNCHANGED << note, attempts, contacts, job, dq, disp, fire, sweep, recon, used, late >>

(* A channel that is not configured is skipped, one that throws has failed. *)
(* Only the voice channel declines a send its isConfigured let through: it *)
(* wants a stricter disclosure in the script than the script's own guard.  *)
Send(w) ==
  /\ eval[w].pc = "send"
  /\ \E r \in Result :
       /\ r = "DECLINED" => ChannelAt(eval[w].plan, eval[w].stage) = "VOICE"
       /\ eval' = [eval EXCEPT ![w].pc = "record", ![w].result = r]
       /\ contacts' = IF r \in {"SKIPPED", "DECLINED"} THEN contacts
                      ELSE [contacts EXCEPT ![eval[w].stage] = @ + 1]
  /\ UNCHANGED << note, attempts, job, dq, disp, fire, sweep, recon, used, late >>

(* Faulty variant: the ladder is advanced past its last stage.             *)
RecordAdvancing(w) ==
  LET e == eval[w]
  IN  /\ e.pc = "record"
      /\ attempts' = attempts \cup {[stage |-> e.stage, result |-> e.result]}
      /\ Goto(w, IF e.result \in {"SENT", "SKIPPED"} THEN "advance" ELSE "finalize")
      /\ UNCHANGED << note, contacts, job, dq, disp, fire, sweep, recon, used, late >>

(* recordAttempt, the audit entry, and the choice of what comes next.      *)
Record(w) ==
  LET e == eval[w]
  IN  /\ e.pc = "record"
      /\ attempts' = attempts \cup {[stage |-> e.stage, result |-> e.result]}
      /\ Goto(w, IF e.result \in {"SENT", "SKIPPED"} /\ HasStage(e.plan, e.stage + 1)
                 THEN "advance" ELSE "finalize")
      /\ UNCHANGED << note, contacts, job, dq, disp, fire, sweep, recon, used, late >>

(* advanceStage: the row first, then the next stage's delayed job.         *)
AdvanceStage(w) ==
  /\ eval[w].pc = "advance"
  /\ note' = [note EXCEPT !.stage = eval[w].stage, !.status = "ESCALATED", !.timer = "future"]
  /\ Goto(w, "enqueue")
  /\ UNCHANGED << attempts, contacts, job, dq, disp, fire, sweep, recon, used, late >>

EnqueueNextStage(w) ==
  /\ eval[w].pc = "enqueue"
  /\ Enqueue(Finished(w), eval[w].stage + 1, "delayed")
  /\ Release(w)
  /\ UNCHANGED << note, attempts, contacts, dq, disp, fire, sweep, recon >>

FinalizedNote == [note EXCEPT !.status = "ESCALATED", !.timer = "none"]

FinalizeEscalation(w) ==
  /\ eval[w].pc = "finalize"
  /\ note' = FinalizedNote
  /\ job' = Finished(w)
  /\ Release(w)
  /\ UNCHANGED << attempts, contacts, dq, disp, fire, sweep, recon, used >>

(* The process dies or a database call throws: the queue runs the job      *)
(* again until its attempts are used up, and then retains it as failed.    *)
EvaluateAborts(w) ==
  /\ eval[w].pc # "idle"
  /\ Fault("crash")
  /\ job' = Failed(w)
  /\ Release(w)
  /\ UNCHANGED << note, attempts, contacts, dq, disp, fire, sweep, recon >>

-----------------------------------------------------------------------------
(* createNotification, and the enqueueNotification its caller makes when   *)
(* it reports created.                                                     *)

(* The dedupe check: an open notification inside the window is left alone. *)
FireRead ==
  /\ fire = "idle"
  /\ ~Exists \/ note.status \in {"ACKNOWLEDGED", "RESOLVED"} \/ note.aged
  /\ Request("fire")
  /\ fire' = "upsert"
  /\ UNCHANGED << note, attempts, contacts, job, eval, dq, disp, sweep, recon, late >>

(* The upsert: a re-fire reopens the row and stores the new plan, but      *)
(* keeps nextEscalationAt, escalationPaused and createdAt.                 *)
FireUpsert ==
  /\ fire = "upsert"
  /\ fire' = "enqueue"
  /\ \E plan \in Ladders, enabled \in BOOLEAN :
       /\ enabled => plan # NoPlan
       /\ note' = [note EXCEPT !.status = "PENDING", !.acked = FALSE, !.stage = -1,
                               !.plan = plan, !.enabled = enabled]
  /\ late' = IF Silenced' THEN late ELSE {}
  /\ UNCHANGED << attempts, contacts, job, eval, dq, disp, sweep, recon, used >>

FireEnqueue ==
  /\ fire = "enqueue"
  /\ fire' = "idle"
  /\ \/ dq < MaxQueued /\ dq' = dq + 1 /\ UNCHANGED used
     \/ Fault("refuse") /\ UNCHANGED dq
  /\ UNCHANGED << note, attempts, contacts, job, eval, disp, sweep, recon, late >>

(* createdAt leaves the dedupe window; a re-fire does not reset it.        *)
WindowPasses ==
  /\ Exists
  /\ ~note.aged
  /\ note' = [note EXCEPT !.aged = TRUE]
  /\ UNCHANGED << attempts, contacts, job, eval, dq, disp, fire, sweep, recon, used, late >>

-----------------------------------------------------------------------------
(* dispatchNotification: the base channels (whose outcomes never stop the  *)
(* job), markNotificationSent, then scheduleEscalation with the row as it  *)
(* was read at the start.                                                  *)

NoDispatch == [pc |-> "idle", arms |-> FALSE]

DispatchStarts(d) ==
  /\ dq > 0
  /\ disp[d].pc = "idle"
  /\ dq' = dq - 1
  /\ disp' = [disp EXCEPT ![d] = [pc |-> "mark", arms |-> note.enabled]]
  /\ UNCHANGED << note, attempts, contacts, job, eval, fire, sweep, recon, used, late >>

MarkNotificationSent(d) ==
  /\ disp[d].pc = "mark"
  /\ note' = IF note.status = "PENDING" THEN [note EXCEPT !.status = "SENT"] ELSE note
  /\ disp' = [disp EXCEPT ![d] = IF @.arms THEN [@ EXCEPT !.pc = "arm"] ELSE NoDispatch]
  /\ UNCHANGED << attempts, contacts, job, eval, dq, fire, sweep, recon, used, late >>

(* Faulty variant: arming counts the base delivery as stage 0.             *)
ScheduleFromZero(d) ==
  /\ disp[d].pc = "arm"
  /\ note' = [note EXCEPT !.timer = "future", !.stage = 0]
  /\ disp' = [disp EXCEPT ![d].pc = "enqueue"]
  /\ UNCHANGED << attempts, contacts, job, eval, dq, fire, sweep, recon, used, late >>

ScheduleEscalation(d) ==
  /\ disp[d].pc = "arm"
  /\ note' = [note EXCEPT !.timer = "future", !.stage = -1]
  /\ disp' = [disp EXCEPT ![d].pc = "enqueue"]
  /\ UNCHANGED << attempts, contacts, job, eval, dq, fire, sweep, recon, used, late >>

EnqueueFirstStage(d) ==
  /\ disp[d].pc = "enqueue"
  /\ Enqueue(job, 0, "delayed")
  /\ disp' = [disp EXCEPT ![d] = NoDispatch]
  /\ UNCHANGED << note, attempts, contacts, eval, dq, fire, sweep, recon, late >>

DispatchAborts(d) ==
  /\ disp[d].pc # "idle"
  /\ dq < MaxQueued
  /\ Fault("crash")
  /\ dq' = dq + 1
  /\ disp' = [disp EXCEPT ![d] = NoDispatch]
  /\ UNCHANGED << note, attempts, contacts, job, eval, fire, sweep, recon, late >>

-----------------------------------------------------------------------------
(* The user.                                                               *)

AcknowledgeNotification ==
  /\ Exists
  /\ Silence([note EXCEPT !.acked = TRUE, !.status = "ACKNOWLEDGED",
                          !.timer = "none", !.paused = TRUE])
  /\ UNCHANGED << attempts, contacts, job, eval, dq, disp, fire, sweep, recon, used >>

ResolveNotification ==
  /\ Exists
  /\ Silence([note EXCEPT !.status = "RESOLVED", !.timer = "none", !.paused = TRUE])
  /\ UNCHANGED << attempts, contacts, job, eval, dq, disp, fire, sweep, recon, used >>

PauseEscalation(paused) ==
  /\ Exists
  /\ note.paused # paused
  /\ Request("pause")
  /\ note' = [note EXCEPT !.paused = paused]
  /\ late' = IF Silenced THEN IF Silenced' THEN late ELSE {} ELSE Busy
  /\ UNCHANGED << attempts, contacts, job, eval, dq, disp, fire, sweep, recon >>

RetryNotificationDelivery ==
  /\ Exists
  /\ dq < MaxQueued
  /\ Request("retry")
  /\ dq' = dq + 1
  /\ UNCHANGED << note, attempts, contacts, job, eval, disp, fire, sweep, recon, late >>

(* reconcileEscalations: finds the row, arms its timer, adds the job, and  *)
(* then clears the timers of settled rows.                                 *)
ReconcileFinds ==
  /\ Exists
  /\ recon = "idle"
  /\ Request("reconcile")
  /\ recon' = IF /\ note.enabled
                 /\ ~note.acked
                 /\ note.status \in {"PENDING", "SENT"}
                 /\ note.timer = "none"
              THEN "arm" ELSE "clear"
  /\ UNCHANGED << note, attempts, contacts, job, eval, dq, disp, fire, sweep, late >>

ReconcileArms ==
  /\ recon = "arm"
  /\ note' = [note EXCEPT !.timer = "future"]
  /\ recon' = "enqueue"
  /\ UNCHANGED << attempts, contacts, job, eval, dq, disp, fire, sweep, used, late >>

ReconcileEnqueues ==
  /\ recon = "enqueue"
  /\ Enqueue(job, 0, "delayed")
  /\ recon' = "clear"
  /\ UNCHANGED << note, attempts, contacts, eval, dq, disp, fire, sweep, late >>

ReconcileClears ==
  /\ recon = "clear"
  /\ recon' = "idle"
  /\ IF note.timer # "none" /\ (note.acked \/ note.status = "RESOLVED")
     THEN Silence([note EXCEPT !.timer = "none", !.paused = TRUE])
     ELSE UNCHANGED << note, late >>
  /\ UNCHANGED << attempts, contacts, job, eval, dq, disp, fire, sweep, used >>

-----------------------------------------------------------------------------
(* sweepOverdueEscalations, run by the scheduler's tick.                   *)

(* Faulty variant: the sweep forgets notifications that have escalated.    *)
OverdueBeforeEscalation ==
  note.enabled /\ ~note.acked /\ note.status \in {"PENDING", "SENT"}
  /\ ~note.paused /\ note.timer = "due"

Overdue ==
  /\ note.enabled
  /\ ~note.acked
  /\ note.status \in {"PENDING", "SENT", "ESCALATED"}
  /\ ~note.paused
  /\ note.timer = "due"

NoSweep == [pc |-> "idle", stage |-> 0]

SweepFinds ==
  /\ sweep.pc = "idle"
  /\ Overdue
  /\ sweep' = IF HasStage(note.plan, note.stage + 1)
              THEN [pc |-> "enqueue", stage |-> note.stage + 1]
              ELSE [pc |-> "finalize", stage |-> 0]
  /\ UNCHANGED << note, attempts, contacts, job, eval, dq, disp, fire, recon, used, late >>

SweepEnqueues ==
  /\ sweep.pc = "enqueue"
  /\ Enqueue(job, sweep.stage, "waiting")
  /\ sweep' = NoSweep
  /\ UNCHANGED << note, attempts, contacts, eval, dq, disp, fire, recon, late >>

SweepFinalizes ==
  /\ sweep.pc = "finalize"
  /\ note' = FinalizedNote
  /\ sweep' = NoSweep
  /\ UNCHANGED << attempts, contacts, job, eval, dq, disp, fire, recon, used, late >>

-----------------------------------------------------------------------------
(* Time and the queue's own behaviour.                                     *)

TimerElapses ==
  /\ note.timer = "future"
  /\ note' = [note EXCEPT !.timer = "due"]
  /\ UNCHANGED << attempts, contacts, job, eval, dq, disp, fire, sweep, recon, used, late >>

DelayElapses(s) ==
  /\ job[s].state = "delayed"
  /\ job' = [job EXCEPT ![s].state = "waiting"]
  /\ UNCHANGED << note, attempts, contacts, eval, dq, disp, fire, sweep, recon, used, late >>

(* removeOnComplete and removeOnFail drop the oldest retained jobs.        *)
Evict(s) ==
  /\ job[s].state \in {"completed", "failed"}
  /\ Fault("evict")
  /\ job' = [job EXCEPT ![s] = NoJob]
  /\ UNCHANGED << note, attempts, contacts, eval, dq, disp, fire, sweep, recon, late >>

(* Redis loses its data; what the workers are doing goes on.               *)
RedisFlush ==
  /\ Fault("flush")
  /\ job' = [s \in Stage |-> NoJob]
  /\ dq' = 0
  /\ UNCHANGED << note, attempts, contacts, eval, disp, fire, sweep, recon, late >>

-----------------------------------------------------------------------------
Init ==
  /\ note = NoNote
  /\ attempts = {}
  /\ contacts = [s \in Stage |-> 0]
  /\ job = [s \in Stage |-> NoJob]
  /\ eval = [w \in Workers |-> Idle]
  /\ dq = 0
  /\ disp = [d \in Dispatchers |-> NoDispatch]
  /\ fire = "idle"
  /\ sweep = NoSweep
  /\ recon = "idle"
  /\ used = [events |-> 0, faults |-> 0]
  /\ late = {}

Evaluate(w) ==
  \/ Gate(w) \/ Send(w) \/ Record(w) \/ AdvanceStage(w)
  \/ EnqueueNextStage(w) \/ FinalizeEscalation(w)

Dispatch(d) ==
  MarkNotificationSent(d) \/ ScheduleEscalation(d) \/ EnqueueFirstStage(d)

Next ==
  \/ \E s \in Stage : EvaluateStops(s) \/ DelayElapses(s) \/ Evict(s)
  \/ \E w \in Workers, s \in Stage : EvaluateStarts(w, s)
  \/ \E w \in Workers : Evaluate(w) \/ EvaluateAborts(w)
  \/ FireRead \/ FireUpsert \/ FireEnqueue \/ WindowPasses
  \/ \E d \in Dispatchers : DispatchStarts(d) \/ Dispatch(d) \/ DispatchAborts(d)
  \/ AcknowledgeNotification \/ ResolveNotification
  \/ \E paused \in BOOLEAN : PauseEscalation(paused)
  \/ RetryNotificationDelivery
  \/ ReconcileFinds \/ ReconcileArms \/ ReconcileEnqueues \/ ReconcileClears
  \/ SweepFinds \/ SweepEnqueues \/ SweepFinalizes
  \/ TimerElapses \/ RedisFlush

Spec == Init /\ [][Next]_vars

(* Workers and the scheduler keep running and clocks advance.  Nothing     *)
(* obliges the user to act, a fault to happen or a retained job to be      *)
(* removed.                                                                *)
Fairness ==
  /\ \A s \in Stage : /\ WF_vars(EvaluateStops(s))
                      /\ WF_vars(DelayElapses(s))
                      /\ WF_vars(\E w \in Workers : EvaluateStarts(w, s))
  /\ \A w \in Workers : WF_vars(Evaluate(w))
  /\ \A d \in Dispatchers : WF_vars(DispatchStarts(d)) /\ WF_vars(Dispatch(d))
  /\ WF_vars(FireUpsert) /\ WF_vars(FireEnqueue)
  /\ WF_vars(ReconcileArms) /\ WF_vars(ReconcileEnqueues) /\ WF_vars(ReconcileClears)
  /\ WF_vars(SweepFinds) /\ WF_vars(SweepEnqueues) /\ WF_vars(SweepFinalizes)
  /\ WF_vars(TimerElapses)

FairSpec == Spec /\ Fairness

-----------------------------------------------------------------------------
(* Correctness.                                                            *)

Noted == [status : Status, acked : BOOLEAN, paused : BOOLEAN, stage : -1..MaxStage,
          timer : {"none", "future", "due"}, aged : BOOLEAN, enabled : BOOLEAN,
          plan : Ladders \cup {NoPlan}]

Job == [state : JobState, tries : Nat, owner : Workers \cup {NoWorker}]

Evaluation == [pc : {"idle", "gate", "send", "record", "advance", "enqueue", "finalize"},
               stage : Stage, plan : Ladders \cup {NoPlan}, result : Result]

(* The type invariant.  The worker's step names are tied to its stage: a   *)
(* worker that is about to use a channel has one, and one that is about to *)
(* advance has a next stage to advance to.                                 *)
TypeOK ==
  /\ note \in Noted
  /\ attempts \subseteq [stage : Stage, result : Result]
  /\ contacts \in [Stage -> Nat]
  /\ job \in [Stage -> Job]
  /\ eval \in [Workers -> Evaluation]
  /\ \A w \in Workers :
       /\ eval[w].pc \in {"gate", "send"} => HasStage(eval[w].plan, eval[w].stage)
       /\ eval[w].pc \in {"advance", "enqueue"} => HasStage(eval[w].plan, eval[w].stage + 1)
  /\ dq \in Nat
  /\ disp \in [Dispatchers -> [pc : {"idle", "mark", "arm", "enqueue"}, arms : BOOLEAN]]
  /\ fire \in {"idle", "upsert", "enqueue"}
  /\ sweep \in [pc : {"idle", "enqueue", "finalize"}, stage : Stage]
  /\ recon \in {"idle", "arm", "enqueue", "clear"}
  /\ used \in [events : Nat, faults : Nat]
  /\ late \subseteq Workers

(* A louder channel is never tried before every quieter one of the ladder  *)
(* has an attempt on record: through re-fires that reset escalationStage,  *)
(* dispatch jobs that reset it again, sweeps that compute the stage from   *)
(* it, leftover delayed jobs, crashes and a flushed queue.                 *)
NoStageSkipped == \A s \in Attempted : 0..(s - 1) \subseteq Attempted

(* While the user has a notification acknowledged, resolved or paused, the *)
(* only evaluations that can still reach a channel are those that had      *)
(* passed their stop check before the user's request: every later job,     *)
(* sweep, retry or reconcile finds the stop condition, even though the     *)
(* evaluations under way overwrite the status the request wrote.           *)
StopIsHeard ==
  Silenced => \A w \in Workers : eval[w].pc \in {"gate", "send"} => w \in late

(* A stage's channel is used at most once, and once more for each crash    *)
(* that made the queue run its job again or each time the queue forgot the *)
(* job's id: the retained job ids keep dispatch retries, re-fires, sweeps  *)
(* and reconciles from contacting the user twice.                          *)
ContactsBounded == \A s \in Stage : contacts[s] <= 1 + used.faults

(* The workers between the start of an evaluation and its recorded attempt. *)
Calling == { w \in Workers : eval[w].pc \in {"gate", "send", "record"} }

Promise == INSTANCE EscalationPromise WITH
  Callers  <- Workers,
  tried    <- Attempted,
  silenced <- Silenced,
  calling  <- Calling

(* The ladder of rows, jobs and timers implements the promise made to the  *)
(* user: an attempt begins only while the notification is not silenced and *)
(* is recorded only after all the quieter stages were.                     *)
KeepsPromise == Promise!Spec

(* The ladder is waiting for its next stage.                               *)
Armed ==
  /\ note.enabled
  /\ note.status \in {"PENDING", "SENT", "ESCALATED"}
  /\ ~note.acked
  /\ ~note.paused
  /\ note.timer # "none"

(* Every stage of the plan has been tried, or one of them failed or was    *)
(* declined: the code ends the ladder there.                               *)
Climbed ==
  \/ \A s \in Stage : HasStage(note.plan, s) => s \in Attempted
  \/ \E a \in attempts : a.result \in {"FAILED", "DECLINED"}

Settled == Silenced \/ note.status \in {"ACKNOWLEDGED", "RESOLVED"} \/ Climbed

(* An escalation that is armed is never silently dropped: unless the user  *)
(* stops it, the ladder is climbed to its end or to a delivery that fails, *)
(* whatever single crash or loss of Redis data strikes it.                 *)
NeverDropped == Armed ~> Settled

(* What ARCHITECTURE.md section 11 says of a broken Slack webhook: "Slack  *)
(* attempts fail; per-attempt failure recorded; WhatsApp escalation still  *)
(* runs".  The code ends the ladder at the first delivery that fails.      *)
SlackFailed ==
  \E a \in attempts :
    /\ a.result = "FAILED"
    /\ HasStage(note.plan, a.stage + 1)
    /\ ChannelAt(note.plan, a.stage) = "SLACK"

LadderSurvivesSlack ==
  SlackFailed ~> (Silenced \/ \A s \in Stage : HasStage(note.plan, s) => s \in Attempted)
=============================================================================
