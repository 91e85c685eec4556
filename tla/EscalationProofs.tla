--------------------------- MODULE EscalationProofs ---------------------------
(***************************************************************************)
(* Theorems about Escalation, for every set of workers, every set of       *)
(* ladders and every bound; the count of contacts for finitely many        *)
(* workers.                                                                *)
(***************************************************************************)
EXTENDS Escalation, FiniteSetTheorems, TLAPS

(* A ladder's stages are within the queue's stage numbers.                 *)
LEMMA LadderFacts ==
  ASSUME NEW plan \in Ladders \cup {NoPlan}
  PROVE  /\ plan \in Seq(Channel)
         /\ Len(plan) \in Nat
         /\ Len(plan) <= MaxStage + 1
<1>1. CASE plan \in Ladders
  BY <1>1, LaddersAssumption
<1>2. CASE plan = NoPlan
  BY <1>2, StageAssumption DEF NoPlan
<1>3. QED
  BY <1>1, <1>2

LEMMA LadderStage ==
  ASSUME NEW plan \in Ladders \cup {NoPlan}, NEW s \in Int, HasStage(plan, s)
  PROVE  s <= MaxStage
  BY LadderFacts, StageAssumption DEF HasStage

(* Adding a job, finishing one and failing one keep the queue well formed. *)
LEMMA AddedType ==
  ASSUME NEW jobs \in [Stage -> Job], NEW s \in Stage, NEW st \in JobState
  PROVE  Added(jobs, s, st) \in [Stage -> Job]
  BY DEF Added, Job

LEMMA FinishedType ==
  ASSUME TypeOK, NEW w \in Workers
  PROVE  Finished(w) \in [Stage -> Job]
<1>1. job \in [Stage -> Job] /\ eval[w].stage \in Stage
  BY DEF TypeOK, Evaluation
<1>2. [job[eval[w].stage] EXCEPT !.state = "completed", !.owner = NoWorker] \in Job
  BY <1>1 DEF JobState, Job
<1>3. QED
  BY <1>1, <1>2 DEF Finished

LEMMA FailedType ==
  ASSUME TypeOK, NEW w \in Workers
  PROVE  Failed(w) \in [Stage -> Job]
<1>1. job \in [Stage -> Job] /\ eval[w].stage \in Stage
  BY DEF TypeOK, Evaluation
<1>2. QED
  BY <1>1, BoundsAssumption DEF Failed, Job, JobState

(* An add that may be refused leaves the queue and the counters typed.     *)
LEMMA EnqueueType ==
  ASSUME NEW jobs \in [Stage -> Job], NEW s \in Stage, NEW st \in JobState,
         used \in [events : Nat, faults : Nat], Enqueue(jobs, s, st)
  PROVE  job' \in [Stage -> Job] /\ used' \in [events : Nat, faults : Nat]
  BY AddedType DEF Enqueue, Fault

-----------------------------------------------------------------------------
(* Type correctness.                                                       *)

LEMMA TypeInit == Init => TypeOK
<1> SUFFICES ASSUME Init PROVE TypeOK
  OBVIOUS
<1>1. NoNote \in Noted
  BY StageAssumption DEF NoNote, Noted, Status, NoPlan
<1>2. NoJob \in Job
  BY DEF NoJob, Job, JobState
<1>3. Idle \in Evaluation
  BY StageAssumption DEF Idle, Evaluation, Stage, Result
<1>4. NoSweep \in [pc : {"idle", "enqueue", "finalize"}, stage : Stage]
  BY StageAssumption DEF NoSweep, Stage
<1>5. QED
  BY <1>1, <1>2, <1>3, <1>4 DEF Init, TypeOK, NoDispatch, Idle

(* Writes to the row that keep its other columns keep it a row.            *)
LEMMA NotedFields ==
  ASSUME NEW n \in Noted
  PROVE  /\ n.status \in Status /\ n.acked \in BOOLEAN /\ n.paused \in BOOLEAN
         /\ n.stage \in -1..MaxStage /\ n.timer \in {"none", "future", "due"}
         /\ n.aged \in BOOLEAN /\ n.enabled \in BOOLEAN /\ n.plan \in Ladders \cup {NoPlan}
  BY DEF Noted

(* The worker's steps.                                                     *)
LEMMA TypeEvaluate ==
  ASSUME TypeOK, NEW w \in Workers, Evaluate(w) \/ EvaluateAborts(w)
  PROVE  TypeOK'
<1>1. eval[w] \in Evaluation /\ eval[w].stage \in Stage
  BY DEF TypeOK, Evaluation
<1>2. Idle \in Evaluation /\ Idle.pc = "idle"
  BY StageAssumption DEF Idle, Evaluation, Stage, Result
<1>3. CASE Gate(w)
  <2>1. \/ eval' = [eval EXCEPT ![w].pc = "send"]
        \/ eval' = [eval EXCEPT ![w].pc = "record", ![w].result = "SKIPPED"]
    BY <1>3 DEF Gate, Goto
  <2>2. eval \in [Workers -> Evaluation]
    BY DEF TypeOK
  <2>3. /\ eval'[w] \in Evaluation /\ eval'[w].stage = eval[w].stage /\ eval'[w].plan = eval[w].plan
        /\ eval'[w].pc \in {"send", "record"} /\ (eval'[w].pc = "send" => eval[w].pc = "gate")
    BY <1>1, <1>3, <2>1, <2>2 DEF Gate, Evaluation, Result
  <2>4. eval' \in [Workers -> Evaluation] /\ \A v \in Workers \ {w} : eval'[v] = eval[v]
    BY <2>1, <2>2, <2>3
  <2>5. QED
    BY <1>3, <2>3, <2>4 DEF TypeOK, Gate
<1>4. CASE Send(w)
  <2>1. PICK r \in Result :
          /\ eval' = [eval EXCEPT ![w].pc = "record", ![w].result = r]
          /\ contacts' = IF r \in {"SKIPPED", "DECLINED"} THEN contacts
                         ELSE [contacts EXCEPT ![eval[w].stage] = @ + 1]
    BY <1>4 DEF Send
  <2>2. contacts' \in [Stage -> Nat]
    BY <1>1, <2>1 DEF TypeOK
  <2>3. [eval[w] EXCEPT !.pc = "record", !.result = r] \in Evaluation
    BY <1>1, <2>1 DEF Evaluation
  <2>4. eval' = [eval EXCEPT ![w] = [eval[w] EXCEPT !.pc = "record", !.result = r]]
    BY <2>1 DEF TypeOK
  <2>5. [eval[w] EXCEPT !.pc = "record", !.result = r].pc = "record"
    BY <1>1 DEF Evaluation
  <2>6. QED
    BY <1>4, <2>2, <2>3, <2>4, <2>5 DEF TypeOK, Send
<1>5. CASE Record(w)
  <2>1. eval[w].pc = "record" /\ eval[w].result \in Result
    BY <1>1, <1>5 DEF Record, Evaluation
  <2>2. attempts' \subseteq [stage : Stage, result : Result]
    BY <1>1, <1>5, <2>1 DEF Record, TypeOK
  <2>3. QED
    BY <1>1, <1>5, <2>1, <2>2 DEF TypeOK, Record, Goto, Evaluation
<1>6. CASE AdvanceStage(w)
  <2>1. note' \in Noted
    <3>1. eval[w].stage \in -1..MaxStage
      BY <1>1, StageAssumption DEF Stage
    <3>2. QED
      BY <1>6, <3>1 DEF AdvanceStage, TypeOK, Noted, Status
  <2>2. QED
    BY <1>1, <1>6, <2>1 DEF TypeOK, AdvanceStage, Goto, Evaluation
<1>7. CASE EnqueueNextStage(w)
  <2>1. eval[w].stage + 1 \in Stage
    <3>1. HasStage(eval[w].plan, eval[w].stage + 1) /\ eval[w].plan \in Ladders \cup {NoPlan}
      BY <1>1, <1>7 DEF EnqueueNextStage, TypeOK, Evaluation
    <3>2. QED
      BY <1>1, <3>1, LadderStage, StageAssumption DEF Stage
  <2>2. job' \in [Stage -> Job] /\ used' \in [events : Nat, faults : Nat]
    BY <1>7, <2>1, FinishedType, EnqueueType DEF EnqueueNextStage, TypeOK, JobState
  <2>3. QED
    BY <1>2, <1>7, <2>2 DEF TypeOK, EnqueueNextStage, Release
<1>8. CASE FinalizeEscalation(w)
  <2>1. note' \in Noted
    BY <1>8 DEF FinalizeEscalation, FinalizedNote, TypeOK, Noted, Status
  <2>2. job' \in [Stage -> Job]
    BY <1>8, FinishedType DEF FinalizeEscalation
  <2>3. QED
    BY <1>2, <1>8, <2>1, <2>2 DEF TypeOK, FinalizeEscalation, Release
<1>9. CASE EvaluateAborts(w)
  <2>1. job' \in [Stage -> Job] /\ used' \in [events : Nat, faults : Nat]
    BY <1>9, FailedType DEF EvaluateAborts, Fault, TypeOK
  <2>2. QED
    BY <1>2, <1>9, <2>1 DEF TypeOK, EvaluateAborts, Release
<1>10. QED
  BY <1>3, <1>4, <1>5, <1>6, <1>7, <1>8, <1>9 DEF Evaluate

(* The queue's steps and the start of an evaluation.                       *)
LEMMA TypeQueue ==
  ASSUME TypeOK, NEW s \in Stage,
         \/ EvaluateStops(s) \/ DelayElapses(s) \/ Evict(s) \/ RedisFlush
         \/ \E w \in Workers : EvaluateStarts(w, s)
  PROVE  TypeOK'
<1>1. job[s] \in Job
  BY DEF TypeOK
<1>2. CASE EvaluateStops(s)
  <2>1. job' \in [Stage -> Job]
    BY <1>1, <1>2 DEF EvaluateStops, TypeOK, Job, JobState
  <2>2. QED
    BY <1>2, <2>1 DEF TypeOK, EvaluateStops
<1>3. CASE DelayElapses(s)
  <2>1. job' \in [Stage -> Job]
    BY <1>1, <1>3 DEF DelayElapses, TypeOK, Job, JobState
  <2>2. QED
    BY <1>3, <2>1 DEF TypeOK, DelayElapses
<1>4. CASE Evict(s)
  <2>1. job' \in [Stage -> Job] /\ used' \in [events : Nat, faults : Nat]
    BY <1>4 DEF Evict, Fault, TypeOK, NoJob, Job, JobState
  <2>2. QED
    BY <1>4, <2>1 DEF TypeOK, Evict
<1>5. CASE RedisFlush
  <2>1. job' \in [Stage -> Job] /\ used' \in [events : Nat, faults : Nat]
    BY <1>5 DEF RedisFlush, Fault, TypeOK, NoJob, Job, JobState
  <2>2. QED
    BY <1>5, <2>1 DEF TypeOK, RedisFlush
<1>6. ASSUME NEW w \in Workers, EvaluateStarts(w, s)
      PROVE  TypeOK'
  <2>1. job' \in [Stage -> Job]
    BY <1>1, <1>6 DEF EvaluateStarts, TypeOK, Job, JobState
  <2>2. note.plan \in Ladders \cup {NoPlan}
    BY NotedFields DEF TypeOK
  <2>3. eval' \in [Workers -> Evaluation]
    <3>1. [pc |-> IF ~HasStage(note.plan, s) THEN "finalize"
                  ELSE IF ChannelAt(note.plan, s) = "VOICE" THEN "gate" ELSE "send",
           stage |-> s, plan |-> note.plan, result |-> "SKIPPED"] \in Evaluation
      BY <2>2 DEF Evaluation, Result
    <3>2. QED
      BY <1>6, <3>1 DEF EvaluateStarts, TypeOK
  <2>4. ASSUME NEW v \in Workers
        PROVE  /\ eval'[v].pc \in {"gate", "send"} => HasStage(eval'[v].plan, eval'[v].stage)
               /\ eval'[v].pc \in {"advance", "enqueue"}
                    => HasStage(eval'[v].plan, eval'[v].stage + 1)
    BY <1>6 DEF EvaluateStarts, TypeOK
  <2>5. QED
    BY <1>6, <2>1, <2>3, <2>4 DEF TypeOK, EvaluateStarts
<1>7. QED
  BY <1>2, <1>3, <1>4, <1>5, <1>6

(* The steps of the user, of the clock and of createNotification.          *)
LEMMA TypeRow ==
  ASSUME TypeOK,
         \/ FireRead \/ FireUpsert \/ FireEnqueue \/ WindowPasses \/ TimerElapses
         \/ AcknowledgeNotification \/ ResolveNotification \/ RetryNotificationDelivery
         \/ \E paused \in BOOLEAN : PauseEscalation(paused)
  PROVE  TypeOK'
<1>1. CASE FireRead
  BY <1>1 DEF TypeOK, FireRead, Request
<1>2. CASE FireUpsert
  <2>1. note' \in Noted
    <3>1. PICK plan \in Ladders, enabled \in BOOLEAN :
            note' = [note EXCEPT !.status = "PENDING", !.acked = FALSE, !.stage = -1,
                                 !.plan = plan, !.enabled = enabled]
      BY <1>2 DEF FireUpsert
    <3>2. -1 \in -1..MaxStage /\ "PENDING" \in Status /\ plan \in Ladders \cup {NoPlan}
      BY StageAssumption DEF Status
    <3>3. QED
      BY <3>1, <3>2 DEF TypeOK, Noted
  <2>2. QED
    BY <1>2, <2>1 DEF TypeOK, FireUpsert
<1>3. CASE FireEnqueue
  BY <1>3 DEF TypeOK, FireEnqueue, Fault
<1>4. CASE WindowPasses
  <2>1. note' \in Noted
    BY <1>4 DEF WindowPasses, TypeOK, Noted
  <2>2. QED
    BY <1>4, <2>1 DEF TypeOK, WindowPasses
<1>5. CASE TimerElapses
  <2>1. note' \in Noted
    BY <1>5 DEF TimerElapses, TypeOK, Noted
  <2>2. QED
    BY <1>5, <2>1 DEF TypeOK, TimerElapses
<1>6. CASE AcknowledgeNotification
  <2>1. note' \in Noted
    BY <1>6 DEF AcknowledgeNotification, Silence, TypeOK, Noted, Status
  <2>2. QED
    BY <1>6, <2>1 DEF TypeOK, AcknowledgeNotification, Silence, Busy
<1>7. CASE ResolveNotification
  <2>1. note' \in Noted
    BY <1>7 DEF ResolveNotification, Silence, TypeOK, Noted, Status
  <2>2. QED
    BY <1>7, <2>1 DEF TypeOK, ResolveNotification, Silence, Busy
<1>8. CASE RetryNotificationDelivery
  BY <1>8 DEF TypeOK, RetryNotificationDelivery, Request
<1>9. ASSUME NEW paused \in BOOLEAN, PauseEscalation(paused)
      PROVE  TypeOK'
  <2>1. note' \in Noted
    BY <1>9 DEF PauseEscalation, TypeOK, Noted
  <2>2. QED
    BY <1>9, <2>1 DEF TypeOK, PauseEscalation, Request, Busy
<1>10. QED
  BY <1>1, <1>2, <1>3, <1>4, <1>5, <1>6, <1>7, <1>8, <1>9

(* The steps of the notification worker.                                   *)
LEMMA TypeDispatch ==
  ASSUME TypeOK, NEW d \in Dispatchers, DispatchStarts(d) \/ Dispatch(d) \/ DispatchAborts(d)
  PROVE  TypeOK'
<1>1. disp[d] \in [pc : {"idle", "mark", "arm", "enqueue"}, arms : BOOLEAN]
  BY DEF TypeOK
<1>2. CASE DispatchStarts(d)
  BY <1>2, NotedFields DEF TypeOK, DispatchStarts
<1>3. CASE MarkNotificationSent(d)
  <2>1. note' \in Noted
    BY <1>3 DEF MarkNotificationSent, TypeOK, Noted, Status
  <2>2. QED
    BY <1>1, <1>3, <2>1 DEF TypeOK, MarkNotificationSent, NoDispatch
<1>4. CASE ScheduleEscalation(d)
  <2>1. note' \in Noted
    <3>1. -1 \in -1..MaxStage
      BY StageAssumption
    <3>2. QED
      BY <1>4, <3>1 DEF ScheduleEscalation, TypeOK, Noted
  <2>2. QED
    BY <1>1, <1>4, <2>1 DEF TypeOK, ScheduleEscalation
<1>5. CASE EnqueueFirstStage(d)
  <2>1. job' \in [Stage -> Job] /\ used' \in [events : Nat, faults : Nat]
    <3>1. 0 \in Stage /\ "delayed" \in JobState
      BY StageAssumption DEF Stage, JobState
    <3>2. Enqueue(job, 0, "delayed")
      BY <1>5 DEF EnqueueFirstStage
    <3>3. QED
      BY <3>1, <3>2, EnqueueType DEF TypeOK
  <2>2. QED
    BY <1>5, <2>1 DEF TypeOK, EnqueueFirstStage, NoDispatch
<1>6. CASE DispatchAborts(d)
  BY <1>6 DEF TypeOK, DispatchAborts, Fault, NoDispatch
<1>7. QED
  BY <1>2, <1>3, <1>4, <1>5, <1>6 DEF Dispatch

(* The steps of the reconcile request and of the sweep.                    *)
LEMMA TypeRepair ==
  ASSUME TypeOK,
         \/ ReconcileFinds \/ ReconcileArms \/ ReconcileEnqueues \/ ReconcileClears
         \/ SweepFinds \/ SweepEnqueues \/ SweepFinalizes
  PROVE  TypeOK'
<1>1. CASE ReconcileFinds
  BY <1>1 DEF TypeOK, ReconcileFinds, Request
<1>2. CASE ReconcileArms
  <2>1. note' \in Noted
    BY <1>2 DEF ReconcileArms, TypeOK, Noted
  <2>2. QED
    BY <1>2, <2>1 DEF TypeOK, ReconcileArms
<1>3. CASE ReconcileEnqueues
  <2>1. job' \in [Stage -> Job] /\ used' \in [events : Nat, faults : Nat]
    <3>1. 0 \in Stage /\ "delayed" \in JobState
      BY StageAssumption DEF Stage, JobState
    <3>2. Enqueue(job, 0, "delayed")
      BY <1>3 DEF ReconcileEnqueues
    <3>3. QED
      BY <3>1, <3>2, EnqueueType DEF TypeOK
  <2>2. QED
    BY <1>3, <2>1 DEF TypeOK, ReconcileEnqueues
<1>4. CASE ReconcileClears
  <2>1. [note EXCEPT !.timer = "none", !.paused = TRUE] \in Noted
    BY DEF TypeOK, Noted
  <2>2. note' \in Noted /\ late' \subseteq Workers
    BY <1>4, <2>1 DEF ReconcileClears, Silence, TypeOK, Busy
  <2>3. QED
    BY <1>4, <2>2 DEF TypeOK, ReconcileClears
<1>5. CASE SweepFinds
  <2>1. note.plan \in Ladders \cup {NoPlan} /\ note.stage \in -1..MaxStage
    BY NotedFields DEF TypeOK
  <2>2. HasStage(note.plan, note.stage + 1) => note.stage + 1 \in Stage
    BY <2>1, LadderStage, StageAssumption DEF Stage
  <2>3. QED
    BY <1>5, <2>2, StageAssumption DEF TypeOK, SweepFinds, Stage
<1>6. CASE SweepEnqueues
  <2>1. job' \in [Stage -> Job] /\ used' \in [events : Nat, faults : Nat]
    BY <1>6, EnqueueType DEF SweepEnqueues, TypeOK, JobState
  <2>2. QED
    BY <1>6, <2>1, StageAssumption DEF TypeOK, SweepEnqueues, NoSweep, Stage
<1>7. CASE SweepFinalizes
  <2>1. note' \in Noted
    BY <1>7 DEF SweepFinalizes, FinalizedNote, TypeOK, Noted, Status
  <2>2. QED
    BY <1>7, <2>1, StageAssumption DEF TypeOK, SweepFinalizes, NoSweep, Stage
<1>8. QED
  BY <1>1, <1>2, <1>3, <1>4, <1>5, <1>6, <1>7

LEMMA TypeStep == TypeOK /\ [Next]_vars => TypeOK'
<1> SUFFICES ASSUME TypeOK, [Next]_vars PROVE TypeOK'
  OBVIOUS
<1>1. CASE UNCHANGED vars
  BY <1>1 DEF vars, TypeOK
<1>2. CASE Next
  <2>1. 0 \in Stage
    BY StageAssumption DEF Stage
  <2>2. QED
    BY <1>2, <2>1, TypeEvaluate, TypeQueue, TypeRow, TypeDispatch, TypeRepair DEF Next
<1>3. QED
  BY <1>1, <1>2

(* Every reachable state is well typed: no worker ever holds a stage its   *)
(* plan does not have, whatever re-fires replaced the plan meanwhile.      *)
THEOREM TypeCorrect == Spec => []TypeOK
  BY TypeInit, TypeStep, PTL DEF Spec
-----------------------------------------------------------------------------
(* The order of the stages.                                                *)

(* Every stage below s has an attempt on record.                           *)
Reached(s) == 0..(s - 1) \subseteq Attempted

JobsReached(jobs) == \A s \in Stage : jobs[s].state # "absent" => Reached(s)

(* NoStageSkipped alone is not inductive: what may be tried next is also   *)
(* written on the row, in the queue and in the hands of the workers and    *)
(* of the sweep, and each of them must point at a stage that has been      *)
(* reached.                                                                *)
OrderInv ==
  /\ NoStageSkipped
  /\ Reached(note.stage + 1)
  /\ JobsReached(job)
  /\ \A w \in Workers :
       /\ eval[w].pc # "idle" => Reached(eval[w].stage)
       /\ eval[w].pc \in {"advance", "enqueue"} => eval[w].stage \in Attempted
  /\ sweep.pc = "enqueue" => Reached(sweep.stage)

LEMMA OrderInit == Init => OrderInv
<1> SUFFICES ASSUME Init PROVE OrderInv
  OBVIOUS
<1>1. Attempted = {}
  BY DEF Init, Attempted
<1>2. Reached(note.stage + 1)
  BY DEF Init, NoNote, Reached
<1>3. QED
  BY <1>1, <1>2 DEF Init, OrderInv, NoStageSkipped, JobsReached, NoJob, Idle, NoSweep

(* What holds of the queue while no attempt is recorded.                   *)
LEMMA AddedReached ==
  ASSUME NEW jobs, JobsReached(jobs), jobs \in [Stage -> Job],
         NEW s \in Stage, Reached(s), NEW st
  PROVE  JobsReached(Added(jobs, s, st))
  BY DEF JobsReached, Added

LEMMA FinishedReached ==
  ASSUME TypeOK, JobsReached(job), NEW w \in Workers, Reached(eval[w].stage)
  PROVE  JobsReached(Finished(w)) /\ JobsReached(Failed(w))
<1>1. job \in [Stage -> Job] /\ eval[w].stage \in Stage
  BY DEF TypeOK, Evaluation
<1>2. QED
  BY <1>1 DEF JobsReached, Finished, Failed

LEMMA EnqueueReached ==
  ASSUME NEW jobs, JobsReached(jobs), jobs \in [Stage -> Job],
         NEW s \in Stage, Reached(s), NEW st, Enqueue(jobs, s, st)
  PROVE  JobsReached(job')
<1>1. JobsReached(Added(jobs, s, st))
  BY AddedReached
<1>2. QED
  BY <1>1 DEF Enqueue

(* A step that records no attempt moves every Reached as it is.            *)
LEMMA SameAttempts ==
  ASSUME UNCHANGED attempts
  PROVE  /\ Attempted' = Attempted
         /\ NoStageSkipped => NoStageSkipped'
         /\ \A s \in Int : Reached(s)' <=> Reached(s)
         /\ JobsReached(job') => JobsReached(job)'
  BY DEF Attempted, NoStageSkipped, Reached, JobsReached

(* The numbers of the stages a worker, the row and the sweep point at.     *)
LEMMA StageNumbers ==
  ASSUME TypeOK
  PROVE  /\ Stage \subseteq Int
         /\ note.stage \in Int
         /\ sweep.stage \in Stage
         /\ \A w \in Workers : eval[w].stage \in Stage
  BY StageAssumption DEF TypeOK, Stage, Noted, Evaluation

LEMMA RecordTries ==
  ASSUME NEW w \in Workers, Record(w)
  PROVE  Attempted' = Attempted \cup {eval[w].stage}
<1> DEFINE r == [stage |-> eval[w].stage, result |-> eval[w].result]
<1>1. attempts' = attempts \cup {r} /\ r.stage = eval[w].stage
  BY DEF Record
<1> HIDE DEF r
<1>2. QED
  BY <1>1, Zenon DEF Attempted

(* Record is the only step that records: it closes a gap, never opens one. *)
LEMMA OrderRecord ==
  ASSUME TypeOK, OrderInv, NEW w \in Workers, Record(w)
  PROVE  OrderInv'
<1>1. eval[w].stage \in Stage /\ Reached(eval[w].stage) /\ eval[w].pc = "record"
  BY StageNumbers DEF OrderInv, Record
<1>2. Attempted' = Attempted \cup {eval[w].stage}
  BY RecordTries
<1>3. NoStageSkipped'
  BY <1>1, <1>2 DEF NoStageSkipped, Reached, OrderInv
<1>4. \A s \in Int : Reached(s) => Reached(s)'
  BY <1>2 DEF Reached
<1>5. UNCHANGED << note, job, sweep >>
  BY DEF Record
<1>6. \A v \in Workers : eval'[v].stage = eval[v].stage /\ (v # w => eval'[v] = eval[v])
  BY DEF Record, Goto, TypeOK, Evaluation
<1>7. \A v \in Workers :
        /\ eval'[v].pc # "idle" => Reached(eval[v].stage)'
        /\ eval'[v].pc \in {"advance", "enqueue"} => eval'[v].stage \in Attempted'
  <2> TAKE v \in Workers
  <2>1. CASE v = w
    BY <1>1, <1>2, <1>4, <1>6, <2>1, StageNumbers
  <2>2. CASE v # w
    BY <1>2, <1>4, <1>6, <2>2, StageNumbers DEF OrderInv
  <2>3. QED
    BY <2>1, <2>2
<1>8. JobsReached(job)'
  BY <1>4, <1>5, StageNumbers DEF JobsReached, OrderInv
<1>9. Reached(note.stage + 1)' /\ (sweep'.pc = "enqueue" => Reached(sweep.stage)')
  BY <1>4, <1>5, StageNumbers DEF OrderInv
<1>10. QED
  BY <1>3, <1>5, <1>6, <1>7, <1>8, <1>9 DEF OrderInv, Reached

(* The other steps of a worker.                                            *)
LEMMA OrderEvaluate ==
  ASSUME TypeOK, OrderInv, NEW w \in Workers, Evaluate(w) \/ EvaluateAborts(w)
  PROVE  OrderInv'
<1>1. eval[w].stage \in Stage /\ eval[w] \in Evaluation /\ eval \in [Workers -> Evaluation]
  BY StageNumbers DEF TypeOK
<1>2. eval[w].pc # "idle" => Reached(eval[w].stage)
  BY DEF OrderInv
<1>3. JobsReached(job) /\ job \in [Stage -> Job]
  BY DEF OrderInv, TypeOK
<1>4. CASE Record(w)
  BY <1>4, OrderRecord
<1>5. CASE Gate(w) \/ Send(w)
  <2>1. UNCHANGED << attempts, note, job, sweep >>
    BY <1>5 DEF Gate, Send
  <2>2. \A v \in Workers : eval'[v].stage = eval[v].stage
    BY <1>5, <1>1 DEF Gate, Send, Goto, Evaluation
  <2>3. eval[w].pc # "idle" /\ eval'[w].pc \in {"send", "record"}
    BY <1>5, <1>1 DEF Gate, Send, Goto, Evaluation
  <2>4. \A v \in Workers : v # w => eval'[v] = eval[v]
    BY <1>5, <1>1 DEF Gate, Send, Goto
  <2>5. QED
    BY <2>1, <2>2, <2>3, <2>4, SameAttempts, StageNumbers DEF OrderInv
<1>6. CASE AdvanceStage(w)
  <2>1. UNCHANGED << attempts, job, sweep >> /\ eval[w].pc = "advance"
    BY <1>6 DEF AdvanceStage
  <2>2. \A v \in Workers : eval'[v].stage = eval[v].stage /\ (v # w => eval'[v] = eval[v])
    BY <1>6, <1>1 DEF AdvanceStage, Goto, Evaluation
  <2>3. eval[w].stage \in Attempted
    BY <2>1 DEF OrderInv
  <2>4. note'.stage = eval[w].stage
    BY <1>6 DEF AdvanceStage, TypeOK, Noted
  <2>5. Reached(eval[w].stage + 1)
    BY <1>1, <1>2, <2>1, <2>3, StageNumbers DEF Reached
  <2>6. Reached(note.stage + 1)'
    BY <2>1, <2>4, <2>5, SameAttempts DEF Reached
  <2>7. QED
    <3>1. NoStageSkipped' /\ JobsReached(job)'
      BY <2>1, SameAttempts DEF OrderInv
    <3>2. \A v \in Workers :
            /\ eval'[v].pc # "idle" => Reached(eval[v].stage)'
            /\ eval'[v].pc \in {"advance", "enqueue"} => eval'[v].stage \in Attempted'
      <4> TAKE v \in Workers
      <4>1. CASE v = w
        BY <1>2, <2>1, <2>2, <2>3, <4>1, SameAttempts, StageNumbers DEF Reached
      <4>2. CASE v # w
        BY <2>1, <2>2, <4>2, SameAttempts, StageNumbers DEF OrderInv, Reached
      <4>3. QED
        BY <4>1, <4>2
    <3>3. sweep'.pc = "enqueue" => Reached(sweep.stage)'
      BY <2>1, SameAttempts, StageNumbers DEF OrderInv, Reached
    <3>4. QED
      BY <2>6, <3>1, <3>2, <3>3 DEF OrderInv
<1>7. CASE EnqueueNextStage(w)
  <2>1. UNCHANGED << attempts, note, sweep >> /\ eval[w].pc = "enqueue"
    BY <1>7 DEF EnqueueNextStage
  <2>2. eval'[w] = Idle /\ \A v \in Workers : v # w => eval'[v] = eval[v]
    BY <1>7, <1>1 DEF EnqueueNextStage, Release
  <2>3. eval[w].stage + 1 \in Stage
    <3>1. HasStage(eval[w].plan, eval[w].stage + 1) /\ eval[w].plan \in Ladders \cup {NoPlan}
      BY <1>1, <2>1 DEF TypeOK, Evaluation
    <3>2. QED
      BY <1>1, <3>1, LadderStage, StageAssumption DEF Stage
  <2>4. Reached(eval[w].stage + 1)
    BY <1>1, <1>2, <2>1, StageNumbers DEF OrderInv, Reached
  <2>5. JobsReached(Finished(w)) /\ Finished(w) \in [Stage -> Job]
    BY <1>2, <1>3, <2>1, FinishedReached, FinishedType
  <2>6. JobsReached(job')
    <3>1. Enqueue(Finished(w), eval[w].stage + 1, "delayed")
      BY <1>7 DEF EnqueueNextStage
    <3>2. QED
      BY <2>3, <2>4, <2>5, <3>1, EnqueueReached
  <2>7. QED
    BY <2>1, <2>2, <2>6, SameAttempts, StageNumbers DEF OrderInv, Idle
<1>8. CASE FinalizeEscalation(w) \/ EvaluateAborts(w)
  <2>1. UNCHANGED << attempts, sweep >> /\ eval[w].pc # "idle"
    BY <1>8 DEF FinalizeEscalation, EvaluateAborts
  <2>2. eval'[w] = Idle /\ \A v \in Workers : v # w => eval'[v] = eval[v]
    BY <1>8, <1>1 DEF FinalizeEscalation, EvaluateAborts, Release
  <2>3. JobsReached(job')
    BY <1>2, <1>3, <1>8, <2>1, FinishedReached DEF FinalizeEscalation, EvaluateAborts
  <2>4. note'.stage = note.stage
    BY <1>8 DEF FinalizeEscalation, EvaluateAborts, FinalizedNote, TypeOK, Noted
  <2>5. QED
    BY <2>1, <2>2, <2>3, <2>4, SameAttempts, StageNumbers DEF OrderInv, Idle
<1>9. QED
  BY <1>4, <1>5, <1>6, <1>7, <1>8 DEF Evaluate

(* The steps of the queue.                                                 *)
LEMMA OrderQueue ==
  ASSUME TypeOK, OrderInv, NEW s \in Stage,
         \/ EvaluateStops(s) \/ DelayElapses(s) \/ Evict(s) \/ RedisFlush
         \/ \E w \in Workers : EvaluateStarts(w, s)
  PROVE  OrderInv'
<1>1. UNCHANGED << attempts, note, sweep >>
  BY DEF EvaluateStops, DelayElapses, Evict, RedisFlush, EvaluateStarts
<1>2. job \in [Stage -> Job] /\ JobsReached(job)
  BY DEF TypeOK, OrderInv
<1>3. JobsReached(job')
  <2>1. CASE EvaluateStops(s) \/ DelayElapses(s)
    BY <1>2, <2>1 DEF EvaluateStops, DelayElapses, JobsReached
  <2>2. CASE Evict(s) \/ RedisFlush
    BY <1>2, <2>2 DEF Evict, RedisFlush, JobsReached, NoJob
  <2>3. CASE \E w \in Workers : EvaluateStarts(w, s)
    BY <1>2, <2>3 DEF EvaluateStarts, JobsReached
  <2>4. QED
    BY <2>1, <2>2, <2>3
<1>4. CASE UNCHANGED eval
  BY <1>1, <1>3, <1>4, SameAttempts, StageNumbers DEF OrderInv, Reached
<1>5. ASSUME NEW w \in Workers, EvaluateStarts(w, s)
      PROVE  OrderInv'
  <2>1. Reached(s)
    BY <1>2, <1>5 DEF EvaluateStarts, JobsReached
  <2>2. eval \in [Workers -> Evaluation]
    BY DEF TypeOK
  <2>3. eval'[w].stage = s /\ eval'[w].pc \in {"finalize", "gate", "send"}
    BY <1>5, <2>2 DEF EvaluateStarts
  <2>4. \A v \in Workers : v # w => eval'[v] = eval[v]
    BY <1>5, <2>2 DEF EvaluateStarts
  <2>5. \A v \in Workers :
          /\ eval'[v].pc # "idle" => Reached(eval[v].stage)'
          /\ eval'[v].pc \in {"advance", "enqueue"} => eval'[v].stage \in Attempted'
    <3> TAKE v \in Workers
    <3>1. CASE v = w
      BY <1>1, <2>1, <2>3, <3>1, SameAttempts DEF Reached
    <3>2. CASE v # w
      BY <1>1, <2>4, <3>2, SameAttempts DEF OrderInv, Reached
    <3>3. QED
      BY <3>1, <3>2
  <2>6. QED
    BY <1>1, <1>3, <2>5, SameAttempts, StageNumbers DEF OrderInv, Reached
<1>6. QED
  BY <1>4, <1>5 DEF EvaluateStops, DelayElapses, Evict, RedisFlush

(* The steps that leave the queue, the workers and the sweep alone may     *)
(* only keep escalationStage or take it back to the start.                 *)
LEMMA OrderRow ==
  ASSUME TypeOK, OrderInv, UNCHANGED << attempts, job, eval, sweep >>,
         note'.stage = note.stage \/ note'.stage = -1
  PROVE  OrderInv'
<1>1. Reached(note.stage + 1)'
  BY SameAttempts DEF OrderInv, Reached
<1>2. QED
  BY <1>1, SameAttempts, StageNumbers DEF OrderInv, Reached

LEMMA OrderOthers ==
  ASSUME TypeOK, OrderInv,
         \/ FireRead \/ FireUpsert \/ FireEnqueue \/ WindowPasses \/ TimerElapses
         \/ AcknowledgeNotification \/ ResolveNotification \/ RetryNotificationDelivery
         \/ \E paused \in BOOLEAN : PauseEscalation(paused)
         \/ \E d \in Dispatchers :
              \/ DispatchStarts(d) \/ MarkNotificationSent(d) \/ ScheduleEscalation(d)
              \/ DispatchAborts(d)
         \/ ReconcileFinds \/ ReconcileArms \/ ReconcileClears
  PROVE  OrderInv'
<1>1. UNCHANGED << attempts, job, eval, sweep >>
  BY DEF FireRead, FireUpsert, FireEnqueue, WindowPasses, TimerElapses,
         AcknowledgeNotification, ResolveNotification, RetryNotificationDelivery,
         PauseEscalation, DispatchStarts, MarkNotificationSent, ScheduleEscalation,
         DispatchAborts, ReconcileFinds, ReconcileArms, ReconcileClears
<1>2. note \in Noted
  BY DEF TypeOK
<1>3. note'.stage = note.stage \/ note'.stage = -1
  <2>1. CASE FireUpsert
    BY <1>2, <2>1 DEF FireUpsert, Noted
  <2>2. CASE AcknowledgeNotification \/ ResolveNotification \/ WindowPasses \/ TimerElapses
    BY <1>2, <2>2 DEF AcknowledgeNotification, ResolveNotification, WindowPasses,
                      TimerElapses, Silence, Noted
  <2>3. CASE \E paused \in BOOLEAN : PauseEscalation(paused)
    BY <1>2, <2>3 DEF PauseEscalation, Noted
  <2>4. CASE ReconcileArms \/ ReconcileClears
    BY <1>2, <2>4 DEF ReconcileArms, ReconcileClears, Silence, Noted
  <2>5. CASE \E d \in Dispatchers : MarkNotificationSent(d) \/ ScheduleEscalation(d)
    BY <1>2, <2>5 DEF MarkNotificationSent, ScheduleEscalation, Noted
  <2>6. CASE UNCHANGED note
    BY <2>6
  <2>7. QED
    BY <2>1, <2>2, <2>3, <2>4, <2>5, <2>6
    DEF FireRead, FireEnqueue, RetryNotificationDelivery, DispatchStarts,
        DispatchAborts, ReconcileFinds
<1>4. QED
  BY <1>1, <1>3, OrderRow

(* The adds made outside the workers: stage 0, or the one the sweep found. *)
LEMMA OrderAdds ==
  ASSUME TypeOK, OrderInv,
         \/ ReconcileEnqueues \/ SweepFinds \/ SweepEnqueues \/ SweepFinalizes
         \/ \E d \in Dispatchers : EnqueueFirstStage(d)
  PROVE  OrderInv'
<1>1. UNCHANGED << attempts, eval >>
  BY DEF ReconcileEnqueues, SweepFinds, SweepEnqueues, SweepFinalizes, EnqueueFirstStage
<1>2. job \in [Stage -> Job] /\ JobsReached(job) /\ note \in Noted
  BY DEF TypeOK, OrderInv
<1>3. 0 \in Stage /\ Reached(0)
  BY StageAssumption DEF Stage, Reached
<1>4. note'.stage = note.stage
  BY <1>2 DEF ReconcileEnqueues, SweepFinds, SweepEnqueues, SweepFinalizes,
              EnqueueFirstStage, FinalizedNote, Noted
<1>5. JobsReached(job')
  <2>1. CASE ReconcileEnqueues \/ \E d \in Dispatchers : EnqueueFirstStage(d)
    <3>1. Enqueue(job, 0, "delayed")
      BY <2>1 DEF ReconcileEnqueues, EnqueueFirstStage
    <3>2. QED
      BY <1>2, <1>3, <3>1, EnqueueReached
  <2>2. CASE SweepEnqueues
    <3>1. Enqueue(job, sweep.stage, "waiting") /\ sweep.pc = "enqueue"
      BY <2>2 DEF SweepEnqueues
    <3>2. Reached(sweep.stage) /\ sweep.stage \in Stage
      BY <3>1, StageNumbers DEF OrderInv
    <3>3. QED
      BY <1>2, <3>1, <3>2, EnqueueReached
  <2>3. CASE SweepFinds \/ SweepFinalizes
    BY <1>2, <2>3 DEF SweepFinds, SweepFinalizes
  <2>4. QED
    BY <2>1, <2>2, <2>3
<1>6. sweep'.pc = "enqueue" => Reached(sweep'.stage)
  BY DEF ReconcileEnqueues, SweepFinds, SweepEnqueues, SweepFinalizes, EnqueueFirstStage,
         NoSweep, OrderInv
<1>7. sweep'.pc = "enqueue" => Reached(sweep.stage)'
  BY <1>1, <1>6, SameAttempts DEF Reached
<1>8. Reached(note.stage + 1)'
  BY <1>1, <1>4, SameAttempts DEF Reached, OrderInv
<1>9. \A v \in Workers : eval[v].pc # "idle" => Reached(eval[v].stage)'
  BY <1>1, SameAttempts DEF Reached, OrderInv
<1>10. QED
  BY <1>1, <1>5, <1>7, <1>8, <1>9, SameAttempts DEF OrderInv

LEMMA OrderStep == TypeOK /\ OrderInv /\ [Next]_vars => OrderInv'
<1> SUFFICES ASSUME TypeOK, OrderInv, [Next]_vars PROVE OrderInv'
  OBVIOUS
<1>1. CASE UNCHANGED vars
  BY <1>1, OrderRow DEF vars
<1>2. CASE Next
  <2>1. 0 \in Stage
    BY StageAssumption DEF Stage
  <2>2. QED
    BY <1>2, <2>1, OrderEvaluate, OrderQueue, OrderOthers, OrderAdds DEF Next, Dispatch
<1>3. QED
  BY <1>1, <1>2

LEMMA OrderCorrect == Spec => []OrderInv
  BY OrderInit, OrderStep, TypeCorrect, PTL DEF Spec

(* The ladder is climbed in order: no stage of a notification is tried     *)
(* before each of the lower stages has an attempt on record.               *)
THEOREM LadderInOrder == Spec => []NoStageSkipped
<1>1. OrderInv => NoStageSkipped
  BY DEF OrderInv
<1>2. QED
  BY <1>1, OrderCorrect, PTL
-----------------------------------------------------------------------------
(* The user's stop.                                                        *)

(* A step that takes no worker to a channel and keeps the row's stop flags *)
(* (or clears them all) keeps the stop heard.                              *)
LEMMA StopQuiet ==
  ASSUME TypeOK, StopIsHeard, UNCHANGED << eval, late >>, Silenced' => Silenced
  PROVE  StopIsHeard'
  BY DEF StopIsHeard

LEMMA StopUser ==
  ASSUME TypeOK, StopIsHeard,
         \/ AcknowledgeNotification \/ ResolveNotification \/ ReconcileClears \/ FireUpsert
         \/ \E paused \in BOOLEAN : PauseEscalation(paused)
  PROVE  StopIsHeard'
<1>1. UNCHANGED eval
  BY DEF AcknowledgeNotification, ResolveNotification, ReconcileClears, FireUpsert,
         PauseEscalation
<1>2. note \in Noted
  BY DEF TypeOK
<1>3. CASE late' = IF Silenced THEN late ELSE Busy
  BY <1>1, <1>3 DEF StopIsHeard, Busy
<1>4. CASE FireUpsert
  <2>1. Silenced' => Silenced /\ late' = late
    BY <1>2, <1>4 DEF FireUpsert, Silenced, Noted
  <2>2. QED
    BY <1>1, <2>1 DEF StopIsHeard
<1>5. CASE \E paused \in BOOLEAN : PauseEscalation(paused)
  <2>1. late' = IF Silenced THEN IF Silenced' THEN late ELSE {} ELSE Busy
    BY <1>5 DEF PauseEscalation
  <2>2. QED
    BY <1>1, <2>1 DEF StopIsHeard, Busy
<1>6. CASE UNCHANGED << note, late >>
  BY <1>1, <1>6, StopQuiet DEF Silenced
<1>7. QED
  BY <1>3, <1>4, <1>5, <1>6
  DEF AcknowledgeNotification, ResolveNotification, ReconcileClears, Silence

(* The worker's steps: none reaches a channel that was not on its way.     *)
LEMMA StopEvaluate ==
  ASSUME TypeOK, StopIsHeard, NEW w \in Workers, Evaluate(w) \/ EvaluateAborts(w)
  PROVE  StopIsHeard'
<1>1. eval \in [Workers -> Evaluation] /\ eval[w] \in Evaluation /\ note \in Noted
  BY DEF TypeOK
<1>2. Silenced' = Silenced
  BY <1>1 DEF Evaluate, Gate, Send, Record, AdvanceStage, EnqueueNextStage,
              FinalizeEscalation, EvaluateAborts, FinalizedNote, Silenced, Noted
<1>3. \A v \in Workers : v # w => eval'[v] = eval[v]
  BY <1>1 DEF Evaluate, Gate, Send, Record, AdvanceStage, EnqueueNextStage,
              FinalizeEscalation, EvaluateAborts, Goto, Release
<1>4. CASE Gate(w)
  <2>1. late' = late /\ eval[w].pc = "gate"
    BY <1>4 DEF Gate
  <2>2. QED
    BY <1>2, <1>3, <2>1 DEF StopIsHeard
<1>5. CASE Send(w) \/ Record(w) \/ AdvanceStage(w)
  <2>1. late' = late /\ eval'[w].pc \notin {"gate", "send"}
    BY <1>1, <1>5 DEF Send, Record, AdvanceStage, Goto, Evaluation
  <2>2. QED
    BY <1>2, <1>3, <2>1 DEF StopIsHeard
<1>6. CASE EnqueueNextStage(w) \/ FinalizeEscalation(w) \/ EvaluateAborts(w)
  <2>1. late' = late \ {w} /\ eval'[w].pc = "idle"
    BY <1>1, <1>6 DEF EnqueueNextStage, FinalizeEscalation, EvaluateAborts, Release, Idle
  <2>2. QED
    BY <1>2, <1>3, <2>1 DEF StopIsHeard
<1>7. QED
  BY <1>4, <1>5, <1>6 DEF Evaluate

LEMMA StopStep == TypeOK /\ StopIsHeard /\ [Next]_vars => StopIsHeard'
<1> SUFFICES ASSUME TypeOK, StopIsHeard, [Next]_vars PROVE StopIsHeard'
  OBVIOUS
<1>1. note \in Noted
  BY DEF TypeOK
<1>2. CASE UNCHANGED vars
  BY <1>2, StopQuiet DEF vars, Silenced
<1>3. CASE \E w \in Workers : Evaluate(w) \/ EvaluateAborts(w)
  BY <1>3, StopEvaluate
<1>4. CASE \E w \in Workers, s \in Stage : EvaluateStarts(w, s)
  BY <1>4 DEF EvaluateStarts, Stopped, Silenced, StopIsHeard
<1>5. CASE \/ AcknowledgeNotification \/ ResolveNotification \/ ReconcileClears \/ FireUpsert
           \/ \E paused \in BOOLEAN : PauseEscalation(paused)
  BY <1>5, StopUser
<1>6. CASE \/ \E s \in Stage : EvaluateStops(s) \/ DelayElapses(s) \/ Evict(s)
           \/ \E d \in Dispatchers : DispatchStarts(d) \/ EnqueueFirstStage(d) \/ DispatchAborts(d)
           \/ FireRead \/ FireEnqueue \/ RetryNotificationDelivery \/ ReconcileFinds
           \/ ReconcileEnqueues \/ SweepFinds \/ SweepEnqueues \/ RedisFlush
  <2>1. UNCHANGED << note, eval, late >>
    BY <1>6 DEF EvaluateStops, DelayElapses, Evict, DispatchStarts, EnqueueFirstStage,
                DispatchAborts, FireRead, FireEnqueue, RetryNotificationDelivery,
                ReconcileFinds, ReconcileEnqueues, SweepFinds, SweepEnqueues, RedisFlush
  <2>2. QED
    BY <2>1, StopQuiet DEF Silenced
<1>7. CASE \/ WindowPasses \/ ReconcileArms \/ SweepFinalizes \/ TimerElapses
           \/ \E d \in Dispatchers : MarkNotificationSent(d) \/ ScheduleEscalation(d)
  <2>1. UNCHANGED << eval, late >> /\ Silenced' = Silenced
    <3>1. UNCHANGED << eval, late >>
      BY <1>7 DEF WindowPasses, ReconcileArms, SweepFinalizes, TimerElapses, MarkNotificationSent, ScheduleEscalation
    <3>2. \/ note' = [note EXCEPT !.aged = TRUE] \/ note' = [note EXCEPT !.timer = "future"]
          \/ note' = FinalizedNote \/ note' = [note EXCEPT !.timer = "due"]
          \/ note' = [note EXCEPT !.status = "SENT"] \/ note' = note
          \/ note' = [note EXCEPT !.timer = "future", !.stage = -1]
      BY <1>7 DEF WindowPasses, ReconcileArms, SweepFinalizes, TimerElapses, MarkNotificationSent, ScheduleEscalation
    <3>3. note'.acked = note.acked /\ note'.paused = note.paused
      BY <1>1, <3>2 DEF FinalizedNote, Noted
    <3>4. QED
      BY <3>1, <3>3 DEF Silenced
  <2>2. QED
    BY <2>1, StopQuiet
<1>8. QED
  BY <1>2, <1>3, <1>4, <1>5, <1>6, <1>7 DEF Next, Dispatch

(* Once the user has stopped a notification, only evaluations that were    *)
(* past their stop check can still use a channel.                          *)
THEOREM StopHeard == Spec => []StopIsHeard
<1>1. Init => StopIsHeard
  BY DEF Init, StopIsHeard, Idle
<1>2. QED
  BY <1>1, StopStep, TypeCorrect, PTL DEF Spec
-----------------------------------------------------------------------------
(* The refinement of EscalationPromise.                                    *)

LEMMA SilencedBoolean == TypeOK => Silenced \in BOOLEAN /\ (TypeOK' => Silenced' \in BOOLEAN)
  BY DEF TypeOK, Noted, Silenced

(* Steps that neither record an attempt nor move a worker are steps of the *)
(* user as far as the promise is concerned, or no step at all.             *)
LEMMA PromiseUser ==
  ASSUME TypeOK, TypeOK', UNCHANGED << attempts, Calling >>
  PROVE  [Promise!Next]_(Promise!vars)
<1>1. Attempted' = Attempted /\ Silenced \in BOOLEAN /\ Silenced' \in BOOLEAN
  BY SilencedBoolean, SameAttempts
<1>2. Silenced' = Silenced \/ Silenced' = ~Silenced
  BY <1>1
<1>3. QED
  BY <1>1, <1>2 DEF Promise!Next, Promise!ChangeSilence, Promise!vars

(* The start of an evaluation begins a call, unless nothing is left to try. *)
LEMMA PromiseStarts ==
  ASSUME TypeOK, TypeOK', NEW w \in Workers, NEW s \in Stage, EvaluateStarts(w, s)
  PROVE  [Promise!Next]_(Promise!vars)
<1>1. eval \in [Workers -> Evaluation] /\ eval[w].pc = "idle" /\ w \notin Calling
  BY DEF TypeOK, EvaluateStarts, Calling
<1>2. UNCHANGED attempts /\ Attempted' = Attempted
  BY SameAttempts DEF EvaluateStarts
<1>3. ~Silenced /\ Silenced' = Silenced
  BY DEF EvaluateStarts, Stopped, Silenced
<1>4. \A v \in Workers : v # w => eval'[v] = eval[v]
  BY <1>1 DEF EvaluateStarts
<1>5. eval'[w].pc \in {"finalize", "gate", "send"}
  BY <1>1 DEF EvaluateStarts
<1>6. CASE eval'[w].pc = "finalize"
  <2>1. Calling' = Calling
    BY <1>1, <1>4, <1>6 DEF Calling
  <2>2. QED
    BY <1>2, <2>1, PromiseUser
<1>7. CASE eval'[w].pc # "finalize"
  <2>1. Calling' = Calling \cup {w}
    BY <1>1, <1>4, <1>5, <1>7 DEF Calling
  <2>2. Promise!Begin(w)
    BY <1>1, <1>2, <1>3, <2>1 DEF Promise!Begin
  <2>3. QED
    BY <2>2 DEF Promise!Next
<1>8. QED
  BY <1>6, <1>7

(* Record is Try; a crash before it is GiveUp.                             *)
LEMMA PromiseEvaluate ==
  ASSUME TypeOK, TypeOK', OrderInv, NEW w \in Workers, Evaluate(w) \/ EvaluateAborts(w)
  PROVE  [Promise!Next]_(Promise!vars)
<1>1. eval \in [Workers -> Evaluation] /\ eval[w] \in Evaluation /\ note \in Noted
  BY DEF TypeOK
<1>2. Silenced' = Silenced
  BY <1>1 DEF Evaluate, Gate, Send, Record, AdvanceStage, EnqueueNextStage,
              FinalizeEscalation, EvaluateAborts, FinalizedNote, Silenced, Noted
<1>3. \A v \in Workers : v # w => eval'[v] = eval[v]
  BY <1>1 DEF Evaluate, Gate, Send, Record, AdvanceStage, EnqueueNextStage,
              FinalizeEscalation, EvaluateAborts, Goto, Release
<1>4. CASE Record(w)
  <2>1. eval[w].pc = "record" /\ eval[w].stage \in 0..MaxStage /\ Reached(eval[w].stage)
    BY <1>4, StageNumbers DEF Record, OrderInv, Stage
  <2>2. eval'[w].pc \in {"advance", "finalize"}
    BY <1>1, <1>4 DEF Record, Goto, Evaluation
  <2>3. w \in Calling /\ Calling' = Calling \ {w}
    BY <1>3, <2>1, <2>2 DEF Calling
  <2>4. Attempted' = Attempted \cup {eval[w].stage}
    BY <1>4, RecordTries
  <2>5. Promise!Try(w)
    BY <1>2, <2>1, <2>3, <2>4 DEF Promise!Try, Reached
  <2>6. QED
    BY <2>5 DEF Promise!Next
<1>5. CASE UNCHANGED attempts /\ Calling' = Calling
  BY <1>5, PromiseUser
<1>6. CASE Gate(w) \/ Send(w)
  <2>1. eval[w].pc \in {"gate", "send"} /\ eval'[w].pc \in {"send", "record"}
    BY <1>1, <1>6 DEF Gate, Send, Goto, Evaluation
  <2>2. UNCHANGED attempts /\ Calling' = Calling
    BY <1>3, <1>6, <2>1 DEF Gate, Send, Calling
  <2>3. QED
    BY <2>2, <1>5
<1>7. CASE AdvanceStage(w) \/ EnqueueNextStage(w) \/ FinalizeEscalation(w)
  <2>1. eval[w].pc \in {"advance", "enqueue", "finalize"} /\ eval'[w].pc \in {"enqueue", "idle"}
    BY <1>1, <1>7 DEF AdvanceStage, EnqueueNextStage, FinalizeEscalation, Goto, Release,
                      Idle, Evaluation
  <2>2. UNCHANGED attempts /\ Calling' = Calling
    BY <1>3, <1>7, <2>1 DEF AdvanceStage, EnqueueNextStage, FinalizeEscalation, Calling
  <2>3. QED
    BY <2>2, <1>5
<1>8. CASE EvaluateAborts(w)
  <2>1. UNCHANGED attempts /\ eval'[w].pc = "idle"
    BY <1>1, <1>8 DEF EvaluateAborts, Release, Idle
  <2>2. Calling' = Calling \ {w}
    BY <1>3, <2>1 DEF Calling
  <2>3. CASE w \in Calling
    <3>1. Promise!GiveUp(w)
      BY <1>2, <2>1, <2>2, <2>3, SameAttempts DEF Promise!GiveUp
    <3>2. QED
      BY <3>1 DEF Promise!Next
  <2>4. CASE w \notin Calling
    BY <2>1, <2>2, <2>4, <1>5
  <2>5. QED
    BY <2>3, <2>4
<1>9. QED
  BY <1>4, <1>6, <1>7, <1>8 DEF Evaluate

LEMMA PromiseStep ==
  TypeOK /\ TypeOK' /\ OrderInv /\ [Next]_vars => [Promise!Next]_(Promise!vars)
<1> SUFFICES ASSUME TypeOK, TypeOK', OrderInv, [Next]_vars
             PROVE  [Promise!Next]_(Promise!vars)
  OBVIOUS
<1>1. CASE UNCHANGED << attempts, eval >>
  BY <1>1, PromiseUser DEF Calling
<1>2. CASE \E w \in Workers : Evaluate(w) \/ EvaluateAborts(w)
  BY <1>2, PromiseEvaluate
<1>3. CASE \E w \in Workers, s \in Stage : EvaluateStarts(w, s)
  BY <1>3, PromiseStarts
<1>4. CASE \/ \E s \in Stage : EvaluateStops(s) \/ DelayElapses(s) \/ Evict(s)
           \/ \E d \in Dispatchers : DispatchStarts(d) \/ Dispatch(d) \/ DispatchAborts(d)
           \/ FireRead \/ FireUpsert \/ FireEnqueue \/ WindowPasses
           \/ TimerElapses \/ RedisFlush
  <2>1. UNCHANGED << attempts, eval >>
    BY <1>4 DEF EvaluateStops, DelayElapses, Evict, DispatchStarts, Dispatch,
                MarkNotificationSent, ScheduleEscalation, EnqueueFirstStage, DispatchAborts,
                FireRead, FireUpsert, FireEnqueue, WindowPasses, TimerElapses, RedisFlush
  <2>2. QED
    BY <1>1, <2>1
<1>5. CASE \/ AcknowledgeNotification \/ ResolveNotification \/ RetryNotificationDelivery
           \/ \E paused \in BOOLEAN : PauseEscalation(paused)
           \/ ReconcileFinds \/ ReconcileArms \/ ReconcileEnqueues \/ ReconcileClears
           \/ SweepFinds \/ SweepEnqueues \/ SweepFinalizes
  <2>1. UNCHANGED << attempts, eval >>
    BY <1>5 DEF AcknowledgeNotification, ResolveNotification, RetryNotificationDelivery,
                PauseEscalation, ReconcileFinds, ReconcileArms, ReconcileEnqueues,
                ReconcileClears, SweepFinds, SweepEnqueues, SweepFinalizes
  <2>2. QED
    BY <1>1, <2>1
<1>6. CASE UNCHANGED vars
  BY <1>1, <1>6 DEF vars
<1>7. QED
  BY <1>2, <1>3, <1>4, <1>5, <1>6 DEF Next

(* The detailed ladder implements the abstract one: every behaviour of     *)
(* Spec, seen through the attempts, the stop flags and the calls under     *)
(* way, is a behaviour of EscalationPromise.                               *)
THEOREM PromiseKept == Spec => KeepsPromise
<1>1. Init => Promise!Init
  <2> SUFFICES ASSUME Init PROVE Promise!Init
    OBVIOUS
  <2>1. Attempted = {} /\ Silenced = FALSE /\ Calling = {}
    BY DEF Init, Attempted, Silenced, Calling, NoNote, Idle
  <2>2. QED
    BY <2>1 DEF Promise!Init
<1>2. QED
  BY <1>1, PromiseStep, TypeCorrect, OrderCorrect, PTL DEF Spec, KeepsPromise, Promise!Spec

-----------------------------------------------------------------------------
(* How often a stage can contact the user, for every number of workers and *)
(* every number of faults.                                                 *)

(* The workers that may still contact the user for a stage.                *)
Dialling(s) == { w \in Workers : eval[w].stage = s /\ eval[w].pc \in {"gate", "send"} }

(* The stage's job can still be taken by a worker.                         *)
Ticket(s) == IF job[s].state \in {"absent", "delayed", "waiting"} THEN 1 ELSE 0

Load(s) == contacts[s] + Cardinality(Dialling(s)) + Ticket(s)

(* A stage has one ticket to its channel: it is in the queue, with a       *)
(* worker, or spent.  Only a fault hands out another.                      *)
TicketInv == \A s \in Stage : Load(s) <= 1 + used.faults

LEMMA DiallingFinite ==
  ASSUME NEW s \in Stage
  PROVE  /\ IsFiniteSet(Dialling(s)) /\ Cardinality(Dialling(s)) \in Nat
         /\ IsFiniteSet(Dialling(s)') /\ Cardinality(Dialling(s)') \in Nat
<1>1. Dialling(s) \subseteq Workers /\ Dialling(s)' \subseteq Workers
  BY DEF Dialling
<1>2. IsFiniteSet(Dialling(s)) /\ IsFiniteSet(Dialling(s)')
  BY <1>1, WorkersAssumption, FS_Subset
<1>3. QED
  BY <1>2, FS_CardinalityType

LEMMA TicketInit == Init => TicketInv
<1> SUFFICES ASSUME Init, NEW s \in Stage PROVE Load(s) <= 1 + used.faults
  BY DEF TicketInv
<1>1. Dialling(s) = {}
  BY DEF Init, Idle, Dialling
<1>2. QED
  BY <1>1, FS_EmptySet DEF Init, Load, Ticket, NoJob

(* A stage whose workers do not become more and that is not contacted.     *)
LEMMA TicketQuiet ==
  ASSUME TypeOK, TypeOK', NEW s \in Stage, Load(s) <= 1 + used.faults,
         contacts'[s] = contacts[s], Dialling(s)' \subseteq Dialling(s),
         \/ Ticket(s)' <= Ticket(s) /\ used'.faults >= used.faults
         \/ used'.faults = used.faults + 1
  PROVE  (Load(s) <= 1 + used.faults)'
<1>1. Cardinality(Dialling(s)') <= Cardinality(Dialling(s))
  BY DiallingFinite, FS_Subset
<1>2. contacts[s] \in Nat /\ used.faults \in Nat /\ used'.faults \in Nat
  BY DEF TypeOK
<1>3. Ticket(s) \in 0..1 /\ Ticket(s)' \in 0..1
  BY DEF Ticket
<1>4. QED
  BY <1>1, <1>2, <1>3, DiallingFinite DEF Load

(* What adding a job, finishing one and taking a fault do to the tickets.  *)
LEMMA AddedTicket ==
  ASSUME NEW jobs \in [Stage -> Job], NEW t \in Stage, NEW st \in {"delayed", "waiting"},
         NEW s \in Stage, job' = Added(jobs, t, st)
  PROVE  Ticket(s)' = IF jobs[s].state \in {"absent", "delayed", "waiting"} THEN 1 ELSE 0
  BY DEF Added, Ticket, Job

LEMMA EnqueueTicket ==
  ASSUME TypeOK, NEW jobs \in [Stage -> Job], NEW t \in Stage, NEW st \in {"delayed", "waiting"},
         NEW s \in Stage, Enqueue(jobs, t, st),
         jobs[s].state \in {"absent", "delayed", "waiting"} => Ticket(s) = 1
  PROVE  \/ Ticket(s)' <= Ticket(s) /\ used'.faults >= used.faults
         \/ used'.faults = used.faults + 1
<1>1. used \in [events : Nat, faults : Nat]
  BY DEF TypeOK
<1>2. CASE job' = Added(jobs, t, st) /\ UNCHANGED used
  BY <1>1, <1>2, AddedTicket DEF Ticket
<1>3. CASE Fault("refuse")
  BY <1>1, <1>3 DEF Fault
<1>4. QED
  BY <1>2, <1>3 DEF Enqueue

LEMMA FinishedTicket ==
  ASSUME TypeOK, NEW w \in Workers, NEW s \in Stage
  PROVE  Finished(w)[s].state \in {"absent", "delayed", "waiting"} => Ticket(s) = 1
  BY DEF Finished, Ticket, TypeOK, Job, Evaluation

-----------------------------------------------------------------------------
(* Steps that leave the workers and the contacts alone.                    *)
LEMMA TicketQueue ==
  ASSUME TypeOK, TypeOK', TicketInv, NEW s \in Stage,
         \/ \E t \in Stage : EvaluateStops(t) \/ DelayElapses(t) \/ Evict(t)
         \/ RedisFlush \/ SweepEnqueues \/ ReconcileEnqueues
         \/ \E d \in Dispatchers : EnqueueFirstStage(d)
  PROVE  (Load(s) <= 1 + used.faults)'
<1>1. UNCHANGED << eval, contacts >>
  BY DEF EvaluateStops, DelayElapses, Evict, RedisFlush, SweepEnqueues, ReconcileEnqueues,
         EnqueueFirstStage
<1>2. Dialling(s)' = Dialling(s)
  BY <1>1 DEF Dialling
<1>3. job \in [Stage -> Job] /\ used \in [events : Nat, faults : Nat]
  BY DEF TypeOK
<1>4. \/ Ticket(s)' <= Ticket(s) /\ used'.faults >= used.faults
      \/ used'.faults = used.faults + 1
  <2>1. ASSUME NEW t \in Stage, EvaluateStops(t) \/ DelayElapses(t)
        PROVE  Ticket(s)' <= Ticket(s) /\ used'.faults >= used.faults
    BY <1>3, <2>1 DEF EvaluateStops, DelayElapses, Ticket, Job
  <2>2. CASE RedisFlush \/ \E t \in Stage : Evict(t)
    BY <1>3, <2>2 DEF RedisFlush, Evict, Fault
  <2>3. ASSUME NEW t \in Stage, NEW st \in {"delayed", "waiting"}, Enqueue(job, t, st)
        PROVE  \/ Ticket(s)' <= Ticket(s) /\ used'.faults >= used.faults
               \/ used'.faults = used.faults + 1
    BY <1>3, <2>3, EnqueueTicket DEF Ticket
  <2>4. sweep.stage \in Stage /\ 0 \in Stage
    BY StageAssumption DEF TypeOK, Stage
  <2>5. QED
    BY <2>1, <2>2, <2>3, <2>4 DEF SweepEnqueues, ReconcileEnqueues, EnqueueFirstStage
<1>5. QED
  BY <1>1, <1>2, <1>4, TicketQuiet DEF TicketInv

LEMMA TicketOthers ==
  ASSUME TypeOK, TypeOK', TicketInv, NEW s \in Stage,
         \/ FireRead \/ FireUpsert \/ FireEnqueue \/ WindowPasses \/ TimerElapses
         \/ AcknowledgeNotification \/ ResolveNotification \/ RetryNotificationDelivery
         \/ \E paused \in BOOLEAN : PauseEscalation(paused)
         \/ \E d \in Dispatchers :
              \/ DispatchStarts(d) \/ MarkNotificationSent(d) \/ ScheduleEscalation(d)
              \/ DispatchAborts(d)
         \/ ReconcileFinds \/ ReconcileArms \/ ReconcileClears
         \/ SweepFinds \/ SweepFinalizes
         \/ UNCHANGED vars
  PROVE  (Load(s) <= 1 + used.faults)'
<1>1. UNCHANGED << eval, contacts, job >>
  BY DEF FireRead, FireUpsert, FireEnqueue, WindowPasses, TimerElapses,
         AcknowledgeNotification, ResolveNotification, RetryNotificationDelivery,
         PauseEscalation, DispatchStarts, MarkNotificationSent, ScheduleEscalation,
         DispatchAborts, ReconcileFinds, ReconcileArms, ReconcileClears,
         SweepFinds, SweepFinalizes, vars
<1>2. used \in [events : Nat, faults : Nat]
  BY DEF TypeOK
<1>3. used'.faults >= used.faults
  <2>1. CASE UNCHANGED used
    BY <1>2, <2>1
  <2>2. CASE used' = [used EXCEPT !.events = @ + 1] \/ used' = [used EXCEPT !.faults = @ + 1]
    BY <1>2, <2>2
  <2>3. QED
    BY <2>1, <2>2
    DEF FireRead, FireUpsert, FireEnqueue, WindowPasses, TimerElapses,
        AcknowledgeNotification, ResolveNotification, RetryNotificationDelivery,
        PauseEscalation, DispatchStarts, MarkNotificationSent, ScheduleEscalation,
        DispatchAborts, ReconcileFinds, ReconcileArms, ReconcileClears,
        SweepFinds, SweepFinalizes, Request, Fault, vars
<1>4. Dialling(s)' = Dialling(s) /\ Ticket(s)' = Ticket(s) /\ Ticket(s) \in 0..1
  BY <1>1 DEF Dialling, Ticket
<1>5. QED
  BY <1>1, <1>3, <1>4, TicketQuiet DEF TicketInv

-----------------------------------------------------------------------------
(* A worker takes the job: the ticket leaves the queue with it.            *)
LEMMA TicketStarts ==
  ASSUME TypeOK, TypeOK', TicketInv, NEW s \in Stage,
         NEW w \in Workers, NEW t \in Stage, EvaluateStarts(w, t)
  PROVE  (Load(s) <= 1 + used.faults)'
<1>1. eval \in [Workers -> Evaluation] /\ job \in [Stage -> Job]
  BY DEF TypeOK
<1>2. UNCHANGED << contacts, used >> /\ used.faults \in Nat /\ contacts[s] \in Nat
  BY DEF EvaluateStarts, TypeOK
<1>3. \A v \in Workers : v # w => eval'[v] = eval[v]
  BY <1>1 DEF EvaluateStarts
<1>4. eval'[w].stage = t
  BY <1>1 DEF EvaluateStarts
<1>5. CASE s = t
  <2>1. Ticket(s) = 1 /\ Ticket(s)' = 0
    BY <1>1, <1>5 DEF EvaluateStarts, Ticket
  <2>2. Dialling(s)' \subseteq Dialling(s) \cup {w}
    BY <1>3 DEF Dialling
  <2>3. Cardinality(Dialling(s)') <= Cardinality(Dialling(s)) + 1
    <3>1. IsFiniteSet(Dialling(s) \cup {w})
          /\ Cardinality(Dialling(s) \cup {w}) <= Cardinality(Dialling(s)) + 1
      <4>1. /\ IsFiniteSet(Dialling(s) \cup {w})
            /\ Cardinality(Dialling(s) \cup {w}) =
                 IF w \in Dialling(s) THEN Cardinality(Dialling(s)) ELSE Cardinality(Dialling(s)) + 1
        BY DiallingFinite, FS_AddElement
      <4>2. QED
        BY <4>1, DiallingFinite
    <3>2. Cardinality(Dialling(s)') <= Cardinality(Dialling(s) \cup {w})
      BY <2>2, <3>1, FS_Subset
    <3>3. Cardinality(Dialling(s) \cup {w}) \in Nat
      BY <3>1, FS_CardinalityType
    <3>4. QED
      BY <3>1, <3>2, <3>3, DiallingFinite
  <2>4. QED
    BY <1>2, <2>1, <2>3, DiallingFinite DEF Load, TicketInv
<1>6. CASE s # t
  <2>1. Dialling(s)' \subseteq Dialling(s)
    BY <1>3, <1>4, <1>6 DEF Dialling
  <2>2. Ticket(s)' = Ticket(s) /\ Ticket(s) \in 0..1
    BY <1>1, <1>6 DEF EvaluateStarts, Ticket
  <2>3. QED
    BY <1>2, <2>1, <2>2, TicketQuiet DEF TicketInv
<1>7. QED
  BY <1>5, <1>6

(* A send spends the worker's ticket on a contact, or gives it up.         *)
LEMMA TicketSend ==
  ASSUME TypeOK, TypeOK', TicketInv, NEW s \in Stage, NEW w \in Workers, Send(w)
  PROVE  (Load(s) <= 1 + used.faults)'
<1>1. eval \in [Workers -> Evaluation] /\ contacts \in [Stage -> Nat]
  BY DEF TypeOK
<1>2. UNCHANGED << job, used >> /\ used.faults \in Nat
  BY DEF Send, TypeOK
<1>3. \A v \in Workers : v # w => eval'[v] = eval[v]
  BY <1>1 DEF Send
<1>4. eval'[w].pc = "record" /\ eval[w].pc = "send"
  BY <1>1 DEF Send
<1>5. Ticket(s)' = Ticket(s) /\ Ticket(s) \in 0..1
  BY <1>2 DEF Ticket
<1>6. CASE s = eval[w].stage
  <2>1. Dialling(s)' \subseteq Dialling(s) \ {w} /\ w \in Dialling(s)
    BY <1>3, <1>4, <1>6 DEF Dialling
  <2>2. Cardinality(Dialling(s)') <= Cardinality(Dialling(s)) - 1
    <3>1. IsFiniteSet(Dialling(s) \ {w})
          /\ Cardinality(Dialling(s) \ {w}) = Cardinality(Dialling(s)) - 1
      BY <2>1, DiallingFinite, FS_RemoveElement
    <3>2. QED
      BY <2>1, <3>1, FS_Subset
  <2>3. contacts'[s] \in Nat /\ contacts'[s] <= contacts[s] + 1
    BY <1>1 DEF Send
  <2>4. QED
    BY <1>1, <1>2, <1>5, <2>2, <2>3, DiallingFinite DEF Load, TicketInv
<1>7. CASE s # eval[w].stage
  <2>1. Dialling(s)' \subseteq Dialling(s)
    BY <1>3, <1>4 DEF Dialling
  <2>2. contacts'[s] = contacts[s]
    BY <1>1, <1>7 DEF Send
  <2>3. QED
    BY <1>2, <1>5, <2>1, <2>2, TicketQuiet DEF TicketInv
<1>8. QED
  BY <1>6, <1>7

(* The other steps of a worker: none takes it to a channel it was not on   *)
(* its way to.                                                             *)
LEMMA TicketEvaluate ==
  ASSUME TypeOK, TypeOK', TicketInv, NEW s \in Stage, NEW w \in Workers,
         \/ Gate(w) \/ Record(w) \/ AdvanceStage(w) \/ EnqueueNextStage(w)
         \/ FinalizeEscalation(w) \/ EvaluateAborts(w)
  PROVE  (Load(s) <= 1 + used.faults)'
<1>1. eval \in [Workers -> Evaluation] /\ job \in [Stage -> Job]
      /\ used \in [events : Nat, faults : Nat]
  BY DEF TypeOK
<1>2. UNCHANGED contacts
  BY DEF Gate, Record, AdvanceStage, EnqueueNextStage, FinalizeEscalation, EvaluateAborts
<1>3. \A v \in Workers : v # w => eval'[v] = eval[v]
  BY <1>1 DEF Gate, Record, AdvanceStage, EnqueueNextStage, FinalizeEscalation,
              EvaluateAborts, Goto, Release
<1>4. eval'[w].pc \in {"gate", "send"} =>
        eval'[w].stage = eval[w].stage /\ eval[w].pc \in {"gate", "send"}
  <2>1. eval[w] \in Evaluation
    BY <1>1
  <2>2. CASE Gate(w)
    BY <1>1, <2>1, <2>2 DEF Gate, Goto, Evaluation
  <2>3. CASE Record(w) \/ AdvanceStage(w)
    BY <1>1, <2>1, <2>3 DEF Record, AdvanceStage, Goto, Evaluation
  <2>4. CASE EnqueueNextStage(w) \/ FinalizeEscalation(w) \/ EvaluateAborts(w)
    <3>1. eval'[w] = Idle
      BY <1>1, <2>4 DEF EnqueueNextStage, FinalizeEscalation, EvaluateAborts, Release
    <3>2. QED
      BY <3>1 DEF Idle
  <2>5. QED
    BY <2>2, <2>3, <2>4
<1>5. Dialling(s)' \subseteq Dialling(s)
  BY <1>3, <1>4 DEF Dialling
<1>6. \/ Ticket(s)' <= Ticket(s) /\ used'.faults >= used.faults
      \/ used'.faults = used.faults + 1
  <2>1. CASE Gate(w) \/ Record(w) \/ AdvanceStage(w)
    BY <1>1, <2>1 DEF Gate, Record, AdvanceStage, Ticket
  <2>2. CASE EnqueueNextStage(w)
    <3>1. eval[w].stage + 1 \in Stage
      <4>1. HasStage(eval[w].plan, eval[w].stage + 1)
        BY <2>2 DEF EnqueueNextStage, TypeOK
      <4>2. eval[w].plan \in Ladders \cup {NoPlan} /\ eval[w].stage \in Stage
        BY <1>1 DEF Evaluation
      <4>3. eval[w].stage \in Nat /\ eval[w].stage + 1 \in Int
        BY <4>2, StageAssumption DEF Stage
      <4>4. eval[w].stage + 1 <= MaxStage
        BY <4>1, <4>2, <4>3, LadderStage
      <4>5. QED
        BY <4>3, <4>4, StageAssumption DEF Stage
    <3>2. Enqueue(Finished(w), eval[w].stage + 1, "delayed") /\ Finished(w) \in [Stage -> Job]
      BY <2>2, FinishedType DEF EnqueueNextStage
    <3>3. QED
      BY <3>1, <3>2, FinishedTicket, EnqueueTicket
  <2>3. CASE FinalizeEscalation(w)
    <3>1. job' = Finished(w) /\ UNCHANGED used
      BY <2>3 DEF FinalizeEscalation
    <3>2. Ticket(s)' = 1 => Ticket(s) = 1
      BY <3>1, FinishedTicket DEF Ticket
    <3>3. QED
      BY <1>1, <3>1, <3>2 DEF Ticket
  <2>4. CASE EvaluateAborts(w)
    BY <1>1, <2>4 DEF EvaluateAborts, Fault
  <2>5. QED
    BY <2>1, <2>2, <2>3, <2>4
<1>7. QED
  BY <1>2, <1>5, <1>6, TicketQuiet DEF TicketInv

LEMMA TicketStep == TypeOK /\ TypeOK' /\ TicketInv /\ [Next]_vars => TicketInv'
<1> SUFFICES ASSUME TypeOK, TypeOK', TicketInv, [Next]_vars, NEW s \in Stage
             PROVE  (Load(s) <= 1 + used.faults)'
  BY DEF TicketInv
<1>1. CASE UNCHANGED vars
  BY <1>1, TicketOthers
<1>2. CASE Next
  BY <1>2, TicketQueue, TicketOthers, TicketStarts, TicketSend, TicketEvaluate
  DEF Next, Evaluate, Dispatch
<1>3. QED
  BY <1>1, <1>2

(* A stage's channel is used at most once, and once more for each fault:   *)
(* retries, re-fires, sweeps and reconciles add nothing.                   *)
THEOREM ContactsCounted == Spec => []ContactsBounded
<1>1. ASSUME TypeOK, TicketInv PROVE ContactsBounded
  <2> SUFFICES ASSUME NEW s \in Stage PROVE contacts[s] <= 1 + used.faults
    BY DEF ContactsBounded
  <2>1. Ticket(s) \in 0..1 /\ contacts[s] \in Nat /\ used.faults \in Nat
    BY <1>1 DEF Ticket, TypeOK
  <2>2. QED
    BY <1>1, <2>1, DiallingFinite DEF TicketInv, Load
<1>2. QED
  BY <1>1, TicketInit, TicketStep, TypeCorrect, PTL DEF Spec
=============================================================================
