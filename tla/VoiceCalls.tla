------------------------------ MODULE VoiceCalls ------------------------------
(***************************************************************************)
(* The calls one user receives: the VOICE stages of the user's             *)
(* notifications, evaluated side by side by the escalation workers, the    *)
(* gate each passes before dialling, and the daily counter they share.     *)
(*                                                                         *)
(* The evaluation reads the settings with the notification row, checks the *)
(* gate on what it read, writes the spoken script, dials, records the      *)
(* attempt and then counts the call; each of these is awaited, and time,   *)
(* the settings and the other evaluations move on in between.  Escalation  *)
(* models how a ladder gets to its VOICE stage and what follows it.        *)
(***************************************************************************)
EXTENDS DecisionEngine, FiniteSets

CONSTANTS
  Notifications,  \* the notifications of the user
  Slots,          \* evaluations that run at once
  Emails,         \* the analysed emails behind the notifications
  Settings,       \* the settings the user moves between
  MaxCap,         \* the greatest daily maximum a user can choose
  HoursPerDay,    \* length of a day
  Offset,         \* the user's time zone, in hours ahead of UTC
  FirstHour,      \* the hour the model begins in
  LastHour,       \* bound on the time
  Faults,         \* the kinds of fault that happen
  MaxFaults       \* bound on the faults

NoCount == -1

ASSUME CallsAssumption ==
  /\ IsFiniteSet(Notifications)
  /\ Slots \in Nat \ {0}
  /\ HoursPerDay \in Nat \ {0}
  /\ Offset \in Nat
  /\ LastHour \in Nat
  /\ FirstHour \in 0..LastHour
  /\ MaxFaults \in Nat
  /\ Faults \subseteq {"flush", "crash", "lost", "incr", "get", "count"}
  /\ MaxCap \in Nat \ {0}
  /\ \A s \in Settings : s.voiceMaxCallsPerDay \in 0..MaxCap

VARIABLES
  now,       \* hours since a midnight, UTC
  settings,  \* the UserSettings row
  call,      \* the VOICE stage of each notification
  counter,   \* Redis: voice:calls:<user>:<day>
  sent,      \* the SENT voice attempts, in the order they were recorded: the hour of each
  placed,    \* calls the provider placed, by day
  faults,    \* how many flushes and other faults have happened
  late       \* evaluations that settings changed under, or time once past the gate

vars == << now, settings, call, counter, sent, placed, faults, late >>

Hours  == 0..LastHour
Days   == 0..(LastHour \div HoursPerDay)
Day(t) == t \div HoursPerDay
Hour(t) == (t + Offset) % HoursPerDay

NoPlan == [voiceEligible |-> FALSE, voiceEventKey |-> "NONE"]
NoCall == [pc |-> "none", plan |-> NoPlan, seen |-> CHOOSE s \in Settings : TRUE]
Ended  == [NoCall EXCEPT !.pc = "done"]

Running == { n \in Notifications :
               call[n].pc \in {"gate", "redis", "database", "dial", "record", "count"} }

(* The evaluations that have passed the gate and may still dial.           *)
Cleared == { n \in Notifications : call[n].pc \in {"redis", "database", "dial"} }

Fault(kind) ==
  /\ kind \in Faults
  /\ faults.hidden + faults.flushes < MaxFaults
  /\ faults' = IF kind = "flush" THEN [faults EXCEPT !.flushes = @ + 1]
                                 ELSE [faults EXCEPT !.hidden = @ + 1]

Goto(n, pc) == call' = [call EXCEPT ![n].pc = pc]

-----------------------------------------------------------------------------
(* The gate.                                                               *)

WithinQuietHours(t, s) ==
  LET start == s.voiceQuietHoursStart
      end   == s.voiceQuietHoursEnd
      hour  == Hour(t)
  IN  CASE start = end -> FALSE
        [] start < end -> start <= hour /\ hour < end
        [] OTHER       -> start <= hour \/ hour < end

(* checkVoiceGate up to the counter: consent, the event, the quiet hours.  *)
Permitted(plan, s) ==
  /\ s.voiceEnabled
  /\ plan.voiceEligible
  /\ plan.voiceEventKey # "NONE" => plan.voiceEventKey \in s.voiceCriticalEvents
  /\ ~WithinQuietHours(now, s)

(* The stage is reached; the plan was decided when the notification fired, *)
(* under the settings of that time.                                        *)
Reach(n) ==
  /\ call[n].pc = "none"
  /\ \E e \in Emails :
       LET d == Decide(e, settings)
       IN  /\ d.enabled
           /\ "VOICE" \in d.stages
           /\ call' = [call EXCEPT ![n].pc = "waiting",
                         ![n].plan = [voiceEligible |-> d.voiceEligible,
                                      voiceEventKey |-> d.voiceEventKey]]
  /\ UNCHANGED << now, settings, counter, sent, placed, faults, late >>

(* evaluateEscalation reads the row and the user's settings with it.       *)
Start(n) ==
  /\ call[n].pc = "waiting"
  /\ Cardinality(Running) < Slots
  /\ call' = [call EXCEPT ![n].pc = "gate", ![n].seen = settings]
  /\ UNCHANGED << now, settings, counter, sent, placed, faults, late >>

Suppressed(n) == call' = [call EXCEPT ![n] = Ended]

(* Faulty variant: the plan's permission, given when it fired, is enough.  *)
GateByPlan(n) ==
  /\ call[n].pc = "gate"
  /\ IF call[n].plan.voiceEligible THEN Goto(n, "redis") ELSE Suppressed(n)
  /\ UNCHANGED << now, settings, counter, sent, placed, faults, late >>

Gate(n) ==
  /\ call[n].pc = "gate"
  /\ IF Permitted(call[n].plan, call[n].seen) THEN Goto(n, "redis") ELSE Suppressed(n)
  /\ UNCHANGED << now, settings, counter, sent, placed, faults, late >>

Allow(n, used) ==
  IF used < call[n].seen.voiceMaxCallsPerDay THEN Goto(n, "dial") ELSE Suppressed(n)

(* Faulty variant: a missing counter reads as no calls at all.             *)
ReadCounterOnly(n) ==
  /\ call[n].pc = "redis"
  /\ Allow(n, IF counter[Day(now)] = NoCount THEN 0 ELSE counter[Day(now)])
  /\ UNCHANGED << now, settings, counter, sent, placed, faults, late >>

(* getVoiceCallsToday: the counter of the day, or the database without it. *)
ReadCounter(n) ==
  /\ call[n].pc = "redis"
  /\ IF counter[Day(now)] # NoCount
     THEN \/ Allow(n, counter[Day(now)]) /\ UNCHANGED faults
          \/ Goto(n, "database") /\ Fault("get")
     ELSE Goto(n, "database") /\ UNCHANGED faults
  /\ UNCHANGED << now, settings, counter, sent, placed, late >>

SentSince(t) == Cardinality({ i \in DOMAIN sent : sent[i] >= t })

(* The attempts of the last 24 hours; none when the database fails too.    *)
CountAttempts(n) ==
  /\ call[n].pc = "database"
  /\ \/ /\ Allow(n, SentSince(now - HoursPerDay))
        /\ UNCHANGED faults
     \/ Allow(n, 0) /\ Fault("count")
  /\ UNCHANGED << now, settings, counter, sent, placed, late >>

-----------------------------------------------------------------------------
(* The call.                                                               *)

(* The provider places the call and says so, or it does not; or it places  *)
(* the call and the answer is lost, which reads as a failed delivery.      *)
Dial(n) ==
  /\ call[n].pc = "dial"
  /\ \/ /\ placed' = [placed EXCEPT ![Day(now)] = @ + 1]
        /\ Goto(n, "record")
        /\ UNCHANGED faults
     \/ /\ placed' = [placed EXCEPT ![Day(now)] = @ + 1]
        /\ Suppressed(n)
        /\ Fault("lost")
     \/ /\ Suppressed(n)
        /\ UNCHANGED << placed, faults >>
  /\ UNCHANGED << now, settings, counter, sent, late >>

RecordAttempt(n) ==
  /\ call[n].pc = "record"
  /\ sent' = Append(sent, now)
  /\ Goto(n, "count")
  /\ UNCHANGED << now, settings, counter, placed, faults, late >>

Incremented(c) == IF c = NoCount THEN 1 ELSE c + 1

(* incrementVoiceUsage, under the key of the day it runs on.               *)
IncrementVoiceUsage(n) ==
  /\ call[n].pc = "count"
  /\ \/ /\ counter' = [counter EXCEPT ![Day(now)] = Incremented(@)]
        /\ UNCHANGED faults
     \/ UNCHANGED counter /\ Fault("incr")
  /\ call' = [call EXCEPT ![n] = Ended]
  /\ UNCHANGED << now, settings, sent, placed, late >>

(* The worker dies: the queue runs the evaluation again from the start.    *)
Crash(n) ==
  /\ n \in Running
  /\ Fault("crash")
  /\ call' = [call EXCEPT ![n].pc = "waiting", ![n].seen = NoCall.seen]
  /\ late' = late \ {n}
  /\ UNCHANGED << now, settings, counter, sent, placed >>

-----------------------------------------------------------------------------
(* The user, the clock and Redis.                                          *)

ChangeSettings ==
  /\ \E s \in Settings \ {settings} : settings' = s
  /\ late' = Running
  /\ UNCHANGED << now, call, counter, sent, placed, faults >>

Tick ==
  /\ now < LastHour
  /\ now' = now + 1
  /\ late' = late \cup Cleared
  /\ UNCHANGED << settings, call, counter, sent, placed, faults >>

Flush ==
  /\ Fault("flush")
  /\ counter' = [d \in Days |-> NoCount]
  /\ UNCHANGED << now, settings, call, sent, placed, late >>

Init ==
  /\ now = FirstHour
  /\ settings \in Settings
  /\ call = [n \in Notifications |-> NoCall]
  /\ counter = [d \in Days |-> NoCount]
  /\ sent = << >>
  /\ placed = [d \in Days |-> 0]
  /\ faults = [hidden |-> 0, flushes |-> 0]
  /\ late = {}

Next ==
  \/ \E n \in Notifications :
       \/ Reach(n) \/ Start(n) \/ Gate(n) \/ ReadCounter(n) \/ CountAttempts(n)
       \/ Dial(n) \/ RecordAttempt(n) \/ IncrementVoiceUsage(n) \/ Crash(n)
  \/ ChangeSettings \/ Tick \/ Flush

Spec == Init /\ [][Next]_vars

-----------------------------------------------------------------------------
(* Correctness.                                                            *)

TypeOK ==
  /\ now \in 0..LastHour
  /\ settings \in Settings
  /\ call \in [Notifications ->
                [pc   : {"none", "waiting", "gate", "redis", "database", "dial", "record",
                         "count", "done"},
                 plan : [voiceEligible : BOOLEAN, voiceEventKey : VoiceEvents \cup {"NONE"}],
                 seen : Settings]]
  /\ counter \in [Days -> Nat \cup {NoCount}]
  /\ sent \in Seq(Hours)
  /\ placed \in [Days -> Nat]
  /\ faults \in [hidden : 0..MaxFaults, flushes : 0..MaxFaults]
  /\ late \subseteq Notifications

(* The daily maximum is exceeded by no more than the evaluations that may  *)
(* be between the check and the count - the two are not atomic - and by    *)
(* one call for each fault that hides a call from the check.  A flush does *)
(* not give a new maximum: without the counter the recorded attempts are   *)
(* counted.  But the first call counted after it sets the counter to one,  *)
(* and the counter, found again, hides the calls before that one: a flush  *)
(* can add a maximum less that call, and the other evaluations under way.  *)
DailyMaximum ==
  \A d \in Days :
    placed[d] <= (MaxCap + Slots - 1) + faults.flushes * (MaxCap + Slots - 2) + faults.hidden

(* An evaluation that may still dial has the user's permission as it       *)
(* stands now - calls switched on, the event on the list, outside quiet    *)
(* hours - unless the settings changed after it began or the hour after it *)
(* passed the gate.  The plan, decided when the notification fired, is not *)
(* enough.                                                                 *)
PermissionIsCurrent ==
  \A n \in Cleared : n \in late \/ Permitted(call[n].plan, settings)
=============================================================================
