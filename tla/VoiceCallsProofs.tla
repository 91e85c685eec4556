--------------------------- MODULE VoiceCallsProofs ---------------------------
(***************************************************************************)
(* What holds of a user's calls for every set of notifications, any number *)
(* of slots, any settings, time zone and length of a day, and any number   *)
(* of faults: the types, whose permission a call has, and by how much the  *)
(* daily maximum can be exceeded.  At the end, the properties of the       *)
(* decisions that permit a call, for any emails and settings.              *)
(***************************************************************************)
EXTENDS VoiceCalls, DecisionChanges, FiniteSetTheorems, TLAPS

Plan  == [voiceEligible : BOOLEAN, voiceEventKey : VoiceEvents \cup {"NONE"}]
Phase == {"none", "waiting", "gate", "redis", "database", "dial", "record", "count", "done"}
Call  == [pc : Phase, plan : Plan, seen : Settings]

-----------------------------------------------------------------------------
(* Time.                                                                   *)

(* A day is a number of the days modelled, and later hours fall on the     *)
(* same day or a later one.                                                *)
LEMMA DaysPass ==
  ASSUME NEW t \in Hours
  PROVE  /\ Day(t) \in Days
         /\ \A u \in Hours : u <= t => Day(u) <= Day(t)
<1>1. HoursPerDay \in Nat /\ HoursPerDay > 0 /\ LastHour \in Nat
  BY CallsAssumption
<1>2. ASSUME NEW a \in Nat, NEW b \in Nat, a <= b PROVE a \div HoursPerDay <= b \div HoursPerDay
  BY <1>1, <1>2
<1>3. ASSUME NEW a \in Nat PROVE a \div HoursPerDay \in Nat
  BY <1>1, <1>3
<1> QED
  BY <1>1, <1>2, <1>3 DEF Day, Days, Hours

(* What happened today happened in the last 24 hours.                      *)
LEMMA TodayIsRecent ==
  ASSUME NEW t \in Hours, NEW u \in Hours, Day(u) = Day(t)
  PROVE  u >= t - HoursPerDay
<1>1. HoursPerDay \in Nat /\ HoursPerDay > 0
  BY CallsAssumption
<1>2. ASSUME NEW a \in Nat, NEW b \in Nat, a \div HoursPerDay = b \div HoursPerDay
      PROVE  a >= b - HoursPerDay
  BY <1>1, <1>2
<1> QED
  BY <1>1, <1>2 DEF Day, Hours

-----------------------------------------------------------------------------
(* Type correctness.                                                       *)

LEMMA TypeParts ==
  TypeOK <=> /\ now \in Hours
             /\ settings \in Settings
             /\ call \in [Notifications -> Call]
             /\ counter \in [Days -> Nat \cup {NoCount}]
             /\ sent \in Seq(Hours)
             /\ placed \in [Days -> Nat]
             /\ faults \in [hidden : 0..MaxFaults, flushes : 0..MaxFaults]
             /\ late \subseteq Notifications
BY DEF TypeOK, Hours, Call, Phase, Plan

(* A user has settings, so the idle call has some too.                     *)
LEMMA IdleCalls ==
  ASSUME settings \in Settings
  PROVE  /\ NoCall \in Call /\ NoCall.pc = "none"
         /\ Ended \in Call /\ Ended.pc = "done"
<1>1. (CHOOSE s \in Settings : TRUE) \in Settings
  OBVIOUS
<1>2. NoPlan \in Plan
  BY DEF NoPlan, Plan
<1>3. NoCall \in Call /\ NoCall.pc = "none"
  BY <1>1, <1>2 DEF NoCall, Call, Phase
<1> QED
  BY <1>3 DEF Ended, Call, Phase

LEMMA TypeInit == Init => TypeOK
<1> SUFFICES ASSUME Init PROVE TypeOK
  OBVIOUS
<1>1. LastHour \in Nat /\ FirstHour \in 0..LastHour /\ MaxFaults \in Nat
  BY CallsAssumption
<1>2. call \in [Notifications -> Call]
  BY IdleCalls DEF Init
<1>3. counter \in [Days -> Nat \cup {NoCount}] /\ placed \in [Days -> Nat] /\ sent \in Seq(Hours)
  BY DEF Init
<1>4. faults \in [hidden : 0..MaxFaults, flushes : 0..MaxFaults]
  BY <1>1 DEF Init
<1>5. now \in Hours /\ settings \in Settings /\ late \subseteq Notifications
  BY <1>1 DEF Init, Hours
<1> QED
  BY <1>2, <1>3, <1>4, <1>5, TypeParts

(* What a fault adds to the faults that have happened.                     *)
LEMMA FaultCounts ==
  ASSUME TypeOK, NEW kind, Fault(kind)
  PROVE  /\ faults' \in [hidden : 0..MaxFaults, flushes : 0..MaxFaults]
         /\ kind = "flush" => faults'.flushes = faults.flushes + 1 /\ faults'.hidden = faults.hidden
         /\ kind # "flush" => faults'.flushes = faults.flushes /\ faults'.hidden = faults.hidden + 1
<1>1. MaxFaults \in Nat
  BY CallsAssumption
<1>2. faults.hidden \in 0..MaxFaults /\ faults.flushes \in 0..MaxFaults
  BY DEF TypeOK
<1>3. faults.hidden + faults.flushes < MaxFaults
  BY DEF Fault
<1>4. CASE kind = "flush"
  <2>1. faults' = [faults EXCEPT !.flushes = faults.flushes + 1]
    BY <1>4 DEF Fault
  <2> QED BY <1>1, <1>2, <1>3, <1>4, <2>1 DEF TypeOK
<1>5. CASE kind # "flush"
  <2>1. faults' = [faults EXCEPT !.hidden = faults.hidden + 1]
    BY <1>5 DEF Fault
  <2> QED BY <1>1, <1>2, <1>3, <1>5, <2>1 DEF TypeOK
<1> QED BY <1>4, <1>5

(* A plan is a plan whatever email and settings it was decided from.       *)
LEMMA PlansTyped ==
  ASSUME NEW e, NEW s
  PROVE  [voiceEligible |-> VoiceEligible(e, s), voiceEventKey |-> VoiceEventKeyFor(e)] \in Plan
<1>1. VoiceEligible(e, s) \in BOOLEAN
  BY DEF VoiceEligible
<1>2. VoiceEventKeyFor(e) \in VoiceEvents \cup {"NONE"}
  BY DEF VoiceEventKeyFor, VoiceEvents
<1> QED BY <1>1, <1>2 DEF Plan

(* One evaluation goes on; the others stay where they are.                 *)
Moves(n, pc) ==
  /\ call' \in [Notifications -> Call]
  /\ call'[n].pc = pc
  /\ \A m \in Notifications \ {n} : call'[m] = call[m]

LEMMA GotoMoves ==
  ASSUME TypeOK, NEW n \in Notifications, NEW pc \in Phase, Goto(n, pc)
  PROVE  Moves(n, pc) /\ call'[n].plan = call[n].plan /\ call'[n].seen = call[n].seen
<1>1. call \in [Notifications -> Call]
  BY TypeParts
<1>2. call' = [call EXCEPT ![n] = [call[n] EXCEPT !.pc = pc]]
  BY <1>1 DEF Goto
<1>3. [call[n] EXCEPT !.pc = pc] \in Call
  BY <1>1 DEF Call
<1> QED
  BY <1>1, <1>2, <1>3 DEF Moves, Call

LEMMA SuppressedMoves ==
  ASSUME TypeOK, NEW n \in Notifications, Suppressed(n)
  PROVE  Moves(n, "done")
<1>1. call \in [Notifications -> Call] /\ settings \in Settings
  BY TypeParts
<1>2. Ended \in Call /\ Ended.pc = "done"
  BY <1>1, IdleCalls
<1> QED
  BY <1>1, <1>2 DEF Suppressed, Moves

LEMMA ReachMoves ==
  ASSUME TypeOK, NEW n \in Notifications, Reach(n)
  PROVE  Moves(n, "waiting")
<1>1. call \in [Notifications -> Call]
  BY TypeParts
<1>2. PICK e \in Emails :
        LET d == Decide(e, settings)
        IN  call' = [call EXCEPT ![n].pc = "waiting",
                       ![n].plan = [voiceEligible |-> d.voiceEligible,
                                    voiceEventKey |-> d.voiceEventKey]]
  BY DEF Reach
<1>3. PICK p \in Plan : p = [voiceEligible |-> VoiceEligible(e, settings),
                            voiceEventKey |-> VoiceEventKeyFor(e)]
  BY PlansTyped
<1>4. call' = [call EXCEPT ![n].pc = "waiting", ![n].plan = p]
  BY <1>2, <1>3 DEF Decide
<1>5. /\ call'[n].pc = "waiting" /\ call'[n].plan = p /\ call'[n].seen = call[n].seen
      /\ \A m \in Notifications \ {n} : call'[m] = call[m]
  BY <1>1, <1>4 DEF Call
<1>6. call' \in [Notifications -> Call]
  BY <1>1, <1>4 DEF Call, Phase
<1> QED
  BY <1>5, <1>6 DEF Moves

LEMMA StartMoves ==
  ASSUME TypeOK, NEW n \in Notifications, Start(n)
  PROVE  Moves(n, "gate") /\ call'[n].seen = settings
<1>1. call \in [Notifications -> Call] /\ settings \in Settings
  BY TypeParts
<1>2. call' = [call EXCEPT ![n].pc = "gate", ![n].seen = settings]
  BY DEF Start
<1> QED
  BY <1>1, <1>2 DEF Moves, Call, Phase

LEMMA CrashMoves ==
  ASSUME TypeOK, NEW n \in Notifications, Crash(n)
  PROVE  Moves(n, "waiting")
<1>1. call \in [Notifications -> Call] /\ settings \in Settings
  BY TypeParts
<1>2. PICK s \in Settings : s = NoCall.seen
  BY <1>1, IdleCalls DEF Call
<1>3. call' = [call EXCEPT ![n].pc = "waiting", ![n].seen = s]
  BY <1>2 DEF Crash
<1> QED
  BY <1>1, <1>3 DEF Moves, Call, Phase

LEMMA AllowMoves ==
  ASSUME TypeOK, NEW n \in Notifications, NEW used, Allow(n, used)
  PROVE  \/ used < call[n].seen.voiceMaxCallsPerDay /\ Goto(n, "dial") /\ Moves(n, "dial")
         \/ Suppressed(n) /\ Moves(n, "done")
<1>1. "dial" \in Phase
  BY DEF Phase
<1>2. CASE used < call[n].seen.voiceMaxCallsPerDay
  BY <1>1, <1>2, GotoMoves DEF Allow
<1>3. CASE ~(used < call[n].seen.voiceMaxCallsPerDay)
  BY <1>3, SuppressedMoves DEF Allow
<1> QED BY <1>2, <1>3

LEMMA TypeKeeps ==
  ASSUME TypeOK, UNCHANGED << now, settings, counter, sent, placed >>,
         call' \in [Notifications -> Call], late' \subseteq Notifications,
         faults' \in [hidden : 0..MaxFaults, flushes : 0..MaxFaults]
  PROVE  TypeOK'
BY TypeParts DEF TypeOK, Hours, Call, Phase, Plan

LEMMA TypeCalls ==
  ASSUME TypeOK, NEW n \in Notifications,
         Reach(n) \/ Start(n) \/ Gate(n) \/ ReadCounter(n) \/ CountAttempts(n) \/ Crash(n)
  PROVE  TypeOK'
<1>1. faults \in [hidden : 0..MaxFaults, flushes : 0..MaxFaults] /\ late \subseteq Notifications
  BY TypeParts
<1>2. {"redis", "database"} \subseteq Phase
  BY DEF Phase
<1>3. CASE Reach(n)
  <2>1. Moves(n, "waiting") BY <1>3, ReachMoves
  <2> QED BY <1>1, <1>3, <2>1, TypeKeeps DEF Reach, Moves
<1>4. CASE Start(n)
  <2>1. Moves(n, "gate") BY <1>4, StartMoves
  <2> QED BY <1>1, <1>4, <2>1, TypeKeeps DEF Start, Moves
<1>5. CASE Gate(n)
  <2>1. Goto(n, "redis") \/ Suppressed(n) BY <1>5 DEF Gate
  <2>2. Moves(n, "redis") \/ Moves(n, "done") BY <1>2, <2>1, GotoMoves, SuppressedMoves
  <2> QED BY <1>1, <1>5, <2>2, TypeKeeps DEF Gate, Moves
<1>6. CASE ReadCounter(n)
  <2>1. Allow(n, counter[Day(now)]) \/ Goto(n, "database") BY <1>6 DEF ReadCounter
  <2>2. call' \in [Notifications -> Call] BY <1>2, <2>1, AllowMoves, GotoMoves DEF Moves
  <2>3. UNCHANGED faults \/ Fault("get") BY <1>6 DEF ReadCounter
  <2>4. faults' \in [hidden : 0..MaxFaults, flushes : 0..MaxFaults] BY <1>1, <2>3, FaultCounts
  <2> QED BY <1>1, <1>6, <2>2, <2>4, TypeKeeps DEF ReadCounter
<1>7. CASE CountAttempts(n)
  <2>1. Allow(n, SentSince(now - HoursPerDay)) \/ Allow(n, 0) BY <1>7 DEF CountAttempts
  <2>2. call' \in [Notifications -> Call] BY <2>1, AllowMoves DEF Moves
  <2>3. UNCHANGED faults \/ Fault("count") BY <1>7 DEF CountAttempts
  <2>4. faults' \in [hidden : 0..MaxFaults, flushes : 0..MaxFaults] BY <1>1, <2>3, FaultCounts
  <2> QED BY <1>1, <1>7, <2>2, <2>4, TypeKeeps DEF CountAttempts
<1>8. CASE Crash(n)
  <2>1. call' \in [Notifications -> Call] BY <1>8, CrashMoves DEF Moves
  <2>2. faults' \in [hidden : 0..MaxFaults, flushes : 0..MaxFaults] BY <1>8, FaultCounts DEF Crash
  <2>3. late' \subseteq Notifications BY <1>1, <1>8 DEF Crash
  <2> QED BY <1>8, <2>1, <2>2, <2>3, TypeKeeps DEF Crash
<1> QED BY <1>3, <1>4, <1>5, <1>6, <1>7, <1>8

(* What a call leaves behind: at the provider, among the attempts, in Redis. *)
LEMMA DialEffect ==
  ASSUME TypeOK, NEW n \in Notifications, Dial(n)
  PROVE  /\ Moves(n, "record") \/ Moves(n, "done")
         /\ faults' \in [hidden : 0..MaxFaults, flushes : 0..MaxFaults]
         /\ faults'.flushes = faults.flushes
         /\ placed' \in [Days -> Nat]
         /\ \A d \in Days \ {Day(now)} : placed'[d] = placed[d]
         /\ \/ placed'[Day(now)] = placed[Day(now)] /\ Moves(n, "done") /\ faults' = faults
            \/ /\ placed'[Day(now)] = placed[Day(now)] + 1
               /\ \/ Moves(n, "record") /\ faults' = faults
                  \/ Moves(n, "done") /\ faults'.hidden = faults.hidden + 1
<1>1. placed \in [Days -> Nat] /\ Day(now) \in Days
  BY TypeParts, DaysPass
<1>2. faults \in [hidden : 0..MaxFaults, flushes : 0..MaxFaults]
  BY TypeParts
<1>3. "record" \in Phase
  BY DEF Phase
<1>4. CASE /\ placed' = [placed EXCEPT ![Day(now)] = placed[Day(now)] + 1]
           /\ Goto(n, "record") /\ UNCHANGED faults
  <2>1. Moves(n, "record") BY <1>3, <1>4, GotoMoves
  <2> QED BY <1>1, <1>2, <1>4, <2>1
<1>5. CASE /\ placed' = [placed EXCEPT ![Day(now)] = placed[Day(now)] + 1]
           /\ Suppressed(n) /\ Fault("lost")
  <2>1. Moves(n, "done") BY <1>5, SuppressedMoves
  <2> QED BY <1>1, <1>5, <2>1, FaultCounts
<1>6. CASE Suppressed(n) /\ UNCHANGED << placed, faults >>
  <2>1. Moves(n, "done") BY <1>6, SuppressedMoves
  <2> QED BY <1>1, <1>2, <1>6, <2>1
<1> QED BY <1>4, <1>5, <1>6 DEF Dial

LEMMA RecordEffect ==
  ASSUME TypeOK, NEW n \in Notifications, RecordAttempt(n)
  PROVE  Moves(n, "count") /\ sent' = Append(sent, now) /\ sent' \in Seq(Hours)
<1>1. "count" \in Phase
  BY DEF Phase
<1> QED BY <1>1, GotoMoves, TypeParts DEF RecordAttempt

LEMMA IncrementEffect ==
  ASSUME TypeOK, NEW n \in Notifications, IncrementVoiceUsage(n)
  PROVE  /\ Moves(n, "done")
         /\ faults' \in [hidden : 0..MaxFaults, flushes : 0..MaxFaults]
         /\ faults'.flushes = faults.flushes
         /\ counter' \in [Days -> Nat \cup {NoCount}]
         /\ \A d \in Days \ {Day(now)} : counter'[d] = counter[d]
         /\ \/ /\ counter'[Day(now)] = Incremented(counter[Day(now)])
               /\ counter'[Day(now)] \in Nat
               /\ faults' = faults
            \/ counter' = counter /\ faults'.hidden = faults.hidden + 1
<1>1. counter \in [Days -> Nat \cup {NoCount}] /\ Day(now) \in Days
  BY TypeParts, DaysPass
<1>2. Moves(n, "done")
  BY SuppressedMoves DEF IncrementVoiceUsage, Suppressed
<1>3. CASE counter' = [counter EXCEPT ![Day(now)] = Incremented(counter[Day(now)])] /\ UNCHANGED faults
  <2>1. Incremented(counter[Day(now)]) \in Nat
    BY <1>1 DEF Incremented, NoCount
  <2> QED BY <1>1, <1>2, <1>3, <2>1, TypeParts
<1>4. CASE UNCHANGED counter /\ Fault("incr")
  BY <1>1, <1>2, <1>4, FaultCounts
<1> QED BY <1>3, <1>4 DEF IncrementVoiceUsage

LEMMA TypeNext == TypeOK /\ [Next]_vars => TypeOK'
<1> SUFFICES ASSUME TypeOK, [Next]_vars PROVE TypeOK'
  OBVIOUS
<1>1. faults \in [hidden : 0..MaxFaults, flushes : 0..MaxFaults] /\ late \subseteq Notifications
      /\ call \in [Notifications -> Call]
  BY TypeParts
<1>2. ASSUME NEW n \in Notifications,
             Reach(n) \/ Start(n) \/ Gate(n) \/ ReadCounter(n) \/ CountAttempts(n) \/ Crash(n)
      PROVE  TypeOK'
  BY <1>2, TypeCalls
<1>3. ASSUME NEW n \in Notifications, Dial(n) PROVE TypeOK'
  <2>1. call' \in [Notifications -> Call] BY <1>3, DialEffect DEF Moves
  <2> QED BY <1>3, <2>1, DialEffect DEF Dial, TypeOK, Call, Phase, Plan
<1>4. ASSUME NEW n \in Notifications, RecordAttempt(n) PROVE TypeOK'
  <2>1. call' \in [Notifications -> Call] BY <1>4, RecordEffect DEF Moves
  <2> QED BY <1>4, <2>1, RecordEffect DEF RecordAttempt, TypeOK, Call, Phase, Plan
<1>5. ASSUME NEW n \in Notifications, IncrementVoiceUsage(n) PROVE TypeOK'
  <2>1. call' \in [Notifications -> Call] BY <1>5, IncrementEffect DEF Moves
  <2> QED BY <1>5, <2>1, IncrementEffect DEF IncrementVoiceUsage, TypeOK, Call, Phase, Plan
<1>6. CASE ChangeSettings
  <2>1. Running \subseteq Notifications BY DEF Running
  <2> QED BY <1>6, <2>1 DEF ChangeSettings, TypeOK
<1>7. CASE Tick
  <2>1. Cleared \subseteq Notifications BY DEF Cleared
  <2>2. now' \in 0..LastHour BY <1>7, CallsAssumption DEF Tick, TypeOK
  <2> QED BY <1>7, <2>1, <2>2 DEF Tick, TypeOK
<1>8. CASE Flush
  <2>1. faults' \in [hidden : 0..MaxFaults, flushes : 0..MaxFaults] BY <1>8, FaultCounts DEF Flush
  <2> QED BY <1>8, <2>1 DEF Flush, TypeOK
<1>9. CASE UNCHANGED vars
  BY <1>1, <1>9, TypeKeeps DEF vars
<1> QED BY <1>2, <1>3, <1>4, <1>5, <1>6, <1>7, <1>8, <1>9 DEF Next

(* TypeOK holds in every reachable state: every call is at a step of its   *)
(* evaluation with a plan and the settings of some user, the counters      *)
(* count, and no more faults happen than are allowed.                      *)
THEOREM TypeCorrect == Spec => []TypeOK
<1> QED BY TypeInit, TypeNext, PTL DEF Spec

-----------------------------------------------------------------------------
(* Permission.                                                             *)

(* An evaluation that nothing has overtaken acts on the settings in force, *)
(* and past the gate they permit its call.                                 *)
PermissionInv ==
  \A n \in Notifications \ late :
    /\ call[n].pc \in {"gate", "redis", "database", "dial"} => call[n].seen = settings
    /\ n \in Cleared => Permitted(call[n].plan, settings)

LEMMA PermissionInit == Init => PermissionInv
<1> SUFFICES ASSUME Init PROVE PermissionInv
  OBVIOUS
<1>1. \A n \in Notifications : call[n].pc = "none"
  BY IdleCalls DEF Init
<1> QED BY <1>1 DEF PermissionInv, Cleared

(* A step of one evaluation that leaves the clock and the settings alone   *)
(* matters to that evaluation alone.                                       *)
LEMMA PermissionMoves ==
  ASSUME TypeOK, PermissionInv, NEW n \in Notifications, NEW pc, Moves(n, pc),
         UNCHANGED << now, settings >>, late \ {n} \subseteq late',
         n \in late' \/ (/\ pc \in {"gate", "redis", "database", "dial"} => call'[n].seen = settings
                         /\ pc \in {"redis", "database", "dial"} => Permitted(call'[n].plan, settings))
  PROVE  PermissionInv'
<1> SUFFICES ASSUME NEW m \in Notifications \ late'
             PROVE  /\ call'[m].pc \in {"gate", "redis", "database", "dial"} => call'[m].seen = settings
                    /\ call'[m].pc \in {"redis", "database", "dial"} => Permitted(call'[m].plan, settings)
  BY DEF PermissionInv, Cleared, Permitted, WithinQuietHours, Hour
<1>1. CASE m = n
  BY <1>1 DEF Moves
<1>2. CASE m # n
  BY <1>2 DEF Moves, PermissionInv, Cleared
<1> QED BY <1>1, <1>2

LEMMA PermissionNext == TypeOK /\ PermissionInv /\ [Next]_vars => PermissionInv'
<1> SUFFICES ASSUME TypeOK, PermissionInv, [Next]_vars PROVE PermissionInv'
  OBVIOUS
<1>1. ASSUME NEW n \in Notifications, Reach(n) PROVE PermissionInv'
  <2>1. Moves(n, "waiting") BY <1>1, ReachMoves
  <2> QED BY <1>1, <2>1, PermissionMoves DEF Reach
<1>2. ASSUME NEW n \in Notifications, Start(n) PROVE PermissionInv'
  <2>1. Moves(n, "gate") /\ call'[n].seen = settings BY <1>2, StartMoves
  <2>2. UNCHANGED << now, settings, late >> BY <1>2 DEF Start
  <2> QED BY <2>1, <2>2, PermissionMoves
<1>3. ASSUME NEW n \in Notifications, Gate(n) PROVE PermissionInv'
  <2>1. call[n].pc = "gate" /\ UNCHANGED << now, settings, late >>
    BY <1>3 DEF Gate
  <2>2. CASE Permitted(call[n].plan, call[n].seen) /\ Goto(n, "redis")
    <3>1. Moves(n, "redis") /\ call'[n].plan = call[n].plan /\ call'[n].seen = call[n].seen
      BY <2>2, GotoMoves DEF Phase
    <3>2. n \in late \/ call[n].seen = settings
      BY <2>1 DEF PermissionInv
    <3> QED BY <2>1, <2>2, <3>1, <3>2, PermissionMoves
  <2>3. CASE Suppressed(n)
    BY <2>1, <2>3, SuppressedMoves, PermissionMoves
  <2> QED BY <1>3, <2>2, <2>3 DEF Gate
<1>4. ASSUME NEW n \in Notifications, n \in Cleared, UNCHANGED << now, settings, late >>,
             \/ \E pc \in {"database", "dial"} : Goto(n, pc)
             \/ \E pc \in {"done", "record"} : Moves(n, pc)
      PROVE  PermissionInv'
  <2>1. CASE \E pc \in {"database", "dial"} : Goto(n, pc)
    <3>1. PICK pc \in {"database", "dial"} : Goto(n, pc) BY <2>1
    <3>2. Moves(n, pc) /\ call'[n].plan = call[n].plan /\ call'[n].seen = call[n].seen
      BY <3>1, GotoMoves DEF Phase
    <3>3. n \in late \/ (call[n].seen = settings /\ Permitted(call[n].plan, settings))
      BY <1>4 DEF PermissionInv, Cleared
    <3> QED BY <1>4, <3>2, <3>3, PermissionMoves
  <2>2. CASE \E pc \in {"done", "record"} : Moves(n, pc)
    BY <1>4, <2>2, PermissionMoves
  <2> QED BY <1>4, <2>1, <2>2
<1>5. ASSUME NEW n \in Notifications, ReadCounter(n) PROVE PermissionInv'
  <2>1. Allow(n, counter[Day(now)]) \/ Goto(n, "database") BY <1>5 DEF ReadCounter
  <2>2. Goto(n, "dial") \/ Goto(n, "database") \/ Moves(n, "done") BY <2>1, AllowMoves
  <2> QED BY <1>4, <1>5, <2>2 DEF ReadCounter, Cleared
<1>6. ASSUME NEW n \in Notifications, CountAttempts(n) PROVE PermissionInv'
  <2>1. Allow(n, SentSince(now - HoursPerDay)) \/ Allow(n, 0) BY <1>6 DEF CountAttempts
  <2>2. Goto(n, "dial") \/ Moves(n, "done") BY <2>1, AllowMoves
  <2> QED BY <1>4, <1>6, <2>2 DEF CountAttempts, Cleared
<1>7. ASSUME NEW n \in Notifications, Dial(n) PROVE PermissionInv'
  BY <1>4, <1>7, DialEffect DEF Dial, Cleared
<1>8. ASSUME NEW n \in Notifications, RecordAttempt(n) PROVE PermissionInv'
  <2>1. Moves(n, "count") BY <1>8, RecordEffect
  <2> QED BY <1>8, <2>1, PermissionMoves DEF RecordAttempt
<1>9. ASSUME NEW n \in Notifications, IncrementVoiceUsage(n) PROVE PermissionInv'
  <2>1. Moves(n, "done") BY <1>9, IncrementEffect
  <2> QED BY <1>9, <2>1, PermissionMoves DEF IncrementVoiceUsage
<1>10. ASSUME NEW n \in Notifications, Crash(n) PROVE PermissionInv'
  <2>1. Moves(n, "waiting") BY <1>10, CrashMoves
  <2> QED BY <1>10, <2>1, PermissionMoves DEF Crash
<1>11. CASE ChangeSettings
  <2>1. \A n \in Notifications \ late' :
          /\ call'[n].pc \notin {"gate", "redis", "database", "dial"}
    BY <1>11 DEF ChangeSettings, Running
  <2> QED BY <2>1 DEF PermissionInv, Cleared
<1>12. CASE Tick
  <2>1. \A n \in Notifications \ late' : n \notin Cleared /\ n \notin late
    BY <1>12 DEF Tick
  <2>2. UNCHANGED << settings, call >>
    BY <1>12 DEF Tick
  <2> QED BY <2>1, <2>2 DEF PermissionInv, Cleared
<1>13. CASE UNCHANGED << now, settings, call, late >>
  BY <1>13 DEF PermissionInv, Cleared, Permitted, WithinQuietHours, Hour
<1> QED
  BY <1>1, <1>2, <1>3, <1>5, <1>6, <1>7, <1>8, <1>9, <1>10, <1>11, <1>12, <1>13 DEF Next, Flush, vars

(* PermissionIsCurrent holds in every reachable state: a call that may     *)
(* still be dialled has the user's permission as it stands, or the         *)
(* settings or the hour changed after they were looked at.                 *)
THEOREM PermissionGiven == Spec => []PermissionIsCurrent
<1>1. PermissionInv /\ TypeOK => PermissionIsCurrent
  BY DEF PermissionInv, PermissionIsCurrent, Cleared
<1> QED BY <1>1, TypeInit, TypeNext, PermissionInit, PermissionNext, PTL DEF Spec

-----------------------------------------------------------------------------
(* The daily maximum.                                                      *)

Spare    == MaxCap + Slots - 1
Step     == MaxCap + Slots - 2
Gone(f)  == f * Step
Bound(f) == Spare + Gone(f)

Today     == Day(now)
Dialling  == { n \in Notifications : call[n].pc = "dial" }
Recording == { n \in Notifications : call[n].pc = "record" }
Counting  == { n \in Notifications : call[n].pc \in {"record", "count"} }
SentToday == { i \in DOMAIN sent : Day(sent[i]) = Today }

(* The number of calls placed says nothing of those about to be placed.    *)
(* So the calls being dialled are counted with them, and what is placed is *)
(* held against both records of it: the counter, with the calls on their   *)
(* way to it, up to what flushes have taken, and the attempts, with those  *)
(* still to be recorded.  Without a counter only the attempts are looked   *)
(* at, so that nothing has yet been added on account of the last flush:    *)
(* the call that starts the counter again finds one step of the bound left. *)
CounterInv ==
  /\ counter[Today] # NoCount =>
       placed[Today] <= counter[Today] + Cardinality(Counting) + Gone(faults.flushes) + faults.hidden
  /\ counter[Today] = NoCount /\ faults.flushes = 0 =>
       placed[Today] <= Cardinality(Counting) + faults.hidden
  /\ counter[Today] = NoCount /\ faults.flushes > 0 =>
       placed[Today] + Cardinality(Dialling) <= Gone(faults.flushes) + 1 + faults.hidden

CountInv ==
  /\ Cardinality(Running) <= Slots
  /\ \A d \in Days : d > Today => placed[d] = 0 /\ counter[d] = NoCount
  /\ \A d \in Days : placed[d] <= Bound(faults.flushes) + faults.hidden
  /\ placed[Today] + Cardinality(Dialling) <= Bound(faults.flushes) + faults.hidden
  /\ CounterInv
  /\ placed[Today] <= Cardinality(SentToday) + Cardinality(Recording) + faults.hidden

LEMMA BoundGrows ==
  /\ Spare \in Nat /\ Step \in Nat /\ Slots \in Nat /\ MaxCap \in Nat
  /\ Slots <= Spare /\ Spare = Step + 1
  /\ \A f \in Nat : /\ Gone(f) \in Nat /\ Bound(f) \in Nat /\ Bound(f) = Spare + Gone(f)
                    /\ Gone(f + 1) = Gone(f) + Step /\ (f > 0 => Step <= Gone(f))
<1>1. Slots \in Nat /\ Slots >= 1 /\ MaxCap \in Nat /\ MaxCap >= 1
  BY CallsAssumption
<1>2. Spare \in Nat /\ Step \in Nat /\ Slots <= Spare /\ Spare = Step + 1
  BY <1>1 DEF Spare, Step
<1>3. ASSUME NEW f \in Nat, NEW s \in Nat
      PROVE  f * s \in Nat /\ (f + 1) * s = f * s + s /\ (f > 0 => s <= f * s)
  <2>1. f * s \in Nat /\ (f + 1) * s = f * s + s
    OBVIOUS
  <2>2. CASE f > 0
    <3>1. f - 1 \in Nat /\ (f - 1) * s \in Nat /\ ((f - 1) + 1) * s = (f - 1) * s + s
      BY <2>2
    <3>2. f * s = (f - 1) * s + s
      BY <3>1
    <3> QED BY <2>1, <3>1, <3>2
  <2> QED BY <2>1, <2>2
<1> QED BY <1>1, <1>2, <1>3 DEF Bound, Gone

LEMMA CallSetsFinite ==
  /\ IsFiniteSet(Running) /\ IsFiniteSet(Dialling) /\ IsFiniteSet(Recording) /\ IsFiniteSet(Counting)
  /\ Cardinality(Running) \in Nat /\ Cardinality(Dialling) \in Nat
  /\ Cardinality(Recording) \in Nat /\ Cardinality(Counting) \in Nat
<1>1. IsFiniteSet(Notifications)
  BY CallsAssumption
<1>2. Running \subseteq Notifications /\ Dialling \subseteq Notifications
      /\ Recording \subseteq Notifications /\ Counting \subseteq Notifications
  BY DEF Running, Dialling, Recording, Counting
<1>3. IsFiniteSet(Running) /\ IsFiniteSet(Dialling) /\ IsFiniteSet(Recording) /\ IsFiniteSet(Counting)
  BY <1>1, <1>2, FS_Subset
<1> QED BY <1>3, FS_CardinalityType

(* The attempts recorded today are finitely many, and among those of the   *)
(* last 24 hours.                                                          *)
LEMMA SentCounted ==
  ASSUME TypeOK
  PROVE  /\ IsFiniteSet(SentToday) /\ Cardinality(SentToday) \in Nat
         /\ SentSince(now - HoursPerDay) \in Nat
         /\ Cardinality(SentToday) <= SentSince(now - HoursPerDay)
<1> DEFINE Recent == { i \in DOMAIN sent : sent[i] >= now - HoursPerDay }
<1>1. now \in Hours /\ sent \in Seq(Hours)
  BY TypeParts
<1>2. IsFiniteSet(1..Len(sent))
  BY <1>1, FS_Interval
<1>3. Recent \subseteq 1..Len(sent) /\ SentToday \subseteq Recent
  BY <1>1, TodayIsRecent DEF SentToday, Today
<1>4. IsFiniteSet(Recent)
  BY <1>2, <1>3, FS_Subset
<1>5. IsFiniteSet(SentToday) /\ Cardinality(SentToday) <= Cardinality(Recent)
  BY <1>3, <1>4, FS_Subset
<1> QED BY <1>4, <1>5, FS_CardinalityType DEF SentSince

(* Two sets that differ in one element at most.                            *)
LEMMA OneChanges ==
  ASSUME NEW A, NEW B, IsFiniteSet(A), NEW n, A \ {n} = B \ {n}
  PROVE  /\ Cardinality(B) \in Nat
         /\ Cardinality(B) = Cardinality(A) - (IF n \in A THEN 1 ELSE 0) + (IF n \in B THEN 1 ELSE 0)
<1>1. IsFiniteSet(A \ {n}) /\ Cardinality(A \ {n}) = Cardinality(A) - (IF n \in A THEN 1 ELSE 0)
  <2>1. Cardinality(A) \in Nat BY FS_CardinalityType
  <2> QED BY <2>1, FS_RemoveElement
<1>2. Cardinality(A \ {n}) \in Nat
  BY <1>1, FS_CardinalityType
<1>3. CASE n \in B
  <2>1. B = (A \ {n}) \cup {n} BY <1>3
  <2>2. Cardinality((A \ {n}) \cup {n}) = Cardinality(A \ {n}) + 1 BY <1>1, FS_AddElement
  <2>3. Cardinality(A) \in Nat BY FS_CardinalityType
  <2> QED BY <1>1, <1>2, <1>3, <2>1, <2>2, <2>3
<1>4. CASE n \notin B
  <2>1. B = A \ {n} BY <1>4
  <2>2. Cardinality(A) \in Nat BY FS_CardinalityType
  <2> QED BY <1>1, <1>2, <1>4, <2>1, <2>2
<1> QED BY <1>3, <1>4

In(pc, S) == IF pc \in S THEN 1 ELSE 0

Busy == {"gate", "redis", "database", "dial", "record", "count"}

(* What one evaluation's step does to the numbers.                         *)
LEMMA MovesCounted ==
  ASSUME TypeOK, NEW n \in Notifications, NEW pc, Moves(n, pc)
  PROVE  /\ Cardinality(Running)' = Cardinality(Running) - In(call[n].pc, Busy) + In(pc, Busy)
         /\ Cardinality(Dialling)' = Cardinality(Dialling) - In(call[n].pc, {"dial"}) + In(pc, {"dial"})
         /\ Cardinality(Recording)' = Cardinality(Recording) - In(call[n].pc, {"record"}) + In(pc, {"record"})
         /\ Cardinality(Counting)' = Cardinality(Counting) - In(call[n].pc, {"record", "count"})
                                                          + In(pc, {"record", "count"})
         /\ Dialling' \subseteq Dialling \cup {n} /\ (pc # "dial" => n \notin Dialling')
<1>1. Running \ {n} = Running' \ {n} /\ Dialling \ {n} = Dialling' \ {n}
      /\ Recording \ {n} = Recording' \ {n} /\ Counting \ {n} = Counting' \ {n}
  BY DEF Moves, Running, Dialling, Recording, Counting
<1>2. /\ (n \in Running <=> call[n].pc \in Busy) /\ (n \in Running' <=> pc \in Busy)
      /\ (n \in Dialling <=> call[n].pc \in {"dial"}) /\ (n \in Dialling' <=> pc \in {"dial"})
      /\ (n \in Recording <=> call[n].pc \in {"record"}) /\ (n \in Recording' <=> pc \in {"record"})
      /\ (n \in Counting <=> call[n].pc \in {"record", "count"})
      /\ (n \in Counting' <=> pc \in {"record", "count"})
  BY DEF Moves, Running, Dialling, Recording, Counting, Busy
<1>3. Cardinality(Running') = Cardinality(Running) - In(call[n].pc, Busy) + In(pc, Busy)
  BY <1>1, <1>2, CallSetsFinite, OneChanges DEF In
<1>4. Cardinality(Dialling') = Cardinality(Dialling) - In(call[n].pc, {"dial"}) + In(pc, {"dial"})
  BY <1>1, <1>2, CallSetsFinite, OneChanges DEF In
<1>5. Cardinality(Recording') = Cardinality(Recording) - In(call[n].pc, {"record"}) + In(pc, {"record"})
  BY <1>1, <1>2, CallSetsFinite, OneChanges DEF In
<1>6. Cardinality(Counting') = Cardinality(Counting) - In(call[n].pc, {"record", "count"})
                                                  + In(pc, {"record", "count"})
  BY <1>1, <1>2, CallSetsFinite, OneChanges DEF In
<1> QED BY <1>1, <1>2, <1>3, <1>4, <1>5, <1>6

LEMMA CountTyped ==
  ASSUME TypeOK
  PROVE  /\ Today \in Days /\ Days \subseteq Nat
         /\ \A d \in Days : placed[d] \in Nat /\ (counter[d] # NoCount => counter[d] \in Nat)
         /\ faults.hidden \in Nat /\ faults.flushes \in Nat
<1>1. now \in Hours /\ counter \in [Days -> Nat \cup {NoCount}] /\ placed \in [Days -> Nat]
      /\ faults.hidden \in 0..MaxFaults /\ faults.flushes \in 0..MaxFaults
  BY TypeParts
<1> QED BY <1>1, DaysPass, CallsAssumption DEF Today, Days

LEMMA CountInit == Init => CountInv
<1> SUFFICES ASSUME Init PROVE CountInv
  OBVIOUS
<1>1. \A n \in Notifications : call[n].pc = "none"
  BY IdleCalls DEF Init
<1>2. Running = {} /\ Dialling = {}
  BY <1>1 DEF Running, Dialling
<1>3. Cardinality({}) = 0
  BY FS_EmptySet
<1>4. faults.hidden = 0 /\ faults.flushes = 0 /\ (\A d \in Days : placed[d] = 0 /\ counter[d] = NoCount)
  BY DEF Init
<1>5. Today \in Days /\ Slots \in Nat /\ Bound(0) \in Nat
      /\ Cardinality(Counting) \in Nat /\ Cardinality(SentToday) \in Nat /\ Cardinality(Recording) \in Nat
  BY TypeInit, CountTyped, CallSetsFinite, SentCounted, BoundGrows
<1>6. placed[Today] = 0 /\ counter[Today] = NoCount
  BY <1>4, <1>5
<1>7. CounterInv
  BY <1>4, <1>5, <1>6 DEF CounterInv
<1> QED
  BY <1>2, <1>3, <1>4, <1>5, <1>6, <1>7 DEF CountInv

(* A step towards no call, or out of one that was not placed, or a crash   *)
(* that hides a call.                                                      *)
LEMMA CountQuiet ==
  ASSUME TypeOK, TypeOK', CountInv, NEW n \in Notifications, NEW pc, Moves(n, pc),
         UNCHANGED << now, counter, sent, placed >>, pc \notin {"dial", "record", "count"},
         pc \in Busy => call[n].pc \in Busy \/ Cardinality(Running) < Slots,
         faults'.flushes = faults.flushes,
         \/ faults'.hidden = faults.hidden /\ call[n].pc \notin {"record", "count"}
         \/ faults'.hidden = faults.hidden + 1
  PROVE  CountInv'
<1>1. /\ Cardinality(Running)' = Cardinality(Running) - In(call[n].pc, Busy) + In(pc, Busy)
      /\ Cardinality(Dialling)' = Cardinality(Dialling) - In(call[n].pc, {"dial"})
      /\ Cardinality(Recording)' = Cardinality(Recording) - In(call[n].pc, {"record"})
      /\ Cardinality(Counting)' = Cardinality(Counting) - In(call[n].pc, {"record", "count"})
      /\ Dialling' \subseteq Dialling
  BY MovesCounted, CallSetsFinite DEF In
<1>2. Today' = Today /\ SentToday' = SentToday
  BY DEF Today, SentToday
<1>3. Cardinality(Running)' <= Slots
  BY <1>1, CallSetsFinite, BoundGrows DEF CountInv, In
<1>4. \A d \in Days : d > Today' => placed'[d] = 0 /\ counter'[d] = NoCount
  BY <1>2 DEF CountInv
<1>5. \A d \in Days : placed'[d] <= Bound(faults'.flushes) + faults'.hidden
  <2> SUFFICES ASSUME NEW d \in Days PROVE placed[d] <= Bound(faults.flushes) + faults'.hidden
    OBVIOUS
  <2> QED BY CountTyped, BoundGrows DEF CountInv
<1>6. placed'[Today'] + Cardinality(Dialling)' <= Bound(faults'.flushes) + faults'.hidden
  BY <1>1, <1>2, CountTyped, CallSetsFinite, BoundGrows DEF CountInv, In
<1>7. CounterInv'
  BY <1>1, <1>2, CountTyped, CallSetsFinite, BoundGrows DEF CountInv, CounterInv, In
<1>8. placed'[Today'] <= Cardinality(SentToday)' + Cardinality(Recording)' + faults'.hidden
  BY <1>1, <1>2, CountTyped, CallSetsFinite, SentCounted DEF CountInv, In
<1> QED BY <1>1, <1>3, <1>4, <1>5, <1>6, <1>7, <1>8 DEF CountInv

(* A call that is let through: the check saw fewer calls than the maximum, *)
(* and what it did not see is under way in the other slots.                *)
LEMMA CountAllows ==
  ASSUME TypeOK, TypeOK', CountInv, NEW n \in Notifications, NEW used \in Nat, Moves(n, "dial"),
         UNCHANGED << now, counter, sent, placed >>, call[n].pc \in {"redis", "database"},
         used < call[n].seen.voiceMaxCallsPerDay, faults'.flushes = faults.flushes,
         \/ /\ faults' = faults
            /\ \/ counter[Today] # NoCount /\ used = counter[Today]
               \/ used = SentSince(now - HoursPerDay)
         \/ faults'.hidden = faults.hidden + 1
  PROVE  CountInv'
<1>1. /\ Cardinality(Running)' = Cardinality(Running)
      /\ Cardinality(Dialling)' = Cardinality(Dialling) + 1
      /\ Cardinality(Recording)' = Cardinality(Recording)
      /\ Cardinality(Counting)' = Cardinality(Counting)
  BY MovesCounted, CallSetsFinite DEF In, Busy
<1>2. Today' = Today /\ SentToday' = SentToday
  BY DEF Today, SentToday
<1>3. used + 1 <= MaxCap
  <2>1. call[n].seen \in Settings
    BY TypeParts DEF Call
  <2> QED BY <2>1, CallsAssumption
<1>4. Cardinality(Counting) + Cardinality(Dialling) + 1 <= Cardinality(Running)
      /\ Cardinality(Recording) <= Cardinality(Counting)
  <2>1. IsFiniteSet(Counting \cup Dialling) /\ Counting \cap Dialling = {}
        /\ Cardinality(Counting \cup Dialling) = Cardinality(Counting) + Cardinality(Dialling)
    <3>1. Counting \cap Dialling = {}
      BY DEF Counting, Dialling
    <3>2. Cardinality(Counting \cap Dialling) = 0
      BY <3>1, FS_EmptySet
    <3>3. IsFiniteSet(Counting \cup Dialling)
          /\ Cardinality(Counting \cup Dialling)
               = Cardinality(Counting) + Cardinality(Dialling) - Cardinality(Counting \cap Dialling)
      BY CallSetsFinite, FS_Union
    <3> QED BY <3>1, <3>2, <3>3, CallSetsFinite
  <2>2. n \notin Counting \cup Dialling /\ Counting \cup Dialling \cup {n} \subseteq Running
    BY DEF Counting, Dialling, Running
  <2>3. Cardinality(Counting \cup Dialling \cup {n}) = Cardinality(Counting \cup Dialling) + 1
    BY <2>1, <2>2, FS_AddElement
  <2>4. Cardinality(Counting \cup Dialling \cup {n}) <= Cardinality(Running)
    BY <2>2, CallSetsFinite, FS_Subset
  <2>5. Recording \subseteq Counting
    BY DEF Recording, Counting
  <2>6. Cardinality(Recording) <= Cardinality(Counting)
    BY <2>5, CallSetsFinite, FS_Subset
  <2> QED BY <2>1, <2>3, <2>4, <2>6
<1>5. \A d \in Days : placed'[d] <= Bound(faults'.flushes) + faults'.hidden
  <2> SUFFICES ASSUME NEW d \in Days PROVE placed[d] <= Bound(faults.flushes) + faults'.hidden
    OBVIOUS
  <2> QED BY CountTyped, BoundGrows DEF CountInv
<1>6. placed'[Today'] + Cardinality(Dialling)' <= Bound(faults'.flushes) + faults'.hidden
  <2>1. CASE faults' = faults /\ counter[Today] # NoCount /\ used = counter[Today]
    <3>2. placed[Today] + Cardinality(Dialling) + 1
            <= used + 1 + Slots - 1 + Gone(faults.flushes) + faults.hidden
      BY <1>4, <2>1, CountTyped, CallSetsFinite, BoundGrows DEF CountInv, CounterInv
    <3> QED BY <1>1, <1>2, <1>3, <2>1, <3>2, CountTyped, CallSetsFinite, BoundGrows DEF Spare
  <2>2. CASE faults' = faults /\ used = SentSince(now - HoursPerDay)
    <3>1. placed[Today] + Cardinality(Dialling) + 1 <= used + 1 + Slots - 1 + faults.hidden
      BY <1>4, <2>2, CountTyped, CallSetsFinite, SentCounted, BoundGrows DEF CountInv
    <3>2. used + 1 + Slots - 1 <= Spare
      BY <1>3, BoundGrows DEF Spare
    <3>3. Spare <= Bound(faults.flushes)
      BY BoundGrows, CountTyped
    <3> QED BY <1>1, <1>2, <2>2, <3>1, <3>2, <3>3, CountTyped, CallSetsFinite, BoundGrows
  <2>3. CASE faults'.hidden = faults.hidden + 1
    BY <1>1, <1>2, <2>3, CountTyped, CallSetsFinite, BoundGrows DEF CountInv
  <2> QED BY <2>1, <2>2, <2>3
<1>7. CounterInv'
  <2>1. CASE counter[Today] # NoCount
    BY <1>1, <1>2, <2>1, CountTyped, CallSetsFinite, BoundGrows DEF CountInv, CounterInv
  <2>2. CASE counter[Today] = NoCount /\ faults.flushes = 0
    BY <1>1, <1>2, <2>2, CountTyped, CallSetsFinite DEF CountInv, CounterInv
  <2>3. CASE counter[Today] = NoCount /\ faults.flushes > 0 /\ faults'.hidden = faults.hidden + 1
    BY <1>1, <1>2, <2>3, CountTyped, CallSetsFinite, BoundGrows DEF CountInv, CounterInv
  <2>4. CASE counter[Today] = NoCount /\ faults.flushes > 0 /\ faults' = faults
    <3>1. used = SentSince(now - HoursPerDay)
      BY <2>4, CountTyped
    <3>2. placed[Today] + Cardinality(Dialling) + 1 <= Spare + faults.hidden
      BY <1>3, <1>4, <3>1, CountTyped, CallSetsFinite, SentCounted, BoundGrows DEF CountInv, Spare
    <3>3. Spare <= Gone(faults.flushes) + 1 /\ Gone(faults.flushes) \in Nat /\ Spare \in Nat
      BY <2>4, CountTyped, BoundGrows
    <3> QED BY <1>1, <1>2, <2>4, <3>2, <3>3, CountTyped, CallSetsFinite DEF CounterInv
  <2> QED BY <2>1, <2>2, <2>3, <2>4, CountTyped
<1>8. placed'[Today'] <= Cardinality(SentToday)' + Cardinality(Recording)' + faults'.hidden
  BY <1>1, <1>2, CountTyped, CallSetsFinite, SentCounted DEF CountInv
<1>9. MaxCap >= 1
  BY <1>3, BoundGrows
<1>10. \A d \in Days : d > Today' => placed'[d] = 0 /\ counter'[d] = NoCount
  BY <1>2 DEF CountInv
<1>11. Cardinality(Running)' <= Slots
  BY <1>1 DEF CountInv
<1> QED BY <1>5, <1>6, <1>7, <1>8, <1>9, <1>10, <1>11 DEF CountInv

(* A call that is placed is no longer about to be: it moves to those still *)
(* to be recorded and counted, or a lost answer hides it.                  *)
LEMMA CountDials ==
  ASSUME TypeOK, TypeOK', CountInv, NEW n \in Notifications, Dial(n)
  PROVE  CountInv'
<1>1. call[n].pc = "dial" /\ UNCHANGED << now, counter, sent >>
  BY DEF Dial
<1>2. Today' = Today /\ SentToday' = SentToday
  BY <1>1 DEF Today, SentToday
<1>3. CASE placed'[Today] = placed[Today] /\ Moves(n, "done") /\ faults' = faults
  <2>1. placed' = placed
    <3>1. placed \in [Days -> Nat] /\ placed' \in [Days -> Nat]
      BY TypeParts, DialEffect
    <3>2. \A d \in Days : placed'[d] = placed[d]
      BY <1>3, DialEffect DEF Today
    <3> QED BY <3>1, <3>2
  <2> QED BY <1>1, <1>3, <2>1, CountQuiet DEF Busy
<1>4. ASSUME placed'[Today] = placed[Today] + 1,
             \/ Moves(n, "record") /\ faults' = faults
             \/ Moves(n, "done") /\ faults'.hidden = faults.hidden + 1
      PROVE  CountInv'
  <2>1. /\ \A d \in Days \ {Today} : placed'[d] = placed[d]
        /\ faults'.flushes = faults.flushes
    BY DialEffect DEF Today
  <2>10. /\ Bound(faults.flushes) \in Nat /\ Gone(faults.flushes) \in Nat /\ Slots \in Nat
         /\ Bound(faults'.flushes) = Bound(faults.flushes) /\ Gone(faults'.flushes) = Gone(faults.flushes)
    BY <2>1, CountTyped, BoundGrows
  <2>11. /\ Today \in Days /\ faults.hidden \in Nat /\ faults'.hidden \in Nat
         /\ faults.hidden <= faults'.hidden /\ \A d \in Days : placed[d] \in Nat
    BY <1>4, CountTyped
  <2>2. /\ Cardinality(Running)' <= Cardinality(Running)
        /\ Cardinality(Dialling)' = Cardinality(Dialling) - 1
        /\ Dialling' \subseteq Dialling
        /\ \/ /\ Cardinality(Recording)' = Cardinality(Recording) + 1
              /\ Cardinality(Counting)' = Cardinality(Counting) + 1
              /\ faults' = faults
           \/ /\ Cardinality(Recording)' = Cardinality(Recording)
              /\ Cardinality(Counting)' = Cardinality(Counting)
              /\ faults'.hidden = faults.hidden + 1
    BY <1>1, <1>4, MovesCounted, CallSetsFinite DEF In, Busy
  <2>3. placed'[Today'] + Cardinality(Dialling)' <= Bound(faults'.flushes) + faults'.hidden
    BY <1>2, <1>4, <2>1, <2>2, CountTyped, CallSetsFinite, BoundGrows DEF CountInv
  <2>4. Cardinality(Dialling)' \in Nat
    BY CallSetsFinite, <1>1, <2>2, <1>4, FS_EmptySet DEF Dialling
  <2>5. ASSUME NEW d \in Days PROVE placed'[d] <= Bound(faults'.flushes) + faults'.hidden
    <3>1. CASE d = Today
      <4>1. placed'[d] + Cardinality(Dialling)' <= Bound(faults.flushes) + faults'.hidden
        BY <1>2, <2>3, <2>10, <3>1
      <4>2. placed'[d] \in Nat
        BY <1>4, <2>11, <3>1
      <4> QED BY <2>4, <2>10, <2>11, <4>1, <4>2
    <3>2. CASE d # Today
      <4>1. placed'[d] = placed[d] /\ placed[d] <= Bound(faults.flushes) + faults.hidden
        BY <2>1, <3>2 DEF CountInv
      <4> QED BY <2>10, <2>11, <4>1
    <3> QED BY <3>1, <3>2
  <2>6. CounterInv'
    <3>1. /\ placed'[Today'] = placed[Today] + 1 /\ counter'[Today'] = counter[Today]
          /\ Cardinality(Counting)' + faults'.hidden = Cardinality(Counting) + faults.hidden + 1
          /\ placed'[Today'] + Cardinality(Dialling)' = placed[Today] + Cardinality(Dialling)
          /\ Cardinality(Counting)' \in Nat
      BY <1>1, <1>2, <1>4, <2>2, <2>11, CallSetsFinite
    <3>2. counter[Today] # NoCount => counter[Today] \in Nat
      BY CountTyped
    <3>3. CASE counter[Today] # NoCount
      BY <2>1, <2>10, <2>11, <3>1, <3>2, <3>3, CallSetsFinite DEF CountInv, CounterInv
    <3>4. CASE counter[Today] = NoCount /\ faults.flushes = 0
      BY <2>1, <2>11, <3>1, <3>4, CallSetsFinite DEF CountInv, CounterInv
    <3>5. CASE counter[Today] = NoCount /\ faults.flushes > 0
      BY <2>1, <2>10, <2>11, <3>1, <3>5, CallSetsFinite DEF CountInv, CounterInv
    <3> QED BY <3>3, <3>4, <3>5, CountTyped
  <2>7. placed'[Today'] <= Cardinality(SentToday)' + Cardinality(Recording)' + faults'.hidden
    BY <1>2, <1>4, <2>2, CountTyped, CallSetsFinite, SentCounted DEF CountInv
  <2>8. Cardinality(Running)' <= Slots
    BY <2>2, <2>10, CallSetsFinite, MovesCounted, <1>1, <1>4 DEF CountInv, In, Busy
  <2>9. \A d \in Days : d > Today' => placed'[d] = 0 /\ counter'[d] = NoCount
    BY <1>1, <1>2, <2>1, CountTyped DEF CountInv
  <2> QED BY <2>2, <2>3, <2>5, <2>6, <2>7, <2>8, <2>9 DEF CountInv
<1> QED BY <1>3, <1>4, DialEffect DEF Today

LEMMA CountRecords ==
  ASSUME TypeOK, TypeOK', CountInv, NEW n \in Notifications, RecordAttempt(n)
  PROVE  CountInv'
<1>1. call[n].pc = "record" /\ UNCHANGED << now, counter, placed, faults >>
  BY DEF RecordAttempt
<1>2. Moves(n, "count") /\ sent' = Append(sent, now)
  BY RecordEffect
<1>3. /\ Cardinality(Running)' = Cardinality(Running)
      /\ Cardinality(Dialling)' = Cardinality(Dialling)
      /\ Cardinality(Recording)' = Cardinality(Recording) - 1
      /\ Cardinality(Counting)' = Cardinality(Counting)
      /\ Dialling' \subseteq Dialling
  BY <1>1, <1>2, MovesCounted, CallSetsFinite DEF In, Busy
<1>4. Cardinality(SentToday)' = Cardinality(SentToday) + 1
  <2>1. sent \in Seq(Hours)
    BY TypeParts
  <2>2. SentToday' = SentToday \cup {Len(sent) + 1} /\ Len(sent) + 1 \notin SentToday
    BY <1>1, <1>2, <2>1 DEF SentToday, Today
  <2>3. IsFiniteSet(SentToday)
    BY SentCounted
  <2>4. Cardinality(SentToday \cup {Len(sent) + 1}) = Cardinality(SentToday) + 1
    BY <2>2, <2>3, FS_AddElement
  <2> QED BY <2>2, <2>4
<1>5. Today' = Today
  BY <1>1 DEF Today
<1>6. placed'[Today'] <= Cardinality(SentToday)' + Cardinality(Recording)' + faults'.hidden
  BY <1>1, <1>3, <1>4, <1>5, CountTyped, CallSetsFinite, SentCounted DEF CountInv
<1>7. CounterInv'
  BY <1>1, <1>3, <1>5 DEF CountInv, CounterInv
<1> QED BY <1>1, <1>3, <1>5, <1>6, <1>7 DEF CountInv

LEMMA CountIncrements ==
  ASSUME TypeOK, TypeOK', CountInv, NEW n \in Notifications, IncrementVoiceUsage(n)
  PROVE  CountInv'
<1>1. call[n].pc = "count" /\ UNCHANGED << now, sent, placed >> /\ Moves(n, "done")
      /\ faults'.flushes = faults.flushes
  BY IncrementEffect DEF IncrementVoiceUsage
<1>2. Today' = Today /\ SentToday' = SentToday
  BY <1>1 DEF Today, SentToday
<1>3. CASE counter' = counter /\ faults'.hidden = faults.hidden + 1
  BY <1>1, <1>3, CountQuiet DEF Busy
<1>4. CASE counter'[Today] = Incremented(counter[Today]) /\ counter'[Today] \in Nat /\ faults' = faults
  <2>1. /\ Cardinality(Running)' = Cardinality(Running) - 1
        /\ Cardinality(Dialling)' = Cardinality(Dialling)
        /\ Cardinality(Recording)' = Cardinality(Recording)
        /\ Cardinality(Counting)' = Cardinality(Counting) - 1
        /\ Dialling' \subseteq Dialling
    BY <1>1, MovesCounted, CallSetsFinite DEF In, Busy
  <2>2. counter'[Today'] # NoCount /\ counter'[Today'] \in Nat
    BY <1>2, <1>4 DEF NoCount
  <2>3. placed[Today] <= counter'[Today'] + Cardinality(Counting)' + Gone(faults.flushes) + faults.hidden
    <3>1. CASE counter[Today] # NoCount
      <4>1. counter'[Today'] = counter[Today] + 1
        BY <1>2, <1>4, <3>1 DEF Incremented
      <4> QED BY <2>1, <3>1, <4>1, CountTyped, CallSetsFinite, BoundGrows DEF CountInv, CounterInv
    <3>2. CASE counter[Today] = NoCount
      <4>1. counter'[Today'] = 1
        BY <1>2, <1>4, <3>2 DEF Incremented
      <4>2. Cardinality(Counting) >= 1
        BY <1>1, CallSetsFinite, FS_EmptySet DEF Counting
      <4> QED BY <2>1, <3>2, <4>1, <4>2, CountTyped, CallSetsFinite, BoundGrows DEF CountInv, CounterInv
    <3> QED BY <3>1, <3>2
  <2>6. CounterInv'
    BY <1>1, <1>2, <1>4, <2>2, <2>3 DEF CounterInv
  <2>4. Cardinality(Running)' <= Slots
    BY <2>1, CallSetsFinite, BoundGrows DEF CountInv
  <2>5. \A d \in Days : d > Today' => placed'[d] = 0 /\ counter'[d] = NoCount
    <3>1. \A d \in Days \ {Today} : counter'[d] = counter[d]
      BY IncrementEffect DEF Today
    <3> QED BY <1>1, <1>2, <3>1, CountTyped DEF CountInv
  <2> QED BY <1>1, <1>2, <1>4, <2>1, <2>4, <2>5, <2>6 DEF CountInv
<1> QED BY <1>3, <1>4, IncrementEffect DEF Today

(* A new day begins with no call placed, and no more about to be than      *)
(* there are slots.                                                        *)
LEMMA CountTicks ==
  ASSUME TypeOK, TypeOK', CountInv, Tick
  PROVE  CountInv'
<1>1. now < LastHour /\ now' = now + 1 /\ UNCHANGED << call, counter, sent, placed, faults >>
  BY DEF Tick
<1>2. now \in Hours /\ now' \in Hours /\ now <= now'
  BY <1>1, TypeParts, CallsAssumption DEF Hours
<1>3. Today \in Days /\ Today' \in Days /\ Today <= Today' /\ Today \in Nat /\ Today' \in Nat
  BY <1>2, DaysPass, CallsAssumption DEF Today, Days
<1>4. Running' = Running /\ Dialling' = Dialling /\ Recording' = Recording /\ Counting' = Counting
  BY <1>1 DEF Running, Dialling, Recording, Counting
<1>5. CASE Today' = Today
  <2>1. SentToday' = SentToday
    BY <1>1, <1>5 DEF SentToday
  <2> QED BY <1>1, <1>4, <1>5, <2>1 DEF CountInv, CounterInv
<1>6. CASE Today' # Today
  <2>1. placed'[Today'] = 0 /\ counter'[Today'] = NoCount
    BY <1>1, <1>3, <1>6 DEF CountInv
  <2>2. Cardinality(Dialling) <= Slots
    <3>1. CASE Dialling = {}
      BY <3>1, FS_EmptySet, CountTyped, BoundGrows
    <3>2. CASE Dialling # {}
      <4>1. Dialling \subseteq Running
        BY DEF Dialling, Running
      <4>2. Cardinality(Dialling) <= Cardinality(Running)
        BY <4>1, CallSetsFinite, FS_Subset
      <4> QED BY <3>2, <4>2, CallSetsFinite, CountTyped, BoundGrows DEF CountInv
    <3> QED BY <3>1, <3>2
  <2>3. \A d \in Days : d > Today' => placed'[d] = 0 /\ counter'[d] = NoCount
    BY <1>1, <1>3, CountTyped DEF CountInv
  <2>4. Cardinality(SentToday)' \in Nat
    <3>1. sent' \in Seq(Hours) /\ IsFiniteSet(1..Len(sent'))
      BY <1>1, TypeParts, FS_Interval
    <3>2. SentToday' \subseteq 1..Len(sent')
      BY <3>1 DEF SentToday
    <3>3. IsFiniteSet(SentToday')
      BY <3>1, <3>2, FS_Subset
    <3> QED BY <3>3, FS_CardinalityType
  <2>5. CounterInv'
    BY <1>1, <1>4, <2>1, <2>2, CountTyped, CallSetsFinite, BoundGrows DEF CounterInv
  <2>6. placed'[Today'] + Cardinality(Dialling)' <= Bound(faults'.flushes) + faults'.hidden
    BY <1>1, <1>4, <2>1, <2>2, CountTyped, CallSetsFinite, BoundGrows
  <2>7. placed'[Today'] <= Cardinality(SentToday)' + Cardinality(Recording)' + faults'.hidden
    BY <1>1, <1>4, <2>1, <2>4, CountTyped, CallSetsFinite
  <2> QED BY <1>1, <1>4, <2>3, <2>5, <2>6, <2>7 DEF CountInv
<1> QED BY <1>5, <1>6

(* A flush takes the counter away, and nothing else yet.                   *)
LEMMA CountFlushes ==
  ASSUME TypeOK, TypeOK', CountInv, Flush
  PROVE  CountInv'
<1>1. counter' = [d \in Days |-> NoCount] /\ UNCHANGED << now, call, sent, placed >>
      /\ faults'.flushes = faults.flushes + 1 /\ faults'.hidden = faults.hidden
  BY FaultCounts DEF Flush
<1>2. Today' = Today /\ SentToday' = SentToday /\ Running' = Running /\ Dialling' = Dialling
      /\ Recording' = Recording /\ Counting' = Counting
  BY <1>1 DEF Today, SentToday, Running, Dialling, Recording, Counting
<1>3. Bound(faults'.flushes) = Bound(faults.flushes) + Step
  BY <1>1, CountTyped, BoundGrows
<1>4. ASSUME NEW d \in Days PROVE placed'[d] <= Bound(faults'.flushes) + faults'.hidden
  BY <1>1, <1>3, CountTyped, BoundGrows DEF CountInv
<1>5. placed'[Today'] + Cardinality(Dialling)' <= Bound(faults'.flushes) + faults'.hidden
  BY <1>1, <1>2, <1>3, CountTyped, CallSetsFinite, BoundGrows DEF CountInv
<1>6. CounterInv'
  <2>1. counter'[Today'] = NoCount
    BY <1>1, <1>2, CountTyped
  <2>2. Gone(faults'.flushes) = Gone(faults.flushes) + Step
    BY <1>1, CountTyped, BoundGrows
  <2> QED BY <1>1, <1>2, <2>1, <2>2, CountTyped, CallSetsFinite, BoundGrows DEF CountInv, CounterInv
<1>7. \A d \in Days : d > Today' => placed'[d] = 0 /\ counter'[d] = NoCount
  BY <1>1, <1>2 DEF CountInv
<1> QED BY <1>1, <1>2, <1>4, <1>5, <1>6, <1>7 DEF CountInv

LEMMA CountNext == TypeOK /\ CountInv /\ [Next]_vars => CountInv'
<1> SUFFICES ASSUME TypeOK, CountInv, [Next]_vars PROVE CountInv'
  OBVIOUS
<1>1. TypeOK'
  BY TypeNext
<1>2. ASSUME NEW n \in Notifications, Reach(n) PROVE CountInv'
  <2>1. Moves(n, "waiting") BY <1>2, ReachMoves
  <2> QED BY <1>1, <1>2, <2>1, CountQuiet DEF Reach, Busy
<1>3. ASSUME NEW n \in Notifications, Start(n) PROVE CountInv'
  <2>1. Moves(n, "gate") BY <1>3, StartMoves
  <2> QED BY <1>1, <1>3, <2>1, CountQuiet DEF Start
<1>4. ASSUME NEW n \in Notifications, Gate(n) PROVE CountInv'
  <2>1. Goto(n, "redis") \/ Suppressed(n) BY <1>4 DEF Gate
  <2>2. Moves(n, "redis") \/ Moves(n, "done") BY <2>1, GotoMoves, SuppressedMoves DEF Phase
  <2>3. call[n].pc = "gate" /\ UNCHANGED << now, counter, sent, placed, faults >> BY <1>4 DEF Gate
  <2> QED BY <1>1, <2>2, <2>3, CountQuiet DEF Busy
<1>5. ASSUME NEW n \in Notifications, ReadCounter(n) PROVE CountInv'
  <2>1. call[n].pc = "redis" /\ UNCHANGED << now, counter, sent, placed >> BY <1>5 DEF ReadCounter
  <2>2. CASE counter[Today] # NoCount /\ Allow(n, counter[Today]) /\ UNCHANGED faults
    <3>1. counter[Today] \in Nat BY <2>2, CountTyped
    <3>2. CASE counter[Today] < call[n].seen.voiceMaxCallsPerDay /\ Moves(n, "dial")
      BY <1>1, <2>1, <2>2, <3>1, <3>2, CountAllows
    <3>3. CASE Moves(n, "done")
      BY <1>1, <2>1, <2>2, <3>3, CountQuiet DEF Busy
    <3> QED BY <2>2, <3>2, <3>3, AllowMoves
  <2>3. CASE Goto(n, "database") /\ (UNCHANGED faults \/ Fault("get"))
    <3>1. Moves(n, "database") BY <2>3, GotoMoves DEF Phase
    <3>2. /\ faults'.flushes = faults.flushes
          /\ faults'.hidden = faults.hidden \/ faults'.hidden = faults.hidden + 1
      BY <2>3, FaultCounts
    <3> QED BY <1>1, <2>1, <3>1, <3>2, CountQuiet DEF Busy
  <2> QED BY <1>5, <2>2, <2>3 DEF ReadCounter, Today
<1>6. ASSUME NEW n \in Notifications, CountAttempts(n) PROVE CountInv'
  <2>1. call[n].pc = "database" /\ UNCHANGED << now, counter, sent, placed >> BY <1>6 DEF CountAttempts
  <2>2. CASE Allow(n, SentSince(now - HoursPerDay)) /\ UNCHANGED faults
    <3>1. CASE SentSince(now - HoursPerDay) < call[n].seen.voiceMaxCallsPerDay /\ Moves(n, "dial")
      BY <1>1, <2>1, <2>2, <3>1, SentCounted, CountAllows
    <3>2. CASE Moves(n, "done")
      BY <1>1, <2>1, <2>2, <3>2, CountQuiet DEF Busy
    <3> QED BY <2>2, <3>1, <3>2, AllowMoves
  <2>3. CASE Allow(n, 0) /\ Fault("count")
    <3>1. faults'.flushes = faults.flushes /\ faults'.hidden = faults.hidden + 1
      BY <2>3, FaultCounts
    <3>2. CASE 0 < call[n].seen.voiceMaxCallsPerDay /\ Moves(n, "dial")
      BY <1>1, <2>1, <3>1, <3>2, CountAllows
    <3>3. CASE Moves(n, "done")
      BY <1>1, <2>1, <3>1, <3>3, CountQuiet DEF Busy
    <3> QED BY <2>3, <3>2, <3>3, AllowMoves
  <2> QED BY <1>6, <2>2, <2>3 DEF CountAttempts
<1>7. ASSUME NEW n \in Notifications, Crash(n) PROVE CountInv'
  <2>1. Moves(n, "waiting") BY <1>7, CrashMoves
  <2>2. faults'.flushes = faults.flushes /\ faults'.hidden = faults.hidden + 1 BY <1>7, FaultCounts DEF Crash
  <2> QED BY <1>1, <1>7, <2>1, <2>2, CountQuiet DEF Crash, Busy
<1>8. CASE UNCHANGED << now, call, counter, sent, placed, faults >>
  BY <1>8 DEF CountInv, CounterInv, Today, SentToday, Running, Dialling, Recording, Counting
<1> QED
  BY <1>1, <1>2, <1>3, <1>4, <1>5, <1>6, <1>7, <1>8, CountDials, CountRecords, CountIncrements, CountTicks,
     CountFlushes DEF Next, ChangeSettings, vars

(* DailyMaximum holds in every reachable state: on no day are more calls   *)
(* placed than the maximum and one for every further slot, one less than   *)
(* that for each flush of Redis, and one for each fault that hides a call. *)
THEOREM MaximumKept == Spec => []DailyMaximum
<1>1. CountInv => DailyMaximum
  BY DEF CountInv, DailyMaximum, Bound, Gone, Spare, Step
<1> QED BY <1>1, TypeInit, TypeNext, CountInit, CountNext, PTL DEF Spec

-----------------------------------------------------------------------------
(* The decisions a plan comes from, while one email's analysis and its     *)
(* user's settings change: DecisionChanges.                                *)
LEMMA SeverityRanks ==
  /\ \A sev \in Severity : Rank(sev) \in 1..5
  /\ Rank("LOW") = 2 /\ Rank("MEDIUM") = 3
  /\ Rank("HIGH") = 4 /\ Rank("CRITICAL") = 5
  /\ {"LOW", "MEDIUM", "HIGH", "CRITICAL"} \subseteq Severity
<1>1. /\ SeverityOrder[1] = "INFO" /\ SeverityOrder[2] = "LOW"
      /\ SeverityOrder[3] = "MEDIUM" /\ SeverityOrder[4] = "HIGH"
      /\ SeverityOrder[5] = "CRITICAL"
      /\ DOMAIN SeverityOrder = 1..5
  BY DEF SeverityOrder
<1>2. Severity = {"INFO", "LOW", "MEDIUM", "HIGH", "CRITICAL"}
  BY <1>1 DEF Severity, ToSet
<1>3. ASSUME NEW sev, NEW i \in 1..5, SeverityOrder[i] = sev
      PROVE  Rank(sev) \in 1..5 /\ SeverityOrder[Rank(sev)] = sev
  BY <1>3 DEF Rank
<1>4. \A i, j \in 1..5 : SeverityOrder[i] = SeverityOrder[j] => i = j
  BY <1>1
<1>5. QED
  BY <1>1, <1>2, <1>3, <1>4

(* What makes an email important, or worth acknowledging, keeps it from    *)
(* cleanup.                                                                *)
THEOREM NeverClaimed == ChangesSpec => []NeverBothWays
<1>1. NeverBothWays
  <2> SUFFICES ASSUME CleanupCandidate(email, userSettings)
               PROVE  ~IsImportant(email) /\ ~RequiresAck(email, userSettings)
    BY DEF NeverBothWays
  <2>1. email.category # "JOB"
    BY DEF CleanupCandidate, NeverCleanup
  <2>2. ~email.needsReview => NotificationTypeFor(email) = "NONE"
    BY <2>1 DEF NotificationTypeFor
  <2>3. QED
    BY <2>1, <2>2 DEF IsImportant, RequiresAck, ShouldNotify
<1>2. QED
  BY <1>1, PTL

-----------------------------------------------------------------------------
LEMMA SeverityType ==
  ASSUME NEW e
  PROVE  /\ SeverityOf(e) \in {"LOW", "MEDIUM", "HIGH", "CRITICAL"}
         /\ Rank(SeverityOf(e)) \in 1..5
<1>1. SeverityOf(e) \in {"LOW", "MEDIUM", "HIGH", "CRITICAL"}
  BY DEF SeverityOf, SeverityForJobEvent
<1>2. QED
  BY <1>1, SeverityRanks

(* Fewer switches and an earlier last stage leave fewer stages.            *)
LEMMA QuieterStages ==
  ASSUME NEW s \in SettingsRow, NEW t \in SettingsRow, Quieter(s, t)
  PROVE  Stages(t) \subseteq Stages(s)
<1>1. /\ t.notifySlack => s.notifySlack
      /\ t.notifyWhatsapp => s.notifyWhatsapp
      /\ t.notifyVoice => s.notifyVoice
      /\ t.voiceEnabled => s.voiceEnabled
  BY DEF Quieter, Switches
<1>2. \A stage \in {"SLACK", "WHATSAPP", "VOICE"} :
        StageOn(t, stage) => StageOn(s, stage)
  BY <1>1 DEF StageOn
<1>3. /\ s.escalationMaxStage \in 0..2 /\ t.escalationMaxStage \in 0..2
      /\ t.escalationMaxStage <= s.escalationMaxStage
  BY DEF Quieter, SettingsRow
<1>4. /\ Len(EscalationStages) = 3
      /\ \A i \in 1..3 : EscalationStages[i] \in {"SLACK", "WHATSAPP", "VOICE"}
  BY DEF EscalationStages
<1>5. /\ MaxStageOf(t) \in Int /\ MaxStageOf(s) \in Int
      /\ MaxStageOf(t) <= MaxStageOf(s) /\ MaxStageOf(t) + 1 <= 3
  BY <1>3, <1>4 DEF MaxStageOf
<1>6. \A j \in 1..(MaxStageOf(t) + 1) :
        /\ j \in 1..(MaxStageOf(s) + 1)
        /\ EscalationStages[j] \in {"SLACK", "WHATSAPP", "VOICE"}
  BY <1>4, <1>5
<1>7. QED
  BY <1>2, <1>6 DEF Stages

LEMMA QuieterDecision ==
  ASSUME NEW e, NEW s \in SettingsRow, NEW t \in SettingsRow,
         Quieter(s, t)
  PROVE  /\ ShouldNotify(e, t) => ShouldNotify(e, s)
         /\ RequiresAck(e, t) => RequiresAck(e, s)
         /\ VoiceEligible(e, t) => VoiceEligible(e, s)
<1>1. /\ t.notifyDashboard => s.notifyDashboard
      /\ t.escalationEnabled => s.escalationEnabled
      /\ t.notifyVoice => s.notifyVoice
      /\ t.voiceEnabled => s.voiceEnabled
      /\ t.voiceCriticalEvents \subseteq s.voiceCriticalEvents
  BY DEF Quieter, Switches
<1>2. SeverityAtLeast(SeverityOf(e), t.notifyMinSeverity)
        => SeverityAtLeast(SeverityOf(e), s.notifyMinSeverity)
  <2>1. s.notifyMinSeverity \in Severity /\ t.notifyMinSeverity \in Severity
    BY DEF SettingsRow
  <2>2. /\ Rank(s.notifyMinSeverity) \in Nat /\ Rank(t.notifyMinSeverity) \in Nat
        /\ Rank(t.notifyMinSeverity) >= Rank(s.notifyMinSeverity)
    BY <2>1, SeverityRanks DEF Quieter, SeverityAtLeast
  <2>3. Rank(SeverityOf(e)) \in Nat
    BY SeverityType
  <2>4. QED
    BY <2>2, <2>3 DEF SeverityAtLeast
<1>3. ShouldNotify(e, t) => ShouldNotify(e, s)
  BY <1>1, <1>2 DEF ShouldNotify
<1>4. RequiresAck(e, t) => RequiresAck(e, s)
  BY <1>1, <1>3 DEF RequiresAck
<1>5. VoiceEligible(e, t) => VoiceEligible(e, s)
  BY <1>1, QuieterStages DEF VoiceEligible
<1>6. QED
  BY <1>3, <1>4, <1>5

-----------------------------------------------------------------------------
(* The rows keep their columns and the columns their types.                *)
InputInv ==
  /\ email \in Email
  /\ userSettings \in SettingsRow

LEMMA InputInit == ChangesInit => InputInv
  BY InputsAssumption DEF InputInv, ChangesInit

(* One column of the settings changes, or two when calls are switched on.  *)
LEMMA SwitchType ==
  ASSUME InputInv, NEW key \in Switches, NEW on \in BOOLEAN, Switch(key, on)
  PROVE  userSettings' \in SettingsRow
<1>1. userSettings \in SettingsRow
  BY DEF InputInv
<1>2. CASE key = "voiceEnabled" /\ on
  BY <1>1, <1>2 DEF Switch, SettingsRow
<1>3. CASE userSettings' = [userSettings EXCEPT ![key] = on]
  <2>1. CASE key = "notifyDashboard"
    BY <1>1, <1>3, <2>1 DEF SettingsRow
  <2>2. CASE key = "notifySlack"
    BY <1>1, <1>3, <2>2 DEF SettingsRow
  <2>3. CASE key = "notifyWhatsapp"
    BY <1>1, <1>3, <2>3 DEF SettingsRow
  <2>4. CASE key = "notifyVoice"
    BY <1>1, <1>3, <2>4 DEF SettingsRow
  <2>5. CASE key = "escalationEnabled"
    BY <1>1, <1>3, <2>5 DEF SettingsRow
  <2>6. CASE key = "voiceEnabled"
    BY <1>1, <1>3, <2>6 DEF SettingsRow
  <2>7. QED
    BY <2>1, <2>2, <2>3, <2>4, <2>5, <2>6 DEF Switches
<1>4. QED
  BY <1>2, <1>3 DEF Switch

LEMMA ChooseType ==
  ASSUME InputInv, Choose
  PROVE  userSettings' \in SettingsRow
<1>1. userSettings \in SettingsRow
  BY DEF InputInv
<1>2. \/ \E sev \in Severity : userSettings' = [userSettings EXCEPT !.notifyMinSeverity = sev]
      \/ \E m \in 0..2 : userSettings' = [userSettings EXCEPT !.escalationMaxStage = m]
      \/ \E events \in SUBSET VoiceEvents :
           userSettings' = [userSettings EXCEPT !.voiceCriticalEvents = events]
      \/ \E cats \in SUBSET (Bulk \cup {"OTHER"}) :
           userSettings' = [userSettings EXCEPT !.cleanupCategories = cats]
  BY InputsAssumption DEF Choose
<1>3. QED
  BY <1>1, <1>2 DEF SettingsRow

(* An analysis that is found more urgent or is confirmed keeps what the    *)
(* email is about.                                                         *)
LEMMA EmailChanges ==
  ASSUME InputInv, FindDeadline \/ FindAction \/ Confirm
  PROVE  /\ email' \in Email /\ UNCHANGED userSettings
         /\ email'.category = email.category /\ email'.subCategory = email.subCategory
<1>1. email \in Email
  BY DEF InputInv
<1>2. CASE FindDeadline
  <2>1. PICK d \in Int : email' = [email EXCEPT !.deadline = d]
    BY <1>2, InputsAssumption DEF FindDeadline
  <2>2. QED
    BY <1>1, <1>2, <2>1 DEF FindDeadline, Email
<1>3. CASE FindAction
  BY <1>1, <1>3 DEF FindAction, Email
<1>4. CASE Confirm
  BY <1>1, <1>4 DEF Confirm, Email
<1>5. QED
  BY <1>2, <1>3, <1>4

LEMMA InputStep == InputInv /\ [ChangesNext]_inputs => InputInv'
<1> SUFFICES ASSUME InputInv, [ChangesNext]_inputs PROVE InputInv'
  OBVIOUS
<1>1. email \in Email /\ userSettings \in SettingsRow
  BY DEF InputInv
<1>2. ASSUME NEW key \in Switches, NEW on \in BOOLEAN, Switch(key, on)
      PROVE  InputInv'
  <2>1. userSettings' \in SettingsRow /\ email' = email
    BY <1>2, SwitchType DEF Switch
  <2>2. QED
    BY <1>1, <2>1 DEF InputInv
<1>3. CASE Choose
  <2>1. userSettings' \in SettingsRow /\ email' = email
    BY <1>3, ChooseType DEF Choose
  <2>2. QED
    BY <1>1, <2>1 DEF InputInv
<1>4. CASE FindDeadline \/ FindAction \/ Confirm
  BY <1>1, <1>4, EmailChanges DEF InputInv
<1>5. CASE UNCHANGED inputs
  BY <1>1, <1>5 DEF InputInv, inputs
<1>6. QED
  BY <1>2, <1>3, <1>4, <1>5 DEF ChangesNext

(* AskingForLess, for every email and every settings: no single change of  *)
(* the settings that asks for less brings a notification, a ladder, a      *)
(* stage or a call that was not due before.                                *)
THEOREM LessBringsNoMore == ChangesSpec => AskingForLess
<1>1. ASSUME InputInv, InputInv', Quieter(userSettings, userSettings'), UNCHANGED email
      PROVE  /\ After.shouldNotify => Before.shouldNotify
             /\ After.requiresAck => Before.requiresAck
             /\ After.enabled => Before.enabled
             /\ After.voiceEligible => Before.voiceEligible
             /\ After.stages \subseteq Before.stages
  <2>1. userSettings \in SettingsRow /\ userSettings' \in SettingsRow
    BY <1>1 DEF InputInv
  <2>2. /\ ShouldNotify(email, userSettings') => ShouldNotify(email, userSettings)
        /\ RequiresAck(email, userSettings') => RequiresAck(email, userSettings)
        /\ VoiceEligible(email, userSettings') => VoiceEligible(email, userSettings)
        /\ Stages(userSettings') \subseteq Stages(userSettings)
    BY <1>1, <2>1, QuieterDecision, QuieterStages
  <2>3. RequiresAck(email, userSettings) => userSettings.escalationEnabled
    BY DEF RequiresAck
  <2>4. QED
    BY <1>1, <2>2, <2>3 DEF After, Before, Decide
<1>2. InputInv /\ InputInv' =>
        [ Quieter(userSettings, userSettings') /\ UNCHANGED email =>
            /\ After.shouldNotify => Before.shouldNotify
            /\ After.requiresAck => Before.requiresAck
            /\ After.enabled => Before.enabled
            /\ After.voiceEligible => Before.voiceEligible
            /\ After.stages \subseteq Before.stages ]_inputs
  BY <1>1
<1>3. QED
  BY <1>2, InputInit, InputStep, PTL DEF ChangesSpec, AskingForLess

-----------------------------------------------------------------------------
(* The severity never falls when the pressure grows.                       *)
LEMMA SeverityHears ==
  ASSUME NEW e \in Email, NEW f \in Email, MoreUrgent(e, f),
         f.category = e.category, f.subCategory = e.subCategory
  PROVE  /\ \A days \in Int : Within(e, days) => Within(f, days)
         /\ Rank(SeverityOf(f)) >= Rank(SeverityOf(e))
<1>1. /\ f.needsReview = e.needsReview
      /\ e.requiresAction => f.requiresAction
      /\ e.deadline = NoDeadline \/ (f.deadline # NoDeadline /\ f.deadline <= e.deadline)
      /\ e.deadline \in Int \cup {NoDeadline} /\ f.deadline \in Int \cup {NoDeadline}
  BY DEF MoreUrgent, Email
<1>2. \A days \in Int : Within(e, days) => Within(f, days)
  <2> SUFFICES ASSUME NEW days \in Int, Within(e, days) PROVE Within(f, days)
    OBVIOUS
  <2>1. e.deadline # NoDeadline /\ e.deadline <= days
    BY DEF Within
  <2>2. e.deadline \in Int /\ f.deadline \in Int /\ f.deadline <= e.deadline
        /\ f.deadline # NoDeadline
    BY <1>1, <2>1
  <2>3. QED
    BY <2>1, <2>2 DEF Within
<1>3. Within(e, 7) => Within(f, 7)
  BY <1>2
<1> HIDE <1>2
<1>4. \/ SeverityForJobEvent(f) = SeverityForJobEvent(e)
      \/ SeverityForJobEvent(e) = "HIGH" /\ SeverityForJobEvent(f) = "CRITICAL"
      \/ SeverityForJobEvent(e) = "MEDIUM" /\ SeverityForJobEvent(f) = "HIGH"
      \/ SeverityForJobEvent(e) = "LOW" /\ SeverityForJobEvent(f) = "MEDIUM"
  BY <1>1, <1>3 DEF SeverityForJobEvent
<1>5. SeverityOf(f) = SeverityOf(e)
      \/ (/\ SeverityOf(e) = SeverityForJobEvent(e)
          /\ SeverityOf(f) = SeverityForJobEvent(f))
  BY <1>1 DEF SeverityOf
<1>6. /\ Rank(SeverityOf(e)) \in Int
      /\ Rank(SeverityOf(f)) \in Int
  BY SeverityType
<1>7. Rank(SeverityOf(f)) >= Rank(SeverityOf(e))
  BY <1>4, <1>5, <1>6, SeverityRanks
<1>8. QED
  BY <1>2, <1>7

LEMMA UrgentDecision ==
  ASSUME NEW e \in Email, NEW f \in Email, MoreUrgent(e, f),
         f.category = e.category, f.subCategory = e.subCategory,
         NEW s \in SettingsRow
  PROVE  /\ ShouldNotify(e, s) => ShouldNotify(f, s)
         /\ RequiresAck(e, s) => RequiresAck(f, s)
         /\ VoiceEligible(e, s) => VoiceEligible(f, s)
<1>1. /\ f.needsReview = e.needsReview
      /\ e.requiresAction => f.requiresAction
      /\ Within(e, 3) => Within(f, 3)
      /\ Rank(SeverityOf(f)) >= Rank(SeverityOf(e))
  BY SeverityHears DEF MoreUrgent
<1>2. ASSUME NEW minimum \in Severity,
             SeverityAtLeast(SeverityOf(e), minimum)
      PROVE  SeverityAtLeast(SeverityOf(f), minimum)
  <2>1. /\ Rank(minimum) \in Int
        /\ Rank(SeverityOf(e)) \in Int
        /\ Rank(SeverityOf(f)) \in Int
    BY SeverityRanks, SeverityType
  <2>2. QED
    BY <1>1, <1>2, <2>1 DEF SeverityAtLeast
<1>3. NotificationTypeFor(e) # "NONE" => NotificationTypeFor(f) # "NONE"
  BY <1>1 DEF NotificationTypeFor
<1>4. ShouldNotify(e, s) => ShouldNotify(f, s)
  BY <1>1, <1>2, <1>3 DEF ShouldNotify, SettingsRow
<1>5. /\ SeverityOf(e) = "CRITICAL" => SeverityOf(f) = "CRITICAL"
      /\ SeverityOf(e) = "HIGH" => SeverityOf(f) \in {"HIGH", "CRITICAL"}
  BY <1>1, SeverityType, SeverityRanks
<1>6. RequiresAck(e, s) => RequiresAck(f, s)
  BY <1>1, <1>4, <1>5 DEF RequiresAck
<1>7. VoiceEventKeyFor(e) # "NONE"
        => VoiceEventKeyFor(f) = VoiceEventKeyFor(e)
  BY <1>1 DEF VoiceEventKeyFor
<1>8. VoiceEligible(e, s) => VoiceEligible(f, s)
  BY <1>2, <1>7, SeverityRanks DEF VoiceEligible
<1>9. QED
  BY <1>4, <1>6, <1>8

(* PressureIsHeard, for every email and every settings: a nearer deadline, *)
(* even one that has passed, or a required action takes nothing back.      *)
THEOREM PressureNeverQuiets == ChangesSpec => PressureIsHeard
<1>1. ASSUME InputInv, [ChangesNext]_inputs,
             MoreUrgent(email, email'), UNCHANGED userSettings
      PROVE  /\ Rank(After.severity) >= Rank(Before.severity)
             /\ Before.shouldNotify => After.shouldNotify
             /\ Before.requiresAck => After.requiresAck
             /\ Before.voiceEligible => After.voiceEligible
  <2>1. email \in Email /\ userSettings \in SettingsRow
    BY <1>1 DEF InputInv
  <2>2. /\ email' \in Email
        /\ email'.category = email.category /\ email'.subCategory = email.subCategory
    BY <1>1, <2>1, EmailChanges DEF ChangesNext, inputs, Switch, Choose
  <2>3. /\ Rank(SeverityOf(email')) >= Rank(SeverityOf(email))
        /\ ShouldNotify(email, userSettings) => ShouldNotify(email', userSettings)
        /\ RequiresAck(email, userSettings) => RequiresAck(email', userSettings)
        /\ VoiceEligible(email, userSettings) => VoiceEligible(email', userSettings)
    BY <1>1, <2>1, <2>2, SeverityHears, UrgentDecision
  <2>4. QED
    BY <1>1, <2>3 DEF After, Before, Decide
<1>2. InputInv /\ [ChangesNext]_inputs =>
        [ MoreUrgent(email, email') /\ UNCHANGED userSettings =>
            /\ Rank(After.severity) >= Rank(Before.severity)
            /\ Before.shouldNotify => After.shouldNotify
            /\ Before.requiresAck => After.requiresAck
            /\ Before.voiceEligible => After.voiceEligible ]_inputs
  BY <1>1
<1>3. QED
  BY <1>2, InputInit, InputStep, PTL DEF ChangesSpec, PressureIsHeard

=============================================================================
