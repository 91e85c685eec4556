------------------------- MODULE AccountDeletionProofs -------------------------
(***************************************************************************)
(* Theorems about AccountDeletion, for every set of jobs, workers and      *)
(* deletion requests and every bound.                                      *)
(***************************************************************************)
EXTENDS AccountDeletion, TLAPS

-----------------------------------------------------------------------------
(* Type correctness.                                                       *)

LEMMA States ==
  /\ Len(JobStates) = 6 /\ DOMAIN JobStates = 1..6
  /\ JobStates[1] = "waiting" /\ JobStates[2] = "delayed" /\ JobStates[3] = "active"
  /\ JobStates[4] = "failed" /\ JobStates[5] = "completed" /\ JobStates[6] = "waiting"
  BY DEF JobStates

LEMMA TypeInit == Init => TypeOK
<1> SUFFICES ASSUME Init PROVE TypeOK
  OBVIOUS
<1>1. FlagsOK
  BY DEF Init, FlagsOK
<1>2. QueueOK
  BY DEF Init, QueueOK, Idle, WorkerState, JobState
<1>3. DeletionsOK
  BY States DEF Init, DeletionsOK, NoAsk, DeletionState
<1>4. QED
  BY <1>1, <1>2, <1>3 DEF TypeOK

(* An add leaves the queue well formed.                                    *)
LEMMA AddType ==
  ASSUME QueueOK, Add
  PROVE  /\ job' \in [Job -> JobState] /\ stirred' \subseteq Job
         /\ used' \in [adds : Nat, faults : Nat]
         /\ \A j \in Job : job[j] = "active" => job'[j] = "active"
  BY DEF QueueOK, Add, Stir, Fault, JobState

LEMMA ConsentType ==
  ASSUME TypeOK, Consent \/ RequestReads \/ RequestAdds
  PROVE  TypeOK'
<1>1. FlagsOK /\ QueueOK /\ DeletionsOK
  BY DEF TypeOK
<1>2. CASE StartConsent \/ ExchangeCode \/ StoreTokens \/ RequestReads
  <2>1. QueueOK' /\ DeletionsOK'
    BY <1>1, <1>2 DEF StartConsent, ExchangeCode, StoreTokens, RequestReads, QueueOK, DeletionsOK
  <2>2. FlagsOK'
    BY <1>1, <1>2 DEF StartConsent, ExchangeCode, StoreTokens, RequestReads, FlagsOK
  <2>3. QED
    BY <2>1, <2>2 DEF TypeOK
<1>3. CASE EnqueueInitialScan \/ RequestAdds
  <2>1. Add /\ UNCHANGED << user, account, tokens, granted, unseen, worker, del, receipt, ahead >>
    BY <1>3 DEF EnqueueInitialScan, RequestAdds
  <2>2. FlagsOK'
    BY <1>1, <1>3 DEF EnqueueInitialScan, RequestAdds, FlagsOK
  <2>3. QueueOK' /\ DeletionsOK'
    BY <1>1, <2>1, AddType DEF QueueOK, DeletionsOK, WorkerState
  <2>4. QED
    BY <2>2, <2>3 DEF TypeOK
<1>4. QED
  BY <1>2, <1>3 DEF Consent

(* A worker's step changes its own job only.                               *)
LEMMA WorkType ==
  ASSUME TypeOK, NEW w \in Workers, Works(w) \/ WorkerDies(w)
  PROVE  TypeOK'
<1>1. FlagsOK /\ QueueOK /\ DeletionsOK
  BY DEF TypeOK
<1>2. FlagsOK' /\ DeletionsOK'
  BY <1>1 DEF Works, TakeJob, UserStillExists, WorkFails, WorkStores, HandOver, Completes, WorkerDies,
              FlagsOK, DeletionsOK
<1>3. worker[w] \in WorkerState
  BY <1>1 DEF QueueOK
<1>4. ASSUME NEW j \in Job, TakeJob(w, j) PROVE QueueOK'
  BY <1>1, <1>4, JobAssumption DEF TakeJob, QueueOK, Stir, JobState, WorkerState, Idle
<1>5. ASSUME NEW next \in JobState, worker[w].pc # "idle", worker' = [worker EXCEPT ![w] = Idle],
             job' = [job EXCEPT ![worker[w].job] = next], UNCHANGED << stirred, ahead >>,
             used' \in [adds : Nat, faults : Nat]
      PROVE  QueueOK'
  BY <1>1, <1>3, <1>5, JobAssumption DEF QueueOK, WorkerState, Idle
<1>6. ASSUME NEW pc \in {"work", "handover", "ending"}, worker[w].pc # "idle",
             worker' = [worker EXCEPT ![w].pc = pc], UNCHANGED ahead,
             job' \in [Job -> JobState], stirred' \subseteq Job, used' \in [adds : Nat, faults : Nat],
             \A j \in Job : job[j] = "active" => job'[j] = "active"
      PROVE  QueueOK'
  BY <1>1, <1>3, <1>6, JobAssumption DEF QueueOK, WorkerState
<1>7. ASSUME UserStillExists(w) PROVE QueueOK'
  BY <1>1, <1>5, <1>6, <1>7 DEF UserStillExists, QueueOK, JobState
<1>8. ASSUME WorkFails(w) PROVE QueueOK'
  <2>1. used' \in [adds : Nat, faults : Nat]
    BY <1>1, <1>8 DEF WorkFails, QueueOK, Fault
  <2>2. PICK next \in {"delayed", "failed", "completed"} : job' = [job EXCEPT ![worker[w].job] = next]
    BY <1>8 DEF WorkFails
  <2>3. next \in JobState
    BY DEF JobState
  <2>4. QED
    BY <1>5, <1>8, <2>1, <2>2, <2>3 DEF WorkFails
<1>9. ASSUME WorkStores(w) PROVE QueueOK'
  BY <1>1, <1>6, <1>9 DEF WorkStores, QueueOK
<1>10. ASSUME HandOver(w) PROVE QueueOK'
  BY <1>1, <1>6, <1>10, AddType DEF HandOver, QueueOK
<1>11. ASSUME Completes(w) PROVE QueueOK'
  BY <1>1, <1>5, <1>11 DEF Completes, QueueOK, JobState
<1>12. ASSUME WorkerDies(w) PROVE QueueOK'
  BY <1>1, <1>3, <1>5, <1>12 DEF WorkerDies, QueueOK, JobState, Fault, Idle, WorkerState
<1>13. QED
  BY <1>2, <1>4, <1>7, <1>8, <1>9, <1>10, <1>11, <1>12 DEF TypeOK, Works

(* A step of a deletion touches its own record, and the queue only by      *)
(* taking jobs out that no worker has.                                     *)
LEMMA DeletionType ==
  ASSUME TypeOK, NEW d \in Deletions, Confirm(d) \/ Obliterate(d) \/ DeletionDies(d)
  PROVE  TypeOK'
<1>1. FlagsOK /\ QueueOK /\ DeletionsOK
  BY DEF TypeOK
<1>2. del[d] \in DeletionState /\ (del[d].found # {} => del[d].state \in 1..6)
  BY <1>1, States DEF DeletionsOK
<1>3. ASSUME NEW pc \in {"list", "revoke", "clear", "receipt", "delete", "complete", "done", "failed"},
             Goto(d, pc)
      PROVE  DeletionsOK'
  BY <1>1, <1>2, <1>3, States DEF Goto, DeletionsOK, DeletionState
<1>9. ASSUME NEW state \in 1..7, NEW found \in SUBSET Job, found # {} => state \in 1..6,
             del' = Purging(d, state, found)
      PROVE  DeletionsOK'
  BY <1>1, <1>2, <1>9, States DEF Purging, DeletionsOK, DeletionState
<1>4. ASSUME NEW found \in SUBSET Job, del[d].state \in 1..6, del' = FoundIn(d, found)
      PROVE  DeletionsOK'
  <2> DEFINE next == IF found = {} THEN del[d].state + 1 ELSE del[d].state
  <2>1. next \in 1..7 /\ (found # {} => next \in 1..6)
    BY <1>4
  <2>2. del' = Purging(d, next, found)
    BY <1>4 DEF FoundIn
  <2> HIDE DEF next
  <2>3. QED
    BY <1>9, <2>1, <2>2
<1>5. ASSUME UNCHANGED << job, worker >>, stirred' \subseteq Job, ahead' \subseteq Workers,
             used' \in [adds : Nat, faults : Nat]
      PROVE  QueueOK'
  BY <1>1, <1>5 DEF QueueOK
<1>6. used \in [adds : Nat, faults : Nat] /\ stirred \subseteq Job /\ ahead \subseteq Workers
  BY <1>1 DEF QueueOK
<1>7. Fault => used' \in [adds : Nat, faults : Nat]
  BY <1>6 DEF Fault
<1>10. CASE Confirm(d)
  BY <1>1, <1>3, <1>5, <1>6, <1>10 DEF Confirm, FlagsOK, TypeOK
<1>11. CASE ListAccounts(d)
  BY <1>1, <1>3, <1>5, <1>6, <1>11 DEF ListAccounts, FlagsOK, TypeOK
<1>12. CASE Revoke(d)
  <2>1. FlagsOK' /\ QueueOK'
    BY <1>1, <1>5, <1>6, <1>7, <1>12 DEF Revoke, FlagsOK
  <2>2. DeletionsOK'
    BY <1>1, <1>2, <1>3, <1>12, States DEF Revoke, DeletionsOK, DeletionState
  <2>3. QED
    BY <2>1, <2>2 DEF TypeOK
<1>13. CASE ClearTokens(d)
  <2>1. FlagsOK' /\ QueueOK'
    BY <1>1, <1>5, <1>6, <1>13 DEF ClearTokens, FlagsOK
  <2>2. DeletionsOK'
    BY <1>1, <1>2, <1>13, States DEF ClearTokens, DeletionsOK, DeletionState, FlagsOK
  <2>3. QED
    BY <2>1, <2>2 DEF TypeOK
<1>14. CASE WriteReceipt(d)
  <2>1. FlagsOK' /\ QueueOK'
    BY <1>1, <1>2, <1>5, <1>6, <1>14 DEF WriteReceipt, FlagsOK, DeletionState
  <2>2. DeletionsOK'
    BY <1>3, <1>14 DEF WriteReceipt
  <2>3. QED
    BY <2>1, <2>2 DEF TypeOK
<1>15. CASE DeleteUser(d)
  <2>1. FlagsOK' /\ UNCHANGED << job, worker, used >> /\ (Goto(d, "complete") \/ Goto(d, "failed"))
    BY <1>1, <1>15 DEF DeleteUser, FlagsOK
  <2>2. stirred' \subseteq Job /\ ahead' \subseteq Workers
    BY <1>6, <1>15 DEF DeleteUser, Active
  <2>3. DeletionsOK'
    BY <1>3, <2>1
  <2>4. QED
    BY <1>5, <1>6, <2>1, <2>2, <2>3 DEF TypeOK
<1>16. CASE CompleteReceipt(d)
  <2>1. FlagsOK'
    BY <1>1, <1>16 DEF CompleteReceipt, FlagsOK
  <2>2. QueueOK'
    BY <1>5, <1>6, <1>7, <1>16 DEF CompleteReceipt
  <2>3. DeletionsOK'
    BY <1>9, <1>16 DEF CompleteReceipt
  <2>4. QED
    BY <2>1, <2>2, <2>3 DEF TypeOK
<1>17. CASE PurgeReads(d)
  <2>1. FlagsOK' /\ QueueOK'
    BY <1>1, <1>5, <1>6, <1>7, <1>17 DEF PurgeReads, FlagsOK
  <2>2. DeletionsOK'
    BY <1>4, <1>17, States DEF PurgeReads
  <2>3. QED
    BY <2>1, <2>2 DEF TypeOK
<1>18. ASSUME NEW j \in Job, PurgeRemoves(d, j) PROVE TypeOK'
  <2>1. FlagsOK'
    BY <1>1, <1>18 DEF PurgeRemoves, FlagsOK
  <2>2. QueueOK'
    BY <1>1, <1>18 DEF PurgeRemoves, QueueOK, JobState, WorkerState
  <2>3. DeletionsOK'
    BY <1>2, <1>4, <1>18, States DEF PurgeRemoves, DeletionState
  <2>4. QED
    BY <2>1, <2>2, <2>3 DEF TypeOK
<1>19. CASE PurgeEnds(d)
  BY <1>1, <1>3, <1>5, <1>6, <1>19 DEF PurgeEnds, FlagsOK, TypeOK
<1>20. CASE DeletionDies(d)
  BY <1>1, <1>3, <1>5, <1>6, <1>7, <1>20 DEF DeletionDies, FlagsOK, TypeOK
<1>21. QED
  BY <1>10, <1>11, <1>12, <1>13, <1>14, <1>15, <1>16, <1>17, <1>18, <1>19, <1>20 DEF Obliterate

LEMMA PromoteType ==
  ASSUME TypeOK, NEW j \in Job, Promote(j)
  PROVE  TypeOK'
<1>1. FlagsOK /\ QueueOK /\ DeletionsOK
  BY DEF TypeOK
<1>2. FlagsOK' /\ DeletionsOK'
  BY <1>1 DEF Promote, FlagsOK, DeletionsOK
<1>3. QueueOK'
  BY <1>1 DEF Promote, QueueOK, JobState, WorkerState
<1>4. QED
  BY <1>2, <1>3 DEF TypeOK

(* Every value has its type, a job is held by one worker at most, and      *)
(* no account row is left of a user whose row is gone                      *)
(* (deletion.service.ts, obliterate, and the schema's cascades).           *)
THEOREM TypeCorrect == Spec => []TypeOK
<1>1. ASSUME TypeOK, [Next]_vars PROVE TypeOK'
  <2>1. CASE UNCHANGED vars
    BY <1>1, <2>1 DEF vars, TypeOK, FlagsOK, QueueOK, DeletionsOK
  <2>2. CASE Next
    BY <1>1, <2>2, ConsentType, WorkType, PromoteType, DeletionType DEF Next
  <2>3. QED
    BY <1>1, <2>1, <2>2
<1>2. QED
  BY TypeInit, <1>1, PTL DEF Spec

-----------------------------------------------------------------------------
(* Nobody works for a user who is gone.                                    *)

Busy == {"work", "handover", "ending"}

(* A step of a worker makes it busy only while the user is there.          *)
LEMMA BusyStep ==
  ASSUME TypeOK, NEW w \in Workers, Works(w) \/ WorkerDies(w)
  PROVE  /\ UNCHANGED << user, ahead >>
         /\ ~user => \A v \in Workers : worker'[v].pc \in Busy => worker[v].pc \in Busy
<1>1. worker \in [Workers -> WorkerState]
  BY DEF TypeOK, QueueOK
<1>2. CASE \E j \in Job : TakeJob(w, j)
  BY <1>1, <1>2 DEF TakeJob, Busy
<1>3. CASE UserStillExists(w)
  BY <1>1, <1>3 DEF UserStillExists, Busy, Idle
<1>4. CASE WorkFails(w)
  BY <1>1, <1>4 DEF WorkFails, Busy, Idle
<1>5. CASE WorkStores(w)
  BY <1>1, <1>5 DEF WorkStores, Busy
<1>6. CASE HandOver(w)
  BY <1>1, <1>6 DEF HandOver, Busy, WorkerState
<1>7. CASE Completes(w)
  BY <1>1, <1>7 DEF Completes, Busy, Idle
<1>8. CASE WorkerDies(w)
  BY <1>1, <1>8 DEF WorkerDies, Busy, Idle
<1>9. QED
  BY <1>2, <1>3, <1>4, <1>5, <1>6, <1>7, <1>8 DEF Works

(* Everybody else leaves the workers alone; the row goes in DeleteUser,    *)
(* which notes who is past the guard.                                      *)
LEMMA BusyElsewhere ==
  ASSUME Consent \/ RequestReads \/ RequestAdds
           \/ (\E j \in Job : Promote(j))
           \/ (\E d \in Deletions : Confirm(d) \/ Obliterate(d) \/ DeletionDies(d))
  PROVE  /\ UNCHANGED worker
         /\ \/ UNCHANGED << user, ahead >>
            \/ ahead' = { w \in Workers : worker[w].pc \in Busy }
<1>1. CASE Consent \/ RequestReads \/ RequestAdds
  BY <1>1 DEF Consent, StartConsent, ExchangeCode, StoreTokens, EnqueueInitialScan, RequestReads, RequestAdds
<1>2. CASE \E j \in Job : Promote(j)
  BY <1>2 DEF Promote
<1>3. CASE \E d \in Deletions : Confirm(d) \/ Obliterate(d) \/ DeletionDies(d)
  <2>1. PICK d \in Deletions : Confirm(d) \/ Obliterate(d) \/ DeletionDies(d)
    BY <1>3
  <2>2. CASE DeleteUser(d)
    BY <2>2 DEF DeleteUser, Busy
  <2>3. CASE Confirm(d) \/ ListAccounts(d) \/ Revoke(d) \/ ClearTokens(d) \/ WriteReceipt(d)
    BY <2>3 DEF Confirm, ListAccounts, Revoke, ClearTokens, WriteReceipt
  <2>4. CASE CompleteReceipt(d) \/ PurgeReads(d) \/ (\E j \in Job : PurgeRemoves(d, j)) \/ PurgeEnds(d)
               \/ DeletionDies(d)
    BY <2>4 DEF CompleteReceipt, PurgeReads, PurgeRemoves, PurgeEnds, DeletionDies
  <2>5. QED
    BY <2>1, <2>2, <2>3, <2>4 DEF Obliterate
<1>4. QED
  BY <1>1, <1>2, <1>3

(* A worker that reaches the database for a user whose row is gone was     *)
(* past userStillExists (account/worker-guard.ts) when the row was         *)
(* deleted: the guards of the workers leave no other way.                  *)
THEOREM NobodyStarts == Spec => []OnlyStragglers
<1>1. Init => OnlyStragglers
  BY DEF Init, OnlyStragglers
<1>2. ASSUME TypeOK, OnlyStragglers, [Next]_vars PROVE OnlyStragglers'
  <2>1. CASE UNCHANGED vars
    BY <1>2, <2>1 DEF vars, OnlyStragglers
  <2>2. CASE \E w \in Workers : Works(w) \/ WorkerDies(w)
    BY <1>2, <2>2, BusyStep DEF OnlyStragglers, Busy
  <2>3. CASE Consent \/ RequestReads \/ RequestAdds
               \/ (\E j \in Job : Promote(j))
               \/ (\E d \in Deletions : Confirm(d) \/ Obliterate(d) \/ DeletionDies(d))
    BY <1>2, <2>3, BusyElsewhere DEF OnlyStragglers, Busy
  <2>4. QED
    BY <1>2, <2>1, <2>2, <2>3 DEF Next
<1>3. QED
  BY <1>1, <1>2, TypeCorrect, PTL DEF Spec

-----------------------------------------------------------------------------
(* The receipt.  Why a grant that outlives a deletion which reports it     *)
(* revoked must come from a consent the deletion could not see: while the  *)
(* user is there, a grant without an account is one (Seen), so both a      *)
(* deletion that finds no account and one whose revocation succeeds leave  *)
(* nothing else; from then on the record of the deletion, and what the     *)
(* receipt repeats of it, stay right.                                      *)

Covered == granted => unseen
Seen    == user => Covered \/ account

Before == {"clear", "receipt", "delete"}
After  == {"complete", "purge", "done"}

DeletionTold(d) ==
  /\ del[d].pc \in Before => ((user /\ del[d].revoked) => Covered)
  /\ del[d].pc \in After => ~user /\ (del[d].revoked => Covered)
  /\ del[d].pc \in After \cup {"delete"} => receipt[d].there /\ receipt[d].revoked = del[d].revoked

ReceiptTold(d) == receipt[d].completed => ~user /\ (receipt[d].revoked => Covered)

ReceiptInv ==
  /\ Seen
  /\ ~user => \E d \in Deletions : receipt[d].there
  /\ \A d \in Deletions : DeletionTold(d) /\ ReceiptTold(d)

LEMMA SeenInit == Init => ReceiptInv
  BY DEF Init, ReceiptInv, Seen, Covered, DeletionTold, ReceiptTold, NoAsk, Before, After

(* Nobody but a deletion touches the row, the deletions and the receipts;  *)
(* a grant shows up without being seen only by a callback that stores its  *)
(* tokens before any deletion has listed the accounts.                     *)
LEMMA OthersTell ==
  ASSUME TypeOK, ReceiptInv,
         \/ Consent \/ RequestReads \/ RequestAdds
         \/ (\E w \in Workers : Works(w) \/ WorkerDies(w))
         \/ (\E j \in Job : Promote(j))
  PROVE  ReceiptInv'
<1>1. UNCHANGED << user, del, receipt >>
  BY DEF Consent, StartConsent, ExchangeCode, StoreTokens, EnqueueInitialScan, RequestReads, RequestAdds, Works,
         TakeJob, UserStillExists, WorkFails, WorkStores, HandOver, Completes, WorkerDies, Promote
<1>2. Seen' /\ (Listed \/ ~user => (Covered => Covered'))
  <2>1. CASE StoreTokens
    BY <2>1 DEF StoreTokens, Seen, Covered
  <2>2. CASE ExchangeCode
    BY <2>2 DEF ExchangeCode, Seen, Covered
  <2>3. CASE \/ StartConsent \/ EnqueueInitialScan \/ RequestReads \/ RequestAdds
             \/ (\E w \in Workers : Works(w) \/ WorkerDies(w))
             \/ (\E j \in Job : Promote(j))
    <3>1. UNCHANGED << user, account, granted, unseen >>
      BY <2>3 DEF StartConsent, EnqueueInitialScan, RequestReads, RequestAdds, Works,
         TakeJob, UserStillExists, WorkFails, WorkStores, HandOver, Completes, WorkerDies, Promote
    <3>2. QED
      BY <3>1 DEF ReceiptInv, Seen, Covered
  <2>4. QED
    BY <2>1, <2>2, <2>3 DEF Consent
<1>3. ASSUME NEW d \in Deletions PROVE DeletionTold(d)' /\ ReceiptTold(d)'
  <2>1. DeletionTold(d) /\ ReceiptTold(d)
    BY DEF ReceiptInv
  <2>2. del[d].pc \in Before => Listed
    BY DEF Before, Listed
  <2>3. QED
    BY <1>1, <1>2, <2>1, <2>2 DEF DeletionTold, ReceiptTold
<1>4. QED
  BY <1>1, <1>2, <1>3 DEF ReceiptInv

LEMMA DeletionTells ==
  ASSUME TypeOK, ReceiptInv, NEW d \in Deletions, Confirm(d) \/ Obliterate(d) \/ DeletionDies(d)
  PROVE  ReceiptInv'
<1>1. /\ del \in [Deletions -> DeletionState]
      /\ receipt \in [Deletions -> [there : BOOLEAN, revoked : BOOLEAN, completed : BOOLEAN]]
      /\ del[d] \in DeletionState
  BY DEF TypeOK, DeletionsOK, FlagsOK
<1>2. Seen /\ \A e \in Deletions : DeletionTold(e) /\ ReceiptTold(e)
  BY DEF ReceiptInv
<1>3. DeletionTold(d) /\ ReceiptTold(d)
  BY <1>2
<1> DEFINE Frame == /\ \A e \in Deletions \ {d} : del'[e] = del[e] /\ receipt'[e] = receipt[e]
                    /\ user' => user
                    /\ Covered => Covered'
                    /\ Seen'
                    /\ (receipt[d].there => receipt'[d].there)
                    /\ (user' = user \/ receipt'[d].there)
<1>4. ASSUME Frame, DeletionTold(d)', ReceiptTold(d)' PROVE ReceiptInv'
  <2>1. ASSUME NEW e \in Deletions \ {d} PROVE DeletionTold(e)' /\ ReceiptTold(e)'
    BY <1>2, <1>4, <2>1 DEF DeletionTold, ReceiptTold
  <2>2. ~user' => \E e \in Deletions : receipt'[e].there
    BY <1>4 DEF ReceiptInv
  <2>3. QED
    BY <1>4, <2>1, <2>2 DEF ReceiptInv
<1>5. CASE Confirm(d) \/ ListAccounts(d)
  <2>1. Frame /\ ReceiptTold(d)'
    BY <1>1, <1>2, <1>3, <1>5 DEF Confirm, ListAccounts, Goto, Seen, Covered, ReceiptTold
  <2>2. DeletionTold(d)'
    <3>1. \/ del'[d].pc = "receipt" /\ ~account
          \/ del'[d].pc \in {"list", "revoke"}
      <4>1. CASE Confirm(d)
        BY <1>1, <4>1 DEF Confirm, Goto
      <4>2. CASE ListAccounts(d) /\ account
        BY <1>1, <4>2 DEF ListAccounts, Goto
      <4>3. CASE ListAccounts(d) /\ ~account
        BY <1>1, <4>3 DEF ListAccounts, Goto
      <4>4. QED
        BY <1>5, <4>1, <4>2, <4>3
    <3>2. UNCHANGED << user, account, granted, unseen, receipt >>
      BY <1>5 DEF Confirm, ListAccounts
    <3>3. QED
      BY <1>2, <3>1, <3>2 DEF Seen, Covered, DeletionTold, Before, After
  <2>3. QED
    BY <1>4, <2>1, <2>2
<1>6. CASE Revoke(d)
  <2>1. Frame
    BY <1>1, <1>2, <1>3, <1>6 DEF Revoke, Goto, Seen, Covered
  <2>2. ReceiptTold(d)'
    BY <1>3, <1>6 DEF Revoke, ReceiptTold, Covered
  <2>3. DeletionTold(d)'
    BY <1>1, <1>2, <1>3, <1>6 DEF Revoke, Goto, Covered, DeletionTold, Before, After, DeletionState
  <2>4. QED
    BY <1>4, <2>1, <2>2, <2>3
<1>7. CASE ClearTokens(d)
  <2>1. del'[d].pc = "receipt" /\ (del'[d].revoked => del[d].revoked)
    BY <1>1, <1>7 DEF ClearTokens, DeletionState
  <2>2. Frame
    BY <1>1, <1>2, <1>3, <1>7 DEF ClearTokens, Seen, Covered
  <2>3. ReceiptTold(d)'
    BY <1>3, <1>7 DEF ClearTokens, ReceiptTold, Covered
  <2>4. DeletionTold(d)'
    BY <1>3, <1>7, <2>1 DEF ClearTokens, Covered, DeletionTold, Before, After
  <2>5. QED
    BY <1>4, <2>2, <2>3, <2>4
<1>8. CASE WriteReceipt(d)
  <2>1. del'[d].pc = "delete" /\ del'[d].revoked = del[d].revoked
    BY <1>1, <1>8 DEF WriteReceipt, Goto, DeletionState
  <2>2. receipt'[d] = [there |-> TRUE, revoked |-> del[d].revoked, completed |-> FALSE]
    BY <1>1, <1>8 DEF WriteReceipt
  <2>3. Frame
    BY <1>1, <1>2, <1>3, <1>8, <2>2 DEF WriteReceipt, Goto, Seen, Covered
  <2>4. DeletionTold(d)' /\ ReceiptTold(d)'
    BY <1>3, <1>8, <2>1, <2>2 DEF WriteReceipt, Covered, DeletionTold, ReceiptTold, Before, After
  <2>5. QED
    BY <1>4, <2>3, <2>4
<1>9. CASE DeleteUser(d)
  <2>1. /\ del'[d].pc = (IF user THEN "complete" ELSE "failed")
        /\ del'[d].revoked = del[d].revoked
    BY <1>1, <1>9 DEF DeleteUser, Goto, DeletionState
  <2>2. Frame
    BY <1>1, <1>2, <1>3, <1>9 DEF DeleteUser, Goto, Seen, Covered, DeletionTold, After
  <2>3. DeletionTold(d)' /\ ReceiptTold(d)'
    BY <1>3, <1>9, <2>1 DEF DeleteUser, Covered, DeletionTold, ReceiptTold, Before, After
  <2>4. QED
    BY <1>4, <2>2, <2>3
<1>10. CASE CompleteReceipt(d)
  <2>1. del'[d].pc = "purge" /\ del'[d].revoked = del[d].revoked
    BY <1>1, <1>10 DEF CompleteReceipt, Purging
  <2>2. /\ receipt'[d].there = receipt[d].there /\ receipt'[d].revoked = receipt[d].revoked
        /\ receipt'[d].completed \in {TRUE, receipt[d].completed}
    BY <1>1, <1>10 DEF CompleteReceipt
  <2>3. Frame
    BY <1>1, <1>2, <1>3, <1>10, <2>2 DEF CompleteReceipt, Purging, Seen, Covered
  <2>4. DeletionTold(d)' /\ ReceiptTold(d)'
    BY <1>3, <1>10, <2>1, <2>2 DEF CompleteReceipt, Covered, DeletionTold, ReceiptTold, Before, After
  <2>5. QED
    BY <1>4, <2>3, <2>4
<1>11. CASE PurgeReads(d) \/ (\E j \in Job : PurgeRemoves(d, j)) \/ PurgeEnds(d) \/ DeletionDies(d)
  <2>1. UNCHANGED << user, account, granted, unseen, receipt >>
    BY <1>11 DEF PurgeReads, PurgeRemoves, PurgeEnds, DeletionDies
  <2> DEFINE Moves == /\ \A e \in Deletions \ {d} : del'[e] = del[e]
                      /\ del'[d].revoked = del[d].revoked
                      /\ \/ del'[d].pc = "failed"
                         \/ del[d].pc = "purge" /\ del'[d].pc \in {"purge", "done"}
  <2>2. Moves
    <3>1. ASSUME NEW found, del[d].pc = "purge", del' = FoundIn(d, found) PROVE Moves
      <4> DEFINE next == IF found = {} THEN del[d].state + 1 ELSE del[d].state
      <4>1. del' = Purging(d, next, found)
        BY <3>1 DEF FoundIn
      <4> HIDE DEF next
      <4>2. QED
        BY <1>1, <3>1, <4>1 DEF Purging
    <3>2. CASE PurgeEnds(d) \/ DeletionDies(d)
      <4>2. CASE PurgeEnds(d)
        BY <1>1, <4>2 DEF PurgeEnds, Goto
      <4>3. CASE DeletionDies(d)
        BY <1>1, <4>3 DEF DeletionDies, Goto
      <4>4. QED
        BY <3>2, <4>2, <4>3
    <3>3. CASE PurgeReads(d) \/ (\E j \in Job : PurgeRemoves(d, j))
      <4> HIDE DEF Moves
      <4>1. QED
        BY <3>1, <3>3 DEF PurgeReads, PurgeRemoves
    <3>4. QED
      BY <1>11, <3>2, <3>3
  <2>3. Frame
    BY <1>2, <2>1, <2>2 DEF Seen, Covered
  <2>4. DeletionTold(d)' /\ ReceiptTold(d)'
    BY <1>3, <2>1, <2>2 DEF Covered, DeletionTold, ReceiptTold, Before, After
  <2>5. QED
    BY <1>4, <2>3, <2>4
<1>12. QED
  BY <1>5, <1>6, <1>7, <1>8, <1>9, <1>10, <1>11 DEF Obliterate

LEMMA ReceiptHolds == Spec => []ReceiptInv
<1>1. ASSUME TypeOK, ReceiptInv, [Next]_vars PROVE ReceiptInv'
  <2>1. CASE UNCHANGED vars
    BY <1>1, <2>1 DEF vars, ReceiptInv, Seen, Covered, DeletionTold, ReceiptTold
  <2>2. CASE Next
    BY <1>1, <2>2, OthersTell, DeletionTells DEF Next
  <2>3. QED
    BY <1>1, <2>1, <2>2
<1>2. QED
  BY SeenInit, <1>1, TypeCorrect, PTL DEF Spec

(* Whoever is gone has a receipt, a completed one is of a user who is      *)
(* gone, and it never reports a grant revoked that Google still honours,   *)
(* but for one the deletion could not see (obliterate in                   *)
(* deletion.service.ts).                                                   *)
THEOREM ReceiptTellsTheTruth == Spec => []ReceiptIsTrue
<1>1. ReceiptInv => ReceiptIsTrue
  BY DEF ReceiptInv, ReceiptTold, Covered, ReceiptIsTrue
<1>2. QED
  BY ReceiptHolds, <1>1, PTL

-----------------------------------------------------------------------------
(* The purge.  Of the jobs that nobody took or added since the row was     *)
(* deleted, none is active, and the only move left to them is from delayed *)
(* to waiting.  Hence a state that the purge is done with holds none of    *)
(* them again, but for the first reading of the waiting ones.              *)

Undisturbed == ~user => Active \subseteq stirred

Cleared(d, k, j) == del[d].state > k \/ (del[d].state = k /\ del[d].found # {} /\ j \notin del[d].found)

PurgedSoFar(d) ==
  del[d].pc \in {"purge", "done"} =>
    /\ del[d].state > 0 /\ (del[d].pc = "done" => del[d].state = 7)
    /\ used.faults = 0 => \A j \in Job \ stirred :
                            /\ job[j] = "delayed"   => ~Cleared(d, 2, j)
                            /\ job[j] = "failed"    => ~Cleared(d, 4, j)
                            /\ job[j] = "completed" => ~Cleared(d, 5, j)
                            /\ job[j] = "waiting"   => ~Cleared(d, 6, j)

PurgeInv == Undisturbed /\ \A d \in Deletions : PurgedSoFar(d)

LEMMA PurgeInit == Init => PurgeInv
  BY DEF Init, PurgeInv, Undisturbed, PurgedSoFar, NoAsk

(* What an undisturbed job can do once the row is gone.                    *)
Drifts(j) == job'[j] = job[j] \/ (job[j] = "delayed" /\ job'[j] = "waiting") \/ job'[j] = "none"

Drift == /\ stirred \subseteq stirred'
         /\ Active' \subseteq stirred'
         /\ \A j \in Job \ stirred' : Drifts(j)
         /\ used'.faults = 0 => used.faults = 0
         /\ UNCHANGED user

LEMMA AddDrifts ==
  ASSUME QueueOK, Undisturbed, ~user, Add
  PROVE  /\ stirred \subseteq stirred'
         /\ \A j \in Job : job'[j] # job[j] => j \in stirred'
         /\ used'.faults = 0 => used.faults = 0
  BY DEF QueueOK, Add, Stir, Fault

LEMMA WorkDrifts ==
  ASSUME TypeOK, Undisturbed, ~user, NEW w \in Workers, Works(w) \/ WorkerDies(w)
  PROVE  Drift /\ UNCHANGED del
<1>1. QueueOK
  BY DEF TypeOK
<1>2. worker[w] \in WorkerState /\ (worker[w].pc # "idle" => worker[w].job \in stirred)
  BY <1>1 DEF QueueOK, WorkerState, Undisturbed, Active
<1>3. UNCHANGED << user, del >>
  BY DEF Works, TakeJob, UserStillExists, WorkFails, WorkStores, HandOver, Completes, WorkerDies
<1>4. /\ stirred \subseteq stirred'
      /\ \A j \in Job : job'[j] # job[j] => j \in stirred'
      /\ used'.faults = 0 => used.faults = 0
  <2>1. CASE \E j \in Job : TakeJob(w, j)
    BY <1>1, <2>1 DEF TakeJob, Stir, QueueOK
  <2>2. CASE UserStillExists(w) \/ WorkFails(w) \/ WorkStores(w) \/ Completes(w) \/ WorkerDies(w)
    <3>1. UNCHANGED stirred /\ (used'.faults = 0 => used.faults = 0)
      BY <1>1, <2>2 DEF UserStillExists, WorkFails, WorkStores, Completes, WorkerDies, Fault, QueueOK
    <3>2. UNCHANGED job \/ (worker[w].pc # "idle" /\ \E next : job' = [job EXCEPT ![worker[w].job] = next])
      <4>1. CASE UserStillExists(w)
        BY <4>1 DEF UserStillExists
      <4>2. CASE WorkFails(w) \/ Completes(w)
        BY <4>2 DEF WorkFails, Completes
      <4>3. CASE WorkStores(w)
        BY <4>3 DEF WorkStores
      <4>4. CASE WorkerDies(w)
        BY <1>1, <1>2, <4>4 DEF WorkerDies, Idle, WorkerState, QueueOK
      <4>5. QED
        BY <2>2, <4>1, <4>2, <4>3, <4>4
    <3>3. QED
      BY <1>1, <1>2, <3>1, <3>2 DEF QueueOK
  <2>3. CASE HandOver(w)
    BY <1>1, <2>3, AddDrifts DEF HandOver
  <2>4. QED
    BY <2>1, <2>2, <2>3 DEF Works
<1>5. QED
  BY <1>3, <1>4 DEF Drift, Drifts, Undisturbed, Active

LEMMA OthersDrift ==
  ASSUME TypeOK, Undisturbed, ~user,
         Consent \/ RequestReads \/ RequestAdds \/ (\E j \in Job : Promote(j))
  PROVE  Drift /\ UNCHANGED del
<1>1. QueueOK
  BY DEF TypeOK
<1>2. UNCHANGED << user, del >>
  BY DEF Consent, StartConsent, ExchangeCode, StoreTokens, EnqueueInitialScan, RequestReads, RequestAdds, Promote
<1>3. CASE StartConsent \/ ExchangeCode \/ StoreTokens \/ RequestReads
  BY <1>2, <1>3 DEF StartConsent, ExchangeCode, StoreTokens, RequestReads, Drift, Drifts, Undisturbed, Active
<1>4. CASE EnqueueInitialScan \/ RequestAdds
  <2>1. Add
    BY <1>4 DEF EnqueueInitialScan, RequestAdds
  <2>2. QED
    BY <1>1, <1>2, <2>1, AddDrifts DEF Drift, Drifts, Undisturbed, Active
<1>5. ASSUME NEW j \in Job, Promote(j) PROVE Drift
  BY <1>1, <1>2, <1>5 DEF Promote, Drift, Drifts, Undisturbed, Active, QueueOK
<1>6. QED
  BY <1>2, <1>3, <1>4, <1>5 DEF Consent

(* A drift keeps what the purge is done with.                              *)
LEMMA DriftKeeps ==
  ASSUME TypeOK, Drift, NEW d \in Deletions, PurgedSoFar(d), del'[d] = del[d]
  PROVE  PurgedSoFar(d)'
  BY DEF TypeOK, DeletionsOK, DeletionState, QueueOK, Drift, Drifts, PurgedSoFar, Cleared

LEMMA DeletionPurges ==
  ASSUME TypeOK, ReceiptInv, PurgeInv, NEW d \in Deletions, Confirm(d) \/ Obliterate(d) \/ DeletionDies(d)
  PROVE  PurgeInv'
<1>1. del \in [Deletions -> DeletionState] /\ del[d] \in DeletionState /\ QueueOK
  BY DEF TypeOK, DeletionsOK
<1>2. Undisturbed /\ \A e \in Deletions : PurgedSoFar(e)
  BY DEF PurgeInv
<1>3. \A e \in Deletions : del[e].pc \in After => ~user
  BY DEF ReceiptInv, DeletionTold
<1>4. \A e \in Deletions \ {d} : del'[e] = del[e]
  BY <1>1 DEF Confirm, Obliterate, DeletionDies, ListAccounts, Revoke, ClearTokens, WriteReceipt, DeleteUser,
              CompleteReceipt, PurgeReads, PurgeRemoves, PurgeEnds, Goto, FoundIn, Purging
<1>5. used'.faults = 0 => used.faults = 0
  <2>1. UNCHANGED used \/ Fault
    BY DEF Confirm, Obliterate, DeletionDies, ListAccounts, Revoke, ClearTokens, WriteReceipt,
           DeleteUser, CompleteReceipt, PurgeReads, PurgeRemoves, PurgeEnds
  <2>2. QED
    BY <1>1, <2>1 DEF Fault, QueueOK
<1>6. ASSUME ~user, Drift, PurgedSoFar(d)' PROVE PurgeInv'
  <2>1. \A e \in Deletions \ {d} : PurgedSoFar(e)'
    BY <1>2, <1>4, <1>6, DriftKeeps
  <2>2. QED
    BY <1>6, <2>1 DEF PurgeInv, Undisturbed, Drift
<1>7. ASSUME ~user, UNCHANGED << user, job, stirred >> PROVE Drift
  BY <1>2, <1>5, <1>7 DEF Drift, Drifts, Undisturbed, Active
<1>8. CASE user
  <2>1. \A e \in Deletions : del[e].pc \notin {"purge", "done"} /\ del[e].pc # "complete"
    BY <1>3, <1>8 DEF After
  <2>2. del'[d].pc \notin {"purge", "done"} /\ Undisturbed'
    <3>1. CASE DeleteUser(d)
      <4>1. Goto(d, "complete") /\ stirred' = Active /\ UNCHANGED job
        BY <1>8, <3>1 DEF DeleteUser
      <4>2. QED
        BY <1>1, <4>1 DEF Goto, Undisturbed, Active
    <3>2. CASE Confirm(d) \/ ClearTokens(d) \/ WriteReceipt(d) \/ DeletionDies(d)
      <4>1. user' = user
        BY <3>2 DEF Confirm, ClearTokens, WriteReceipt, DeletionDies
      <4>2. \/ \E pc \in {"list", "delete", "failed"} : Goto(d, pc)
            \/ \E revoked : del' = [del EXCEPT ![d].pc = "receipt", ![d].revoked = revoked]
        BY <3>2 DEF Confirm, ClearTokens, WriteReceipt, DeletionDies
      <4>3. del'[d].pc \notin {"purge", "done"}
        BY <1>1, <4>2 DEF Goto, DeletionState
      <4>4. QED
        BY <1>8, <4>1, <4>3 DEF Undisturbed
    <3>3. CASE Revoke(d)
      <4>1. user' /\ (Goto(d, "clear") \/ del' = [del EXCEPT ![d].pc = "clear", ![d].revoked = FALSE])
        BY <1>8, <3>3 DEF Revoke
      <4>2. QED
        BY <1>1, <4>1 DEF Goto, Undisturbed, DeletionState
    <3>4. CASE ListAccounts(d)
      BY <1>1, <1>8, <3>4 DEF ListAccounts, Goto, Undisturbed
    <3>5. QED
      BY <2>1, <3>1, <3>2, <3>3, <3>4 DEF Obliterate, CompleteReceipt, PurgeReads, PurgeRemoves, PurgeEnds
  <2>3. QED
    BY <1>4, <2>1, <2>2 DEF PurgeInv, PurgedSoFar
<1>9. ASSUME ~user, Confirm(d) \/ ListAccounts(d) \/ Revoke(d) \/ ClearTokens(d) \/ WriteReceipt(d)
                      \/ DeleteUser(d) \/ DeletionDies(d)
      PROVE  PurgeInv'
  <2>1. UNCHANGED << user, job, stirred >>
    BY <1>9 DEF Confirm, ListAccounts, Revoke, ClearTokens, WriteReceipt, DeleteUser, DeletionDies
  <2>2. del'[d].pc \notin {"purge", "done"}
    <3>1. CASE ListAccounts(d)
      BY <1>1, <3>1 DEF ListAccounts, Goto
    <3>2. CASE Revoke(d)
      <4>1. Goto(d, "clear") \/ del' = [del EXCEPT ![d].pc = "clear", ![d].revoked = FALSE]
        BY <3>2 DEF Revoke
      <4>2. QED
        BY <1>1, <4>1 DEF Goto, DeletionState
    <3>3. CASE Confirm(d) \/ ClearTokens(d) \/ WriteReceipt(d) \/ DeleteUser(d) \/ DeletionDies(d)
      <4>1. \/ Goto(d, "list") \/ Goto(d, "delete") \/ Goto(d, "failed")
            \/ ClearTokens(d)
        BY <1>9, <3>3 DEF Confirm, WriteReceipt, DeleteUser, DeletionDies
      <4>2. QED
        BY <1>1, <4>1 DEF ClearTokens, Goto, DeletionState
    <3>4. QED
      BY <1>9, <3>1, <3>2, <3>3
  <2>3. QED
    BY <1>6, <1>7, <1>9, <2>1, <2>2 DEF PurgedSoFar
<1>10. CASE ~user /\ CompleteReceipt(d)
  <2>1. UNCHANGED << user, job, stirred >>
    BY <1>10 DEF CompleteReceipt
  <2>2. del'[d].pc = "purge" /\ del'[d].state = 1 /\ del'[d].found = {}
    BY <1>1, <1>10 DEF CompleteReceipt, Purging
  <2>3. PurgedSoFar(d)'
    BY <2>2 DEF PurgedSoFar, Cleared
  <2>4. QED
    BY <1>6, <1>7, <1>10, <2>1, <2>3
<1>11. CASE ~user /\ PurgeReads(d)
  <2>1. UNCHANGED << user, job, stirred >> /\ del[d].pc = "purge" /\ del[d].state \in 1..6 /\ del[d].found = {}
    BY <1>11, States DEF PurgeReads
  <2>2. PICK found \in SUBSET Job :
          /\ del' = FoundIn(d, found)
          /\ used'.faults = 0 => found = { j \in Job : job[j] = JobStates[del[d].state] }
    BY <1>1, <1>11 DEF PurgeReads, Fault, QueueOK
  <2>3. /\ del'[d].pc = "purge" /\ del'[d].found = found
        /\ del'[d].state = IF found = {} THEN del[d].state + 1 ELSE del[d].state
    <3> DEFINE next == IF found = {} THEN del[d].state + 1 ELSE del[d].state
    <3>1. del' = Purging(d, next, found)
      BY <2>2 DEF FoundIn
    <3> HIDE DEF next
    <3>2. del'[d].pc = "purge" /\ del'[d].found = found /\ del'[d].state = next
      BY <1>1, <3>1 DEF Purging
    <3>3. QED
      BY <3>2 DEF next
  <2>4. PurgedSoFar(d)'
    <3>1. del'[d].state > 0
      BY <2>1, <2>3
    <3>2. ASSUME used'.faults = 0, NEW j \in Job \ stirred', NEW k \in 2..6, job[j] = JobStates[k], Cleared(d, k, j)'
          PROVE  Cleared(d, k, j)
      BY <2>1, <2>2, <2>3, <3>2, States DEF Cleared
    <3>3. QED
      BY <1>2, <1>5, <2>1, <2>3, <3>1, <3>2, States DEF PurgedSoFar
  <2>5. QED
    BY <1>6, <1>7, <1>11, <2>1, <2>4
<1>12. ASSUME ~user, NEW i \in Job, PurgeRemoves(d, i) PROVE PurgeInv'
  <2>1. /\ UNCHANGED << user, stirred, used >> /\ del[d].pc = "purge" /\ i \in del[d].found
        /\ del' = FoundIn(d, del[d].found \ {i})
        /\ job' = [job EXCEPT ![i] = IF @ = "active" THEN @ ELSE "none"]
    BY <1>12 DEF PurgeRemoves
  <2>2. Drift
    BY <1>1, <1>2, <1>12, <2>1 DEF QueueOK, Drift, Drifts, Undisturbed, Active
  <2>3. /\ del'[d].pc = "purge" /\ del'[d].found = del[d].found \ {i}
        /\ del'[d].state = IF del[d].found \ {i} = {} THEN del[d].state + 1 ELSE del[d].state
    <3> DEFINE found == del[d].found \ {i}
    <3> DEFINE next == IF found = {} THEN del[d].state + 1 ELSE del[d].state
    <3>1. del' = Purging(d, next, found)
      BY <2>1 DEF FoundIn
    <3> HIDE DEF next, found
    <3>2. del'[d].pc = "purge" /\ del'[d].found = found /\ del'[d].state = next
      BY <1>1, <3>1 DEF Purging
    <3>3. QED
      BY <3>2 DEF next, found
  <2>4. \A j \in Job \ stirred : job'[j] # "none" => j # i /\ job'[j] = job[j]
    BY <1>1, <1>2, <1>12, <2>1 DEF QueueOK, Undisturbed, Active
  <2>5. ASSUME NEW j \in Job, j # i, NEW k \in 2..6, Cleared(d, k, j)' PROVE Cleared(d, k, j)
    <3>1. del[d].state \in Nat
      BY <1>1, States DEF DeletionState
    <3>2. CASE del[d].found \ {i} = {}
      <4>1. del'[d].state = del[d].state + 1 /\ del'[d].found = {}
        BY <2>3, <3>2
      <4>2. del[d].state >= k
        BY <2>5, <3>1, <4>1 DEF Cleared
      <4>3. del[d].found # {} /\ j \notin del[d].found
        BY <2>1, <2>5, <3>2
      <4>4. QED
        BY <3>1, <4>2, <4>3 DEF Cleared
    <3>3. CASE del[d].found \ {i} # {}
      BY <2>1, <2>3, <2>5, <3>1, <3>3 DEF Cleared
    <3>4. QED
      BY <3>2, <3>3
  <2>6. del[d].state > 0 /\ del'[d].state > 0
    <3>1. del[d].state \in Nat /\ del[d].state > 0
      BY <1>1, <1>2, <2>1, States DEF PurgedSoFar, DeletionState
    <3>2. QED
      BY <2>3, <3>1
  <2>7. PurgedSoFar(d)'
    BY <1>2, <2>1, <2>3, <2>4, <2>5, <2>6 DEF PurgedSoFar
  <2>8. QED
    BY <1>6, <1>12, <2>2, <2>7
<1>13. CASE ~user /\ PurgeEnds(d)
  <2>1. UNCHANGED << user, job, stirred, used >> /\ del[d].pc = "purge" /\ del[d].state \notin 1..6
    BY <1>13, States DEF PurgeEnds
  <2>2. del'[d].pc = "done" /\ del'[d].state = del[d].state /\ del'[d].found = del[d].found
    BY <1>1, <1>13 DEF PurgeEnds, Goto
  <2>3. del[d].state = 7
    BY <1>1, <1>2, <2>1, States DEF PurgedSoFar, DeletionState
  <2>4. PurgedSoFar(d)'
    BY <1>2, <2>1, <2>2, <2>3 DEF PurgedSoFar, Cleared
  <2>5. QED
    BY <1>6, <1>7, <1>13, <2>1, <2>4
<1>14. QED
  BY <1>8, <1>9, <1>10, <1>11, <1>12, <1>13 DEF Obliterate

(* A purge that ends without a failed call has removed every job of the    *)
(* user but those a worker had, or somebody added, after the row was       *)
(* deleted, though jobs move from state to state under it (queues/index.ts,*)
(* purgeUserQueueData).                                                    *)
THEOREM PurgeMissesNothing == Spec => []PurgeIsComplete
<1>1. ASSUME TypeOK, ReceiptInv, PurgeInv, [Next]_vars PROVE PurgeInv'
  <2>1. CASE UNCHANGED vars
    BY <1>1, <2>1 DEF vars, PurgeInv, Undisturbed, Active, PurgedSoFar, Cleared
  <2>2. CASE \E d \in Deletions : Confirm(d) \/ Obliterate(d) \/ DeletionDies(d)
    BY <1>1, <2>2, DeletionPurges
  <2>3. CASE \/ Consent \/ RequestReads \/ RequestAdds
             \/ (\E w \in Workers : Works(w) \/ WorkerDies(w))
             \/ (\E j \in Job : Promote(j))
    <3>1. UNCHANGED << user, del >>
      BY <2>3 DEF Consent, StartConsent, ExchangeCode, StoreTokens, EnqueueInitialScan, RequestReads, RequestAdds,
                  Works, TakeJob, UserStillExists, WorkFails, WorkStores, HandOver, Completes, WorkerDies, Promote
    <3>2. CASE user
      BY <1>1, <3>1, <3>2 DEF PurgeInv, Undisturbed, PurgedSoFar, ReceiptInv, DeletionTold, After
    <3>3. CASE ~user
      <4>1. Undisturbed /\ \A d \in Deletions : PurgedSoFar(d)
        BY <1>1 DEF PurgeInv
      <4>2. Drift
        BY <1>1, <2>3, <3>3, <4>1, WorkDrifts, OthersDrift
      <4>3. \A d \in Deletions : PurgedSoFar(d)'
        BY <1>1, <3>1, <4>1, <4>2, DriftKeeps
      <4>4. QED
        BY <4>2, <4>3 DEF PurgeInv, Undisturbed, Drift
    <3>4. QED
      BY <3>2, <3>3
  <2>4. QED
    BY <1>1, <2>1, <2>2, <2>3 DEF Next
<1>2. TypeOK /\ ReceiptInv /\ PurgeInv => PurgeIsComplete
  <2>1. SUFFICES ASSUME TypeOK, ReceiptInv, PurgeInv, NEW d \in Deletions, del[d].pc = "done", used.faults = 0,
                        NEW j \in Job, job[j] # "none", j \notin stirred
                 PROVE  FALSE
    BY DEF PurgeIsComplete
  <2>2. ~user
    BY <2>1 DEF ReceiptInv, DeletionTold, After
  <2>3. job[j] # "active"
    BY <2>1, <2>2 DEF PurgeInv, Undisturbed, Active
  <2>4. \A k \in 2..6 : Cleared(d, k, j)
    BY <2>1 DEF PurgeInv, PurgedSoFar, Cleared
  <2>5. job[j] \in JobState
    BY <2>1 DEF TypeOK, QueueOK
  <2>6. QED
    BY <2>1, <2>3, <2>4, <2>5 DEF PurgeInv, PurgedSoFar, JobState
<1>3. QED
  BY PurgeInit, <1>1, <1>2, TypeCorrect, ReceiptHolds, PTL DEF Spec
=============================================================================
