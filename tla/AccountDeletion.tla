---------------------------- MODULE AccountDeletion ----------------------------
(***************************************************************************)
(* The erasure of one user: the revocation of the Google grant, the        *)
(* receipt, the deletion of the row and the purge of the queues, against   *)
(* workers, requests and a consent that are under way.                     *)
(***************************************************************************)
EXTENDS Integers, Sequences, FiniteSets

CONSTANTS
  Job,        \* ids of jobs that carry the user's id
  Workers,    \* the workers of the queues that carry it
  Deletions,  \* deletion requests
  MaxAdds,    \* bound on the jobs added
  MaxFaults   \* bound on crashes and failed calls

ASSUME BoundsAssumption == MaxAdds \in Nat /\ MaxFaults \in Nat
ASSUME JobAssumption    == "none" \notin Job

VARIABLES
  user,     \* whether the User row, and what cascades from it, exists
  account,  \* whether there is a GmailAccount row
  tokens,   \* whether it holds tokens
  granted,  \* whether Google honours a grant the user gave
  unseen,   \* whether a consent gave tokens that were not stored, or stored too late
  consent,  \* the OAuth callback under way
  web,      \* a request under way that adds a job
  job,      \* where each job stands
  worker,   \* what each worker does
  del,      \* the deletion requests
  receipt,  \* the receipt of each
  stirred,  \* jobs active or added since the row was deleted
  ahead,    \* workers that were past the guard when the row was deleted
  used      \* how many adds and faults have happened

vars == << user, account, tokens, granted, unseen, consent, web, job, worker, del, receipt,
           stirred, ahead, used >>

-----------------------------------------------------------------------------
Idle   == [pc |-> "idle", job |-> "none"]
Fault  == used.faults < MaxFaults /\ used' = [used EXCEPT !.faults = @ + 1]

Active == { j \in Job : job[j] = "active" }
Stir(j) == stirred' = IF user THEN stirred ELSE stirred \cup {j}

(* An add that the queue refuses is dropped or answered with an error; an  *)
(* add of a job that exists is a no-op.                                    *)
Add ==
  \/ \E j \in Job :
       /\ used.adds < MaxAdds
       /\ used' = [used EXCEPT !.adds = @ + 1]
       /\ job' = [job EXCEPT ![j] = IF @ = "none" THEN "waiting" ELSE @]
       /\ Stir(j)
  \/ Fault /\ UNCHANGED << job, stirred >>

-----------------------------------------------------------------------------
(* Connecting Gmail.  The callback is known by its state alone.            *)

StartConsent ==
  /\ consent = "idle"
  /\ user
  /\ consent' = "pending"
  /\ UNCHANGED << user, account, tokens, granted, unseen, web, job, worker, del, receipt, stirred, ahead, used >>

(* The code is exchanged; without a refresh token or an address, nothing   *)
(* is stored.                                                              *)
ExchangeCode ==
  /\ consent = "pending"
  /\ granted' = TRUE
  /\ unseen' = TRUE
  /\ consent' \in {"store", "done"}
  /\ UNCHANGED << user, account, tokens, web, job, worker, del, receipt, stirred, ahead, used >>

Listed == \E d \in Deletions : del[d].pc \notin {"idle", "list"}

StoreTokens ==
  /\ consent = "store"
  /\ IF user
     THEN /\ account' = TRUE
          /\ tokens' = TRUE
          /\ unseen' = (unseen /\ Listed)
          /\ consent' = "enqueue"
     ELSE /\ consent' = "done"
          /\ UNCHANGED << account, tokens, unseen >>
  /\ UNCHANGED << user, granted, web, job, worker, del, receipt, stirred, ahead, used >>

EnqueueInitialScan ==
  /\ consent = "enqueue"
  /\ consent' = "done"
  /\ Add
  /\ UNCHANGED << user, account, tokens, granted, unseen, web, worker, del, receipt, ahead >>

-----------------------------------------------------------------------------
(* Requests and workers.                                                   *)

(* The session, the user and what the request is about are looked up, then *)
(* the job is added.                                                       *)
RequestReads ==
  /\ web = "idle"
  /\ user
  /\ web' = "add"
  /\ UNCHANGED << user, account, tokens, granted, unseen, consent, job, worker, del, receipt, stirred, ahead, used >>

RequestAdds ==
  /\ web = "add"
  /\ web' = "idle"
  /\ Add
  /\ UNCHANGED << user, account, tokens, granted, unseen, consent, worker, del, receipt, ahead >>

TakeJob(w, j) ==
  /\ worker[w] = Idle
  /\ job[j] = "waiting"
  /\ job' = [job EXCEPT ![j] = "active"]
  /\ worker' = [worker EXCEPT ![w] = [pc |-> "guard", job |-> j]]
  /\ Stir(j)
  /\ UNCHANGED << user, account, tokens, granted, unseen, consent, web, del, receipt, ahead, used >>

(* Faulty variant: the worker goes to work without a look.                 *)
UserAssumed(w) ==
  /\ worker[w].pc = "guard"
  /\ worker' = [worker EXCEPT ![w].pc = "work"]
  /\ UNCHANGED << user, account, tokens, granted, unseen, consent, web, job, del, receipt, stirred, ahead, used >>

(* Faulty variant: a job of a deleted user is put off.                     *)
UserGonePutsOff(w) ==
  /\ worker[w].pc = "guard"
  /\ IF user
     THEN worker' = [worker EXCEPT ![w].pc = "work"] /\ UNCHANGED job
     ELSE /\ worker' = [worker EXCEPT ![w] = Idle]
          /\ job' = [job EXCEPT ![worker[w].job] = "delayed"]
  /\ UNCHANGED << user, account, tokens, granted, unseen, consent, web, del, receipt, stirred, ahead, used >>

(* A job of a deleted user completes without doing anything.               *)
UserStillExists(w) ==
  /\ worker[w].pc = "guard"
  /\ IF user
     THEN worker' = [worker EXCEPT ![w].pc = "work"] /\ UNCHANGED job
     ELSE /\ worker' = [worker EXCEPT ![w] = Idle]
          /\ job' = [job EXCEPT ![worker[w].job] = "completed"]
  /\ UNCHANGED << user, account, tokens, granted, unseen, consent, web, del, receipt, stirred, ahead, used >>

(* The work reads the mailbox and writes rows.  What it finds gone, or the *)
(* database refuses, or Gmail, makes the job fail: it is tried again until *)
(* its attempts are used up.  Once the row is gone the work may also find  *)
(* nothing to do and complete, where it updates whatever rows there are.   *)
WorkFails(w) ==
  /\ worker[w].pc = "work"
  /\ user => Fault
  /\ ~user => UNCHANGED used
  /\ worker' = [worker EXCEPT ![w] = Idle]
  /\ \E next \in {"delayed", "failed", "completed"} :
       /\ next = "completed" => ~user
       /\ job' = [job EXCEPT ![worker[w].job] = next]
  /\ UNCHANGED << user, account, tokens, granted, unseen, consent, web, del, receipt, stirred, ahead >>

(* What is stored is handed to the next queue.                             *)
WorkStores(w) ==
  /\ worker[w].pc = "work"
  /\ user
  /\ worker' = [worker EXCEPT ![w].pc = "handover"]
  /\ UNCHANGED << user, account, tokens, granted, unseen, consent, web, job, del, receipt, stirred, ahead, used >>

HandOver(w) ==
  /\ worker[w].pc = "handover"
  /\ worker' = [worker EXCEPT ![w].pc = "ending"]
  /\ Add \/ UNCHANGED << job, stirred, used >>
  /\ UNCHANGED << user, account, tokens, granted, unseen, consent, web, del, receipt, ahead >>

Completes(w) ==
  /\ worker[w].pc = "ending"
  /\ worker' = [worker EXCEPT ![w] = Idle]
  /\ job' = [job EXCEPT ![worker[w].job] = "completed"]
  /\ UNCHANGED << user, account, tokens, granted, unseen, consent, web, del, receipt, stirred, ahead, used >>

Promote(j) ==
  /\ job[j] = "delayed"
  /\ job' = [job EXCEPT ![j] = "waiting"]
  /\ UNCHANGED << user, account, tokens, granted, unseen, consent, web, worker, del, receipt, stirred, ahead, used >>

WorkerDies(w) ==
  /\ worker[w] # Idle
  /\ Fault
  /\ worker' = [worker EXCEPT ![w] = Idle]
  /\ job' = [job EXCEPT ![worker[w].job] = "waiting"]
  /\ UNCHANGED << user, account, tokens, granted, unseen, consent, web, del, receipt, stirred, ahead >>

-----------------------------------------------------------------------------
(* obliterate.                                                             *)

NoAsk == [pc |-> "idle", revoked |-> TRUE, state |-> 0, found |-> {}]
Goto(d, pc) == del' = [del EXCEPT ![d].pc = pc]

(* The user exists and has confirmed with the password and the address.    *)
Confirm(d) ==
  /\ del[d].pc = "idle"
  /\ user
  /\ Goto(d, "list")
  /\ UNCHANGED << user, account, tokens, granted, unseen, consent, web, job, worker, receipt, stirred, ahead, used >>

ListAccounts(d) ==
  /\ del[d].pc = "list"
  /\ Goto(d, IF account THEN "revoke" ELSE "receipt")
  /\ UNCHANGED << user, account, tokens, granted, unseen, consent, web, job, worker, receipt, stirred, ahead, used >>

(* Faulty variant: a failed revocation passes for one.                     *)
RevokeOptimistic(d) ==
  /\ del[d].pc = "revoke"
  /\ \/ granted' = FALSE /\ unseen' = FALSE /\ UNCHANGED used
     \/ Fault /\ UNCHANGED << granted, unseen >>
  /\ Goto(d, "clear")
  /\ UNCHANGED << user, account, tokens, consent, web, job, worker, receipt, stirred, ahead >>

(* The stored token is revoked at Google.  Without one, or when the call   *)
(* fails, or its answer is lost, the account counts as not revoked, and    *)
(* the deletion goes on.                                                   *)
Revoke(d) ==
  /\ del[d].pc = "revoke"
  /\ \/ tokens /\ granted' = FALSE /\ unseen' = FALSE /\ Goto(d, "clear") /\ UNCHANGED used
     \/ /\ tokens => Fault
        /\ ~tokens => UNCHANGED used
        /\ \/ tokens /\ granted' = FALSE /\ unseen' = FALSE
           \/ UNCHANGED << granted, unseen >>
        /\ del' = [del EXCEPT ![d].pc = "clear", ![d].revoked = FALSE]
  /\ UNCHANGED << user, account, tokens, consent, web, job, worker, receipt, stirred, ahead >>

(* The account's tokens are cleared; when its row is gone by now, that is  *)
(* one more failure.                                                       *)
ClearTokens(d) ==
  /\ del[d].pc = "clear"
  /\ tokens' = FALSE
  /\ del' = [del EXCEPT ![d].pc = "receipt", ![d].revoked = @ /\ account]
  /\ UNCHANGED << user, account, granted, unseen, consent, web, job, worker, receipt, stirred, ahead, used >>

WriteReceipt(d) ==
  /\ del[d].pc = "receipt"
  /\ receipt' = [receipt EXCEPT ![d] = [there |-> TRUE, revoked |-> del[d].revoked, completed |-> FALSE]]
  /\ Goto(d, "delete")
  /\ UNCHANGED << user, account, tokens, granted, unseen, consent, web, job, worker, stirred, ahead, used >>

(* One statement, which fails when the row is gone.                        *)
DeleteUser(d) ==
  /\ del[d].pc = "delete"
  /\ IF user
     THEN /\ user' = FALSE /\ account' = FALSE /\ tokens' = FALSE
          /\ stirred' = Active
          /\ ahead' = { w \in Workers : worker[w].pc \in {"work", "handover", "ending"} }
          /\ Goto(d, "complete")
     ELSE Goto(d, "failed") /\ UNCHANGED << user, account, tokens, stirred, ahead >>
  /\ UNCHANGED << granted, unseen, consent, web, job, worker, receipt, used >>

Purging(d, state, found) ==
  [del EXCEPT ![d] = [pc |-> "purge", revoked |-> del[d].revoked, state |-> state, found |-> found]]

CompleteReceipt(d) ==
  /\ del[d].pc = "complete"
  /\ \/ receipt' = [receipt EXCEPT ![d].completed = TRUE] /\ UNCHANGED used
     \/ Fault /\ UNCHANGED receipt
  /\ del' = Purging(d, 1, {})
  /\ UNCHANGED << user, account, tokens, granted, unseen, consent, web, job, worker, stirred, ahead >>

(* Faulty variant: the states are each read once.                          *)
JobStatesOnce == << "waiting", "delayed", "active", "failed", "completed" >>

(* The states whose jobs are read, one after the other: the waiting ones   *)
(* twice, since BullMQ has two names for them.                             *)
JobStates == << "waiting", "delayed", "active", "failed", "completed", "waiting" >>

(* When the jobs of a state are done with, the next state's are read.      *)
FoundIn(d, found) ==
  Purging(d, IF found = {} THEN del[d].state + 1 ELSE del[d].state, found)

PurgeReads(d) ==
  /\ del[d].pc = "purge"
  /\ del[d].found = {}
  /\ del[d].state \in DOMAIN JobStates
  /\ \/ del' = FoundIn(d, { j \in Job : job[j] = JobStates[del[d].state] }) /\ UNCHANGED used
     \/ del' = FoundIn(d, {}) /\ Fault
  /\ UNCHANGED << user, account, tokens, granted, unseen, consent, web, job, worker, receipt, stirred, ahead >>

(* Faulty variant: a job is removed from under its worker.                 *)
PurgeRemovesActive(d, j) ==
  /\ j \in del[d].found
  /\ del[d].pc = "purge"
  /\ del' = FoundIn(d, del[d].found \ {j})
  /\ job' = [job EXCEPT ![j] = "none"]
  /\ UNCHANGED << user, account, tokens, granted, unseen, consent, web, worker, receipt, stirred, ahead, used >>

(* A job that a worker has by now is locked and refuses.                   *)
PurgeRemoves(d, j) ==
  /\ j \in del[d].found
  /\ del[d].pc = "purge"
  /\ del' = FoundIn(d, del[d].found \ {j})
  /\ job' = [job EXCEPT ![j] = IF @ = "active" THEN @ ELSE "none"]
  /\ UNCHANGED << user, account, tokens, granted, unseen, consent, web, worker, receipt, stirred, ahead, used >>

PurgeEnds(d) ==
  /\ del[d].pc = "purge"
  /\ del[d].state \notin DOMAIN JobStates
  /\ Goto(d, "done")
  /\ UNCHANGED << user, account, tokens, granted, unseen, consent, web, job, worker, receipt, stirred, ahead, used >>

(* The process that serves the request dies.                               *)
DeletionDies(d) ==
  /\ del[d].pc \notin {"idle", "failed", "done"}
  /\ Fault
  /\ Goto(d, "failed")
  /\ UNCHANGED << user, account, tokens, granted, unseen, consent, web, job, worker, receipt, stirred, ahead >>

-----------------------------------------------------------------------------
(* The user may have connected before, have disconnected since with or     *)
(* without a revocation that worked, and have jobs in any state of rest.   *)
Init ==
  /\ user = TRUE
  /\ account \in BOOLEAN
  /\ tokens \in BOOLEAN /\ (tokens => account)
  /\ granted \in BOOLEAN /\ (granted => account)
  /\ unseen = FALSE
  /\ consent = "idle"
  /\ web = "idle"
  /\ job \in [Job -> {"none", "waiting", "delayed", "failed", "completed"}]
  /\ worker = [w \in Workers |-> Idle]
  /\ del = [d \in Deletions |-> NoAsk]
  /\ receipt = [d \in Deletions |-> [there |-> FALSE, revoked |-> FALSE, completed |-> FALSE]]
  /\ stirred = {}
  /\ ahead = {}
  /\ used = [adds |-> 0, faults |-> 0]

Consent == StartConsent \/ ExchangeCode \/ StoreTokens \/ EnqueueInitialScan

Works(w) ==
  \/ \E j \in Job : TakeJob(w, j)
  \/ UserStillExists(w) \/ WorkFails(w) \/ WorkStores(w) \/ HandOver(w) \/ Completes(w)

Obliterate(d) ==
  \/ ListAccounts(d) \/ Revoke(d) \/ ClearTokens(d) \/ WriteReceipt(d)
  \/ DeleteUser(d) \/ CompleteReceipt(d)
  \/ PurgeReads(d) \/ (\E j \in Job : PurgeRemoves(d, j)) \/ PurgeEnds(d)

Next ==
  \/ Consent \/ RequestReads \/ RequestAdds
  \/ \E w \in Workers : Works(w) \/ WorkerDies(w)
  \/ \E j \in Job : Promote(j)
  \/ \E d \in Deletions : Confirm(d) \/ Obliterate(d) \/ DeletionDies(d)

Spec == Init /\ [][Next]_vars

(* Workers go on and delayed jobs come due.                                *)
Fairness == (\A w \in Workers : WF_vars(Works(w))) /\ (\A j \in Job : WF_vars(Promote(j)))

FairSpec == Spec /\ Fairness

-----------------------------------------------------------------------------
(* Properties.                                                             *)

JobState == {"none", "waiting", "active", "delayed", "failed", "completed"}

WorkerState   == [pc : {"idle", "guard", "work", "handover", "ending"}, job : Job \cup {"none"}]
DeletionState == [pc : {"idle", "list", "revoke", "clear", "receipt", "delete", "complete", "purge",
                        "failed", "done"},
                  revoked : BOOLEAN, state : 0..Len(JobStates) + 1, found : SUBSET Job]

FlagsOK ==
  /\ user \in BOOLEAN /\ account \in BOOLEAN /\ tokens \in BOOLEAN
  /\ granted \in BOOLEAN /\ unseen \in BOOLEAN
  /\ consent \in {"idle", "pending", "store", "enqueue", "done"}
  /\ web \in {"idle", "add"}
  /\ receipt \in [Deletions -> [there : BOOLEAN, revoked : BOOLEAN, completed : BOOLEAN]]
  /\ tokens => account
  /\ account => user

QueueOK ==
  /\ job \in [Job -> JobState]
  /\ worker \in [Workers -> WorkerState]
  /\ stirred \subseteq Job
  /\ ahead \subseteq Workers
  /\ used \in [adds : Nat, faults : Nat]
  /\ \A w \in Workers :
       /\ worker[w].pc = "idle" <=> worker[w].job = "none"
       /\ worker[w].pc # "idle" => job[worker[w].job] = "active"
       /\ \A v \in Workers : v # w /\ worker[v].pc # "idle" => worker[v].job # worker[w].job

DeletionsOK ==
  /\ del \in [Deletions -> DeletionState]
  /\ \A d \in Deletions : del[d].found # {} => del[d].state \in DOMAIN JobStates

(* Every value has its type; a worker has a job that is active, which no   *)
(* other has; nothing is left of a user whose row is gone; a purge has     *)
(* jobs to remove only of a state it is at.                                *)
TypeOK == FlagsOK /\ QueueOK /\ DeletionsOK

(* The receipt outlives the user and tells the truth: whoever is gone has  *)
(* one, one that is marked complete is of a user who is gone, and when it  *)
(* reports the grant revoked it is right, unless a consent gave new tokens *)
(* that the deletion could not see: not stored, or stored after it listed  *)
(* the accounts.                                                           *)
ReceiptIsTrue ==
  /\ ~user => \E d \in Deletions : receipt[d].there
  /\ \A d \in Deletions :
       /\ receipt[d].completed => ~user
       /\ receipt[d].completed /\ receipt[d].revoked /\ granted => unseen

(* Once the row is gone, nobody works for the user but those who were past *)
(* the guard at that moment; a job tried again after a crash or a refused  *)
(* write stops at it.                                                      *)
OnlyStragglers ==
  ~user => \A w \in Workers : worker[w].pc \in {"work", "handover", "ending"} => w \in ahead

(* A purge that ends, with no call failed, has removed every job but those *)
(* a worker had, or somebody added, after the row was deleted, even when   *)
(* jobs move from state to state under it.                                 *)
PurgeIsComplete ==
  \A d \in Deletions :
    del[d].pc = "done" /\ used.faults = 0 => { j \in Job : job[j] # "none" } \subseteq stirred

(* After the deletion the queues fall silent: what is left over runs into  *)
(* the guard and no job is tried for ever.                                 *)
Silent  == \A j \in Job : job[j] \notin {"waiting", "active", "delayed"}
Settles == ~user ~> []Silent
=============================================================================
