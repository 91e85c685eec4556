----------------------------- MODULE MailboxScan -----------------------------
(***************************************************************************)
(* One Gmail account: the consent that connects it, the scheduler and the  *)
(* requests that ask for scans, the scan worker, the history cursor and    *)
(* the hand-off of each stored email to the analysis.  A message is known  *)
(* by its place in the mailbox's history, which is its history id.         *)
(***************************************************************************)
EXTENDS Integers, FiniteSets

CONSTANTS
  Slots,        \* the jobs the email-scan worker runs at a time
  Manual,       \* ids of manual scans, each given once
  MaxMessages,  \* bound on the messages that arrive
  HistoryPage,  \* messages on the one page of the history that is read
  MaxScan,      \* GMAIL_MAX_MESSAGES_PER_SCAN
  MaxRequests,  \* bound on what the user does
  MaxFaults     \* bound on crashes, refused calls and lost data

ASSUME SizesAssumption ==
  /\ MaxMessages \in Nat
  /\ HistoryPage \in Nat \ {0}
  /\ MaxScan \in Nat \ {0}
  /\ MaxRequests \in Nat
  /\ MaxFaults \in Nat
ASSUME ManualAssumption == {"INITIAL", "SCHEDULED", "none"} \cap Manual = {}

Message == 1..MaxMessages
Job     == Manual \cup {"INITIAL", "SCHEDULED"}

VARIABLES
  arrived,   \* the mailbox's latest history id
  gone,      \* messages the user has deleted in Gmail
  acct,      \* the GmailAccount row: status, refresh token there, cursor or 0, due
  linked,    \* whether the user has the account connected
  granted,   \* whether Google honours the tokens
  enabled,   \* the user's setting scanningEnabled
  scanq,     \* the email-scan queue: where the job of each id stands
  slot,      \* the scans under way
  tick,      \* the scheduler between its query and its add
  web,       \* the consent or disconnect request under way
  email,     \* the Email rows: none, QUEUED, analysed
  pq,        \* emails with a job in the email-processing queue
  dropped,   \* messages a scan listed or should have listed, and passed over
  orphans,   \* emails whose hand-off a fault has swallowed
  used       \* how many requests and faults have happened

vars == << arrived, gone, acct, linked, granted, enabled, scanq, slot, tick, web, email, pq,
           dropped, orphans, used >>

-----------------------------------------------------------------------------
Free == [pc |-> "idle", job |-> "none", creds |-> FALSE, began |-> FALSE, cursor |-> 0, hid |-> 0,
         todo |-> {}, msg |-> 0]

Stored   == { m \in Message : email[m] # "none" }
Scanning == { s \in Slots : slot[s].pc \in {"profile", "collect", "fetch", "store", "enqueue"} }

Request == used.requests < MaxRequests /\ used' = [used EXCEPT !.requests = @ + 1]
Fault   == used.faults < MaxFaults /\ used' = [used EXCEPT !.faults = @ + 1]

(* Faulty variant: an add replaces the job that has its id.                *)
AddedReplaces(j) == [scanq EXCEPT ![j] = "waiting"]

(* BullMQ's add: the id of a job that exists, finished or not, is a no-op. *)
Added(j) == [scanq EXCEPT ![j] = IF @ = "none" THEN "waiting" ELSE @]

(* Locals that are read no more are forgotten.                             *)
Goto(s, pc) == slot' = [slot EXCEPT ![s].pc = pc, ![s].creds = FALSE, ![s].msg = 0]

(* A job that throws is run again until its attempts are used up.          *)
Throws(s) ==
  /\ slot' = [slot EXCEPT ![s] = Free]
  /\ \E next \in {"waiting", "finished"} : scanq' = [scanq EXCEPT ![slot[s].job] = next]

-----------------------------------------------------------------------------
(* Connecting and disconnecting.                                           *)

StartOAuth ==
  /\ web = "idle"
  /\ Request
  /\ web' = "consent"
  /\ UNCHANGED << arrived, gone, acct, linked, granted, enabled, scanq, slot, tick, email, pq, dropped, orphans >>

(* The state is consumed whatever comes of it.  A grant with too few       *)
(* scopes leaves the account in ERROR, one that fails leaves it alone.     *)
ConnectAccount ==
  /\ web = "consent"
  /\ \/ /\ granted' = TRUE
        /\ linked' = TRUE
        /\ web' = "initial"
        /\ \E status \in {"CONNECTED", "ERROR"} :
             acct' = [acct EXCEPT !.status = status, !.creds = TRUE]
     \/ web' = "idle" /\ UNCHANGED << acct, linked, granted >>
  /\ UNCHANGED << arrived, gone, enabled, scanq, slot, tick, email, pq, dropped, orphans, used >>

EnqueueInitial ==
  /\ web = "initial"
  /\ web' = "idle"
  /\ \/ scanq' = Added("INITIAL") /\ UNCHANGED used
     \/ Fault /\ UNCHANGED scanq
  /\ UNCHANGED << arrived, gone, acct, linked, granted, enabled, slot, tick, email, pq, dropped, orphans >>

(* The grant is revoked at Google first; when that fails, the rest is done *)
(* all the same.                                                           *)
DisconnectRevokes ==
  /\ web = "idle"
  /\ acct.status # "none"
  /\ Request
  /\ web' = "disconnect"
  /\ \/ acct.creds /\ granted' = FALSE
     \/ UNCHANGED granted
  /\ UNCHANGED << arrived, gone, acct, linked, enabled, scanq, slot, tick, email, pq, dropped, orphans >>

(* Faulty variant: the status changes, the stored tokens stay.             *)
DisconnectKeepsTokens ==
  /\ web = "disconnect"
  /\ web' = "idle"
  /\ acct' = [acct EXCEPT !.status = "DISCONNECTED", !.cursor = 0]
  /\ linked' = FALSE
  /\ UNCHANGED << arrived, gone, granted, enabled, scanq, slot, tick, email, pq, dropped, orphans, used >>

DisconnectWrites ==
  /\ web = "disconnect"
  /\ web' = "idle"
  /\ acct' = [acct EXCEPT !.status = "DISCONNECTED", !.creds = FALSE, !.cursor = 0]
  /\ linked' = FALSE
  /\ UNCHANGED << arrived, gone, granted, enabled, scanq, slot, tick, email, pq, dropped, orphans, used >>

-----------------------------------------------------------------------------
(* What asks for a scan.                                                   *)

(* The add is required: when the queue refuses it, the request fails.      *)
TriggerScan(j) ==
  /\ acct.status # "none"
  /\ scanq[j] = "none"
  /\ Request
  /\ scanq' \in {Added(j), scanq}
  /\ UNCHANGED << arrived, gone, acct, linked, granted, enabled, slot, tick, web, email, pq, dropped, orphans >>

FallsDue ==
  /\ acct.status # "none"
  /\ ~acct.due
  /\ acct' = [acct EXCEPT !.due = TRUE]
  /\ UNCHANGED << arrived, gone, linked, granted, enabled, scanq, slot, tick, web, email, pq, dropped, orphans, used >>

TickReads ==
  /\ tick = "idle"
  /\ acct.status \in {"CONNECTED", "ERROR"}
  /\ enabled
  /\ acct.due
  /\ tick' = "add"
  /\ UNCHANGED << arrived, gone, acct, linked, granted, enabled, scanq, slot, web, email, pq, dropped, orphans, used >>

TickAdds ==
  /\ tick = "add"
  /\ tick' = "idle"
  /\ \/ scanq' = Added("SCHEDULED") /\ UNCHANGED used
     \/ Fault /\ UNCHANGED scanq
  /\ UNCHANGED << arrived, gone, acct, linked, granted, enabled, slot, web, email, pq, dropped, orphans >>

SwitchScanning ==
  /\ Request
  /\ enabled' = ~enabled
  /\ UNCHANGED << arrived, gone, acct, linked, granted, scanq, slot, tick, web, email, pq, dropped, orphans >>

-----------------------------------------------------------------------------
(* scanGmailAccount.                                                       *)

(* The job reads the account: what it finds stays with it.                 *)
TakeJob(s, j) ==
  /\ slot[s].pc = "idle"
  /\ scanq[j] = "waiting"
  /\ IF acct.status \in {"DISCONNECTED", "EXPIRED"}
     THEN /\ \E next \in {"waiting", "finished"} : scanq' = [scanq EXCEPT ![j] = next]
          /\ UNCHANGED slot
     ELSE /\ scanq' = [scanq EXCEPT ![j] = "active"]
          /\ slot' = [slot EXCEPT ![s] =
               [pc |-> "auth", job |-> j, creds |-> acct.creds, began |-> linked,
                cursor |-> acct.cursor, hid |-> 0, todo |-> {}, msg |-> 0]]
  /\ UNCHANGED << arrived, gone, acct, linked, granted, enabled, tick, web, email, pq, dropped, orphans, used >>

(* getAuthorizedClient, with the tokens read before: an access token that  *)
(* is fresh is used as it is, else it is exchanged and the account written *)
(* CONNECTED, whatever it has become meanwhile.                            *)
Authorize(s) ==
  /\ slot[s].pc = "auth"
  /\ \/ /\ slot[s].creds
        /\ Goto(s, "profile")
        /\ UNCHANGED << acct, scanq, used >>
     \/ /\ slot[s].creds
        /\ granted
        /\ acct' = [acct EXCEPT !.status = "CONNECTED"]
        /\ Goto(s, "profile")
        /\ UNCHANGED << scanq, used >>
     \/ /\ slot[s].creds
        /\ ~granted
        /\ acct' = [acct EXCEPT !.status = "EXPIRED"]
        /\ Throws(s)
        /\ UNCHANGED used
     \/ /\ slot[s].creds => Fault
        /\ ~slot[s].creds => UNCHANGED used
        /\ acct' = [acct EXCEPT !.status = "ERROR"]
        /\ Throws(s)
  /\ UNCHANGED << arrived, gone, linked, granted, enabled, tick, web, email, pq, dropped, orphans >>

(* Any call to Gmail may fail for good: the scan is recorded as failed.    *)
(* So is one whose cursor Google has forgotten, because the client rewrites*)
(* the 404 that the fallback to the query looks for.                       *)
ScanFails(s) ==
  /\ slot[s].pc \in {"profile", "collect"}
  /\ granted => Fault
  /\ ~granted => UNCHANGED used
  /\ Throws(s)
  /\ UNCHANGED << arrived, gone, acct, linked, granted, enabled, tick, web, email, pq, dropped, orphans >>

(* The profile is read before the messages are listed, so what arrives in  *)
(* between is listed again next time.                                      *)
GetProfile(s) ==
  /\ slot[s].pc = "profile"
  /\ granted
  /\ slot' = [slot EXCEPT ![s].pc = "collect", ![s].hid = arrived]
  /\ UNCHANGED << arrived, gone, acct, linked, granted, enabled, scanq, tick, web, email, pq,
                  dropped, orphans, used >>

FirstOf(ms, n) == { m \in ms : Cardinality({ k \in ms : k < m }) < n }
LastOf(ms, n)  == { m \in ms : Cardinality({ k \in ms : k > m }) < n }

(* The history since the cursor, of which only the first page is read.     *)
Since(s)   == { m \in Message : m > slot[s].cursor /\ m <= arrived }
History(s) == FirstOf(Since(s), IF HistoryPage < MaxScan THEN HistoryPage ELSE MaxScan)

(* The bounded query: the latest messages that still are in the mailbox.   *)
Inbox    == (1..arrived) \ gone
Lookback == LastOf(Inbox, MaxScan)

List(s, ids, left) ==
  /\ slot' = [slot EXCEPT ![s].pc = "fetch", ![s].todo = ids \ Stored, ![s].cursor = 0]
  /\ dropped' = dropped \cup (left \ Stored)
  /\ UNCHANGED << arrived, gone, acct, linked, granted, enabled, scanq, tick, web, email, pq, orphans, used >>

CollectFromHistory(s) ==
  /\ slot[s].pc = "collect"
  /\ granted
  /\ slot[s].job # "INITIAL"
  /\ slot[s].cursor # 0
  /\ List(s, History(s), Since(s) \ History(s))

(* A first scan, one without a cursor, and a full one, which only a user   *)
(* asks for.                                                               *)
CollectByQuery(s) ==
  /\ slot[s].pc = "collect"
  /\ granted
  /\ slot[s].cursor = 0 \/ slot[s].job \in Manual \cup {"INITIAL"}
  /\ List(s, Lookback, Inbox \ Lookback)

(* Messages deleted by now, and others that could not be fetched, are      *)
(* logged and left.                                                        *)
GetMessages(s) ==
  /\ slot[s].pc = "fetch"
  /\ \E failed \in SUBSET (slot[s].todo \ gone) :
       /\ failed # {} /\ granted => Fault
       /\ failed = {} \/ ~granted => UNCHANGED used
       /\ ~granted => failed = slot[s].todo \ gone
       /\ dropped' = dropped \cup failed
       /\ slot' = [slot EXCEPT ![s].pc = "store", ![s].todo = @ \ (failed \cup gone)]
  /\ UNCHANGED << arrived, gone, acct, linked, granted, enabled, scanq, tick, web, email, pq, orphans >>

(* Another scan may have stored the message first: the unique constraint   *)
(* rejects the row and the loop goes on.  Other failures are logged.       *)
StoreEmail(s, m) ==
  /\ slot[s].pc = "store"
  /\ m \in slot[s].todo
  /\ \/ /\ email[m] = "none"
        /\ email' = [email EXCEPT ![m] = "QUEUED"]
        /\ slot' = [slot EXCEPT ![s].pc = "enqueue", ![s].msg = m, ![s].todo = @ \ {m}]
        /\ UNCHANGED << dropped, used >>
     \/ /\ email[m] # "none"
        /\ slot' = [slot EXCEPT ![s].todo = @ \ {m}]
        /\ UNCHANGED << email, dropped, used >>
     \/ /\ email[m] = "none"
        /\ Fault
        /\ dropped' = dropped \cup {m}
        /\ slot' = [slot EXCEPT ![s].todo = @ \ {m}]
        /\ UNCHANGED email
  /\ UNCHANGED << arrived, gone, acct, linked, granted, enabled, scanq, tick, web, pq, orphans >>

(* Faulty variant: the add has slipped below the loop.                     *)
EnqueueLastEmail(s) ==
  /\ slot[s].pc = "enqueue"
  /\ Goto(s, "store")
  /\ pq' = IF slot[s].todo = {} THEN pq \cup {slot[s].msg} ELSE pq
  /\ UNCHANGED << arrived, gone, acct, linked, granted, enabled, scanq, tick, web, email, dropped,
                  orphans, used >>

(* A refused add is logged and dropped.                                    *)
EnqueueEmail(s) ==
  /\ slot[s].pc = "enqueue"
  /\ Goto(s, "store")
  /\ \/ pq' = pq \cup {slot[s].msg} /\ UNCHANGED << orphans, used >>
     \/ Fault /\ orphans' = orphans \cup {slot[s].msg} /\ UNCHANGED pq
  /\ UNCHANGED << arrived, gone, acct, linked, granted, enabled, scanq, tick, web, email, dropped >>

(* Faulty variant: the history id is read when the scan ends.              *)
FinishAtLatest(s) ==
  /\ slot[s].pc = "store"
  /\ slot[s].todo = {}
  /\ acct' = [acct EXCEPT !.status = "CONNECTED", !.cursor = arrived, !.due = FALSE]
  /\ scanq' = [scanq EXCEPT ![slot[s].job] = "finished"]
  /\ slot' = [slot EXCEPT ![s] = Free]
  /\ UNCHANGED << arrived, gone, linked, granted, enabled, tick, web, email, pq, dropped, orphans, used >>

(* The cursor advances and the account is written CONNECTED, whatever it   *)
(* has become meanwhile.                                                   *)
FinishScan(s) ==
  /\ slot[s].pc = "store"
  /\ slot[s].todo = {}
  /\ acct' = [acct EXCEPT !.status = "CONNECTED", !.cursor = slot[s].hid, !.due = FALSE]
  /\ scanq' = [scanq EXCEPT ![slot[s].job] = "finished"]
  /\ slot' = [slot EXCEPT ![s] = Free]
  /\ UNCHANGED << arrived, gone, linked, granted, enabled, tick, web, email, pq, dropped, orphans, used >>

-----------------------------------------------------------------------------
(* The worker process dies: its jobs stall and are run again.              *)
Crash ==
  /\ \E s \in Slots : slot[s].pc # "idle"
  /\ Fault
  /\ orphans' = orphans \cup { slot[s].msg : s \in { v \in Slots : slot[v].pc = "enqueue" } }
  /\ slot' = [s \in Slots |-> Free]
  /\ scanq' = [j \in Job |-> IF scanq[j] = "active" THEN "waiting" ELSE scanq[j]]
  /\ UNCHANGED << arrived, gone, acct, linked, granted, enabled, tick, web, email, pq, dropped >>

(* A finished job is removed when many others have finished after it.      *)
Evict(j) ==
  /\ j \notin Manual
  /\ scanq[j] = "finished"
  /\ scanq' = [scanq EXCEPT ![j] = "none"]
  /\ UNCHANGED << arrived, gone, acct, linked, granted, enabled, slot, tick, web, email, pq, dropped,
                  orphans, used >>

(* The analysis of an email, whatever its verdict, FAILED included.        *)
Analyze(m) ==
  /\ m \in pq
  /\ pq' = pq \ {m}
  /\ email' = [email EXCEPT ![m] = "analysed"]
  /\ UNCHANGED << arrived, gone, acct, linked, granted, enabled, scanq, slot, tick, web, dropped,
                  orphans, used >>

(* The user asks for an email to be analysed again: the row is marked      *)
(* first, and when the queue refuses the job, the request fails.           *)
Reprocess(m) ==
  /\ email[m] # "none"
  /\ Request
  /\ email' = [email EXCEPT ![m] = "QUEUED"]
  /\ \/ pq' = pq \cup {m} /\ orphans' = orphans \ {m}
     \/ UNCHANGED pq /\ orphans' = orphans \cup {m}
  /\ UNCHANGED << arrived, gone, acct, linked, granted, enabled, scanq, slot, tick, web, dropped >>

Arrives ==
  /\ arrived < MaxMessages
  /\ arrived' = arrived + 1
  /\ UNCHANGED << gone, acct, linked, granted, enabled, scanq, slot, tick, web, email, pq, dropped,
                  orphans, used >>

DeleteInGmail(m) ==
  /\ m <= arrived
  /\ m \notin gone
  /\ Request
  /\ gone' = gone \cup {m}
  /\ UNCHANGED << arrived, acct, linked, granted, enabled, scanq, slot, tick, web, email, pq, dropped,
                  orphans >>

-----------------------------------------------------------------------------
Init ==
  /\ arrived = 0
  /\ gone = {}
  /\ acct = [status |-> "none", creds |-> FALSE, cursor |-> 0, due |-> FALSE]
  /\ linked = FALSE
  /\ granted = FALSE
  /\ enabled = TRUE
  /\ scanq = [j \in Job |-> "none"]
  /\ slot = [s \in Slots |-> Free]
  /\ tick = "idle"
  /\ web = "idle"
  /\ email = [m \in Message |-> "none"]
  /\ pq = {}
  /\ dropped = {}
  /\ orphans = {}
  /\ used = [requests |-> 0, faults |-> 0]

Scan(s) ==
  \/ \E j \in Job : TakeJob(s, j)
  \/ Authorize(s) \/ ScanFails(s) \/ GetProfile(s)
  \/ CollectFromHistory(s) \/ CollectByQuery(s) \/ GetMessages(s)
  \/ \E m \in Message : StoreEmail(s, m)
  \/ EnqueueEmail(s) \/ FinishScan(s)

User ==
  \/ StartOAuth \/ DisconnectRevokes \/ SwitchScanning
  \/ \E j \in Manual : TriggerScan(j)
  \/ \E m \in Message : Reprocess(m) \/ DeleteInGmail(m)

Next ==
  \/ User
  \/ ConnectAccount \/ EnqueueInitial \/ DisconnectWrites
  \/ FallsDue \/ TickReads \/ TickAdds
  \/ \E s \in Slots : Scan(s)
  \/ \E m \in Message : Analyze(m)
  \/ Arrives \/ Crash
  \/ \E j \in Job : Evict(j)

Spec == Init /\ [][Next]_vars

(* Workers go on, requests are answered, the scheduler ticks and time      *)
(* passes; nothing obliges the user, and nothing removes a finished job.   *)
Fairness ==
  /\ WF_vars(\E s \in Slots : Scan(s))
  /\ WF_vars(ConnectAccount) /\ WF_vars(EnqueueInitial) /\ WF_vars(DisconnectWrites)
  /\ WF_vars(FallsDue) /\ WF_vars(TickReads) /\ WF_vars(TickAdds)
  /\ \A m \in Message : WF_vars(Analyze(m))

FairSpec == Spec /\ Fairness

-----------------------------------------------------------------------------
(* Properties.                                                             *)

SlotState == [pc : {"idle", "auth", "profile", "collect", "fetch", "store", "enqueue"},
              job : Job \cup {"none"}, creds : BOOLEAN, began : BOOLEAN, cursor : 0..MaxMessages,
              hid : 0..MaxMessages, todo : SUBSET Message, msg : 0..MaxMessages]

SlotOK(s) ==
  /\ slot[s].pc # "idle" =>
       /\ slot[s].job \in Job /\ scanq[slot[s].job] = "active"
       /\ \A v \in Slots : v # s /\ slot[v].pc # "idle" => slot[v].job # slot[s].job
  /\ slot[s].pc = "enqueue" => slot[s].msg \in Stored
  /\ slot[s].hid <= arrived /\ slot[s].cursor <= arrived
  /\ slot[s].todo \subseteq 1..arrived

(* Every value has its type; a scan under way belongs to an active job,    *)
(* which runs in one slot only, and its cursor, the account's and what it  *)
(* is about to store are no later than the mailbox.                        *)
TypeOK ==
  /\ arrived \in 0..MaxMessages
  /\ gone \subseteq 1..arrived
  /\ acct \in [status : {"none", "CONNECTED", "ERROR", "EXPIRED", "DISCONNECTED"},
               creds : BOOLEAN, cursor : 0..arrived, due : BOOLEAN]
  /\ linked \in BOOLEAN
  /\ granted \in BOOLEAN
  /\ enabled \in BOOLEAN
  /\ scanq \in [Job -> {"none", "waiting", "active", "finished"}]
  /\ slot \in [Slots -> SlotState]
  /\ tick \in {"idle", "add"}
  /\ web \in {"idle", "consent", "initial", "disconnect"}
  /\ email \in [Message -> {"none", "QUEUED", "analysed"}]
  /\ pq \subseteq Stored
  /\ dropped \subseteq 1..arrived
  /\ orphans \subseteq Stored
  /\ used \in [requests : Nat, faults : Nat]
  /\ \A s \in Slots : SlotOK(s)

(* The cursor leaves no silent gap: a message at or before it is stored,   *)
(* or was deleted by the user, or is one that a listing left out or a      *)
(* logged failure lost.  Scans that overlap, crash, fail half way or       *)
(* finish out of order, and messages that arrive during one, add nothing.  *)
Covered(m) == m \in Stored \cup gone \cup dropped
CursorCovers == \A m \in 1..acct.cursor : Covered(m)

(* Every stored email is handed to the analysis: it is analysed, or its    *)
(* job exists, or the scan that stored it is about to add the job, or a    *)
(* fault has swallowed the hand-off.                                       *)
HandedOver ==
  \A m \in Stored :
    \/ email[m] = "analysed"
    \/ m \in pq
    \/ \E s \in Slots : slot[s].pc = "enqueue" /\ slot[s].msg = m
    \/ m \in orphans

(* No scan that begins after the user disconnected reads the mailbox, even *)
(* when a scan that was under way writes the account CONNECTED again.      *)
ScanNeedsConsent == \A s \in Scanning : slot[s].began

(* What the scheduler promises of an account: while it is connected and    *)
(* scanning is on, a scan that is due takes place.                         *)
DueIsScanned ==
  acct.status = "CONNECTED" /\ acct.due ~> ~acct.due \/ acct.status # "CONNECTED" \/ ~enabled
=============================================================================
