--------------------------- MODULE MailboxScanProofs ---------------------------
(***************************************************************************)
(* Theorems about MailboxScan, for every number of scan slots, messages,   *)
(* requests and faults and every page size.                                *)
(***************************************************************************)
EXTENDS MailboxScan, TLAPS

-----------------------------------------------------------------------------
(* Type correctness.                                                       *)

LEMMA ArrivedMessages == TypeOK => 1..arrived \subseteq Message
  BY SizesAssumption DEF TypeOK, Message

LEMMA FreeType == Free \in SlotState
  BY SizesAssumption DEF Free, SlotState

LEMMA TypeInit == Init => TypeOK
<1> SUFFICES ASSUME Init PROVE TypeOK
  OBVIOUS
<1>1. \A s \in Slots : slot[s] = Free
  BY DEF Init
<1>2. arrived = 0 /\ 0 \in 0..MaxMessages /\ 0 \in 0..0
  BY SizesAssumption DEF Init
<1>3. acct \in [status : {"none", "CONNECTED", "ERROR", "EXPIRED", "DISCONNECTED"},
                creds : BOOLEAN, cursor : 0..arrived, due : BOOLEAN]
  BY <1>2 DEF Init
<1>4. slot \in [Slots -> SlotState]
  BY FreeType DEF Init
<1>5. \A s \in Slots : /\ slot[s].pc = "idle" /\ slot[s].hid = 0 /\ slot[s].cursor = 0
                       /\ slot[s].todo = {}
  BY <1>1 DEF Free
<1>6. Stored = {}
  BY DEF Init, Stored
<1>7. /\ scanq \in [Job -> {"none", "waiting", "active", "finished"}]
      /\ email \in [Message -> {"none", "QUEUED", "analysed"}]
      /\ used \in [requests : Nat, faults : Nat]
  BY DEF Init
<1>8. /\ gone = {} /\ dropped = {} /\ pq = {} /\ orphans = {} /\ linked = FALSE
      /\ granted = FALSE /\ enabled = TRUE /\ tick = "idle" /\ web = "idle"
  BY DEF Init
<1>9. \A s \in Slots : SlotOK(s)
  BY <1>2, <1>5 DEF SlotOK
<1>10. QED
  BY <1>2, <1>3, <1>4, <1>5, <1>6, <1>7, <1>8, <1>9, Zenon DEF TypeOK

(* A step that leaves the scans, their jobs and the rows alone.            *)
LEMMA SlotsKeep ==
  ASSUME TypeOK, UNCHANGED << slot, arrived >>, Stored \subseteq Stored',
         \A j \in Job : scanq[j] = "active" => scanq'[j] = "active"
  PROVE  \A s \in Slots : SlotOK(s)'
  BY DEF TypeOK, SlotOK

(* What the user, the scheduler and the consent do leaves the scans alone. *)
LEMMA TypeRequests ==
  ASSUME TypeOK,
         \/ User \/ ConnectAccount \/ EnqueueInitial \/ DisconnectWrites
         \/ FallsDue \/ TickReads \/ TickAdds
  PROVE  TypeOK'
<1>1. CASE StartOAuth
  BY <1>1, SlotsKeep DEF TypeOK, StartOAuth, Request, Stored
<1>2. CASE ConnectAccount
  BY <1>2, SlotsKeep DEF TypeOK, ConnectAccount, Stored
<1>3. CASE EnqueueInitial
  BY <1>3, SlotsKeep DEF TypeOK, EnqueueInitial, Added, Fault, Stored, Job
<1>4. CASE DisconnectRevokes
  <2>1. granted' \in BOOLEAN
    BY <1>4 DEF TypeOK, DisconnectRevokes
  <2>2. used' \in [requests : Nat, faults : Nat]
    BY <1>4 DEF TypeOK, DisconnectRevokes, Request
  <2>3. /\ web' = "disconnect"
        /\ UNCHANGED << arrived, gone, acct, linked, enabled, scanq, slot, tick, email, pq, dropped,
                        orphans >>
    BY <1>4 DEF DisconnectRevokes
  <2>4. QED
    BY <2>1, <2>2, <2>3, SlotsKeep DEF TypeOK, Stored
<1>5. CASE DisconnectWrites
  <2>1. acct' \in [status : {"none", "CONNECTED", "ERROR", "EXPIRED", "DISCONNECTED"},
                   creds : BOOLEAN, cursor : 0..arrived, due : BOOLEAN]
    <3>1. acct.due \in BOOLEAN /\ 0 \in 0..arrived
      BY SizesAssumption DEF TypeOK
    <3>2. acct' = [status |-> "DISCONNECTED", creds |-> FALSE, cursor |-> 0, due |-> acct.due]
      BY <1>5 DEF TypeOK, DisconnectWrites
    <3>3. QED
      BY <3>1, <3>2
  <2>2. /\ web' = "idle" /\ linked' = FALSE
        /\ UNCHANGED << arrived, gone, granted, enabled, scanq, slot, tick, email, pq, dropped,
                        orphans, used >>
    BY <1>5 DEF DisconnectWrites
  <2>3. QED
    BY <2>1, <2>2, SlotsKeep DEF TypeOK, Stored
<1>6. ASSUME NEW j \in Manual, TriggerScan(j) PROVE TypeOK'
  <2>1. j \in Job
    BY DEF Job
  <2>2. CASE scanq' = Added(j)
    BY <1>6, <2>1, <2>2, SlotsKeep DEF TypeOK, TriggerScan, Added, Request, Stored
  <2>3. CASE scanq' = scanq
    BY <1>6, <2>3, SlotsKeep DEF TypeOK, TriggerScan, Request, Stored
  <2>4. QED
    BY <1>6, <2>2, <2>3 DEF TriggerScan
<1>7. CASE FallsDue
  BY <1>7, SlotsKeep DEF TypeOK, FallsDue, Stored
<1>8. CASE TickReads
  BY <1>8, SlotsKeep DEF TypeOK, TickReads, Stored
<1>9. CASE TickAdds
  BY <1>9, SlotsKeep DEF TypeOK, TickAdds, Added, Fault, Stored, Job
<1>10. CASE SwitchScanning
  BY <1>10, SlotsKeep DEF TypeOK, SwitchScanning, Request, Stored
<1>11. CASE \E m \in Message : Reprocess(m)
  BY <1>11, SlotsKeep DEF TypeOK, Reprocess, Request, Stored
<1>12. CASE \E m \in Message : DeleteInGmail(m)
  BY <1>12, SlotsKeep DEF TypeOK, DeleteInGmail, Request, Stored, Message
<1>13. QED
  BY <1>1, <1>2, <1>3, <1>4, <1>5, <1>6, <1>7, <1>8, <1>9, <1>10, <1>11, <1>12 DEF User

(* The mailbox, the analysis, and a job that is removed.                   *)
LEMMA TypeSurroundings ==
  ASSUME TypeOK,
         Arrives \/ (\E m \in Message : Analyze(m)) \/ \E j \in Job : Evict(j)
  PROVE  TypeOK'
<1>1. CASE Arrives
  <2>1. arrived \in Nat /\ arrived' = arrived + 1 /\ arrived' \in 0..MaxMessages
    BY <1>1, SizesAssumption DEF TypeOK, Arrives
  <2>2. \A s \in Slots : SlotOK(s)'
    BY <1>1, <2>1 DEF TypeOK, Arrives, SlotOK, SlotState, Stored, Message
  <2>3. acct.cursor \in 0..arrived'
    BY <2>1 DEF TypeOK
  <2>4. QED
    BY <1>1, <2>1, <2>2, <2>3 DEF TypeOK, Arrives, Stored
<1>2. CASE \E m \in Message : Analyze(m)
  BY <1>2, SlotsKeep DEF TypeOK, Analyze, Stored
<1>3. CASE \E j \in Job : Evict(j)
  BY <1>3, SlotsKeep DEF TypeOK, Evict, Stored
<1>4. QED
  BY <1>1, <1>2, <1>3

(* A step of one scan keeps the others; what it must show of its own.      *)
OwnOK(s, x) ==
  /\ x \in SlotState
  /\ x.pc # "idle" =>
       /\ x.job \in Job /\ scanq'[x.job] = "active"
       /\ \A v \in Slots : v # s /\ slot[v].pc # "idle" => slot[v].job # x.job
  /\ x.pc = "enqueue" => x.msg \in Stored'
  /\ x.hid <= arrived /\ x.cursor <= arrived
  /\ x.todo \subseteq 1..arrived

LEMMA SlotStep ==
  ASSUME TypeOK, NEW s \in Slots, NEW x, OwnOK(s, x),
         slot' = [slot EXCEPT ![s] = x], UNCHANGED arrived, Stored \subseteq Stored',
         \A v \in Slots : v # s /\ slot[v].pc # "idle" => scanq'[slot[v].job] = "active"
  PROVE  /\ slot' \in [Slots -> SlotState]
         /\ \A v \in Slots : SlotOK(v)'
<1>1. slot'[s] = x /\ \A v \in Slots : v # s => slot'[v] = slot[v]
  BY DEF TypeOK
<1>2. slot' \in [Slots -> SlotState]
  BY DEF TypeOK, OwnOK
<1>3. SlotOK(s)'
  BY <1>1 DEF SlotOK, OwnOK
<1>4. ASSUME NEW v \in Slots, v # s PROVE SlotOK(v)'
  <2>1. SlotOK(v) /\ slot'[v] = slot[v]
    BY <1>1, <1>4 DEF TypeOK
  <2>2. slot[v].pc # "idle" /\ x.pc # "idle" => x.job # slot[v].job
    BY <1>4 DEF OwnOK
  <2>3. QED
    BY <1>1, <1>4, <2>1, <2>2 DEF SlotOK
<1>5. QED
  BY <1>2, <1>3, <1>4

(* A scan that goes on, with fewer messages to do, and its job with it.    *)
LEMMA ScanGoesOn ==
  ASSUME TypeOK, NEW s \in Slots, slot[s].pc # "idle", UNCHANGED << arrived, scanq >>,
         NEW x \in SlotState, slot' = [slot EXCEPT ![s] = x],
         x.job = slot[s].job, x.pc = "enqueue" => x.msg \in Stored',
         x.hid <= arrived, x.cursor <= arrived, x.todo \subseteq 1..arrived,
         Stored \subseteq Stored'
  PROVE  /\ slot' \in [Slots -> SlotState]
         /\ \A v \in Slots : SlotOK(v)'
<1>1. OwnOK(s, x)
  BY DEF TypeOK, SlotOK, OwnOK
<1>2. \A v \in Slots : slot[v].pc # "idle" => scanq'[slot[v].job] = "active"
  BY DEF TypeOK, SlotOK
<1>3. QED
  BY <1>1, <1>2, SlotStep

(* A scan that ends sets its job free and no other.                        *)
LEMMA ScanEnds ==
  ASSUME TypeOK, NEW s \in Slots, slot[s].pc # "idle", UNCHANGED << arrived, email >>,
         slot' = [slot EXCEPT ![s] = Free],
         NEW next \in {"waiting", "finished"}, scanq' = [scanq EXCEPT ![slot[s].job] = next]
  PROVE  /\ slot' \in [Slots -> SlotState]
         /\ \A v \in Slots : SlotOK(v)'
         /\ scanq' \in [Job -> {"none", "waiting", "active", "finished"}]
<1>1. OwnOK(s, Free)
  BY FreeType, SizesAssumption DEF TypeOK, Free, OwnOK
<1>2. \A v \in Slots : v # s /\ slot[v].pc # "idle" => scanq'[slot[v].job] = "active"
  BY DEF TypeOK, SlotOK
<1>3. Stored' = Stored
  BY DEF Stored
<1>4. QED
  BY <1>1, <1>2, <1>3, SlotStep DEF TypeOK

(* A scan that goes on and forgets what it reads no more.                  *)
Kept(s, pc) == [slot[s] EXCEPT !.pc = pc, !.creds = FALSE, !.msg = 0]

LEMMA KeptType ==
  ASSUME NEW s, slot[s] \in SlotState, NEW pc \in {"profile", "store"}
  PROVE  /\ Kept(s, pc) \in SlotState
         /\ Kept(s, pc).job = slot[s].job /\ Kept(s, pc).pc = pc
         /\ Kept(s, pc).hid = slot[s].hid /\ Kept(s, pc).cursor = slot[s].cursor
         /\ Kept(s, pc).todo = slot[s].todo /\ Kept(s, pc).began = slot[s].began
<1> DEFINE x == [slot[s] EXCEPT !.pc = pc, !.creds = FALSE]
<1>1. /\ x \in SlotState /\ x.job = slot[s].job /\ x.pc = pc /\ x.hid = slot[s].hid
      /\ x.cursor = slot[s].cursor /\ x.todo = slot[s].todo /\ x.began = slot[s].began
  BY DEF SlotState
<1>2. Kept(s, pc) = [x EXCEPT !.msg = 0]
  BY DEF Kept
<1> HIDE DEF x
<1>3. QED
  BY <1>1, <1>2, SizesAssumption DEF SlotState

LEMMA GotoStep ==
  ASSUME TypeOK, NEW s \in Slots, slot[s].pc # "idle", UNCHANGED << arrived, scanq >>,
         NEW pc \in {"profile", "store"}, Goto(s, pc), Stored \subseteq Stored'
  PROVE  /\ slot' \in [Slots -> SlotState]
         /\ \A v \in Slots : SlotOK(v)'
<1>1. slot[s] \in SlotState /\ SlotOK(s)
  BY DEF TypeOK
<1>2. /\ Kept(s, pc) \in SlotState
      /\ Kept(s, pc).job = slot[s].job /\ Kept(s, pc).pc = pc
      /\ Kept(s, pc).hid = slot[s].hid /\ Kept(s, pc).cursor = slot[s].cursor
      /\ Kept(s, pc).todo = slot[s].todo
  BY <1>1, KeptType
<1>3. slot' = [slot EXCEPT ![s] = Kept(s, pc)]
  BY DEF Goto, Kept, TypeOK
<1>4. QED
  BY <1>1, <1>2, <1>3, ScanGoesOn DEF SlotOK

LEMMA TakeJobType ==
  ASSUME TypeOK, NEW s \in Slots, NEW j \in Job, TakeJob(s, j)
  PROVE  TypeOK'
<1>1. CASE acct.status \in {"DISCONNECTED", "EXPIRED"}
  BY <1>1, SlotsKeep DEF TypeOK, TakeJob, Stored
<1>2. CASE acct.status \notin {"DISCONNECTED", "EXPIRED"}
  <2> DEFINE x == [pc |-> "auth", job |-> j, creds |-> acct.creds, began |-> linked,
                   cursor |-> acct.cursor, hid |-> 0, todo |-> {}, msg |-> 0]
  <2>1. /\ scanq[j] = "waiting"
        /\ scanq' = [scanq EXCEPT ![j] = "active"]
        /\ slot' = [slot EXCEPT ![s] = x]
        /\ UNCHANGED << arrived, gone, acct, linked, granted, enabled, tick, web, email, pq, dropped,
                        orphans, used >>
    BY <1>2 DEF TakeJob
  <2>2. acct.creds \in BOOLEAN /\ acct.cursor \in 0..arrived /\ acct.cursor \in 0..MaxMessages
    BY SizesAssumption DEF TypeOK
  <2>3. x \in SlotState
    BY <2>2, SizesAssumption DEF SlotState, TypeOK
  <2>4. \A v \in Slots : v # s /\ slot[v].pc # "idle" =>
          slot[v].job # j /\ scanq'[slot[v].job] = "active"
    BY <2>1 DEF TypeOK, SlotOK
  <2>5. scanq' \in [Job -> {"none", "waiting", "active", "finished"}] /\ scanq'[j] = "active"
    BY <2>1 DEF TypeOK
  <2>6. OwnOK(s, x)
    BY <2>2, <2>3, <2>4, <2>5, SizesAssumption DEF OwnOK, TypeOK
  <2>7. Stored' = Stored
    BY <2>1 DEF Stored
  <2>8. slot' \in [Slots -> SlotState] /\ \A v \in Slots : SlotOK(v)'
    BY <2>1, <2>4, <2>6, <2>7, SlotStep
  <2>9. QED
    BY <2>1, <2>5, <2>7, <2>8 DEF TypeOK
<1>3. QED
  BY <1>1, <1>2

LEMMA AuthorizeType ==
  ASSUME TypeOK, NEW s \in Slots, Authorize(s)
  PROVE  TypeOK'
<1>1. /\ slot[s].pc = "auth"
      /\ UNCHANGED << arrived, gone, linked, granted, enabled, tick, web, email, pq, dropped, orphans >>
      /\ acct' \in [status : {"none", "CONNECTED", "ERROR", "EXPIRED", "DISCONNECTED"},
                    creds : BOOLEAN, cursor : 0..arrived, due : BOOLEAN]
      /\ used' \in [requests : Nat, faults : Nat]
  BY DEF Authorize, TypeOK, Fault
<1>2. Stored' = Stored
  BY <1>1 DEF Stored
<1>3. \/ Goto(s, "profile") /\ UNCHANGED scanq
      \/ Throws(s)
  BY DEF Authorize
<1>4. CASE Goto(s, "profile") /\ UNCHANGED scanq
  BY <1>1, <1>2, <1>4, GotoStep DEF TypeOK
<1>5. CASE Throws(s)
  <2>1. /\ slot' \in [Slots -> SlotState]
        /\ \A v \in Slots : SlotOK(v)'
        /\ scanq' \in [Job -> {"none", "waiting", "active", "finished"}]
    BY <1>1, <1>5, ScanEnds DEF Throws
  <2>2. QED
    BY <1>1, <1>2, <2>1 DEF TypeOK
<1>6. QED
  BY <1>3, <1>4, <1>5

LEMMA ScanFailsType ==
  ASSUME TypeOK, NEW s \in Slots, ScanFails(s)
  PROVE  TypeOK'
<1>1. /\ slot[s].pc # "idle" /\ Throws(s)
      /\ UNCHANGED << arrived, gone, acct, linked, granted, enabled, tick, web, email, pq, dropped,
                      orphans >>
      /\ used' \in [requests : Nat, faults : Nat]
  BY DEF ScanFails, TypeOK, Fault
<1>2. Stored' = Stored
  BY <1>1 DEF Stored
<1>3. /\ slot' \in [Slots -> SlotState]
      /\ \A v \in Slots : SlotOK(v)'
      /\ scanq' \in [Job -> {"none", "waiting", "active", "finished"}]
  BY <1>1, ScanEnds DEF Throws
<1>4. QED
  BY <1>1, <1>2, <1>3 DEF TypeOK

LEMMA GetProfileType ==
  ASSUME TypeOK, NEW s \in Slots, GetProfile(s)
  PROVE  TypeOK'
<1> DEFINE x == [slot[s] EXCEPT !.pc = "collect", !.hid = arrived]
<1>1. slot[s] \in SlotState /\ SlotOK(s) /\ arrived \in 0..MaxMessages /\ slot[s].pc = "profile"
  BY DEF TypeOK, GetProfile
<1>2. /\ x \in SlotState /\ x.pc = "collect" /\ x.job = slot[s].job /\ x.hid = arrived
      /\ x.cursor = slot[s].cursor /\ x.todo = slot[s].todo
  BY <1>1 DEF SlotState
<1>3. slot' = [slot EXCEPT ![s] = x]
  BY DEF GetProfile, TypeOK
<1>4. /\ slot' \in [Slots -> SlotState]
      /\ \A v \in Slots : SlotOK(v)'
  <2> HIDE DEF x
  <2>1. UNCHANGED << arrived, scanq, email >> /\ arrived <= arrived
    BY <1>1, SizesAssumption DEF GetProfile
  <2>2. QED
    BY <1>1, <1>2, <1>3, <2>1, ScanGoesOn DEF SlotOK, Stored
<1>5. QED
  BY <1>4 DEF GetProfile, TypeOK, Stored

(* What a scan lists has arrived.                                          *)
LEMMA ListingArrived ==
  ASSUME TypeOK, NEW s \in Slots
  PROVE  /\ History(s) \subseteq Since(s) /\ Since(s) \subseteq 1..arrived
         /\ Lookback \subseteq Inbox /\ Inbox \subseteq 1..arrived
  BY DEF History, Since, FirstOf, Lookback, LastOf, Inbox, Message

LEMMA ListType ==
  ASSUME TypeOK, NEW s \in Slots, slot[s].pc = "collect",
         NEW ids, ids \subseteq 1..arrived, NEW left, left \subseteq 1..arrived, List(s, ids, left)
  PROVE  TypeOK'
<1> DEFINE y == [slot[s] EXCEPT !.pc = "fetch", !.todo = ids \ Stored]
           x == [slot[s] EXCEPT !.pc = "fetch", !.todo = ids \ Stored, !.cursor = 0]
<1>1. slot[s] \in SlotState /\ SlotOK(s) /\ arrived \in 0..MaxMessages
  BY DEF TypeOK
<1>2. ids \ Stored \subseteq 1..arrived /\ ids \ Stored \subseteq Message
  BY ArrivedMessages
<1>3. /\ y \in SlotState /\ y.pc = "fetch" /\ y.job = slot[s].job /\ y.hid = slot[s].hid
      /\ y.todo = ids \ Stored
  BY <1>1, <1>2 DEF SlotState
<1>4. x = [y EXCEPT !.cursor = 0]
  OBVIOUS
<1>5. slot' = [slot EXCEPT ![s] = x]
  BY DEF List, TypeOK
<1> HIDE DEF x, y
<1>6. /\ x \in SlotState /\ x.pc = "fetch" /\ x.job = slot[s].job /\ x.hid = slot[s].hid
      /\ x.todo = ids \ Stored /\ x.cursor = 0
  BY <1>3, <1>4, SizesAssumption DEF SlotState
<1>7. UNCHANGED << arrived, scanq, email >> /\ 0 <= arrived
  BY <1>1, SizesAssumption DEF List
<1>8. /\ slot' \in [Slots -> SlotState]
      /\ \A v \in Slots : SlotOK(v)'
  BY <1>1, <1>2, <1>5, <1>6, <1>7, ScanGoesOn DEF SlotOK, Stored
<1>9. Stored' = Stored /\ dropped' \subseteq 1..arrived
  BY <1>7 DEF List, TypeOK, Stored
<1>10. QED
  BY <1>8, <1>9 DEF List, TypeOK

LEMMA CollectType ==
  ASSUME TypeOK, NEW s \in Slots, CollectFromHistory(s) \/ CollectByQuery(s)
  PROVE  TypeOK'
<1>1. CASE CollectFromHistory(s)
  BY <1>1, ListingArrived, ListType DEF CollectFromHistory
<1>2. CASE CollectByQuery(s)
  BY <1>2, ListingArrived, ListType DEF CollectByQuery
<1>3. QED
  BY <1>1, <1>2

LEMMA GetMessagesType ==
  ASSUME TypeOK, NEW s \in Slots, GetMessages(s)
  PROVE  TypeOK'
<1>1. PICK failed \in SUBSET (slot[s].todo \ gone) :
        /\ used' = used \/ Fault
        /\ dropped' = dropped \cup failed
        /\ slot' = [slot EXCEPT ![s].pc = "store", ![s].todo = @ \ (failed \cup gone)]
  BY DEF GetMessages
<1> DEFINE x == [slot[s] EXCEPT !.pc = "store", !.todo = @ \ (failed \cup gone)]
<1>2. slot[s] \in SlotState /\ SlotOK(s) /\ slot[s].pc = "fetch"
  BY DEF TypeOK, GetMessages
<1>3. /\ x \in SlotState /\ x.pc = "store" /\ x.job = slot[s].job /\ x.hid = slot[s].hid
      /\ x.cursor = slot[s].cursor /\ x.todo \subseteq slot[s].todo
  BY <1>2 DEF SlotState
<1>4. slot' = [slot EXCEPT ![s] = x]
  BY <1>1 DEF TypeOK
<1> HIDE DEF x
<1>5. UNCHANGED << arrived, gone, acct, linked, granted, enabled, scanq, tick, web, email, pq, orphans >>
  BY DEF GetMessages
<1>6. /\ slot' \in [Slots -> SlotState]
      /\ \A v \in Slots : SlotOK(v)'
  BY <1>2, <1>3, <1>4, <1>5, ScanGoesOn DEF SlotOK, Stored
<1>7. failed \subseteq 1..arrived /\ used' \in [requests : Nat, faults : Nat]
  BY <1>1, <1>2 DEF SlotOK, TypeOK, Fault
<1>8. Stored' = Stored
  BY <1>5 DEF Stored
<1>9. QED
  BY <1>1, <1>5, <1>6, <1>7, <1>8 DEF TypeOK

LEMMA StoreEmailType ==
  ASSUME TypeOK, NEW s \in Slots, NEW m \in Message, StoreEmail(s, m)
  PROVE  TypeOK'
<1>1. /\ slot[s] \in SlotState /\ SlotOK(s) /\ slot[s].pc = "store" /\ m \in slot[s].todo
      /\ m \in 1..arrived
      /\ UNCHANGED << arrived, gone, acct, linked, granted, enabled, scanq, tick, web, pq, orphans >>
  BY DEF TypeOK, StoreEmail, SlotOK
<1>2. CASE /\ email[m] = "none"
           /\ email' = [email EXCEPT ![m] = "QUEUED"]
           /\ slot' = [slot EXCEPT ![s].pc = "enqueue", ![s].msg = m, ![s].todo = @ \ {m}]
           /\ UNCHANGED << dropped, used >>
  <2> DEFINE y == [slot[s] EXCEPT !.pc = "enqueue", !.msg = m]
             x == [slot[s] EXCEPT !.pc = "enqueue", !.msg = m, !.todo = @ \ {m}]
  <2>1. /\ y \in SlotState /\ y.pc = "enqueue" /\ y.job = slot[s].job /\ y.hid = slot[s].hid
        /\ y.cursor = slot[s].cursor /\ y.todo = slot[s].todo /\ y.msg = m
    <3>1. m \in 0..MaxMessages
      BY SizesAssumption DEF Message
    <3>2. QED
      BY <1>1, <3>1 DEF SlotState
  <2>2. x = [y EXCEPT !.todo = slot[s].todo \ {m}]
    BY <1>1 DEF SlotState
  <2>3. slot' = [slot EXCEPT ![s] = x]
    BY <1>2 DEF TypeOK
  <2> HIDE DEF x, y
  <2>4. /\ x \in SlotState /\ x.pc = "enqueue" /\ x.job = slot[s].job /\ x.hid = slot[s].hid
        /\ x.cursor = slot[s].cursor /\ x.todo = slot[s].todo \ {m} /\ x.msg = m
    BY <1>1, <2>1, <2>2 DEF SlotState
  <2>5. Stored \subseteq Stored' /\ m \in Stored'
    <3>1. email'[m] = "QUEUED" /\ \A k \in Message : k # m => email'[k] = email[k]
      BY <1>2 DEF TypeOK
    <3>2. QED
      BY <1>2, <3>1 DEF Stored
  <2>6. /\ slot' \in [Slots -> SlotState]
        /\ \A v \in Slots : SlotOK(v)'
    BY <1>1, <2>3, <2>4, <2>5, ScanGoesOn DEF SlotOK
  <2>7. email' \in [Message -> {"none", "QUEUED", "analysed"}]
    BY <1>2 DEF TypeOK
  <2>8. UNCHANGED << dropped, used >>
    BY <1>2
  <2>9. QED
    BY <1>1, <2>5, <2>6, <2>7, <2>8 DEF TypeOK
<1>3. CASE /\ slot' = [slot EXCEPT ![s].todo = @ \ {m}]
           /\ email' = email
           /\ dropped' = dropped \/ dropped' = dropped \cup {m}
           /\ used' = used \/ Fault
  <2> DEFINE x == [slot[s] EXCEPT !.todo = @ \ {m}]
  <2>1. /\ x \in SlotState /\ x.pc = "store" /\ x.job = slot[s].job /\ x.hid = slot[s].hid
        /\ x.cursor = slot[s].cursor /\ x.todo = slot[s].todo \ {m}
    BY <1>1 DEF SlotState
  <2>2. slot' = [slot EXCEPT ![s] = x]
    BY <1>3 DEF TypeOK
  <2> HIDE DEF x
  <2>3. Stored' = Stored
    BY <1>3 DEF Stored
  <2>4. /\ slot' \in [Slots -> SlotState]
        /\ \A v \in Slots : SlotOK(v)'
    BY <1>1, <2>1, <2>2, <2>3, ScanGoesOn DEF SlotOK
  <2>5. dropped' \subseteq 1..arrived /\ used' \in [requests : Nat, faults : Nat]
    BY <1>1, <1>3 DEF TypeOK, Fault
  <2>6. email' = email
    BY <1>3
  <2>7. QED
    BY <1>1, <2>3, <2>4, <2>5, <2>6 DEF TypeOK
<1>4. QED
  BY <1>2, <1>3 DEF StoreEmail

LEMMA EnqueueEmailType ==
  ASSUME TypeOK, NEW s \in Slots, EnqueueEmail(s)
  PROVE  TypeOK'
<1>1. slot[s].pc = "enqueue" /\ slot[s].msg \in Stored
  BY DEF TypeOK, SlotOK, EnqueueEmail
<1>2. /\ Goto(s, "store")
      /\ UNCHANGED << arrived, gone, acct, linked, granted, enabled, scanq, tick, web, email, dropped >>
  BY DEF EnqueueEmail
<1>3. Stored' = Stored
  BY <1>2 DEF Stored
<1>4. /\ slot' \in [Slots -> SlotState]
      /\ \A v \in Slots : SlotOK(v)'
  BY <1>1, <1>2, <1>3, GotoStep
<1>5. pq' \subseteq Stored /\ orphans' \subseteq Stored /\ used' \in [requests : Nat, faults : Nat]
  BY <1>1 DEF TypeOK, EnqueueEmail, Fault
<1>6. QED
  BY <1>2, <1>3, <1>4, <1>5 DEF TypeOK

LEMMA FinishScanType ==
  ASSUME TypeOK, NEW s \in Slots, FinishScan(s)
  PROVE  TypeOK'
<1>1. /\ slot[s].pc = "store" /\ slot' = [slot EXCEPT ![s] = Free]
      /\ scanq' = [scanq EXCEPT ![slot[s].job] = "finished"]
      /\ UNCHANGED << arrived, gone, linked, granted, enabled, tick, web, email, pq, dropped,
                      orphans, used >>
  BY DEF FinishScan
<1>2. slot[s].hid \in 0..arrived
  BY DEF TypeOK, SlotState, SlotOK
<1>3. acct' \in [status : {"none", "CONNECTED", "ERROR", "EXPIRED", "DISCONNECTED"},
                creds : BOOLEAN, cursor : 0..arrived, due : BOOLEAN]
  <2> DEFINE y == [acct EXCEPT !.status = "CONNECTED", !.cursor = slot[s].hid]
  <2>1. y \in [status : {"none", "CONNECTED", "ERROR", "EXPIRED", "DISCONNECTED"},
               creds : BOOLEAN, cursor : 0..arrived, due : BOOLEAN]
    BY <1>2 DEF TypeOK
  <2>2. acct' = [y EXCEPT !.due = FALSE]
    BY DEF FinishScan
  <2> HIDE DEF y
  <2>3. QED
    BY <2>1, <2>2
<1>4. Stored' = Stored
  BY <1>1 DEF Stored
<1>5. QED
  BY <1>1, <1>3, <1>4, ScanEnds DEF TypeOK

LEMMA CrashType ==
  ASSUME TypeOK, Crash
  PROVE  TypeOK'
<1>1. /\ slot' = [s \in Slots |-> Free]
      /\ UNCHANGED << arrived, gone, acct, linked, granted, enabled, tick, web, email, pq, dropped >>
  BY DEF Crash
<1>2. scanq' \in [Job -> {"none", "waiting", "active", "finished"}]
  BY DEF Crash, TypeOK
<1>3. Stored' = Stored
  BY <1>1 DEF Stored
<1>4. orphans' \subseteq Stored /\ used' \in [requests : Nat, faults : Nat]
  BY DEF TypeOK, SlotOK, Crash, Fault
<1>5. \A s \in Slots : slot'[s].pc = "idle" /\ slot'[s].hid = 0 /\ slot'[s].cursor = 0 /\ slot'[s].todo = {}
  BY <1>1 DEF Free
<1>6. \A s \in Slots : SlotOK(s)'
  BY <1>1, <1>5, SizesAssumption DEF SlotOK, TypeOK
<1>7. QED
  BY <1>1, <1>2, <1>3, <1>4, <1>6, FreeType DEF TypeOK

(* Every reachable state is well typed: each scan under way has an active  *)
(* job of its own, and no cursor, listing or history id runs ahead of the  *)
(* mailbox.                                                                *)
THEOREM TypeCorrect == Spec => []TypeOK
<1>1. ASSUME TypeOK, [Next]_vars PROVE TypeOK'
  <2>1. CASE UNCHANGED vars
    BY <1>1, <2>1, SlotsKeep DEF vars, TypeOK, Stored
  <2>2. ASSUME NEW s \in Slots, Scan(s) PROVE TypeOK'
    BY <1>1, <2>2, TakeJobType, AuthorizeType, ScanFailsType, GetProfileType, CollectType,
       GetMessagesType, StoreEmailType, EnqueueEmailType, FinishScanType DEF Scan
  <2>3. CASE \/ User \/ ConnectAccount \/ EnqueueInitial \/ DisconnectWrites
             \/ FallsDue \/ TickReads \/ TickAdds
    BY <1>1, <2>3, TypeRequests
  <2>4. CASE Arrives \/ (\E m \in Message : Analyze(m)) \/ \E j \in Job : Evict(j)
    BY <1>1, <2>4, TypeSurroundings
  <2>5. CASE Crash
    BY <1>1, <2>5, CrashType
  <2>6. QED
    BY <1>1, <2>1, <2>2, <2>3, <2>4, <2>5 DEF Next
<1>2. QED
  BY <1>1, TypeInit, PTL DEF Spec

-----------------------------------------------------------------------------
(* The cursor leaves no silent gap.  What a scan is about to let the       *)
(* cursor pass is covered, or on its list.                                 *)

SlotCovers(x) ==
  /\ \A m \in 1..x.cursor : Covered(m)
  /\ x.pc \in {"fetch", "store", "enqueue"} => \A m \in 1..x.hid : Covered(m) \/ m \in x.todo

CoverInv ==
  /\ TypeOK
  /\ CursorCovers
  /\ \A s \in Slots : SlotCovers(slot[s])

LEMMA CoverInit == Init => CoverInv
<1> SUFFICES ASSUME Init PROVE CoverInv
  OBVIOUS
<1>1. acct.cursor = 0 /\ \A s \in Slots : slot[s].cursor = 0 /\ slot[s].pc = "idle"
  BY DEF Init, Free
<1>2. QED
  BY <1>1, TypeInit DEF CoverInv, CursorCovers, SlotCovers

(* What is covered stays covered.                                          *)
LEMMA StaysCovered ==
  ASSUME TypeOK, Next
  PROVE  \A m : Covered(m) => Covered(m)'
<1>1. ASSUME NEW s \in Slots, Scan(s) PROVE Stored \subseteq Stored' /\ gone \subseteq gone' /\ dropped \subseteq dropped'
  <2>1. CASE \E m \in Message : StoreEmail(s, m)
    BY <2>1 DEF StoreEmail, Stored, TypeOK
  <2>2. CASE \E j \in Job : TakeJob(s, j)
    BY <2>2 DEF TakeJob, Stored
  <2>3. CASE Authorize(s)
    BY <2>3 DEF Authorize, Stored
  <2>4. CASE ScanFails(s) \/ GetProfile(s) \/ EnqueueEmail(s) \/ FinishScan(s)
    BY <2>4 DEF ScanFails, GetProfile, EnqueueEmail, FinishScan, Stored
  <2>5. CASE CollectFromHistory(s) \/ CollectByQuery(s)
    BY <2>5 DEF CollectFromHistory, CollectByQuery, List, Stored
  <2>6. CASE GetMessages(s)
    BY <2>6 DEF GetMessages, Stored
  <2>7. QED
    BY <1>1, <2>1, <2>2, <2>3, <2>4, <2>5, <2>6 DEF Scan
<1>2. CASE \/ StartOAuth \/ DisconnectRevokes \/ SwitchScanning
           \/ (\E j \in Manual : TriggerScan(j)) \/ (\E m \in Message : DeleteInGmail(m))
           \/ ConnectAccount \/ EnqueueInitial \/ DisconnectWrites
           \/ FallsDue \/ TickReads \/ TickAdds \/ Arrives \/ Crash \/ (\E j \in Job : Evict(j))
  <2>1. email' = email /\ gone \subseteq gone' /\ dropped' = dropped
    BY <1>2 DEF StartOAuth, DisconnectRevokes, SwitchScanning, TriggerScan, DeleteInGmail,
                ConnectAccount, EnqueueInitial, DisconnectWrites, FallsDue, TickReads, TickAdds,
                Arrives, Crash, Evict
  <2>2. QED
    BY <2>1 DEF Covered, Stored
<1>3. CASE \E m \in Message : Analyze(m) \/ Reprocess(m)
  BY <1>3 DEF Analyze, Reprocess, Covered, Stored, TypeOK
<1>4. QED
  BY <1>1, <1>2, <1>3 DEF Next, User, Covered

(* A step of one scan, by what it leaves in its slot.                      *)
LEMMA CoverStep ==
  ASSUME CoverInv, Next, NEW s \in Slots, \A v \in Slots : v # s => slot'[v] = slot[v],
         SlotCovers(slot[s])', acct'.cursor = acct.cursor
  PROVE  CursorCovers' /\ \A v \in Slots : SlotCovers(slot[v])'
<1>1. \A m : Covered(m) => Covered(m)'
  BY StaysCovered DEF CoverInv
<1>2. CursorCovers'
  BY <1>1 DEF CoverInv, CursorCovers
<1>3. ASSUME NEW v \in Slots, v # s PROVE SlotCovers(slot[v])'
  BY <1>1, <1>3 DEF CoverInv, SlotCovers
<1>4. QED
  BY <1>2, <1>3

LEMMA CoverScan ==
  ASSUME CoverInv, Next, NEW s \in Slots, Scan(s)
  PROVE  CursorCovers' /\ \A v \in Slots : SlotCovers(slot[v])'
<1> DEFINE Goal == CursorCovers' /\ \A v \in Slots : SlotCovers(slot[v])'
<1>1. /\ TypeOK /\ slot[s] \in SlotState /\ SlotOK(s) /\ SlotCovers(slot[s])
      /\ \A m : Covered(m) => Covered(m)'
      /\ arrived \in 0..MaxMessages
  BY StaysCovered DEF CoverInv, TypeOK
<1>2. ASSUME NEW j \in Job, TakeJob(s, j) PROVE Goal
  <2>1. CASE UNCHANGED << slot, acct >>
    BY <1>1, <2>1, CoverStep DEF SlotCovers
  <2>2. CASE slot'[s].cursor = acct.cursor /\ slot'[s].pc = "auth" /\ acct' = acct
             /\ \A v \in Slots : v # s => slot'[v] = slot[v]
    BY <1>1, <2>2, CoverStep DEF SlotCovers, CoverInv, CursorCovers
  <2>3. QED
    BY <1>1, <1>2, <2>1, <2>2 DEF TakeJob, TypeOK
<1>3. CASE Authorize(s) \/ ScanFails(s) \/ EnqueueEmail(s)
  <2>1. acct'.cursor = acct.cursor
    BY <1>1, <1>3 DEF Authorize, ScanFails, EnqueueEmail, TypeOK
  <2>2. Throws(s) \/ Goto(s, "profile") \/ (slot[s].pc = "enqueue" /\ Goto(s, "store"))
    BY <1>3 DEF Authorize, ScanFails, EnqueueEmail
  <2>3. CASE Throws(s)
    BY <1>1, <2>1, <2>3, CoverStep DEF Throws, Free, SlotCovers, TypeOK
  <2>4. ASSUME NEW pc \in {"profile", "store"}, Goto(s, pc), pc = "store" => slot[s].pc = "enqueue"
        PROVE  Goal
    <3>1. slot' = [slot EXCEPT ![s] = Kept(s, pc)]
      BY <1>1, <2>4 DEF Goto, Kept, TypeOK
    <3>2. slot'[s] = Kept(s, pc) /\ \A v \in Slots : v # s => slot'[v] = slot[v]
      BY <1>1, <3>1 DEF TypeOK
    <3>3. /\ slot'[s].pc = pc /\ slot'[s].cursor = slot[s].cursor
          /\ slot'[s].hid = slot[s].hid /\ slot'[s].todo = slot[s].todo
      BY <1>1, <3>2, KeptType
    <3>4. SlotCovers(slot[s])'
      BY <1>1, <2>4, <3>3 DEF SlotCovers
    <3>5. QED
      BY <2>1, <3>2, <3>4, CoverStep
  <2>5. QED
    BY <2>2, <2>3, <2>4
<1>4. CASE GetProfile(s)
  <2>1. /\ slot'[s].pc = "collect" /\ slot'[s].cursor = slot[s].cursor /\ acct' = acct
        /\ \A v \in Slots : v # s => slot'[v] = slot[v]
    BY <1>1, <1>4 DEF GetProfile, TypeOK, SlotState
  <2>2. QED
    BY <1>1, <2>1, CoverStep DEF SlotCovers
<1>5. ASSUME NEW ids, NEW left, List(s, ids, left),
             \A m \in 1..slot[s].hid : Covered(m) \/ m \in ids \cup left
      PROVE  Goal
  <2>1. /\ slot'[s].pc = "fetch" /\ slot'[s].cursor = 0 /\ slot'[s].hid = slot[s].hid
        /\ slot'[s].todo = ids \ Stored
        /\ acct' = acct /\ \A v \in Slots : v # s => slot'[v] = slot[v]
    BY <1>1, <1>5 DEF List, TypeOK, SlotState
  <2>2. \A m \in left : Covered(m)'
    BY <1>1, <1>5 DEF List, Covered, Stored
  <2>3. \A m \in 1..slot[s].hid : Covered(m)' \/ m \in ids \ Stored
    BY <1>1, <1>5, <2>2 DEF Covered
  <2>4. SlotCovers(slot[s])'
    BY <2>1, <2>3 DEF SlotCovers
  <2>5. QED
    BY <2>1, <2>4, CoverStep
<1>6. CASE CollectFromHistory(s)
  <2>1. ASSUME NEW m \in 1..slot[s].hid PROVE Covered(m) \/ m \in Since(s)
    <3>1. m \in Int /\ 1 <= m /\ m <= arrived /\ slot[s].cursor \in Int /\ m \in Message
      BY <1>1, SizesAssumption, ArrivedMessages DEF SlotOK, SlotState
    <3>2. CASE m <= slot[s].cursor
      BY <1>1, <3>1, <3>2 DEF SlotCovers
    <3>3. CASE m > slot[s].cursor
      BY <3>1, <3>3 DEF Since
    <3>4. QED
      BY <3>1, <3>2, <3>3
  <2>2. QED
    BY <1>5, <1>6, <2>1 DEF CollectFromHistory
<1>7. CASE CollectByQuery(s)
  <2>1. ASSUME NEW m \in 1..slot[s].hid PROVE Covered(m) \/ m \in Inbox
    BY <1>1, SizesAssumption DEF SlotOK, SlotState, Covered, Inbox
  <2>2. QED
    BY <1>5, <1>7, <2>1 DEF CollectByQuery
<1>8. CASE GetMessages(s)
  <2>1. PICK failed \in SUBSET (slot[s].todo \ gone) :
          /\ dropped' = dropped \cup failed
          /\ slot' = [slot EXCEPT ![s].pc = "store", ![s].todo = @ \ (failed \cup gone)]
    BY <1>8 DEF GetMessages
  <2>2. /\ slot'[s].pc = "store" /\ slot'[s].cursor = slot[s].cursor /\ slot'[s].hid = slot[s].hid
        /\ slot'[s].todo = slot[s].todo \ (failed \cup gone)
        /\ \A v \in Slots : v # s => slot'[v] = slot[v]
    BY <1>1, <2>1 DEF TypeOK, SlotState
  <2>3. acct' = acct /\ gone' = gone /\ slot[s].pc = "fetch"
    BY <1>8 DEF GetMessages
  <2>4. \A m \in failed \cup gone : Covered(m)'
    BY <2>1, <2>3 DEF Covered
  <2>5. SlotCovers(slot[s])'
    BY <1>1, <2>2, <2>3, <2>4 DEF SlotCovers
  <2>6. QED
    BY <2>2, <2>3, <2>5, CoverStep
<1>9. ASSUME NEW m \in Message, StoreEmail(s, m) PROVE Goal
  <2>1. /\ slot'[s].pc \in {"store", "enqueue"} /\ slot'[s].cursor = slot[s].cursor
        /\ slot'[s].hid = slot[s].hid /\ slot'[s].todo = slot[s].todo \ {m}
        /\ \A v \in Slots : v # s => slot'[v] = slot[v]
    BY <1>1, <1>9 DEF StoreEmail, TypeOK, SlotState
  <2>2. Covered(m)'
    BY <1>1, <1>9 DEF StoreEmail, Covered, Stored, TypeOK
  <2>3. acct' = acct /\ slot[s].pc = "store"
    BY <1>9 DEF StoreEmail
  <2>4. SlotCovers(slot[s])'
    BY <1>1, <2>1, <2>2, <2>3 DEF SlotCovers
  <2>5. QED
    BY <2>1, <2>3, <2>4, CoverStep
<1>10. CASE FinishScan(s)
  <2>1. slot[s].pc = "store" /\ slot[s].todo = {} /\ acct'.cursor = slot[s].hid
        /\ slot' = [slot EXCEPT ![s] = Free]
    BY <1>1, <1>10 DEF FinishScan, TypeOK
  <2>2. CursorCovers'
    BY <1>1, <2>1 DEF SlotCovers, CursorCovers
  <2>3. slot'[s] = Free /\ \A v \in Slots : v # s => slot'[v] = slot[v]
    BY <1>1, <2>1 DEF TypeOK
  <2>4. SlotCovers(slot[s])'
    BY <2>3 DEF SlotCovers, Free
  <2>5. ASSUME NEW v \in Slots, v # s PROVE SlotCovers(slot[v])'
    BY <1>1, <2>3, <2>5 DEF CoverInv, SlotCovers
  <2>6. QED
    BY <2>2, <2>4, <2>5
<1>11. QED
  BY <1>2, <1>3, <1>6, <1>7, <1>8, <1>9, <1>10, <1>4 DEF Scan

LEMMA CoverNext ==
  ASSUME CoverInv, [Next]_vars, TypeOK'
  PROVE  CoverInv'
<1>1. CASE UNCHANGED vars
  BY <1>1 DEF vars, CoverInv, CursorCovers, SlotCovers, Covered, Stored
<1>2. ASSUME NEW s \in Slots, Scan(s), Next PROVE CoverInv'
  BY <1>2, CoverScan DEF CoverInv
<1>3. CASE Next /\ slot' = slot /\ acct'.cursor \in {acct.cursor, 0}
  <2>1. \A m : Covered(m) => Covered(m)'
    BY <1>3, StaysCovered DEF CoverInv
  <2>2. QED
    BY <1>3, <2>1 DEF CoverInv, CursorCovers, SlotCovers
<1>4. CASE Next /\ Crash
  <2>1. \A m : Covered(m) => Covered(m)'
    BY <1>4, StaysCovered DEF CoverInv
  <2>2. CursorCovers'
    BY <1>4, <2>1 DEF Crash, CoverInv, CursorCovers
  <2>3. \A s \in Slots : slot'[s].cursor = 0 /\ slot'[s].pc = "idle"
    BY <1>4 DEF Crash, Free
  <2>4. QED
    BY <2>2, <2>3 DEF CoverInv, SlotCovers
<1>5. CASE \/ User \/ ConnectAccount \/ EnqueueInitial \/ DisconnectWrites
           \/ FallsDue \/ TickReads \/ TickAdds \/ Arrives
           \/ (\E m \in Message : Analyze(m)) \/ (\E j \in Job : Evict(j))
  <2>1. slot' = slot
    BY <1>5 DEF User, StartOAuth, DisconnectRevokes, SwitchScanning, TriggerScan, Reprocess,
                DeleteInGmail, ConnectAccount, EnqueueInitial, DisconnectWrites, FallsDue, TickReads,
                TickAdds, Arrives, Analyze, Evict
  <2>2. ConnectAccount \/ DisconnectWrites \/ FallsDue => acct'.cursor \in {acct.cursor, 0}
    <3>1. acct \in [status : {"none", "CONNECTED", "ERROR", "EXPIRED", "DISCONNECTED"},
                     creds : BOOLEAN, cursor : 0..arrived, due : BOOLEAN]
      BY DEF CoverInv, TypeOK
    <3>2. ConnectAccount => acct'.cursor = acct.cursor
      BY <3>1 DEF ConnectAccount
    <3>3. DisconnectWrites => acct'.cursor = 0
      BY <3>1 DEF DisconnectWrites
    <3>4. FallsDue => acct'.cursor = acct.cursor
      BY <3>1 DEF FallsDue
    <3>5. QED
      BY <3>2, <3>3, <3>4
  <2>3. ConnectAccount \/ DisconnectWrites \/ FallsDue \/ acct' = acct
    BY <1>5 DEF User, StartOAuth, DisconnectRevokes, SwitchScanning, TriggerScan, Reprocess,
                DeleteInGmail, EnqueueInitial, TickReads, TickAdds, Arrives, Analyze, Evict
  <2>4. Next
    BY <1>5 DEF Next
  <2>5. QED
    BY <1>3, <1>5, <2>1, <2>2, <2>3, <2>4
<1>6. QED
  BY <1>1, <1>2, <1>4, <1>5 DEF Next

(* The history cursor never passes a message that was not stored, deleted  *)
(* by the user, left out by a bounded listing or lost to a logged failure, *)
(* for any number of overlapping scans, crashes and retries.               *)
THEOREM CursorHasNoGap == Spec => []CursorCovers
<1>1. CoverInv /\ [Next]_vars /\ TypeOK' => CoverInv'
  BY CoverNext
<1>2. CoverInv => CursorCovers
  BY DEF CoverInv
<1>3. QED
  BY <1>1, <1>2, CoverInit, TypeCorrect, PTL DEF Spec

-----------------------------------------------------------------------------
(* The hand-off to the analysis.                                           *)

LEMMA HandNext ==
  ASSUME TypeOK, TypeOK', HandedOver, [Next]_vars
  PROVE  HandedOver'
<1> DEFINE Waits(m) == \E s \in Slots : slot[s].pc = "enqueue" /\ slot[s].msg = m
<1>1. CASE UNCHANGED << email, pq, orphans >> /\ \A s \in Slots : slot[s].pc = "enqueue" => slot'[s] = slot[s]
  BY <1>1 DEF HandedOver, Stored
<1>2. CASE UNCHANGED vars
  BY <1>1, <1>2 DEF vars
<1>3. ASSUME NEW s \in Slots, Scan(s) PROVE HandedOver'
  <2>1. CASE \/ (\E j \in Job : TakeJob(s, j)) \/ Authorize(s) \/ ScanFails(s) \/ GetProfile(s)
             \/ CollectFromHistory(s) \/ CollectByQuery(s) \/ GetMessages(s) \/ FinishScan(s)
    <3>1. UNCHANGED << email, pq, orphans >> /\ slot[s].pc # "enqueue"
      BY <2>1 DEF TakeJob, Authorize, ScanFails, GetProfile, CollectFromHistory, CollectByQuery,
                  GetMessages, FinishScan, List
    <3>2. \A v \in Slots : v # s => slot'[v] = slot[v]
      BY <2>1 DEF TakeJob, Authorize, ScanFails, GetProfile, CollectFromHistory, CollectByQuery,
                  GetMessages, FinishScan, List, Goto, Throws, TypeOK
    <3>3. QED
      BY <1>1, <3>1, <3>2
  <2>2. ASSUME NEW m \in Message, StoreEmail(s, m) PROVE HandedOver'
    <3>1. /\ slot[s].pc = "store" /\ UNCHANGED << pq, orphans >>
          /\ \A v \in Slots : v # s => slot'[v] = slot[v]
      BY <2>2 DEF StoreEmail, TypeOK
    <3>2. CASE email' = email
      BY <1>1, <3>1, <3>2
    <3>3. CASE email' # email
      <4>1. /\ email' = [email EXCEPT ![m] = "QUEUED"]
            /\ slot' = [slot EXCEPT ![s].pc = "enqueue", ![s].msg = m, ![s].todo = @ \ {m}]
        BY <2>2, <3>3 DEF StoreEmail
      <4>2. slot'[s].pc = "enqueue" /\ slot'[s].msg = m
        BY <4>1 DEF TypeOK, SlotState
      <4>3. \A k \in Message : k # m => email'[k] = email[k]
        BY <4>1 DEF TypeOK
      <4>4. ASSUME NEW k \in Stored', k # m
            PROVE  \/ email'[k] = "analysed" \/ k \in pq' \/ k \in orphans'
                   \/ \E v \in Slots : slot'[v].pc = "enqueue" /\ slot'[v].msg = k
        BY <3>1, <4>3, <4>4 DEF HandedOver, Stored
      <4>5. QED
        BY <4>2, <4>4 DEF HandedOver
    <3>4. QED
      BY <3>2, <3>3
  <2>3. CASE EnqueueEmail(s)
    <3>1. /\ email' = email /\ \A v \in Slots : v # s => slot'[v] = slot[v]
      BY <2>3 DEF EnqueueEmail, Goto, TypeOK
    <3>2. pq \subseteq pq' /\ orphans \subseteq orphans' /\ slot[s].msg \in pq' \cup orphans'
      BY <2>3 DEF EnqueueEmail
    <3>3. QED
      BY <3>1, <3>2 DEF HandedOver, Stored
  <2>4. QED
    BY <1>3, <2>1, <2>2, <2>3 DEF Scan
<1>4. CASE Crash
  BY <1>4 DEF Crash, HandedOver, Stored
<1>5. CASE \E m \in Message : Analyze(m)
  BY <1>5 DEF Analyze, HandedOver, Stored, TypeOK
<1>6. CASE \E m \in Message : Reprocess(m)
  BY <1>6 DEF Reprocess, HandedOver, Stored, TypeOK
<1>7. CASE \/ StartOAuth \/ DisconnectRevokes \/ SwitchScanning
           \/ (\E j \in Manual : TriggerScan(j)) \/ (\E m \in Message : DeleteInGmail(m))
           \/ ConnectAccount \/ EnqueueInitial \/ DisconnectWrites
           \/ FallsDue \/ TickReads \/ TickAdds \/ Arrives \/ (\E j \in Job : Evict(j))
  <2>1. UNCHANGED << email, pq, orphans, slot >>
    BY <1>7 DEF StartOAuth, DisconnectRevokes, SwitchScanning, TriggerScan, DeleteInGmail,
                ConnectAccount, EnqueueInitial, DisconnectWrites, FallsDue, TickReads, TickAdds,
                Arrives, Evict
  <2>2. QED
    BY <1>1, <2>1
<1>8. QED
  BY <1>2, <1>3, <1>4, <1>5, <1>6, <1>7 DEF Next, User

(* Every stored email is analysed, has a job, is about to get one, or lost *)
(* it to a fault: no order of scans, analyses and repeated requests loses  *)
(* one.                                                                    *)
THEOREM EveryEmailHandedOver == Spec => []HandedOver
<1>1. Init => HandedOver
  BY DEF Init, HandedOver, Stored
<1>2. TypeOK /\ TypeOK' /\ HandedOver /\ [Next]_vars => HandedOver'
  BY HandNext
<1>3. QED
  BY <1>1, <1>2, TypeCorrect, PTL DEF Spec

-----------------------------------------------------------------------------
(* Consent.  The tokens a scan may use were read from an account that was  *)
(* connected then.                                                         *)

ConsentInv ==
  /\ acct.creds => linked
  /\ \A s \in Slots : slot[s].creds => slot[s].began
  /\ ScanNeedsConsent

LEMMA ConsentNext ==
  ASSUME TypeOK, TypeOK', ConsentInv, [Next]_vars
  PROVE  ConsentInv'
<1>1. CASE UNCHANGED << slot, acct, linked >>
  BY <1>1 DEF ConsentInv, ScanNeedsConsent, Scanning
<1>2. CASE UNCHANGED vars
  BY <1>1, <1>2 DEF vars
<1>3. ASSUME NEW s \in Slots, acct'.creds = acct.creds, linked' = linked,
             \A v \in Slots : v # s => slot'[v] = slot[v],
             slot'[s].creds => slot'[s].began,
             slot'[s].pc \in {"profile", "collect", "fetch", "store", "enqueue"} => slot'[s].began
      PROVE  ConsentInv'
  BY <1>3 DEF ConsentInv, ScanNeedsConsent, Scanning
<1>4. ASSUME NEW s \in Slots, Scan(s) PROVE ConsentInv'
  <2>1. /\ slot[s].creds => slot[s].began
        /\ slot[s].pc \in {"profile", "collect", "fetch", "store", "enqueue"} => slot[s].began
        /\ slot[s] \in SlotState
    BY DEF ConsentInv, ScanNeedsConsent, Scanning, TypeOK
  <2>2. ASSUME NEW j \in Job, TakeJob(s, j) PROVE ConsentInv'
    BY <1>1, <1>3, <2>2 DEF TakeJob, TypeOK, ConsentInv
  <2>3. CASE Throws(s) /\ acct'.creds = acct.creds /\ linked' = linked
    BY <1>3, <2>3 DEF Throws, Free, TypeOK
  <2>4. ASSUME NEW pc \in {"profile", "store"}, Goto(s, pc), slot[s].began, acct'.creds = acct.creds, linked' = linked
        PROVE  ConsentInv'
    <3>1. slot' = [slot EXCEPT ![s] = Kept(s, pc)]
      BY <2>4 DEF Goto, Kept, TypeOK
    <3>2. slot'[s] = Kept(s, pc) /\ \A v \in Slots : v # s => slot'[v] = slot[v]
      BY <3>1 DEF TypeOK
    <3>3. slot'[s].began
      BY <2>1, <2>4, <3>2, KeptType
    <3>4. QED
      BY <1>3, <2>4, <3>2, <3>3
  <2>5. CASE Authorize(s)
    <3>1. acct'.creds = acct.creds /\ linked' = linked
      BY <2>5 DEF Authorize, TypeOK
    <3>2. Throws(s) \/ (slot[s].creds /\ Goto(s, "profile"))
      BY <2>5 DEF Authorize
    <3>3. QED
      BY <2>1, <2>3, <2>4, <3>1, <3>2
  <2>6. CASE ScanFails(s)
    BY <2>3, <2>6 DEF ScanFails
  <2>7. CASE EnqueueEmail(s)
    BY <2>1, <2>4, <2>7 DEF EnqueueEmail
  <2>8. CASE GetProfile(s) \/ GetMessages(s) \/ \E m \in Message : StoreEmail(s, m)
    <3>1. acct' = acct /\ linked' = linked /\ slot[s].began
      BY <2>1, <2>8 DEF GetProfile, GetMessages, StoreEmail
    <3>2. CASE GetProfile(s) \/ GetMessages(s)
      BY <1>3, <2>1, <3>1, <3>2 DEF GetProfile, GetMessages, TypeOK, SlotState
    <3>3. ASSUME NEW m \in Message, StoreEmail(s, m) PROVE ConsentInv'
      <4>1. /\ \A v \in Slots : v # s => slot'[v] = slot[v]
            /\ slot'[s].creds = slot[s].creds /\ slot'[s].began = slot[s].began
        BY <2>1, <3>3 DEF StoreEmail, TypeOK, SlotState
      <4>2. QED
        BY <1>3, <2>1, <3>1, <4>1
    <3>4. QED
      BY <2>8, <3>2, <3>3
  <2>9. ASSUME NEW ids, NEW left, List(s, ids, left), slot[s].began PROVE ConsentInv'
    <3>1. /\ acct' = acct /\ linked' = linked
          /\ slot'[s].creds = slot[s].creds /\ slot'[s].began = slot[s].began
          /\ \A v \in Slots : v # s => slot'[v] = slot[v]
      <4>1. PICK todo :
              slot' = [slot EXCEPT ![s].pc = "fetch", ![s].todo = todo, ![s].cursor = 0]
        BY <2>9 DEF List
      <4>2. slot \in [Slots -> SlotState] /\ acct' = acct /\ linked' = linked
        BY <2>9 DEF List, TypeOK
      <4>3. slot'[s].creds = slot[s].creds /\ slot'[s].began = slot[s].began
        BY <2>1, <4>1, <4>2 DEF SlotState
      <4>4. \A v \in Slots : v # s => slot'[v] = slot[v]
        BY <4>1, <4>2
      <4>5. QED
        BY <4>2, <4>3, <4>4
    <3>2. QED
      BY <1>3, <2>1, <2>9, <3>1
  <2>10. CASE CollectFromHistory(s) \/ CollectByQuery(s)
    BY <2>1, <2>9, <2>10 DEF CollectFromHistory, CollectByQuery
  <2>11. CASE FinishScan(s)
    <3>1. acct'.creds = acct.creds /\ linked' = linked /\ slot' = [slot EXCEPT ![s] = Free]
      BY <2>11 DEF FinishScan, TypeOK
    <3>2. QED
      BY <1>3, <3>1 DEF Free, TypeOK
  <2>12. QED
    BY <1>4, <2>2, <2>5, <2>6, <2>7, <2>8, <2>10, <2>11 DEF Scan
<1>5. CASE Crash
  BY <1>5 DEF Crash, Free, ConsentInv, ScanNeedsConsent, Scanning
<1>6. CASE ConnectAccount \/ DisconnectWrites \/ FallsDue
  <2>1. slot' = slot /\ (acct'.creds => linked')
    BY <1>6 DEF ConnectAccount, DisconnectWrites, FallsDue, ConsentInv, TypeOK
  <2>2. QED
    BY <2>1 DEF ConsentInv, ScanNeedsConsent, Scanning
<1>7. CASE \/ User \/ EnqueueInitial \/ TickReads \/ TickAdds \/ Arrives
           \/ (\E m \in Message : Analyze(m)) \/ (\E j \in Job : Evict(j))
  <2>1. UNCHANGED << slot, acct, linked >>
    BY <1>7 DEF User, StartOAuth, DisconnectRevokes, SwitchScanning, TriggerScan, Reprocess,
                DeleteInGmail, EnqueueInitial, TickReads, TickAdds, Arrives, Analyze, Evict
  <2>2. QED
    BY <1>1, <2>1
<1>8. QED
  BY <1>2, <1>4, <1>5, <1>6, <1>7 DEF Next

(* No scan that begins after a disconnection reads the mailbox: the tokens *)
(* are cleared with it, and a scan uses the tokens it read at its start.   *)
THEOREM NoScanWithoutConsent == Spec => []ScanNeedsConsent
<1>1. Init => ConsentInv
  BY DEF Init, Free, ConsentInv, ScanNeedsConsent, Scanning
<1>2. TypeOK /\ TypeOK' /\ ConsentInv /\ [Next]_vars => ConsentInv'
  BY ConsentNext
<1>3. ConsentInv => ScanNeedsConsent
  BY DEF ConsentInv
<1>4. QED
  BY <1>1, <1>2, <1>3, TypeCorrect, PTL DEF Spec
=============================================================================
