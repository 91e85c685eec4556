--------------------------- MODULE ClientCacheProofs ---------------------------
(***************************************************************************)
(* What holds of the browser's copy for every set of followed queries and  *)
(* every number of mutations and faults: its types, and that a settings    *)
(* switch that was saved stays saved.                                      *)
(***************************************************************************)
EXTENDS ClientCache, TLAPS

-----------------------------------------------------------------------------
(* The catalogue.                                                          *)

LEMMA AuditIsAPage == "audit" \in DOMAIN Page
BY DEF Page

LEMMA SettingsRefreshItself == "settings" \in Refreshes["updateSettings"]
BY DEF Refreshes, SettingsRefreshes, SettingsKeys

LEMMA SwitchesAreImmediate == "updateSettings" \notin Deferred
BY DEF Deferred

LEMMA OpsAreNamed == "updateSettings" \in Ops /\ "none" \notin Ops
BY DEF Ops, Writes

(* A page that offers a settings switch shows the settings.                *)
LEMMA SwitchesAreShown ==
  ASSUME NEW p \in DOMAIN Page, "updateSettings" \in OfferedOn(p)
  PROVE  "settings" \in ShownOn(p)
<1>1. "updateSettings" \notin AppShell.ops
  BY DEF AppShell, Part
<1>2. "updateSettings" \in Page[p].ops
  BY <1>1 DEF OfferedOn
<1>3. p \in {"account", "escalation", "voice", "categories", "scanning", "channels", "privacy"}
  BY <1>2 DEF Page, Part, DashboardPage, ApplicationsPage, ApplicationPage, EmailsPage, EmailDrawer,
     CleanupPage, NotificationsPage, RejectedPage, AnalyticsPage, AuditPage, GmailSection, SecuritySection
<1>4. "settings" \in Page[p].views
  BY <1>3 DEF Page, Part, AccountSection, EscalationSection, VoiceSection, CleanupSection, ScanSection,
     ChannelsSection, PrivacySection
<1> QED BY <1>4 DEF ShownOn

-----------------------------------------------------------------------------
(* Type correctness.                                                       *)

LEMMA TypeInit == Init => TypeOK
<1> SUFFICES ASSUME Init PROVE TypeOK
  OBVIOUS
<1>1. page \in DOMAIN Page
  BY AuditIsAPage DEF Init
<1>2. op \in [Clicks -> Mutation] /\ \A i \in Clicks : op[i].list = {}
  BY DEF Init, Idle, Mutation
<1>3. fetch \in [pc : {"none", "sent", "answered"}, shows : SUBSET Past]
  BY DEF Init, Started, NoFetch
<1>4. data \in [has : BOOLEAN, shows : SUBSET Past]
  BY DEF Init, NoAnswer
<1>5. used \in 0..MaxFaults
  BY BoundsAssumption DEF Init
<1> QED
  BY <1>1, <1>2, <1>3, <1>4, <1>5 DEF TypeOK, Init

(* An invalidation keeps the types of what it changes.                     *)
LEMMA InvalidateTypes ==
  ASSUME TypeOK, NEW marks \in SUBSET Clicks, Invalidate(marks)
  PROVE  /\ fetch' \in [pc : {"none", "sent", "answered"}, shows : SUBSET Past]
         /\ missed' \subseteq Clicks
         /\ stale' \in BOOLEAN
         /\ stale' => data.has
<1>1. CASE Joins
  BY <1>1 DEF TypeOK, Invalidate
<1>2. CASE ~Joins
  <2>1. Started \in [pc : {"none", "sent", "answered"}, shows : SUBSET Past]
    BY DEF Started
  <2> QED BY <1>2, <2>1 DEF TypeOK, Invalidate
<1> QED BY <1>1, <1>2

(* A fault keeps the count of faults within its bound.                     *)
LEMMA FaultBounded ==
  ASSUME TypeOK, Fault
  PROVE  used' \in 0..MaxFaults
BY BoundsAssumption DEF TypeOK, Fault

(* What the query cache and the user's navigation do leaves the mutations  *)
(* alone.                                                                  *)
LEMMA TypeCache ==
  ASSUME TypeOK, Cache \/ \E p \in DOMAIN Page : GoTo(p)
  PROVE  TypeOK'
<1>0. /\ Started \in [pc : {"none", "sent", "answered"}, shows : SUBSET Past]
      /\ NoFetch \in [pc : {"none", "sent", "answered"}, shows : SUBSET Past]
      /\ NoAnswer \in [has : BOOLEAN, shows : SUBSET Past]
  BY DEF Started, NoFetch, NoAnswer
<1>1. CASE Age
  BY <1>1 DEF TypeOK, Age, Past
<1>2. CASE Collect
  BY <1>0, <1>2 DEF TypeOK, Collect, Past
<1>3. CASE Focus \/ Poll
  BY <1>0, <1>3 DEF TypeOK, Focus, Poll, Refetch, Past
<1>4. CASE ServerReads
  <2>1. fetch' \in [pc : {"none", "sent", "answered"}, shows : SUBSET Past]
    BY <1>4 DEF TypeOK, ServerReads
  <2> QED BY <1>4, <2>1 DEF TypeOK, ServerReads, Past
<1>5. CASE Receive
  <2>1. data' \in [has : BOOLEAN, shows : SUBSET Past] /\ ~stale'
    BY <1>5 DEF TypeOK, Receive
  <2> QED BY <1>0, <1>5, <2>1 DEF TypeOK, Receive, Past
<1>6. CASE FetchFails
  BY <1>0, <1>6, FaultBounded DEF TypeOK, FetchFails, Past
<1>7. CASE TimerFires
  <2>1. CASE view \in ScanRefreshesLater
    BY <1>7, <2>1, InvalidateTypes DEF TypeOK, TimerFires, Past
  <2>2. CASE view \notin ScanRefreshesLater
    BY <1>7, <2>2 DEF TypeOK, TimerFires, Past
  <2> QED BY <2>1, <2>2
<1>8. ASSUME NEW p \in DOMAIN Page, GoTo(p) PROVE TypeOK'
  BY <1>0, <1>8 DEF TypeOK, GoTo, Mounts, Past
<1> QED BY <1>1, <1>2, <1>3, <1>4, <1>5, <1>6, <1>7, <1>8 DEF Cache

(* A mutation under way goes from step to step and stays what it is.       *)
LEMMA StepOf ==
  ASSUME TypeOK, NEW i \in Clicks, NEW pc \in {"served", "failed", "done"},
         op' = [op EXCEPT ![i].pc = pc]
  PROVE  /\ op' \in [Clicks -> Mutation]
         /\ \A j \in Clicks : op'[j].list = op[j].list /\ op'[j].kind = op[j].kind
         /\ op'[i].pc = pc
         /\ \A j \in Clicks \ {i} : op'[j] = op[j]
         /\ Past \cup {i} = Past'
<1>1. op[i] \in Mutation
  BY DEF TypeOK
<1>2. op'[i] = [kind |-> op[i].kind, pc |-> pc, list |-> op[i].list]
  BY <1>1 DEF TypeOK, Mutation
<1>3. \A j \in Clicks \ {i} : op'[j] = op[j]
  BY DEF TypeOK
<1>4. op'[i] \in Mutation
  BY <1>1, <1>2 DEF Mutation
<1>5. op' \in [Clicks -> Mutation]
  BY <1>3, <1>4 DEF TypeOK
<1>6. Past \cup {i} = Past'
  BY <1>2, <1>3 DEF Past
<1> QED BY <1>2, <1>3, <1>5, <1>6

(* More of the past leaves the types of all that is not touched as they    *)
(* were.                                                                   *)
LEMMA PastGrows ==
  ASSUME TypeOK, Past \subseteq Past'
  PROVE  /\ fetch \in [pc : {"none", "sent", "answered"}, shows : SUBSET Past']
         /\ data \in [has : BOOLEAN, shows : SUBSET Past']
         /\ truth \subseteq Past'
         /\ \A i \in Clicks : op[i].list \subseteq Past' \cup {i}
BY DEF TypeOK

LEMMA TypeClick ==
  ASSUME TypeOK, NEW i \in Clicks, NEW k \in Ops, Click(i, k)
  PROVE  TypeOK'
<1> DEFINE new == [kind |-> k, pc |-> "sent", list |-> (data.shows \cap Edits) \cup {i}]
<1>1. op' = [op EXCEPT ![i] = new] /\ op[i].pc = "idle"
  BY DEF Click, Idle
<1>2. data.shows \subseteq Past /\ Past \subseteq Clicks
  BY DEF TypeOK, Past
<1>3. new \in Mutation /\ new.list \subseteq Past \cup {i} /\ new.pc = "sent"
  BY <1>2 DEF Mutation
<1> HIDE DEF new
<1>4. op' \in [Clicks -> Mutation] /\ op'[i] = new /\ \A j \in Clicks \ {i} : op'[j] = op[j]
  BY <1>1, <1>3 DEF TypeOK
<1>5. Past' = Past
  BY <1>1, <1>3, <1>4 DEF Past
<1>6. \A j \in Clicks : op'[j].list \subseteq Past \cup {j}
  BY <1>3, <1>4 DEF TypeOK
<1>7. hasty' \subseteq Clicks
  BY DEF TypeOK, Click, RecordHaste, Pending, Edits
<1> QED BY <1>4, <1>5, <1>6, <1>7 DEF TypeOK, Click

LEMMA TypeServe ==
  ASSUME TypeOK, NEW i \in Clicks, Serve(i)
  PROVE  TypeOK'
<1>1. op' = [op EXCEPT ![i].pc = "served"]
  BY DEF Serve
<1>2. Past' = Past \cup {i} /\ op' \in [Clicks -> Mutation]
      /\ \A j \in Clicks : op'[j].list = op[j].list
  BY <1>1, StepOf
<1>3. truth' \subseteq truth \cup op[i].list \cup {i}
  BY DEF Serve, Carry
<1>4. truth' \subseteq Past'
  BY <1>2, <1>3 DEF TypeOK
<1> QED BY <1>2, <1>4, PastGrows DEF TypeOK, Serve

LEMMA TypeFails ==
  ASSUME TypeOK, NEW i \in Clicks, Fails(i)
  PROVE  TypeOK'
<1>1. op' = [op EXCEPT ![i].pc = "failed"]
  BY DEF Fails
<1>2. Past' = Past \cup {i} /\ op' \in [Clicks -> Mutation]
      /\ \A j \in Clicks : op'[j].list = op[j].list
  BY <1>1, StepOf
<1> QED BY <1>2, PastGrows, FaultBounded DEF TypeOK, Fails

LEMMA TypeSuccess ==
  ASSUME TypeOK, NEW i \in Clicks, OnSuccess(i)
  PROVE  TypeOK'
<1>1. op' = [op EXCEPT ![i].pc = "done"]
  BY DEF OnSuccess
<1>2. Past' = Past \cup {i} /\ op' \in [Clicks -> Mutation]
      /\ \A j \in Clicks : op'[j].list = op[j].list
  BY <1>1, StepOf
<1>3. /\ fetch' \in [pc : {"none", "sent", "answered"}, shows : SUBSET Past]
      /\ missed' \subseteq Clicks
      /\ stale' \in BOOLEAN /\ (stale' => data.has)
  <2>1. CASE view \in Refreshes[op[i].kind]
    BY <2>1, InvalidateTypes DEF OnSuccess
  <2>2. CASE view \notin Refreshes[op[i].kind]
    BY <2>2 DEF OnSuccess, TypeOK
  <2> QED BY <2>1, <2>2
<1>4. fetch' \in [pc : {"none", "sent", "answered"}, shows : SUBSET Past']
  BY <1>2, <1>3
<1> QED BY <1>2, <1>3, <1>4, PastGrows DEF TypeOK, OnSuccess

LEMMA TypeWorker ==
  ASSUME TypeOK, NEW i \in Clicks, WorkerWrites(i)
  PROVE  TypeOK'
<1>1. Past' = Past /\ i \in Past
  BY DEF WorkerWrites, Past
<1> QED BY <1>1 DEF TypeOK, WorkerWrites

LEMMA TypeNext == TypeOK /\ [Next]_vars => TypeOK'
<1> SUFFICES ASSUME TypeOK, [Next]_vars PROVE TypeOK'
  OBVIOUS
<1>1. CASE UNCHANGED vars
  BY <1>1 DEF TypeOK, vars, Past
<1>2. CASE Cache \/ \E p \in DOMAIN Page : GoTo(p)
  BY <1>2, TypeCache
<1>3. ASSUME NEW i \in Clicks, NEW k \in Ops, Click(i, k) PROVE TypeOK'
  BY <1>3, TypeClick
<1>4. ASSUME NEW i \in Clicks, Serve(i) \/ Fails(i) \/ OnSuccess(i) \/ WorkerWrites(i)
      PROVE  TypeOK'
  BY <1>4, TypeServe, TypeFails, TypeSuccess, TypeWorker
<1> QED BY <1>1, <1>2, <1>3, <1>4 DEF Next

(* The copy never shows, and no mutation ever sends, a change that the     *)
(* server has not dealt with, and nothing is marked stale that is not      *)
(* there, however many mutations and refused calls there are.              *)
THEOREM TypeCorrect == Spec => []TypeOK
<1> QED BY TypeInit, TypeNext, PTL DEF Spec

-----------------------------------------------------------------------------
(* A saved switch stays saved.                                             *)

Saved(i)   == i \in Edits /\ op[i].pc \in {"served", "done"} /\ i \notin hasty
Settled(i) == i \in Edits /\ op[i].pc = "done" /\ i \notin hasty

(* What the server has taken it holds.                                     *)
Held == \A i \in Clicks : Saved(i) => i \in truth

(* Two switches under way at once are hasty, both.                         *)
OneAtATime == \A i, j \in Pending : i # j => i \in hasty

(* The list that is on its way names itself and every settled switch.      *)
ListsComplete ==
  \A j \in Edits : op[j].pc = "sent" =>
    j \in op[j].list /\ \A i \in Clicks : Settled(i) => i \in op[j].list

(* The copy shows a settled switch whose invalidation was not lost, or it  *)
(* is being read again, or nobody can flip a switch on what it shows.      *)
Shown(i) ==
  /\ fetch.pc = "answered" => i \in fetch.shows
  /\ i \in data.shows \/ fetch # NoFetch \/ error \/ ~data.has \/ (stale /\ ~Mounted)
CopyCurrent == \A i \in Clicks : Settled(i) /\ i \notin missed => Shown(i)

KeptInv == Held /\ OneAtATime /\ ListsComplete /\ CopyCurrent

LEMMA KeptInit == Init => KeptInv
<1> SUFFICES ASSUME Init PROVE KeptInv
  OBVIOUS
<1>1. Edits = {}
  BY OpsAreNamed DEF Init, Edits, IsEdit, Idle
<1> QED BY <1>1 DEF KeptInv, Held, OneAtATime, ListsComplete, CopyCurrent, Saved, Settled, Pending

(* Whatever happens to the copy alone, the first three parts stay.         *)
LEMMA OpsKeep ==
  ASSUME KeptInv, UNCHANGED << view, op, hasty >>, truth \subseteq truth'
  PROVE  /\ Held' /\ OneAtATime' /\ ListsComplete'
         /\ \A i \in Clicks : Settled(i)' <=> Settled(i)
BY DEF KeptInv, Held, OneAtATime, ListsComplete, Saved, Settled, Pending, Edits, IsEdit

(* An invalidation keeps the copy current for what is not named, and makes *)
(* it current for what is, or records that it was lost.                    *)
LEMMA InvalidateShows ==
  ASSUME TypeOK, NEW marks \in SUBSET Clicks, NEW i \in Clicks, Invalidate(marks),
         UNCHANGED << view, page, data, error >>,
         i \in marks \/ Shown(i) \/ i \in missed
  PROVE  Shown(i)' \/ i \in missed'
<1>1. /\ Mounted' = Mounted
      /\ data' = data /\ error' = error
  BY DEF Mounted
<1>2. CASE i \in missed \/ (Joins /\ i \in marks)
  BY <1>2 DEF Invalidate
<1>3. CASE ~Joins /\ Mounted
  <2>1. fetch' = Started
    BY <1>3 DEF Invalidate
  <2> QED BY <1>1, <2>1 DEF Shown, Started, NoFetch
<1>4. CASE ~Joins /\ ~Mounted
  <2>1. fetch = NoFetch /\ fetch' = fetch /\ stale' = (stale \/ data.has)
    BY <1>4 DEF Invalidate, Joins
  <2> QED BY <1>1, <1>4, <2>1 DEF Shown, NoFetch, TypeOK
<1>5. CASE Joins /\ Shown(i)
  <2>1. fetch' = fetch /\ stale' = (stale \/ data.has)
    BY <1>5 DEF Invalidate
  <2> QED BY <1>1, <1>5, <2>1 DEF Shown, TypeOK
<1> QED BY <1>2, <1>3, <1>4, <1>5

LEMMA KeptCache ==
  ASSUME TypeOK, KeptInv, Cache \/ \E p \in DOMAIN Page : GoTo(p)
  PROVE  KeptInv'
<1>1. UNCHANGED << view, op, hasty, truth >>
  BY DEF Cache, GoTo, Age, Collect, Focus, Poll, Refetch, ServerReads, Receive, FetchFails, TimerFires
<1>2. /\ Held' /\ OneAtATime' /\ ListsComplete'
      /\ \A i \in Clicks : Settled(i)' <=> Settled(i)
  BY <1>1, OpsKeep
<1>3. ASSUME NEW i \in Clicks, Settled(i), i \notin missed'
      PROVE  Shown(i)'
  <2>0. i \in truth /\ (i \notin missed => Shown(i))
    BY <1>3 DEF KeptInv, Held, Saved, Settled, CopyCurrent
  <2>1. CASE Age
    BY <1>3, <2>0, <2>1 DEF Age, Shown, Mounted
  <2>2. CASE Collect
    BY <1>3, <2>0, <2>2 DEF Collect, Shown, Mounted, NoAnswer, NoFetch
  <2>3. CASE Focus \/ Poll
    BY <1>3, <2>0, <2>3 DEF Focus, Poll, Refetch, Shown, Mounted, Started, NoFetch
  <2>4. CASE ServerReads
    <3>1. fetch' = [pc |-> "answered", shows |-> truth]
      BY <2>4 DEF ServerReads
    <3> QED BY <2>0, <3>1 DEF Shown, NoFetch
  <2>5. CASE Receive
    <3>1. /\ i \notin missed
          /\ fetch.pc = "answered"
          /\ data' = [has |-> TRUE, shows |-> fetch.shows]
          /\ fetch' = NoFetch
      BY <1>3, <2>5 DEF Receive
    <3>2. i \in fetch.shows
      BY <2>0, <3>1 DEF Shown
    <3> QED BY <3>1, <3>2 DEF Shown, NoFetch
  <2>6. CASE FetchFails
    BY <2>6 DEF FetchFails, Shown, NoFetch
  <2>7. CASE TimerFires
    <3>1. CASE view \in ScanRefreshesLater
      BY <1>3, <2>0, <2>7, <3>1, InvalidateShows DEF TimerFires
    <3>2. CASE view \notin ScanRefreshesLater
      BY <1>3, <2>0, <2>7, <3>2 DEF TimerFires, Shown, Mounted
    <3> QED BY <3>1, <3>2
  <2>8. ASSUME NEW p \in DOMAIN Page, GoTo(p) PROVE Shown(i)'
    <3>1. /\ Shown(i) /\ UNCHANGED << view, data, stale, error >>
          /\ page' = p
      BY <1>3, <2>0, <2>8 DEF GoTo, Mounts
    <3>2. CASE view \in ShownOn(p) /\ ~Mounted /\ fetch = NoFetch /\ (~data.has \/ stale)
      <4>1. fetch' = Started
        BY <2>8, <3>2 DEF GoTo, Mounts
      <4> QED BY <4>1 DEF Shown, Started, NoFetch
    <3>3. CASE ~(view \in ShownOn(p) /\ ~Mounted /\ fetch = NoFetch /\ (~data.has \/ stale))
      <4>1. fetch' = fetch
        BY <2>8, <3>3 DEF GoTo, Mounts
      <4> QED BY <3>1, <3>3, <4>1 DEF Shown, Mounted
    <3> QED BY <3>2, <3>3
  <2> QED BY <2>1, <2>2, <2>3, <2>4, <2>5, <2>6, <2>7, <2>8 DEF Cache
<1>4. CopyCurrent'
  BY <1>2, <1>3 DEF CopyCurrent
<1> QED BY <1>2, <1>4 DEF KeptInv

(* A switch can be flipped only on a page that shows the settings, with an *)
(* answer and no error; what is settled and not made hasty by it is shown. *)
LEMMA KeptClick ==
  ASSUME TypeOK, KeptInv, NEW i \in Clicks, NEW k \in Ops, Click(i, k)
  PROVE  KeptInv'
<1> DEFINE new == [kind |-> k, pc |-> "sent", list |-> (data.shows \cap Edits) \cup {i}]
<1>1. /\ op' = [op EXCEPT ![i] = new] /\ op[i].pc = "idle" /\ op[i].kind = "none"
      /\ UNCHANGED << view, page, truth, data, stale, error, fetch, missed >>
  BY DEF Click, Idle
<1>2. new.kind = k /\ new.pc = "sent" /\ i \in new.list /\ data.shows \cap Edits \subseteq new.list
  OBVIOUS
<1> HIDE DEF new
<1>3. op'[i] = new /\ \A j \in Clicks \ {i} : op'[j] = op[j]
  BY <1>1 DEF TypeOK
<1>4. i \notin Edits
  BY <1>1 DEF Edits, IsEdit
<1>5. CASE view = "settings" /\ k = "updateSettings"
  <2>1. Edits' = Edits \cup {i}
    BY <1>1, <1>2, <1>3, <1>5 DEF Edits, IsEdit
  <2>2. Pending' = Pending \cup {i}
    BY <1>2, <1>3, <1>4, <2>1 DEF Pending, Edits
  <2>3. hasty' = hasty \cup Pending
                      \cup { j \in Edits : fetch # NoFetch \/ j \in missed }
                      \cup (IF Pending # {} THEN {i} ELSE {})
    BY <1>5 DEF Click, RecordHaste
  <2>4. \A j \in Clicks : Saved(j)' => Saved(j) /\ j # i
    BY <1>2, <1>3, <2>1, <2>3 DEF Saved
  <2>5. \A j \in Clicks : Settled(j)' => Settled(j) /\ j # i /\ fetch = NoFetch /\ j \notin missed
    BY <1>2, <1>3, <2>1, <2>3 DEF Settled
  <2>6. Held'
    BY <1>1, <2>4 DEF KeptInv, Held
  <2>7. OneAtATime'
    BY <2>2, <2>3 DEF KeptInv, OneAtATime
  <2>8. data.has /\ ~error /\ Mounted
    <3>1. "updateSettings" \in OfferedOn(page) /\ FormShown
      BY <1>5 DEF Click
    <3>2. "settings" \in ShownOn(page)
      BY <3>1, SwitchesAreShown DEF TypeOK
    <3> QED BY <1>5, <3>1, <3>2 DEF FormShown, Mounted
  <2>9. \A j \in Clicks : Settled(j)' => j \in new.list
    BY <1>2, <2>5, <2>8 DEF KeptInv, CopyCurrent, Shown, Settled
  <2>10. ListsComplete'
    <3>1. ASSUME NEW j \in Edits', op'[j].pc = "sent", NEW m \in Clicks, Settled(m)'
          PROVE  j \in op'[j].list /\ m \in op'[j].list
      BY <1>2, <1>3, <2>1, <2>5, <2>9, <3>1 DEF KeptInv, ListsComplete, Edits
    <3>2. \A j \in Edits' : op'[j].pc = "sent" => j \in op'[j].list
      BY <1>2, <1>3, <2>1 DEF KeptInv, ListsComplete, Edits
    <3> QED BY <3>1, <3>2 DEF ListsComplete
  <2>11. CopyCurrent'
    BY <1>1, <2>5 DEF KeptInv, CopyCurrent, Shown, Mounted
  <2> QED BY <2>6, <2>7, <2>10, <2>11 DEF KeptInv
<1>6. CASE ~(view = "settings" /\ k = "updateSettings")
  <2>1. Edits' = Edits /\ hasty' = hasty
    BY <1>1, <1>2, <1>3, <1>4, <1>6 DEF Edits, IsEdit, Click, RecordHaste
  <2>2. \A j \in Edits : op'[j] = op[j]
    BY <1>3, <1>4 DEF Edits
  <2>3. Pending' = Pending
    BY <2>1, <2>2 DEF Pending
  <2>4. \A j \in Clicks : (Saved(j)' <=> Saved(j)) /\ (Settled(j)' <=> Settled(j))
    BY <2>1, <2>2 DEF Saved, Settled
  <2> QED BY <1>1, <2>1, <2>2, <2>3, <2>4
      DEF KeptInv, Held, OneAtATime, ListsComplete, CopyCurrent, Shown, Mounted
<1> QED BY <1>5, <1>6

LEMMA KeptServe ==
  ASSUME TypeOK, KeptInv, NEW i \in Clicks, Serve(i)
  PROVE  KeptInv'
<1>1. /\ op' = [op EXCEPT ![i].pc = "served"] /\ op[i].pc = "sent"
      /\ UNCHANGED << view, page, data, stale, error, fetch, missed, hasty >>
  BY DEF Serve
<1>2. /\ \A j \in Clicks : op'[j].list = op[j].list /\ op'[j].kind = op[j].kind
      /\ op'[i].pc = "served" /\ \A j \in Clicks \ {i} : op'[j] = op[j]
  BY <1>1, StepOf
<1>3. Edits' = Edits
  BY <1>1, <1>2 DEF Edits, IsEdit
<1>4. Pending' = Pending
  BY <1>1, <1>2, <1>3 DEF Pending, Edits
<1>5. \A j \in Clicks : Settled(j)' <=> Settled(j)
  BY <1>1, <1>2, <1>3 DEF Settled
<1>6. \A j \in Clicks : Saved(j)' => Saved(j) \/ (j = i /\ i \in Edits)
  BY <1>1, <1>2, <1>3 DEF Saved
<1>7. Held'
  <2>1. CASE i \in Edits
    <3>1. truth' = (truth \ Edits) \cup op[i].list
      BY <2>1 DEF Serve, Carry, Edits
    <3>2. ASSUME NEW j \in Clicks, Saved(j)' PROVE j \in op[i].list
      <4>1. CASE j = i
        BY <1>1, <2>1, <4>1 DEF KeptInv, ListsComplete
      <4>2. CASE j # i
        <5>1. Saved(j)
          BY <1>6, <3>2, <4>2
        <5>2. ~(op[j].pc = "served")
          BY <1>1, <2>1, <4>2, <5>1 DEF KeptInv, OneAtATime, Pending, Saved
        <5>3. Settled(j)
          BY <5>1, <5>2 DEF Saved, Settled
        <5> QED BY <1>1, <2>1, <5>3 DEF KeptInv, ListsComplete
      <4> QED BY <4>1, <4>2
    <3> QED BY <3>1, <3>2 DEF Held
  <2>2. CASE i \notin Edits
    <3>1. truth \subseteq truth'
      BY <2>2 DEF Serve, Carry, Edits
    <3> QED BY <1>6, <2>2, <3>1 DEF KeptInv, Held
  <2> QED BY <2>1, <2>2
<1>8. OneAtATime'
  BY <1>1, <1>4 DEF KeptInv, OneAtATime
<1>9. ListsComplete'
  BY <1>2, <1>3, <1>5 DEF KeptInv, ListsComplete, Edits
<1>10. CopyCurrent'
  BY <1>1, <1>5 DEF KeptInv, CopyCurrent, Shown, Mounted
<1> QED BY <1>7, <1>8, <1>9, <1>10 DEF KeptInv

LEMMA KeptFails ==
  ASSUME TypeOK, KeptInv, NEW i \in Clicks, Fails(i)
  PROVE  KeptInv'
<1>1. /\ op' = [op EXCEPT ![i].pc = "failed"]
      /\ UNCHANGED << view, page, truth, data, stale, error, fetch, missed, hasty >>
  BY DEF Fails
<1>2. /\ \A j \in Clicks : op'[j].list = op[j].list /\ op'[j].kind = op[j].kind
      /\ op'[i].pc = "failed" /\ \A j \in Clicks \ {i} : op'[j] = op[j]
  BY <1>1, StepOf
<1>3. Edits' = Edits
  BY <1>1, <1>2 DEF Edits, IsEdit
<1>4. Pending' \subseteq Pending
  BY <1>2, <1>3 DEF Pending, Edits
<1>5. \A j \in Clicks : (Settled(j)' => Settled(j)) /\ (Saved(j)' => Saved(j))
  BY <1>1, <1>2, <1>3 DEF Settled, Saved
<1>6. Held' /\ OneAtATime'
  BY <1>1, <1>4, <1>5 DEF KeptInv, Held, OneAtATime
<1>7. ListsComplete'
  BY <1>2, <1>3, <1>5 DEF KeptInv, ListsComplete, Edits
<1>8. CopyCurrent'
  BY <1>1, <1>5 DEF KeptInv, CopyCurrent, Shown, Mounted
<1> QED BY <1>6, <1>7, <1>8 DEF KeptInv

LEMMA KeptSuccess ==
  ASSUME TypeOK, KeptInv, NEW i \in Clicks, OnSuccess(i)
  PROVE  KeptInv'
<1>1. /\ op' = [op EXCEPT ![i].pc = "done"] /\ op[i].pc = "served"
      /\ UNCHANGED << view, page, truth, data, error, hasty >>
  BY DEF OnSuccess
<1>2. /\ \A j \in Clicks : op'[j].list = op[j].list /\ op'[j].kind = op[j].kind
      /\ op'[i].pc = "done" /\ \A j \in Clicks \ {i} : op'[j] = op[j]
  BY <1>1, StepOf
<1>3. Edits' = Edits
  BY <1>1, <1>2 DEF Edits, IsEdit
<1>4. Pending' \subseteq Pending
  BY <1>2, <1>3 DEF Pending, Edits
<1>5. \A j \in Clicks : /\ Saved(j)' => Saved(j)
                        /\ Settled(j)' => Settled(j) \/ (j = i /\ i \in Edits /\ i \notin hasty)
  BY <1>1, <1>2, <1>3 DEF Settled, Saved
<1>6. Held' /\ OneAtATime'
  BY <1>1, <1>4, <1>5 DEF KeptInv, Held, OneAtATime
<1>7. ListsComplete'
  <2>1. ASSUME NEW j \in Edits', op'[j].pc = "sent"
        PROVE  j \in op'[j].list /\ \A m \in Clicks : Settled(m)' => m \in op'[j].list
    <3>1. j # i /\ j \in Edits /\ op'[j] = op[j] /\ op[j].pc = "sent"
      BY <1>2, <1>3, <2>1 DEF Edits
    <3>2. i \in Edits => i \in hasty
      BY <1>1, <3>1 DEF KeptInv, OneAtATime, Pending
    <3> QED BY <1>5, <3>1, <3>2 DEF KeptInv, ListsComplete
  <2> QED BY <2>1 DEF ListsComplete
<1>8. ASSUME NEW j \in Clicks, Settled(j)', j \notin missed'
      PROVE  Shown(j)'
  <2>1. CASE view \in Refreshes[op[i].kind]
    <3>1. Invalidate({i})
      BY <2>1 DEF OnSuccess
    <3>2. j \in {i} \/ Shown(j) \/ j \in missed
      BY <1>5, <1>8 DEF KeptInv, CopyCurrent
    <3> QED BY <1>1, <1>8, <3>1, <3>2, InvalidateShows
  <2>2. CASE view \notin Refreshes[op[i].kind]
    <3>1. i \notin Edits
      BY <2>2, SettingsRefreshItself DEF Edits, IsEdit
    <3>2. Settled(j) /\ UNCHANGED << stale, fetch, missed >>
      BY <1>5, <1>8, <2>2, <3>1 DEF OnSuccess
    <3> QED BY <1>1, <1>8, <3>2 DEF KeptInv, CopyCurrent, Shown, Mounted
  <2> QED BY <2>1, <2>2
<1>9. CopyCurrent'
  BY <1>8 DEF CopyCurrent
<1> QED BY <1>6, <1>7, <1>9 DEF KeptInv

LEMMA KeptWorker ==
  ASSUME TypeOK, KeptInv, NEW i \in Clicks, WorkerWrites(i)
  PROVE  KeptInv'
<1>1. /\ UNCHANGED << view, page, op, data, stale, error, fetch, missed, hasty >>
      /\ truth \subseteq truth'
  BY DEF WorkerWrites
<1>2. /\ Held' /\ OneAtATime' /\ ListsComplete'
      /\ \A j \in Clicks : Settled(j)' <=> Settled(j)
  BY <1>1, OpsKeep
<1>3. CopyCurrent'
  BY <1>1, <1>2 DEF KeptInv, CopyCurrent, Shown, Mounted
<1> QED BY <1>2, <1>3 DEF KeptInv

LEMMA KeptNext == TypeOK /\ KeptInv /\ [Next]_vars => KeptInv'
<1> SUFFICES ASSUME TypeOK, KeptInv, [Next]_vars PROVE KeptInv'
  OBVIOUS
<1>1. CASE UNCHANGED vars
  <2>1. UNCHANGED << view, page, op, truth, data, stale, error, fetch, missed, hasty >>
    BY <1>1 DEF vars
  <2>2. /\ Held' /\ OneAtATime' /\ ListsComplete'
        /\ \A j \in Clicks : Settled(j)' <=> Settled(j)
    BY <2>1, OpsKeep
  <2>3. CopyCurrent'
    BY <2>1, <2>2 DEF KeptInv, CopyCurrent, Shown, Mounted
  <2> QED BY <2>2, <2>3 DEF KeptInv
<1>2. CASE Cache \/ \E p \in DOMAIN Page : GoTo(p)
  BY <1>2, KeptCache
<1>3. ASSUME NEW i \in Clicks, NEW k \in Ops, Click(i, k) PROVE KeptInv'
  BY <1>3, KeptClick
<1>4. ASSUME NEW i \in Clicks, Serve(i) \/ Fails(i) \/ OnSuccess(i) \/ WorkerWrites(i)
      PROVE  KeptInv'
  BY <1>4, KeptServe, KeptFails, KeptSuccess, KeptWorker
<1> QED BY <1>1, <1>2, <1>3, <1>4 DEF Next

(* Although every settings switch sends the whole list as the page shows   *)
(* it, a saved one is undone only by one flipped in haste, however many    *)
(* switches, page changes, refetches and refused calls there are.          *)
THEOREM SwitchesKept == Spec => []EditsKept
<1>1. KeptInv => EditsKept
  BY DEF KeptInv, Held, EditsKept, Saved, Edits
<1> QED BY <1>1, TypeInit, TypeNext, KeptInit, KeptNext, PTL DEF Spec

=============================================================================
