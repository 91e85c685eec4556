-------------------------- MODULE ApplicationsProofs --------------------------
(***************************************************************************)
(* Theorems about Applications, for any emails, cycles, readings and       *)
(* resemblances, any number of slots, requests and faults.                 *)
(***************************************************************************)
EXTENDS Applications, FiniteSetTheorems, TLAPS

-----------------------------------------------------------------------------
(* The inductive invariants.                                               *)

(* A process under way has an email; it searches and creates for a cycle,  *)
(* and applies to an application; the status it computed is no lower than  *)
(* the one it read.                                                        *)
Searching == {"search", "detect", "create"}
Applying  == {"link", "read", "evidence", "move", "write", "relink", "flag", "notify", "confirm"}

Grounded(r, ids) ==
  /\ r.pc # "idle" => r.email \in Emails
  /\ r.pc \in Searching => r.cycle \in Cycles
  /\ r.pc \in Applying => r.app \in ids
  /\ r.pc \in {"evidence", "move", "write"} => STATUS_RANK[r.from] <= STATUS_RANK[r.to]

ProcInv    == \A p \in Processes : Grounded(proc[p], Ids)
AnalystInv == \A w \in Analysts : analyst[w].pc # "idle" => analyst[w].email \in Emails

TypeInv == TypeOK /\ ProcInv /\ AnalystInv

(* The rows of a cycle together with the slots about to add one.           *)
Rows(c)     == { a \in Live : app[a].cycle = c /\ ~app[a].byUser }
Creating(c) == { p \in Slots : proc[p].pc \in {"detect", "create"} /\ proc[p].cycle = c }

RowInv ==
  \A c \in Cycles :
    Cardinality(Rows(c)) + Cardinality(Creating(c)) <= Cardinality(Slots) + used.overlooked[c]

(* A process past the evidence has left it on the timeline of the          *)
(* application it is on, unless that is gone.                              *)
Link(a, e) == [app |-> a, email |-> e, what |-> "LINKED"]

RecordedInv ==
  \A p \in Processes :
    proc[p].pc \in {"move", "write", "relink", "confirm"} /\ proc[p].app \in Live
      => Link(proc[p].app, proc[p].email) \in timeline

(* The email is on its way to the application queue, or in it.             *)
Coming(e) ==
  \/ jobs[e] > 0
  \/ \E j \in aq : j.email = e
  \/ \E w \in Analysts : /\ analyst[w].email = e
                         /\ analyst[w].pc = "persist" \/ (analyst[w].pc # "idle" /\ analyst[w].job)

(* What is owed to an email: it was found to be about a job and handed on. *)
Owed(e) == Ripe(e) /\ e \notin dropped

(* The slot will still record the evidence where the email is filed, or    *)
(* find that the application is gone and run again.                        *)
Linking(p, e) ==
  /\ proc[p].email = e
  /\ proc[p].pc \in {"read", "evidence"}
  /\ proc[p].app = filed[e] \/ proc[p].app \notin Live

EvidenceInv ==
  \A e \in Emails :
    Owed(e) /\ filed[e] # 0 =>
      Link(filed[e], e) \in timeline \/ Coming(e) \/ \E p \in Slots : Linking(p, e)

(* The slot will still file the email, ask about it or run again.          *)
Filing(p, e) ==
  /\ proc[p].email = e
  /\ proc[p].pc \in Searching \cup {"link", "read", "evidence", "move", "write", "relink"}

StrandedInv ==
  \A e \in Emails :
    Owed(e) => Answered(e) \/ Coming(e) \/ \E p \in Slots : Filing(p, e)

-----------------------------------------------------------------------------
(* Statuses and their ranks.                                               *)

LEMMA RankFacts ==
  ASSUME NEW s \in Statuses
  PROVE  /\ STATUS_RANK[s] \in Nat
         /\ s \in Terminal => \A t \in Statuses : STATUS_RANK[t] <= STATUS_RANK[s]
  BY DEF Statuses, STATUS_RANK, Terminal

LEMMA NextStatusFacts ==
  ASSUME NEW from \in Statuses, NEW sub \in SubCategories
  PROVE  /\ NextStatus(from, sub) \in Statuses
         /\ STATUS_RANK[from] <= STATUS_RANK[NextStatus(from, sub)]
<1>1. sub \notin Silent => SUBCATEGORY_TO_STATUS[sub] \in Statuses
  BY DEF SubCategories, Silent, SUBCATEGORY_TO_STATUS, Statuses, STATUS_RANK
<1>2. QED
  BY <1>1, RankFacts DEF NextStatus

-----------------------------------------------------------------------------
(* Type correctness, in three parts.                                       *)

AnalysisType ==
  /\ state \in [Emails -> {"QUEUED", "PROCESSING", "PROCESSED", "NEEDS_REVIEW", "FAILED", "SKIPPED"}]
  /\ analysis \in [Emails -> Analysis]
  /\ aq \subseteq [email : Emails, force : BOOLEAN]
  /\ analyst \in [Analysts -> [pc : {"idle", "persist", "settle", "hand"},
                               email : Emails \cup {NoEmail},
                               force : BOOLEAN, job : BOOLEAN, review : BOOLEAN]]
  /\ jobs \in [Emails -> Nat]
  /\ used \in Usage
  /\ dropped \subseteq Emails
  /\ AnalystInv

RowType ==
  /\ filed \in [Emails -> Live \cup {0}]
  /\ app \in Seq(Application)
  /\ timeline \subseteq [app : Live, email : Emails, what : Statuses \cup {"LINKED"}]
  /\ touched \subseteq Ids

ProcType ==
  /\ proc \in [Processes -> Process]
  /\ asked \subseteq Emails
  /\ ProcInv

LEMMA TypeParts ==
  /\ TypeInv <=> AnalysisType /\ RowType /\ ProcType
  /\ TypeInv' <=> AnalysisType' /\ RowType' /\ ProcType'
  BY DEF TypeInv, TypeOK, AnalysisType, RowType, ProcType

LEMMA IdsFacts ==
  ASSUME app \in Seq(Application)
  PROVE  Ids = 1..Len(app) /\ Len(app) \in Nat /\ Ids \subseteq Nat \ {0} /\ Live \subseteq Ids
  BY DEF Ids, Live

LEMMA RowFacts ==
  ASSUME TypeInv
  PROVE  /\ app \in Seq(Application) /\ Ids = 1..Len(app) /\ Len(app) \in Nat
         /\ Live \subseteq Ids
         /\ \A a \in Ids : app[a] \in Application /\ app[a].status \in Statuses
<1>1. app \in Seq(Application) /\ Ids = 1..Len(app) /\ Len(app) \in Nat /\ Live \subseteq Ids
  BY TypeParts, IdsFacts DEF RowType
<1>2. \A a \in Ids : app[a] \in Application
  BY <1>1
<1>3. QED
  BY <1>1, <1>2 DEF Application

LEMMA FrameRows == UNCHANGED app => Ids' = Ids /\ Live' = Live
  BY DEF Ids, Live

LEMMA TypeInit == Init => TypeInv
<1> SUFFICES ASSUME Init PROVE TypeInv
  OBVIOUS
<1>1. AnalysisType
  <2>1. Unread \in Analysis
    BY DEF Unread, Analysis, SubCategories, Silent
  <2>2. aq \subseteq [email : Emails, force : BOOLEAN]
    <3> SUFFICES ASSUME NEW j \in aq PROVE j \in [email : Emails, force : BOOLEAN]
      OBVIOUS
    <3>1. PICK e \in Emails : j = [email |-> e, force |-> FALSE]
      BY DEF Init
    <3>2. QED
      BY <3>1
  <2>3. /\ analyst \in [Analysts -> [pc : {"idle", "persist", "settle", "hand"},
                                     email : Emails \cup {NoEmail},
                                     force : BOOLEAN, job : BOOLEAN, review : BOOLEAN]]
        /\ AnalystInv
    BY DEF Init, AnalystInv, Off
  <2>4. QED
    BY <2>1, <2>2, <2>3 DEF Init, AnalysisType, Usage
<1>2. RowType
  BY DEF Init, RowType, Application, Live, Ids
<1>3. ProcType
  <2>1. Free \in Process
    BY DEF Free, Process, Steps, SubCategories, Silent, Statuses, STATUS_RANK
  <2>2. QED
    BY <2>1 DEF Init, ProcType, ProcInv, Grounded, Free, Searching, Applying
<1>4. QED
  BY <1>1, <1>2, <1>3, TypeParts

(* A process that changes its own record only.                             *)
LEMMA ProcStep ==
  ASSUME ProcInv, proc \in [Processes -> Process], Ids \subseteq Ids',
         NEW p \in Processes, NEW r \in Process,
         proc' = [proc EXCEPT ![p] = r], Grounded(r, Ids')
  PROVE  proc' \in [Processes -> Process] /\ ProcInv'
<1>1. proc' \in [Processes -> Process]
  OBVIOUS
<1>2. ASSUME NEW q \in Processes PROVE Grounded(proc'[q], Ids')
  <2>1. CASE q = p
    BY <2>1
  <2>2. CASE q # p
    <3>1. proc'[q] = proc[q] /\ Grounded(proc[q], Ids)
      BY <2>2 DEF ProcInv
    <3>2. QED
      BY <3>1 DEF Grounded
  <2>3. QED
    BY <2>1, <2>2
<1>3. QED
  BY <1>1, <1>2 DEF ProcInv

LEMMA FreeFits == Free \in Process /\ \A ids : Grounded(Free, ids)
  BY DEF Free, Process, Steps, SubCategories, Silent, Statuses, STATUS_RANK, Grounded,
         Searching, Applying

-----------------------------------------------------------------------------
(* The analysis: rows and processes stay as they are.                      *)

AnalystRecord == [pc : {"idle", "persist", "settle", "hand"}, email : Emails \cup {NoEmail},
                  force : BOOLEAN, job : BOOLEAN, review : BOOLEAN]

(* An analyst that changes its own record only.                            *)
LEMMA AnalystStep ==
  ASSUME AnalystInv, analyst \in [Analysts -> AnalystRecord],
         NEW w \in Analysts, NEW r \in AnalystRecord,
         analyst' = [analyst EXCEPT ![w] = r], r.pc # "idle" => r.email \in Emails
  PROVE  analyst' \in [Analysts -> AnalystRecord] /\ AnalystInv'
  BY DEF AnalystInv

LEMMA OffFits == Off \in AnalystRecord /\ Off.pc = "idle"
  BY DEF Off, AnalystRecord

LEMMA UsedType ==
  ASSUME used \in Usage, NEW kind, Fault(kind) \/ Request(kind)
  PROVE  used' \in Usage /\ used'.overlooked = used.overlooked
  BY DEF Fault, Request, Usage

LEMMA AnalyzeType ==
  ASSUME TypeInv,
         \/ \E j \in aq : AnalyzeSkips(j) \/ \E w \in Analysts : AnalyzeStarts(w, j)
         \/ \E w \in Analysts : Analyze(w) \/ AnalysisFails(w) \/ AnalystStalls(w)
  PROVE  AnalysisType'
<1>1. AnalysisType
  BY TypeParts
<1>2. analyst \in [Analysts -> AnalystRecord] /\ AnalystInv
  BY <1>1 DEF AnalysisType, AnalystRecord
<1>3. ASSUME NEW j \in aq, AnalyzeSkips(j) PROVE AnalysisType'
  BY <1>1, <1>3 DEF AnalyzeSkips, AnalysisType, AnalystInv
<1>4. ASSUME NEW j \in aq, NEW w \in Analysts, AnalyzeStarts(w, j) PROVE AnalysisType'
  <2> DEFINE r == [Off EXCEPT !.pc = "persist", !.email = j.email, !.force = j.force]
  <2>1. j.email \in Emails /\ j.force \in BOOLEAN
    BY <1>1 DEF AnalysisType
  <2>2. r \in AnalystRecord /\ r.email \in Emails
    BY <2>1 DEF Off, AnalystRecord
  <2>3. analyst' \in [Analysts -> AnalystRecord] /\ AnalystInv'
    <3>1. analyst' = [analyst EXCEPT ![w] = r]
      BY <1>4 DEF AnalyzeStarts
    <3> HIDE DEF r
    <3>2. QED
      BY <1>2, <2>2, <3>1, AnalystStep
  <2>4. QED
    BY <1>1, <1>4, <2>1, <2>3 DEF AnalyzeStarts, AnalysisType, AnalystRecord
<1>5. ASSUME NEW w \in Analysts, PersistAnalysis(w) PROVE AnalysisType'
  <2>1. PICK r \in Readings[analyst[w].email] :
          /\ analysis' = [analysis EXCEPT ![analyst[w].email] =
               [done |-> TRUE, corrected |-> FALSE, job |-> r.job, review |-> r.review,
                cycle |-> r.cycle, sub |-> r.sub]]
          /\ analyst' = [analyst EXCEPT ![w].pc = "settle", ![w].job = r.job, ![w].review = r.review]
    BY <1>5 DEF PersistAnalysis
  <2>2. analyst[w].email \in Emails
    BY <1>2, <1>5 DEF PersistAnalysis, AnalystInv
  <2>3. r \in Reading
    BY <2>1, <2>2, ReadingsAssumption
  <2>4. analysis' \in [Emails -> Analysis]
    BY <1>1, <2>1, <2>3 DEF AnalysisType, Analysis, Reading
  <2>5. analyst' \in [Analysts -> AnalystRecord] /\ AnalystInv'
    <3> DEFINE next == [analyst[w] EXCEPT !.pc = "settle", !.job = r.job, !.review = r.review]
    <3>1. next \in AnalystRecord /\ next.email \in Emails
      BY <1>2, <2>2, <2>3 DEF AnalystRecord, Reading
    <3>2. analyst' = [analyst EXCEPT ![w] = next]
      BY <1>2, <2>1 DEF AnalystRecord
    <3> HIDE DEF next
    <3>3. QED
      BY <1>2, <3>1, <3>2, AnalystStep
  <2>6. QED
    BY <1>1, <1>5, <2>4, <2>5 DEF PersistAnalysis, AnalysisType, AnalystRecord
<1>6. ASSUME NEW w \in Analysts, SettleState(w) PROVE AnalysisType'
  <2>1. analyst' \in [Analysts -> AnalystRecord] /\ AnalystInv'
    BY <1>2, <1>6 DEF SettleState, AnalystRecord, AnalystInv
  <2>2. QED
    BY <1>1, <1>6, <2>1 DEF SettleState, AnalysisType, AnalystRecord
<1>7. ASSUME NEW w \in Analysts, HandOver(w) PROVE AnalysisType'
  <2>1. analyst' \in [Analysts -> AnalystRecord] /\ AnalystInv'
    BY <1>2, <1>7, OffFits, AnalystStep DEF HandOver
  <2>2. analyst[w].email \in Emails
    BY <1>2, <1>7 DEF HandOver, AnalystInv
  <2>3. jobs' \in [Emails -> Nat] /\ used' \in Usage /\ dropped' \subseteq Emails
    BY <1>1, <1>7, <2>2, UsedType DEF HandOver, AnalysisType
  <2>4. QED
    BY <1>1, <1>7, <2>1, <2>3 DEF HandOver, AnalysisType, AnalystRecord
<1>8. ASSUME NEW w \in Analysts, AnalysisFails(w) \/ AnalystStalls(w) PROVE AnalysisType'
  <2>1. analyst' \in [Analysts -> AnalystRecord] /\ AnalystInv'
    BY <1>2, <1>8, OffFits, AnalystStep DEF AnalysisFails, AnalystStalls
  <2>2. JobOf(w) \in [email : Emails, force : BOOLEAN]
    BY <1>2, <1>8 DEF AnalysisFails, AnalystStalls, AnalystInv, AnalystRecord, JobOf
  <2>3. used' \in Usage
    BY <1>1, <1>8, UsedType DEF AnalysisFails, AnalystStalls, AnalysisType
  <2>4. aq' \subseteq [email : Emails, force : BOOLEAN]
    BY <1>1, <1>8, <2>2 DEF AnalysisFails, AnalystStalls, AnalysisType
  <2>5. QED
    BY <1>1, <1>8, <2>1, <2>3, <2>4 DEF AnalysisFails, AnalystStalls, AnalysisType, AnalystRecord
<1>9. QED
  BY <1>3, <1>4, <1>5, <1>6, <1>7, <1>8 DEF Analyze

-----------------------------------------------------------------------------
(* The processes.                                                          *)

LEMMA SlotFacts == (\A p \in Slots : p \in Processes /\ p # User) /\ User \in Processes
  BY ProcessesAssumption DEF Processes

(* What is known of a process and its application.                         *)
LEMMA ProcFacts ==
  ASSUME TypeInv, NEW p \in Processes
  PROVE  /\ proc[p] \in Process
         /\ Grounded(proc[p], Ids)
         /\ proc \in [Processes -> Process] /\ ProcInv
         /\ Ids = 1..Len(app) /\ Len(app) \in Nat /\ Ids \subseteq Nat \ {0} /\ Live \subseteq Ids
  BY TypeParts, IdsFacts DEF ProcType, ProcInv, RowType

(* A process that moves on and leaves the rows alone.                      *)
LEMMA MoveType ==
  ASSUME TypeInv, NEW p \in Processes, NEW r \in Process, Grounded(r, Ids),
         proc' = [proc EXCEPT ![p] = r], asked' \subseteq Emails, UNCHANGED app \/ Ids' = Ids
  PROVE  ProcType'
<1>1. proc \in [Processes -> Process] /\ ProcInv
  BY TypeParts DEF ProcType
<1>2. Ids' = Ids
  BY FrameRows
<1>3. proc' \in [Processes -> Process] /\ ProcInv'
  BY <1>1, <1>2, ProcStep
<1>4. QED
  BY <1>3 DEF ProcType

(* The same, when only the place in the program changes.                   *)
LEMMA GotoType ==
  ASSUME TypeInv, NEW p \in Processes, NEW pc \in Steps, Goto(p, pc), UNCHANGED asked,
         UNCHANGED app \/ Ids' = Ids, Grounded([proc[p] EXCEPT !.pc = pc], Ids)
  PROVE  ProcType'
<1> DEFINE r == [proc[p] EXCEPT !.pc = pc]
<1>1. r \in Process
  BY ProcFacts DEF Process
<1>2. proc' = [proc EXCEPT ![p] = r]
  BY DEF Goto
<1>3. asked' \subseteq Emails
  BY TypeParts DEF ProcType
<1> HIDE DEF r
<1>4. QED
  BY <1>1, <1>2, <1>3, MoveType DEF r

LEMMA RowsKept ==
  ASSUME RowType, UNCHANGED << filed, app, timeline, touched >>
  PROVE  RowType'
<1>1. Ids' = Ids /\ Live' = Live
  BY FrameRows
<1>2. QED
  BY <1>1 DEF RowType

LEMMA TakeJobType ==
  ASSUME TypeInv, NEW p \in Slots, TakeJob(p)
  PROVE  TypeInv'
<1>1. PICK e \in Emails :
        AskForReview(p, e) \/ LeaveToCleanup(p, e) \/ StartUpdate(p, e) \/ StartSearch(p, e)
  BY DEF TakeJob
<1>2. AnalysisType /\ RowType /\ ProcType
  BY TypeParts
<1>3. RowType'
  BY <1>1, <1>2, RowsKept DEF AskForReview, LeaveToCleanup, StartUpdate, StartSearch
<1>4. AnalysisType'
  <2>1. jobs' = [jobs EXCEPT ![e] = @ - 1] /\ jobs[e] > 0
        /\ UNCHANGED << state, analysis, aq, analyst, used, dropped >>
    BY <1>1 DEF AskForReview, LeaveToCleanup, StartUpdate, StartSearch
  <2>2. jobs' \in [Emails -> Nat]
    BY <1>2, <2>1 DEF AnalysisType
  <2>3. QED
    BY <1>2, <2>1, <2>2 DEF AnalysisType, AnalystInv
<1>5. CASE AskForReview(p, e) \/ LeaveToCleanup(p, e)
  <2>1. UNCHANGED << proc, app >> /\ asked' \subseteq Emails
    BY <1>2, <1>5 DEF AskForReview, LeaveToCleanup, ProcType
  <2>2. QED
    BY <1>2, <1>3, <1>4, <2>1, FrameRows, TypeParts DEF ProcType, ProcInv
<1>6. ASSUME NEW pc \in {"read", "search"}, Take(p, e, pc), UNCHANGED << app, asked >>,
             pc = "read" => filed[e] \in Ids, pc = "search" => analysis[e].cycle \in Cycles
      PROVE  ProcType'
  <2> DEFINE r == [Free EXCEPT !.pc = pc, !.email = e, !.sub = analysis[e].sub,
                               !.cycle = analysis[e].cycle, !.app = filed[e]]
  <2>1. filed[e] \in Nat
    BY <1>2, IdsFacts DEF RowType
  <2>2. r \in Process
    BY <1>2, <1>6, <2>1, FreeFits DEF AnalysisType, Analysis, Process, Steps, Free
  <2>3. Grounded(r, Ids)
    BY <1>6 DEF Grounded, Free, Searching, Applying
  <2>4. proc' = [proc EXCEPT ![p] = r] /\ asked' \subseteq Emails
    BY <1>2, <1>6 DEF Take, ProcType
  <2> HIDE DEF r
  <2>5. QED
    BY <1>6, <2>2, <2>3, <2>4, MoveType, SlotFacts
<1>7. CASE StartUpdate(p, e)
  <2>1. filed[e] \in Ids
    BY <1>2, <1>7, IdsFacts DEF StartUpdate, UpdatesFiled, RowType
  <2>2. QED
    BY <1>3, <1>4, <1>6, <1>7, <2>1, TypeParts DEF StartUpdate
<1>8. CASE StartSearch(p, e)
  <2>1. analysis[e].cycle \in Cycles
    BY <1>2, <1>8 DEF StartSearch, Searches, AsksReview, AnalysisType, Analysis
  <2>2. QED
    BY <1>3, <1>4, <1>6, <1>8, <2>1, TypeParts DEF StartSearch
<1>9. QED
  BY <1>1, <1>5, <1>7, <1>8

(* A count raised at one place, which may lie outside its domain.          *)
LEMMA RaisedAtOne ==
  ASSUME NEW S, NEW f \in [S -> Nat], NEW c
  PROVE  /\ [f EXCEPT ![c] = @ + 1] \in [S -> Nat]
         /\ \A d \in S : [f EXCEPT ![c] = @ + 1][d] = IF d = c THEN f[d] + 1 ELSE f[d]
<1>1. CASE c \in S
  BY <1>1
<1>2. CASE c \notin S
  BY <1>2
<1>3. QED
  BY <1>1, <1>2

(* A search that finds none counts when it overlooks a row of its cycle.   *)
LEMMA OverlooksOne ==
  ASSUME used \in Usage, NEW p, SearchFindsNone(p)
  PROVE  /\ used' \in Usage
         /\ \A c \in Cycles : used'.overlooked[c] \in {used.overlooked[c], used.overlooked[c] + 1}
         /\ proc[p].cycle \in Cycles /\ Exact(proc[p].cycle) # {} =>
              used'.overlooked[proc[p].cycle] = used.overlooked[proc[p].cycle] + 1
<1> DEFINE c == proc[p].cycle
           more == [used.overlooked EXCEPT ![c] = @ + 1]
<1>1. used.overlooked \in [Cycles -> Nat]
  BY DEF Usage
<1>2. CASE used' = used
  <2>1. Exact(c) = {} \/ Overlooks(c)
    BY DEF SearchFindsNone
  <2>2. CASE Overlooks(c)
    <3>1. used' = [used EXCEPT !.faults = @ + 1, !.overlooked = more]
      BY <2>2 DEF Overlooks
    <3>2. used'.overlooked = more
      BY <3>1 DEF Usage
    <3> QED BY <1>1, <1>2, <3>2
  <2> QED BY <1>1, <1>2, <2>1, <2>2
<1>3. CASE used' # used
  <2>1. used' = [used EXCEPT !.faults = @ + 1, !.overlooked = more]
    BY <1>3 DEF SearchFindsNone, Overlooks
  <2>2. \A d \in Cycles : more[d] = IF d = c THEN used.overlooked[d] + 1 ELSE used.overlooked[d]
    BY <1>1, RaisedAtOne
  <2>3. more \in [Cycles -> Nat]
    BY <1>1, RaisedAtOne
  <2> HIDE DEF more
  <2>4. used.faults + 1 \in Nat
    BY DEF Usage
  <2>5. used' \in Usage /\ used'.overlooked = more
    BY <2>1, <2>3, <2>4 DEF Usage
  <2> QED BY <2>2, <2>5
<1> QED BY <1>2, <1>3

(* The search, which reads the rows.                                       *)
LEMMA SearchType ==
  ASSUME TypeInv, NEW p \in Processes, Search(p)
  PROVE  TypeInv'
<1>1. AnalysisType /\ RowType /\ ProcType
  BY TypeParts
<1>2. RowType'
  BY <1>1, RowsKept DEF Search, SearchMatches, SearchIsUnsure, SearchFindsNone, DetectDuplicate
<1>3. used' \in Usage
  <2>1. used \in Usage
    BY <1>1 DEF AnalysisType
  <2>2. CASE SearchFindsNone(p)
    BY <2>1, <2>2, OverlooksOne
  <2>3. CASE SearchMatches(p) \/ SearchIsUnsure(p) \/ DetectDuplicate(p)
    BY <2>1, <2>3 DEF SearchMatches, SearchIsUnsure, DetectDuplicate
  <2>4. QED
    BY <2>2, <2>3 DEF Search
<1>4. AnalysisType'
  BY <1>1, <1>3 DEF Search, SearchMatches, SearchIsUnsure, SearchFindsNone, DetectDuplicate,
              AnalysisType, AnalystInv
<1>5. Candidates(proc[p].cycle) \subseteq Ids
  BY ProcFacts DEF Candidates, Exact, Alike
<1>6. ASSUME NEW r \in Process, Grounded(r, Ids), proc' = [proc EXCEPT ![p] = r],
             asked' \subseteq Emails, UNCHANGED app
      PROVE  TypeInv'
  BY <1>2, <1>4, <1>6, MoveType, TypeParts
<1>7. asked \subseteq Emails
  BY <1>1 DEF ProcType
<1>8. CASE SearchMatches(p)
  <2>1. PICK a \in Ids : proc' = [proc EXCEPT ![p].pc = "read", ![p].app = a]
    BY <1>5, <1>8 DEF SearchMatches
  <2> DEFINE r == [proc[p] EXCEPT !.pc = "read", !.app = a]
  <2>2. r \in Process /\ proc' = [proc EXCEPT ![p] = r]
    BY <2>1, ProcFacts DEF Process, Steps
  <2>3. Grounded(r, Ids)
    BY <1>8, ProcFacts DEF Grounded, Process, Searching, Applying, SearchMatches
  <2> HIDE DEF r
  <2>4. QED
    BY <1>6, <1>7, <1>8, <2>2, <2>3 DEF SearchMatches
<1>9. CASE SearchIsUnsure(p)
  <2>1. proc[p].email \in Emails
    BY <1>9, ProcFacts DEF SearchIsUnsure, Grounded
  <2>2. QED
    BY <1>6, <1>7, <1>9, <2>1, FreeFits DEF SearchIsUnsure
<1>10. CASE SearchFindsNone(p)
  <2>1. Grounded([proc[p] EXCEPT !.pc = "detect"], Ids)
    BY <1>10, ProcFacts DEF SearchFindsNone, Grounded, Searching, Applying, Process
  <2>2. ProcType'
    BY <1>10, <2>1, GotoType DEF SearchFindsNone, Steps
  <2>3. QED
    BY <1>2, <1>4, <2>2, TypeParts
<1>11. CASE DetectDuplicate(p)
  <2>1. PICK d \in Nat : proc' = [proc EXCEPT ![p].pc = "create", ![p].dup = d]
    BY <1>5, <1>11, ProcFacts DEF DetectDuplicate
  <2> DEFINE r == [proc[p] EXCEPT !.pc = "create", !.dup = d]
  <2>2. r \in Process /\ proc' = [proc EXCEPT ![p] = r]
    BY <2>1, ProcFacts DEF Process, Steps
  <2>3. Grounded(r, Ids)
    BY <1>11, ProcFacts DEF Grounded, Process, Searching, Applying, DetectDuplicate
  <2> HIDE DEF r
  <2>4. QED
    BY <1>6, <1>7, <1>11, <2>2, <2>3 DEF DetectDuplicate
<1>12. QED
  BY <1>8, <1>9, <1>10, <1>11 DEF Search

(* A new row, and a row that changes and stays.                            *)
LEMMA NewRow ==
  ASSUME RowType, NEW r \in Application, r.live, app' = Append(app, r)
  PROVE  /\ app' \in Seq(Application)
         /\ Ids' = Ids \cup {Len(app) + 1}
         /\ \A a \in Ids : app'[a] = app[a]
         /\ app'[Len(app) + 1] = r
         /\ Live' = Live \cup {Len(app) + 1}
<1>1. app \in Seq(Application) /\ Ids = 1..Len(app) /\ Len(app) \in Nat
  BY IdsFacts DEF RowType
<1>2. /\ app' \in Seq(Application) /\ Len(app') = Len(app) + 1
      /\ \A a \in 1..Len(app) : app'[a] = app[a]
      /\ app'[Len(app) + 1] = r
  BY <1>1
<1>3. Ids' = 1..(Len(app) + 1)
  BY <1>2 DEF Ids
<1>4. Ids' = Ids \cup {Len(app) + 1}
  BY <1>1, <1>3
<1>5. QED
  BY <1>1, <1>2, <1>4 DEF Live

LEMMA ChangedRow ==
  ASSUME RowType, NEW a \in Ids, NEW r \in Application, r.live = app[a].live,
         app' = [app EXCEPT ![a] = r]
  PROVE  app' \in Seq(Application) /\ Ids' = Ids /\ Live' = Live
<1>1. app \in Seq(Application) /\ Ids = 1..Len(app) /\ Len(app) \in Nat
  BY IdsFacts DEF RowType
<1>2. app' \in Seq(Application) /\ Len(app') = Len(app)
  BY <1>1
<1>3. Ids' = Ids
  BY <1>1 DEF Ids
<1>4. QED
  BY <1>1, <1>2, <1>3 DEF Live

(* The steps of a process that only append to the rows or refer to them.   *)
LEMMA RowSteps ==
  ASSUME TypeInv, NEW p \in Processes,
         \/ LinkNew(p) \/ ApplyReads(p) \/ ApplyEvidence(p) \/ ApplyMove(p) \/ ApplyRelinks(p)
         \/ MaybeNotify(p)
  PROVE  TypeInv'
<1>1. AnalysisType /\ RowType /\ ProcType
  BY TypeParts
<1>2. AnalysisType' /\ UNCHANGED << app, asked >>
  BY <1>1 DEF LinkNew, ApplyReads, ApplyEvidence, ApplyMove, ApplyRelinks, MaybeNotify,
              AnalysisType, AnalystInv
<1>3. Live' = Live /\ Ids' = Ids
  BY <1>2, FrameRows
<1>4. RowType'
  <2>1. proc[p].pc # "idle" => proc[p].email \in Emails
    BY ProcFacts DEF Grounded
  <2>2. filed' \in [Emails -> Live \cup {0}]
    BY <1>1, <2>1 DEF LinkNew, ApplyReads, ApplyEvidence, ApplyMove, ApplyRelinks, MaybeNotify, RowType
  <2>3. timeline' \subseteq [app : Live, email : Emails, what : Statuses \cup {"LINKED"}]
    <3>1. proc[p].to \in Statuses
      BY ProcFacts DEF Process
    <3>2. \/ UNCHANGED timeline
          \/ /\ proc[p].app \in Live /\ proc[p].email \in Emails
             /\ \E what \in Statuses \cup {"LINKED"} : timeline' = timeline \cup {Event(p, what)}
      BY <2>1, <3>1 DEF LinkNew, ApplyReads, ApplyEvidence, ApplyMove, ApplyRelinks, MaybeNotify
    <3>3. QED
      BY <1>1, <3>2 DEF RowType, Event
  <2>4. UNCHANGED touched
    BY DEF LinkNew, ApplyReads, ApplyEvidence, ApplyMove, ApplyRelinks, MaybeNotify
  <2>5. QED
    BY <1>1, <1>2, <1>3, <2>2, <2>3, <2>4 DEF RowType
<1>5. asked' \subseteq Emails
  BY <1>1, <1>2 DEF ProcType
<1>6. ProcType'
  <2>1. CASE LinkNew(p)
    <3>1. Goto(p, "read") /\ Grounded([proc[p] EXCEPT !.pc = "read"], Ids)
      BY <2>1, ProcFacts DEF LinkNew, Grounded, Process, Searching, Applying
    <3>2. QED
      BY <1>2, <3>1, GotoType DEF Steps
  <2>2. CASE ApplyReads(p)
    <3> DEFINE from == app[proc[p].app].status
               r    == [proc[p] EXCEPT !.pc = "evidence", !.from = from,
                                       !.to = NextStatus(from, proc[p].sub)]
    <3>1. from \in Statuses
      <4>1. proc[p].app \in Ids
        BY <2>2, ProcFacts DEF ApplyReads
      <4>2. app[proc[p].app] \in Application
        BY <1>1, <4>1, IdsFacts DEF RowType
      <4>3. QED
        BY <4>2 DEF Application
    <3>2. NextStatus(from, proc[p].sub) \in Statuses
          /\ STATUS_RANK[from] <= STATUS_RANK[NextStatus(from, proc[p].sub)]
      BY <3>1, ProcFacts, NextStatusFacts DEF Process
    <3> HIDE DEF from
    <3>3. r \in Process
      BY <3>1, <3>2, ProcFacts DEF Process, Steps
    <3>4. Grounded(r, Ids)
      BY <2>2, <3>2, ProcFacts DEF Grounded, Process, Searching, Applying, ApplyReads
    <3>5. proc' = [proc EXCEPT ![p] = r]
      BY <2>2, ProcFacts DEF ApplyReads, from
    <3> HIDE DEF r
    <3>6. QED
      BY <1>2, <1>5, <3>3, <3>4, <3>5, MoveType
  <2>3. CASE ApplyEvidence(p)
    <3>1. PICK pc \in {"move", "write"} : Goto(p, pc)
      BY <2>3 DEF ApplyEvidence
    <3>2. Grounded([proc[p] EXCEPT !.pc = pc], Ids)
      BY <2>3, ProcFacts DEF ApplyEvidence, Grounded, Process, Searching, Applying
    <3>3. QED
      BY <1>2, <3>1, <3>2, GotoType DEF Steps
  <2>4. CASE ApplyMove(p)
    <3>1. Goto(p, "write") /\ Grounded([proc[p] EXCEPT !.pc = "write"], Ids)
      BY <2>4, ProcFacts DEF ApplyMove, Grounded, Process, Searching, Applying
    <3>2. QED
      BY <1>2, <3>1, GotoType DEF Steps
  <2>5. CASE ApplyRelinks(p)
    <3>1. PICK pc \in {"confirm", "flag", "notify"} : Goto(p, pc)
      BY <2>5 DEF ApplyRelinks
    <3>2. Grounded([proc[p] EXCEPT !.pc = pc], Ids)
      BY <2>5, ProcFacts DEF ApplyRelinks, Grounded, Process, Searching, Applying
    <3>3. QED
      BY <1>2, <3>1, <3>2, GotoType DEF Steps
  <2>6. CASE MaybeNotify(p)
    BY <1>2, <1>5, <2>6, FreeFits, MoveType DEF MaybeNotify
  <2>7. QED
    BY <2>1, <2>2, <2>3, <2>4, <2>5, <2>6
<1>7. QED
  BY <1>2, <1>4, <1>6, TypeParts

(* The steps of a process that add a row or change one.                    *)
LEMMA RetriedType ==
  ASSUME TypeInv, NEW p \in Processes, proc[p].pc # "idle"
  PROVE  Retried(p) \in [Emails -> Nat]
<1>1. proc[p].email \in Emails /\ jobs \in [Emails -> Nat]
  BY TypeParts, ProcFacts DEF Grounded, AnalysisType
<1>2. QED
  BY <1>1 DEF Retried

LEMMA CreateType ==
  ASSUME TypeInv, NEW p \in Processes, CreateApplication(p)
  PROVE  TypeInv'
<1> DEFINE row == [live |-> TRUE, cycle |-> proc[p].cycle, status |-> "APPLIED", prev |-> 0,
                   byUser |-> p = User]
           r   == [proc[p] EXCEPT !.pc = IF p = User THEN "read" ELSE "link", !.app = Len(app) + 1]
<1>1. AnalysisType /\ RowType /\ ProcType
  BY TypeParts
<1>2. AnalysisType'
  BY <1>1 DEF CreateApplication, AnalysisType, AnalystInv
<1>3. row \in Application /\ row.live
  <2>1. proc[p].cycle \in Cycles /\ "APPLIED" \in Statuses
    BY ProcFacts DEF CreateApplication, Grounded, Searching, Statuses, STATUS_RANK
  <2>2. QED
    BY <2>1 DEF Application
<1>4. app' = Append(app, row)
  BY DEF CreateApplication
<1>5. r \in Process /\ proc' = [proc EXCEPT ![p] = r]
  <2>1. Len(app) + 1 \in Nat /\ (IF p = User THEN "read" ELSE "link") \in Steps
    BY ProcFacts DEF Steps
  <2>2. r \in Process
    BY <2>1, ProcFacts DEF Process
  <2>3. QED
    BY <2>2, ProcFacts DEF CreateApplication, Process
<1>6. r.pc \in {"read", "link"} /\ r.app = Len(app) + 1 /\ r.email \in Emails
  BY ProcFacts DEF CreateApplication, Grounded, Process
<1> HIDE DEF row, r
<1>7. /\ app' \in Seq(Application)
      /\ Ids' = Ids \cup {Len(app) + 1}
      /\ Live' = Live \cup {Len(app) + 1}
  BY <1>1, <1>3, <1>4, NewRow
<1>8. Grounded(r, Ids')
  BY <1>6, <1>7 DEF Grounded, Searching, Applying
<1>9. ProcType'
  BY <1>1, <1>5, <1>7, <1>8, ProcStep DEF CreateApplication, ProcType
<1>10. RowType'
  BY <1>1, <1>7 DEF CreateApplication, RowType
<1>11. QED
  BY <1>2, <1>9, <1>10, TypeParts

LEMMA WriteType ==
  ASSUME TypeInv, NEW p \in Processes, ApplyWrites(p) \/ FlagPossibleDuplicate(p)
  PROVE  TypeInv'
<1>1. AnalysisType /\ RowType /\ ProcType
  BY TypeParts
<1>2. AnalysisType' /\ UNCHANGED << filed, timeline, asked >>
  BY <1>1 DEF ApplyWrites, FlagPossibleDuplicate, AnalysisType, AnalystInv
<1>3. PICK a \in Ids : a = proc[p].app
  BY ProcFacts DEF ApplyWrites, FlagPossibleDuplicate
<1>4. app[a] \in Application
  BY <1>1, <1>3, IdsFacts DEF RowType
<1>5. app' \in Seq(Application) /\ Ids' = Ids /\ Live' = Live
  <2>1. PICK r \in Application : r.live = app[a].live /\ app' = [app EXCEPT ![a] = r]
    <3>1. CASE ApplyWrites(p)
      <4>1. [app[a] EXCEPT !.status = proc[p].to] \in Application
        BY <1>4, ProcFacts DEF Application, Process
      <4>2. QED
        BY <1>3, <1>4, <3>1, <4>1 DEF ApplyWrites, Application
    <3>2. CASE FlagPossibleDuplicate(p)
      <4> DEFINE prev == IF app[a].prev = 0 THEN proc[p].dup ELSE app[a].prev
      <4>1. [app[a] EXCEPT !.prev = prev] \in Application
        BY <1>4, ProcFacts DEF Application, Process
      <4>2. QED
        BY <1>3, <1>4, <3>2, <4>1 DEF FlagPossibleDuplicate, Application
    <3>3. QED
      BY <3>1, <3>2
  <2>2. QED
    BY <1>1, <2>1, ChangedRow
<1>6. touched' \subseteq Ids
  BY <1>1, <1>3 DEF ApplyWrites, FlagPossibleDuplicate, RowType
<1>7. PICK pc \in {"relink", "notify"} :
        Goto(p, pc) /\ Grounded([proc[p] EXCEPT !.pc = pc], Ids)
  <2>1. PICK pc \in {"relink", "notify"} : Goto(p, pc)
    BY DEF ApplyWrites, FlagPossibleDuplicate
  <2>2. Grounded([proc[p] EXCEPT !.pc = pc], Ids)
    BY ProcFacts DEF ApplyWrites, FlagPossibleDuplicate, Grounded, Process, Searching, Applying
  <2>3. QED
    BY <2>1, <2>2
<1>8. ProcType'
  BY <1>2, <1>5, <1>7, GotoType DEF Steps
<1>9. QED
  BY <1>1, <1>2, <1>5, <1>6, <1>8, TypeParts DEF RowType

LEMMA EndType ==
  ASSUME TypeInv, NEW p \in Processes, ApplicationGone(p) \/ Crash(p)
  PROVE  TypeInv'
<1>1. AnalysisType /\ RowType /\ ProcType
  BY TypeParts
<1>2. jobs' \in [Emails -> Nat]
  BY RetriedType DEF ApplicationGone, Crash
<1>3. used' \in Usage
  BY <1>1, UsedType DEF ApplicationGone, Crash, AnalysisType
<1>4. AnalysisType'
  BY <1>1, <1>2, <1>3 DEF ApplicationGone, Crash, AnalysisType, AnalystInv
<1>5. UNCHANGED << app, filed, timeline, asked >> /\ touched' \subseteq Ids
  BY <1>1, ProcFacts DEF ApplicationGone, Crash, RowType, Grounded, Applying
<1>6. RowType'
  BY <1>1, <1>5, FrameRows DEF RowType
<1>7. proc' = [proc EXCEPT ![p] = Free] /\ asked' \subseteq Emails
  BY <1>1, <1>5 DEF ApplicationGone, Crash, ProcType
<1>8. ProcType'
  BY <1>5, <1>7, FreeFits, MoveType
<1>9. QED
  BY <1>4, <1>6, <1>8, TypeParts

-----------------------------------------------------------------------------
(* The user's requests.                                                    *)

LEMMA ServeType ==
  ASSUME TypeInv, Confirm \/ Reclassify \/ ReprocessQueues
  PROVE  TypeInv'
<1>1. AnalysisType /\ RowType /\ ProcType
  BY TypeParts
<1>2. UNCHANGED << app, timeline, touched, asked >> /\ proc' = [proc EXCEPT ![User] = Free]
  BY DEF Confirm, Reclassify, ReprocessQueues
<1>3. proc[User].email \in Emails
  BY ProcFacts, SlotFacts DEF Confirm, Reclassify, ReprocessQueues, Grounded
<1>4. AnalysisType'
  <2>1. CASE Confirm
    BY <1>1, <2>1 DEF Confirm, AnalysisType, AnalystInv
  <2>2. CASE Reclassify
    BY <1>1, <1>3, <2>2 DEF Reclassify, AnalysisType, AnalystInv
  <2>3. CASE ReprocessQueues
    <3>1. [email |-> proc[User].email, force |-> TRUE] \in [email : Emails, force : BOOLEAN]
      BY <1>3
    <3>2. aq' \subseteq [email : Emails, force : BOOLEAN]
      BY <1>1, <2>3, <3>1 DEF ReprocessQueues, AnalysisType
    <3>3. used' \in Usage
      BY <1>1, <2>3, UsedType DEF ReprocessQueues, AnalysisType
    <3>4. QED
      BY <1>1, <2>3, <3>2, <3>3 DEF ReprocessQueues, AnalysisType, AnalystInv
  <2>4. QED
    BY <2>1, <2>2, <2>3
<1>5. filed' \in [Emails -> Live \cup {0}]
  BY <1>1, <1>3 DEF Confirm, Reclassify, ReprocessQueues, RowType
<1>6. RowType'
  BY <1>1, <1>2, <1>5, FrameRows DEF RowType
<1>7. asked' \subseteq Emails
  BY <1>1, <1>2 DEF ProcType
<1>8. ProcType'
  BY <1>2, <1>7, FreeFits, MoveType, SlotFacts
<1>9. QED
  BY <1>4, <1>6, <1>8, TypeParts

(* Decisions on an email, which leave the rows alone.                      *)
LEMMA DecideType ==
  ASSUME TypeInv, NEW e \in Emails,
         \/ DecideCreate(e) \/ DecideIgnore(e) \/ DecideNotJob(e) \/ ReprocessMarks(e)
         \/ \E c \in Cycles : CorrectAnalysis(e, c)
         \/ \E a \in Ids : DecideLink(e, a)
  PROVE  TypeInv'
<1>1. AnalysisType /\ RowType /\ ProcType
  BY TypeParts
<1>2. UNCHANGED << filed, app, timeline, touched, asked, aq, analyst, jobs, dropped >>
  BY DEF DecideCreate, DecideIgnore, DecideNotJob, ReprocessMarks, CorrectAnalysis, DecideLink
<1>3. RowType' /\ asked' \subseteq Emails
  BY <1>1, <1>2, RowsKept DEF ProcType
<1>4. used' \in Usage
  BY <1>1, UsedType
  DEF DecideCreate, DecideIgnore, DecideNotJob, ReprocessMarks, CorrectAnalysis, DecideLink,
      AnalysisType
<1>5. state' \in [Emails -> {"QUEUED", "PROCESSING", "PROCESSED", "NEEDS_REVIEW", "FAILED", "SKIPPED"}]
  BY <1>1
  DEF DecideCreate, DecideIgnore, DecideNotJob, ReprocessMarks, CorrectAnalysis, DecideLink,
      AnalysisType
<1>6. analysis' \in [Emails -> Analysis]
  <2>1. analysis \in [Emails -> Analysis] /\ analysis[e] \in Analysis
    BY <1>1 DEF AnalysisType
  <2>2. CASE UNCHANGED analysis
    BY <2>1, <2>2
  <2>3. CASE DecideNotJob(e)
    <3>1. [analysis[e] EXCEPT !.job = FALSE, !.review = FALSE, !.sub = "NONE"] \in Analysis
      BY <2>1 DEF Analysis, SubCategories, Silent
    <3>2. analysis' = [analysis EXCEPT ![e] =
                         [analysis[e] EXCEPT !.job = FALSE, !.review = FALSE, !.sub = "NONE"]]
      BY <2>1, <2>3 DEF DecideNotJob, Analysis
    <3>3. QED
      BY <2>1, <3>1, <3>2
  <2>4. ASSUME NEW c \in Cycles, CorrectAnalysis(e, c) PROVE analysis' \in [Emails -> Analysis]
    <3>1. [done |-> TRUE, corrected |-> TRUE, job |-> TRUE, review |-> FALSE, cycle |-> c,
           sub |-> analysis[e].sub] \in Analysis
      BY <2>1 DEF Analysis
    <3>2. QED
      BY <2>1, <2>4, <3>1 DEF CorrectAnalysis
  <2>5. QED
    BY <2>2, <2>3, <2>4 DEF DecideCreate, DecideIgnore, ReprocessMarks, DecideLink
<1>7. AnalysisType'
  BY <1>1, <1>2, <1>4, <1>5, <1>6 DEF AnalysisType, AnalystInv
<1>8. ProcType'
  <2>1. CASE UNCHANGED proc
    BY <1>1, <1>2, <1>3, <2>1, FrameRows DEF ProcType, ProcInv
  <2>2. ASSUME NEW r \in Process, Grounded(r, Ids), proc' = [proc EXCEPT ![User] = r]
        PROVE  ProcType'
    BY <1>2, <1>3, <2>2, MoveType, SlotFacts
  <2>3. analysis[e].sub \in SubCategories /\ analysis[e].cycle \in Cycles \cup {NoCycle}
    BY <1>1 DEF AnalysisType, Analysis
  <2>4. CASE DecideCreate(e)
    <3> DEFINE r == [Free EXCEPT !.pc = "create", !.email = e, !.sub = analysis[e].sub,
                                 !.cycle = analysis[e].cycle]
    <3>1. r \in Process
      BY <2>3, FreeFits DEF Process, Steps, Free
    <3>2. Grounded(r, Ids)
      BY <2>3, <2>4 DEF DecideCreate, Grounded, Free, Searching, Applying
    <3>3. proc' = [proc EXCEPT ![User] = r]
      BY <2>4 DEF DecideCreate
    <3> HIDE DEF r
    <3>4. QED
      BY <2>2, <3>1, <3>2, <3>3
  <2>5. ASSUME NEW a \in Ids, DecideLink(e, a) PROVE ProcType'
    <3> DEFINE r == [Free EXCEPT !.pc = "read", !.email = e, !.sub = analysis[e].sub, !.app = a]
    <3>1. a \in Nat
      BY <1>1, IdsFacts DEF RowType
    <3>2. r \in Process
      BY <2>3, <3>1, FreeFits DEF Process, Steps, Free
    <3>3. Grounded(r, Ids)
      BY DEF Grounded, Free, Searching, Applying
    <3>4. proc' = [proc EXCEPT ![User] = r]
      BY <2>5 DEF DecideLink
    <3> HIDE DEF r
    <3>5. QED
      BY <2>2, <3>2, <3>3, <3>4
  <2>6. CASE DecideNotJob(e) \/ ReprocessMarks(e)
    <3>1. PICK pc \in {"reclassify", "requeue"} :
            proc' = [proc EXCEPT ![User] = [Free EXCEPT !.pc = pc, !.email = e]]
      BY <2>6 DEF DecideNotJob, ReprocessMarks
    <3> DEFINE r == [Free EXCEPT !.pc = pc, !.email = e]
    <3>2. r \in Process
      BY FreeFits DEF Process, Steps, Free
    <3>3. Grounded(r, Ids)
      BY DEF Grounded, Free, Searching, Applying
    <3> HIDE DEF r
    <3>4. QED
      BY <2>2, <3>1, <3>2, <3>3 DEF r
  <2>7. QED
    BY <2>1, <2>4, <2>5, <2>6 DEF DecideIgnore, CorrectAnalysis
<1>9. QED
  BY <1>3, <1>7, <1>8, TypeParts

(* A merge leaves one row less; every row keeps its cycle and status.      *)
LEMMA MergeRows ==
  ASSUME TypeInv, NEW a \in Ids, Merge(a)
  PROVE  /\ app[a].prev \in Live
         /\ app' \in Seq(Application) /\ Ids' = Ids /\ Live' = Live \ {a}
         /\ \A b \in Ids : /\ app'[b].cycle = app[b].cycle
                           /\ app'[b].status = app[b].status
                           /\ app'[b].byUser = app[b].byUser
<1> DEFINE prev == app[a].prev
<1>1. RowType /\ Ids = 1..Len(app) /\ Len(app) \in Nat /\ Ids \subseteq Nat \ {0}
  BY TypeParts, IdsFacts DEF RowType
<1>2. prev \in Live /\ prev \in Ids /\ prev \in Nat /\ a \in Live
  BY <1>1 DEF Merge, Live
<1>3. app[prev].prev \in Nat
  <2> HIDE DEF prev
  <2>1. app[prev] \in Application
    BY <1>1, <1>2 DEF RowType
  <2>2. QED
    BY <2>1 DEF Application
<1>4. PICK newest \in Nat : app' = [app EXCEPT ![prev].prev = newest, ![a].live = FALSE]
  <2>1. \E newest \in {prev} \cup ({app[prev].prev} \ {0}) :
          app' = [app EXCEPT ![prev].prev = newest, ![a].live = FALSE]
    BY DEF Merge
  <2> HIDE DEF prev
  <2>2. {prev} \cup ({app[prev].prev} \ {0}) \subseteq Nat
    BY <1>2, <1>3
  <2>3. QED
    BY <2>1, <2>2
<1> HIDE DEF prev
<1> DEFINE once == [app EXCEPT ![prev] = [app[prev] EXCEPT !.prev = newest]]
<1>5. /\ once \in Seq(Application) /\ Len(once) = Len(app)
      /\ \A b \in Ids : once[b] = IF b = prev THEN [app[prev] EXCEPT !.prev = newest] ELSE app[b]
  <2>1. app \in Seq(Application) /\ app[prev] \in Application
    BY <1>1, <1>2 DEF RowType
  <2>2. [app[prev] EXCEPT !.prev = newest] \in Application
    BY <2>1 DEF Application
  <2>3. QED
    BY <1>1, <1>2, <2>1, <2>2
<1>6. app' = [once EXCEPT ![a] = [once[a] EXCEPT !.live = FALSE]]
  BY <1>1, <1>2, <1>4 DEF RowType
<1>7. /\ app' \in Seq(Application) /\ Len(app') = Len(app)
      /\ \A b \in Ids : app'[b] = IF b = a THEN [once[a] EXCEPT !.live = FALSE] ELSE once[b]
  <2> HIDE DEF once
  <2>1. once[a] \in Application
    BY <1>1, <1>5
  <2>2. [once[a] EXCEPT !.live = FALSE] \in Application
    BY <2>1 DEF Application
  <2>3. QED
    BY <1>1, <1>5, <1>6, <2>2
<1>8. Ids' = Ids
  BY <1>1, <1>7 DEF Ids
<1>9. \A b \in Ids : app[b] \in Application
  BY <1>1 DEF RowType
<1>10. \A b \in Ids : /\ app'[b].cycle = app[b].cycle
                      /\ app'[b].status = app[b].status
                      /\ app'[b].byUser = app[b].byUser
                      /\ app'[b].live = (b # a /\ app[b].live)
  <2> SUFFICES ASSUME NEW b \in Ids
               PROVE  /\ app'[b].cycle = app[b].cycle
                      /\ app'[b].status = app[b].status
                      /\ app'[b].byUser = app[b].byUser
                      /\ app'[b].live = (b # a /\ app[b].live)
    OBVIOUS
  <2>1. /\ once[b].cycle = app[b].cycle /\ once[b].status = app[b].status
        /\ once[b].byUser = app[b].byUser /\ once[b].live = app[b].live
        /\ once[b] \in Application
    BY <1>1, <1>5, <1>9 DEF Application
  <2> HIDE DEF once
  <2>2. CASE b = a
    BY <1>7, <2>1, <2>2 DEF Application
  <2>3. CASE b # a
    BY <1>7, <1>9, <2>1, <2>3 DEF Application
  <2>4. QED
    BY <2>2, <2>3
<1>11. Live' = Live \ {a}
  BY <1>8, <1>10 DEF Live
<1>12. QED
  BY <1>2, <1>7, <1>8, <1>10, <1>11 DEF prev

(* The links move with the rows.                                           *)
LEMMA MergeLinks ==
  ASSUME TypeInv, NEW a \in Ids, Merge(a)
  PROVE  /\ filed' = [e \in Emails |-> IF filed[e] # a THEN filed[e]
                                       ELSE IF app[a].prev = a THEN 0 ELSE app[a].prev]
         /\ \A ev \in timeline' :
              /\ ev.app # a
              /\ \E old \in timeline :
                   /\ ev.email = old.email /\ ev.what = old.what
                   /\ ev.app = IF old.app = a THEN app[a].prev ELSE old.app
                   /\ ev = [app |-> ev.app, email |-> old.email, what |-> old.what]
         /\ \A old \in timeline :
              (IF old.app = a THEN app[a].prev ELSE old.app) # a =>
                [app |-> IF old.app = a THEN app[a].prev ELSE old.app,
                 email |-> old.email, what |-> old.what] \in timeline'
<1> DEFINE prev == app[a].prev
<1>1. RowType /\ Ids \subseteq Nat \ {0} /\ a # 0
  BY TypeParts, IdsFacts DEF RowType
<1>2. filed' = [e \in Emails |-> IF filed[e] # a THEN filed[e] ELSE IF prev = a THEN 0 ELSE prev]
  <2>1. filed' = [e \in Emails |-> LET moved == MovedTo(prev, a, filed[e])
                                 IN  IF moved = a THEN 0 ELSE moved]
    BY DEF Merge
  <2>2. QED
    BY <2>1 DEF MovedTo
<1>3. timeline' = { ev \in { [old EXCEPT !.app = MovedTo(prev, a, @)] : old \in timeline } : ev.app # a }
  BY DEF Merge, MergedTimeline
<1>4. \A old \in timeline :
        [old EXCEPT !.app = MovedTo(prev, a, @)] =
          [app |-> IF old.app = a THEN prev ELSE old.app, email |-> old.email, what |-> old.what]
  BY <1>1 DEF RowType, MovedTo
<1> HIDE DEF prev
<1>5. \A ev \in timeline' :
        /\ ev.app # a
        /\ \E old \in timeline :
             ev = [app |-> IF old.app = a THEN prev ELSE old.app, email |-> old.email, what |-> old.what]
  BY <1>3, <1>4
<1>6. \A old \in timeline :
        (IF old.app = a THEN prev ELSE old.app) # a =>
          [app |-> IF old.app = a THEN prev ELSE old.app, email |-> old.email, what |-> old.what]
            \in timeline'
  BY <1>3, <1>4
<1>7. QED
  BY <1>2, <1>5, <1>6 DEF prev

LEMMA MergeType ==
  ASSUME TypeInv, NEW a \in Ids, Merge(a)
  PROVE  TypeInv'
<1>1. AnalysisType /\ RowType /\ ProcType
  BY TypeParts
<1>2. app[a].prev \in Live /\ app' \in Seq(Application) /\ Ids' = Ids /\ Live' = Live \ {a}
  BY MergeRows
<1>3. AnalysisType'
  <2>1. dropped' \subseteq Emails /\ used' \in Usage
    BY <1>1, UsedType DEF Merge, AnalysisType
  <2>2. QED
    BY <1>1, <2>1 DEF Merge, AnalysisType, AnalystInv
<1>4. ProcType'
  <2>1. UNCHANGED << proc, asked >>
    BY DEF Merge
  <2>2. QED
    BY <1>1, <1>2, <2>1 DEF ProcType, ProcInv
<1>5. filed' \in [Emails -> Live' \cup {0}]
  BY <1>1, <1>2, MergeLinks DEF RowType
<1>6. timeline' \subseteq [app : Live', email : Emails, what : Statuses \cup {"LINKED"}]
  <2> SUFFICES ASSUME NEW ev \in timeline'
               PROVE  ev \in [app : Live', email : Emails, what : Statuses \cup {"LINKED"}]
    OBVIOUS
  <2>1. PICK old \in timeline :
          /\ ev.app = IF old.app = a THEN app[a].prev ELSE old.app
          /\ ev = [app |-> ev.app, email |-> old.email, what |-> old.what]
    BY MergeLinks
  <2>2. ev.app # a
    BY MergeLinks
  <2>3. old.app \in Live /\ old.email \in Emails /\ old.what \in Statuses \cup {"LINKED"}
    BY <1>1 DEF RowType
  <2>4. ev.app \in Live'
    BY <1>2, <2>1, <2>2, <2>3
  <2>5. QED
    BY <2>1, <2>3, <2>4
<1>7. touched' \subseteq Ids'
  BY <1>1, <1>2, IdsFacts DEF Merge, RowType
<1>8. QED
  BY <1>2, <1>3, <1>4, <1>5, <1>6, <1>7, TypeParts DEF RowType

(* The user sets a status, and does nothing else to the row.               *)
LEMMA OverrideRows ==
  ASSUME TypeInv, NEW a \in Ids, NEW status \in Overrides, OverrideStatus(a, status)
  PROVE  /\ app' \in Seq(Application) /\ Ids' = Ids /\ Live' = Live
         /\ \A b \in Ids : /\ app'[b].cycle = app[b].cycle
                           /\ app'[b].byUser = app[b].byUser
                           /\ b # a => app'[b] = app[b]
<1>1. RowType /\ Ids = 1..Len(app) /\ Len(app) \in Nat
  BY TypeParts, IdsFacts DEF RowType
<1>2. app[a] \in Application /\ status \in Statuses
  BY <1>1, BoundsAssumption DEF RowType
<1>3. [app[a] EXCEPT !.status = status] \in Application
  BY <1>2 DEF Application
<1>4. app' = [app EXCEPT ![a] = [app[a] EXCEPT !.status = status]]
  BY DEF OverrideStatus
<1>5. app' \in Seq(Application) /\ Ids' = Ids /\ Live' = Live
  BY <1>1, <1>2, <1>3, <1>4, ChangedRow DEF Application
<1>6. \A b \in Ids : app'[b] = IF b = a THEN [app[a] EXCEPT !.status = status] ELSE app[b]
  BY <1>1, <1>4 DEF RowType
<1>7. QED
  BY <1>2, <1>5, <1>6 DEF Application

LEMMA OverrideType ==
  ASSUME TypeInv, NEW a \in Ids, NEW status \in Overrides, OverrideStatus(a, status)
  PROVE  TypeInv'
<1>1. AnalysisType /\ RowType /\ ProcType
  BY TypeParts
<1>2. app' \in Seq(Application) /\ Ids' = Ids /\ Live' = Live
  BY OverrideRows
<1>3. used' \in Usage
  BY <1>1, UsedType DEF OverrideStatus, AnalysisType
<1>4. AnalysisType'
  BY <1>1, <1>3 DEF OverrideStatus, AnalysisType, AnalystInv
<1>5. ProcType'
  BY <1>1, <1>2 DEF OverrideStatus, ProcType, ProcInv
<1>6. RowType'
  BY <1>1, <1>2 DEF OverrideStatus, RowType
<1>7. QED
  BY <1>4, <1>5, <1>6, TypeParts

LEMMA TypeStep == TypeInv /\ [Next]_vars => TypeInv'
<1> SUFFICES ASSUME TypeInv, [Next]_vars PROVE TypeInv'
  OBVIOUS
<1>1. AnalysisType /\ RowType /\ ProcType
  BY TypeParts
<1>2. CASE UNCHANGED vars
  <2>1. AnalysisType'
    BY <1>1, <1>2 DEF vars, AnalysisType, AnalystInv
  <2>2. RowType'
    BY <1>1, <1>2, RowsKept DEF vars
  <2>3. ProcType'
    BY <1>1, <1>2, FrameRows DEF vars, ProcType, ProcInv
  <2>4. QED
    BY <2>1, <2>2, <2>3, TypeParts
<1>3. CASE \/ \E j \in aq : AnalyzeSkips(j) \/ \E w \in Analysts : AnalyzeStarts(w, j)
           \/ \E w \in Analysts : Analyze(w) \/ AnalysisFails(w) \/ AnalystStalls(w)
  <2>1. AnalysisType'
    BY <1>3, AnalyzeType
  <2>2. UNCHANGED << filed, proc, app, timeline, asked, touched >>
    BY <1>3 DEF AnalyzeSkips, AnalyzeStarts, Analyze, PersistAnalysis, SettleState, HandOver,
                AnalysisFails, AnalystStalls
  <2>3. RowType'
    BY <1>1, <2>2, RowsKept
  <2>4. ProcType'
    BY <1>1, <2>2, FrameRows DEF ProcType, ProcInv
  <2>5. QED
    BY <2>1, <2>3, <2>4, TypeParts
<1>4. ASSUME NEW p \in Slots, TakeJob(p) \/ WorkOn(p) PROVE TypeInv'
  BY <1>4, TakeJobType, SearchType, CreateType, RowSteps, WriteType, EndType, SlotFacts
  DEF WorkOn, Apply
<1>5. CASE Serve
  BY <1>5, CreateType, RowSteps, WriteType, EndType, ServeType, SlotFacts DEF Serve, Apply
<1>6. CASE Decide
  BY <1>6, DecideType, MergeType, OverrideType DEF Decide
<1>7. ASSUME NEW p \in Processes, Crash(p) PROVE TypeInv'
  BY <1>7, EndType
<1>8. QED
  BY <1>2, <1>3, <1>4, <1>5, <1>6, <1>7 DEF Next

(* Emails and events refer to applications that exist, whatever the        *)
(* workers, the user's decisions, merges and crashes do to one another.    *)
THEOREM TypeCorrect == Spec => []TypeOK
<1>1. Spec => []TypeInv
  BY TypeInit, TypeStep, PTL DEF Spec
<1>2. TypeInv => TypeOK
  BY DEF TypeInv
<1>3. QED
  BY <1>1, <1>2, PTL

-----------------------------------------------------------------------------
(* What a step can do to the rows.                                         *)

LEMMA RowChanges ==
  ASSUME TypeInv, [Next]_vars
  PROVE  \/ UNCHANGED << app, touched >>
         \/ \E p \in Processes : \/ CreateApplication(p) \/ ApplyWrites(p)
                                 \/ FlagPossibleDuplicate(p) \/ Crash(p)
         \/ \E a \in Ids : Merge(a) \/ \E status \in Overrides : OverrideStatus(a, status)
<1>1. CASE UNCHANGED vars
  BY <1>1 DEF vars
<1>2. CASE \/ \E j \in aq : AnalyzeSkips(j) \/ \E w \in Analysts : AnalyzeStarts(w, j)
           \/ \E w \in Analysts : Analyze(w) \/ AnalysisFails(w) \/ AnalystStalls(w)
  BY <1>2 DEF AnalyzeSkips, AnalyzeStarts, Analyze, PersistAnalysis, SettleState, HandOver,
              AnalysisFails, AnalystStalls
<1>3. ASSUME NEW p \in Slots, TakeJob(p)
      PROVE  UNCHANGED << app, touched >>
  BY <1>3 DEF TakeJob, AskForReview, LeaveToCleanup, StartUpdate, StartSearch
<1>4. ASSUME NEW p \in Processes,
             \/ Search(p) \/ LinkNew(p) \/ ApplyReads(p) \/ ApplyEvidence(p) \/ ApplyMove(p)
             \/ ApplyRelinks(p) \/ ApplicationGone(p) \/ MaybeNotify(p)
      PROVE  UNCHANGED << app, touched >>
  BY <1>4 DEF Search, SearchMatches, SearchIsUnsure, SearchFindsNone, DetectDuplicate, LinkNew,
              ApplyReads, ApplyEvidence, ApplyMove, ApplyRelinks, ApplicationGone, MaybeNotify
<1>5. CASE Confirm \/ Reclassify \/ ReprocessQueues
  BY <1>5 DEF Confirm, Reclassify, ReprocessQueues
<1>6. ASSUME NEW e \in Emails,
             \/ DecideCreate(e) \/ DecideIgnore(e) \/ DecideNotJob(e) \/ ReprocessMarks(e)
             \/ \E c \in Cycles : CorrectAnalysis(e, c)
             \/ \E a \in Ids : DecideLink(e, a)
      PROVE  UNCHANGED << app, touched >>
  BY <1>6 DEF DecideCreate, DecideIgnore, DecideNotJob, ReprocessMarks, CorrectAnalysis, DecideLink
<1>7. ASSUME NEW p \in Processes, WorkOn(p)
      PROVE  \/ UNCHANGED << app, touched >>
             \/ CreateApplication(p) \/ ApplyWrites(p) \/ FlagPossibleDuplicate(p)
  BY <1>4, <1>7 DEF WorkOn, Apply
<1>8. CASE Serve
  BY <1>4, <1>5, <1>8, SlotFacts DEF Serve, Apply
<1>9. CASE Decide
  BY <1>6, <1>9 DEF Decide
<1>10. QED
  BY <1>1, <1>2, <1>3, <1>7, <1>8, <1>9, SlotFacts DEF Next

(* What the write of a process does to its row, and that it is no step     *)
(* back from what it read.                                                 *)
LEMMA WriteRows ==
  ASSUME TypeInv, NEW p \in Processes, ApplyWrites(p)
  PROVE  /\ proc[p].app \in Ids
         /\ STATUS_RANK[proc[p].from] <= STATUS_RANK[proc[p].to]
         /\ proc[p].to \in Statuses /\ proc[p].from \in Statuses
         /\ proc'[p].pc = "relink"
         /\ \A q \in Processes : q # p => proc'[q] = proc[q]
         /\ \A b \in Ids : app'[b] = IF b = proc[p].app THEN [app[b] EXCEPT !.status = proc[p].to]
                                     ELSE app[b]
         /\ app'[proc[p].app].status = proc[p].to
<1>1. app \in Seq(Application) /\ Ids = 1..Len(app) /\ Len(app) \in Nat
  BY TypeParts, IdsFacts DEF RowType
<1>2. proc[p].app \in Ids /\ proc[p] \in Process /\ proc \in [Processes -> Process]
  BY ProcFacts DEF ApplyWrites
<1>3. \A b \in Ids : app'[b] = IF b = proc[p].app THEN [app[b] EXCEPT !.status = proc[p].to]
                              ELSE app[b]
  BY <1>1, <1>2 DEF ApplyWrites
<1>4. /\ proc'[p].pc = "relink" /\ \A q \in Processes : q # p => proc'[q] = proc[q]
      /\ STATUS_RANK[proc[p].from] <= STATUS_RANK[proc[p].to]
  BY <1>2, ProcFacts DEF ApplyWrites, Goto, Grounded, Process
<1>5. app'[proc[p].app].status = proc[p].to
  <2>1. app[proc[p].app] \in Application
    BY <1>2, RowFacts
  <2>2. QED
    BY <1>2, <1>3, <2>1 DEF Application
<1>6. QED
  BY <1>2, <1>3, <1>4, <1>5 DEF Process

LEMMA FlagRows ==
  ASSUME TypeInv, NEW p \in Processes, FlagPossibleDuplicate(p), NEW b \in Ids
  PROVE  /\ app'[b].status = app[b].status /\ app'[b].cycle = app[b].cycle
         /\ app'[b].byUser = app[b].byUser /\ app'[b].live = app[b].live
<1>1. app \in Seq(Application) /\ Ids = 1..Len(app) /\ Len(app) \in Nat /\ app[b] \in Application
  BY TypeParts, IdsFacts DEF RowType
<1>2. app'[b] = IF b = proc[p].app
                THEN [app[b] EXCEPT !.prev = IF app[b].prev = 0 THEN proc[p].dup ELSE app[b].prev]
                ELSE app[b]
  BY <1>1 DEF FlagPossibleDuplicate
<1>3. QED
  BY <1>1, <1>2 DEF Application

(* The statuses: a row keeps its status, or the user made a request that   *)
(* touched it, or a process writes.                                        *)
LEMMA StatusStep ==
  ASSUME TypeInv, [Next]_vars, NEW a \in Ids
  PROVE  /\ touched \subseteq touched'
         /\ \/ app'[a].status = app[a].status
            \/ used'.requests # used.requests /\ a \in touched'
            \/ \E p \in Processes : ApplyWrites(p) /\ proc[p].app = a
<1>1. CASE UNCHANGED << app, touched >>
  BY <1>1
<1>2. ASSUME NEW p \in Processes, CreateApplication(p)
      PROVE  app'[a] = app[a] /\ touched' = touched
  BY <1>2, TypeParts, IdsFacts DEF CreateApplication, RowType
<1>3. ASSUME NEW p \in Processes, ApplyWrites(p)
      PROVE  touched \subseteq touched' /\ (app'[a].status = app[a].status \/ proc[p].app = a)
  BY <1>3, WriteRows DEF ApplyWrites
<1>4. ASSUME NEW p \in Processes, FlagPossibleDuplicate(p)
      PROVE  touched \subseteq touched' /\ app'[a].status = app[a].status
  BY <1>4, FlagRows DEF FlagPossibleDuplicate
<1>5. ASSUME NEW p \in Processes, Crash(p)
      PROVE  touched \subseteq touched' /\ app'[a].status = app[a].status
  BY <1>5 DEF Crash
<1>6. ASSUME NEW b \in Ids, Merge(b)
      PROVE  touched \subseteq touched' /\ app'[a].status = app[a].status
  BY <1>6, MergeRows DEF Merge
<1>7. ASSUME NEW b \in Ids, NEW status \in Overrides, OverrideStatus(b, status)
      PROVE  /\ touched \subseteq touched'
             /\ app'[a].status = app[a].status \/ (used'.requests # used.requests /\ a \in touched')
  <2>1. used \in Usage
    BY TypeParts DEF AnalysisType
  <2>2. used'.requests # used.requests
    BY <1>7, <2>1 DEF OverrideStatus, Request, Usage
  <2>3. touched' = touched \cup {b} /\ (a = b \/ app'[a] = app[a])
    BY <1>7, OverrideRows DEF OverrideStatus
  <2>4. QED
    BY <2>2, <2>3
<1>8. QED
  BY <1>1, <1>2, <1>3, <1>4, <1>5, <1>6, <1>7, RowChanges

-----------------------------------------------------------------------------
(* Retries, repeated jobs, late mail and review decisions never move an    *)
(* application back; only the user does, or a write from a stale read.     *)
THEOREM NeverBackByItself == Spec => ForwardUnlessStale
<1>1. ASSUME TypeInv, [Next]_vars, NEW a \in Live, FallsBack(a)
      PROVE  \/ used'.requests # used.requests
             \/ \E p \in Processes : /\ proc[p].pc = "write" /\ proc'[p].pc = "relink"
                                     /\ proc[p].app = a
                                     /\ proc[p].from # app[a].status
  <2>1. a \in Ids /\ app[a] \in Application /\ app[a].status \in Statuses
    BY <1>1, RowFacts
  <2>2. app'[a].status # app[a].status
    BY <1>1, <2>1, RankFacts DEF FallsBack
  <2>3. ASSUME NEW p \in Processes, ApplyWrites(p), proc[p].app = a
        PROVE  /\ proc[p].pc = "write" /\ proc'[p].pc = "relink"
               /\ proc[p].from # app[a].status
    <3>1. proc[p].pc = "write" /\ proc'[p].pc = "relink"
      BY <1>1, <2>3, WriteRows DEF ApplyWrites
    <3>2. app'[a].status = proc[p].to
      BY <1>1, <2>1, <2>3, WriteRows DEF Application
    <3>3. STATUS_RANK[proc[p].from] \in Nat /\ STATUS_RANK[proc[p].to] \in Nat
          /\ STATUS_RANK[proc[p].from] <= STATUS_RANK[proc[p].to]
      BY <1>1, <2>3, WriteRows, RankFacts
    <3>4. CASE proc[p].from = app[a].status
      BY <1>1, <3>2, <3>3, <3>4 DEF FallsBack
    <3>5. QED
      BY <3>1, <3>4
  <2>4. QED
    BY <1>1, <2>1, <2>2, <2>3, StatusStep
<1>2. TypeInv /\ [Next]_vars =>
        [\A a \in Live :
           FallsBack(a) =>
             \/ used'.requests # used.requests
             \/ \E p \in Processes : /\ proc[p].pc = "write" /\ proc'[p].pc = "relink"
                                     /\ proc[p].app = a
                                     /\ proc[p].from # app[a].status]_vars
  BY <1>1
<1>3. QED
  BY <1>2, TypeInit, TypeStep, PTL DEF Spec, ForwardUnlessStale

-----------------------------------------------------------------------------
(* What a step can do to a process and to the timeline.                    *)

(* The steps of one process.                                               *)
ActsSlot(p) == p \in Slots /\ (TakeJob(p) \/ WorkOn(p))
ActsUser(p) == p = User /\ (Serve \/ Decide)
Acts(p)     == ActsSlot(p) \/ ActsUser(p) \/ Crash(p)

LEMMA ActsAlone ==
  ASSUME TypeInv, NEW p \in Processes, Acts(p), NEW q \in Processes, q # p
  PROVE  proc'[q] = proc[q]
<1>1. proc \in [Processes -> Process]
  BY ProcFacts
<1>2. CASE Search(p) \/ CreateApplication(p) \/ LinkNew(p) \/ Apply(p)
           \/ FlagPossibleDuplicate(p) \/ MaybeNotify(p) \/ Crash(p)
  BY <1>1, <1>2
  DEF Search, SearchMatches, SearchIsUnsure, SearchFindsNone, DetectDuplicate, CreateApplication,
      LinkNew, Apply, ApplyReads, ApplyEvidence, ApplyMove, ApplyWrites, ApplyRelinks,
      ApplicationGone, FlagPossibleDuplicate, MaybeNotify, Crash, Goto
<1>3. CASE TakeJob(p)
  BY <1>1, <1>3 DEF TakeJob, AskForReview, LeaveToCleanup, StartUpdate, StartSearch, Take
<1>4. CASE p = User /\ (Confirm \/ Reclassify \/ ReprocessQueues)
  BY <1>1, <1>4 DEF Confirm, Reclassify, ReprocessQueues
<1>5. CASE p = User /\ Decide
  BY <1>1, <1>5 DEF Decide, DecideCreate, DecideIgnore, DecideNotJob, ReprocessMarks,
                    CorrectAnalysis, DecideLink, Merge, OverrideStatus
<1>6. QED
  BY <1>2, <1>3, <1>4, <1>5 DEF Acts, ActsSlot, ActsUser, WorkOn, Serve

LEMMA StepActs ==
  ASSUME TypeInv, [Next]_vars
  PROVE  UNCHANGED << proc, timeline, filed, asked >> \/ \E p \in Processes : Acts(p)
<1>1. CASE UNCHANGED vars
  BY <1>1 DEF vars
<1>2. CASE \/ \E j \in aq : AnalyzeSkips(j) \/ \E w \in Analysts : AnalyzeStarts(w, j)
           \/ \E w \in Analysts : Analyze(w) \/ AnalysisFails(w) \/ AnalystStalls(w)
  BY <1>2 DEF AnalyzeSkips, AnalyzeStarts, Analyze, PersistAnalysis, SettleState, HandOver,
              AnalysisFails, AnalystStalls
<1>3. QED
  BY <1>1, <1>2, SlotFacts DEF Next, Acts, ActsSlot, ActsUser

(* What a process does with the record of an email it has in hand.         *)
LEMMA WriterSteps ==
  ASSUME TypeInv, [Next]_vars, NEW p \in Processes, proc[p].pc = "write"
  PROVE  proc'[p] = proc[p] \/ ApplyWrites(p) \/ ApplicationGone(p) \/ Crash(p)
<1>1. ASSUME Acts(p) PROVE proc'[p] = proc[p] \/ ApplyWrites(p) \/ ApplicationGone(p) \/ Crash(p)
  <2>1. CASE ActsSlot(p)
    BY <2>1 DEF ActsSlot, TakeJob, AskForReview, LeaveToCleanup, StartUpdate, StartSearch, WorkOn,
       Search, SearchMatches, SearchIsUnsure, SearchFindsNone, DetectDuplicate, CreateApplication,
       LinkNew, Apply, ApplyReads, ApplyEvidence, ApplyMove, ApplyRelinks, FlagPossibleDuplicate,
       MaybeNotify
  <2>2. CASE ActsUser(p)
    BY <2>2 DEF ActsUser, Serve, CreateApplication, Apply, ApplyReads, ApplyEvidence, ApplyMove,
       ApplyRelinks, Confirm, Reclassify, ReprocessQueues, Decide, DecideCreate, DecideIgnore,
       DecideNotJob, ReprocessMarks, CorrectAnalysis, DecideLink, Merge, OverrideStatus
  <2>3. QED
    BY <1>1, <2>1, <2>2 DEF Acts
<1>2. QED
  BY <1>1, ActsAlone, StepActs

LEMMA TimelineChanges ==
  ASSUME TypeInv, [Next]_vars
  PROVE  \/ UNCHANGED timeline
         \/ \E p \in Processes : ApplyEvidence(p) \/ ApplyMove(p)
         \/ \E a \in Ids : Merge(a)
<1>1. ASSUME NEW p \in Processes, ActsSlot(p) \/ Crash(p)
      PROVE  UNCHANGED timeline \/ ApplyEvidence(p) \/ ApplyMove(p)
  BY <1>1 DEF ActsSlot, TakeJob, AskForReview, LeaveToCleanup, StartUpdate, StartSearch, WorkOn,
       Search, SearchMatches, SearchIsUnsure, SearchFindsNone, DetectDuplicate, CreateApplication,
       LinkNew, Apply, ApplyReads, ApplyWrites, ApplyRelinks, ApplicationGone,
       FlagPossibleDuplicate, MaybeNotify, Crash
<1>2. ASSUME ActsUser(User)
      PROVE  \/ UNCHANGED timeline \/ ApplyEvidence(User) \/ ApplyMove(User)
             \/ \E a \in Ids : Merge(a)
  BY <1>2 DEF ActsUser, Serve, CreateApplication, Apply, ApplyReads, ApplyWrites, ApplyRelinks,
       ApplicationGone, Confirm, Reclassify, ReprocessQueues, Decide, DecideCreate, DecideIgnore,
       DecideNotJob, ReprocessMarks, CorrectAnalysis, DecideLink, OverrideStatus
<1>3. QED
  BY <1>1, <1>2, StepActs, SlotFacts DEF Acts, ActsUser

-----------------------------------------------------------------------------
(* The status and the timeline.                                            *)

Reflected(ev) ==
  \/ ev.what = "LINKED"
  \/ ev.app \in touched
  \/ STATUS_RANK[app[ev.app].status] >= STATUS_RANK[ev.what]
  \/ \E p \in Processes : /\ proc[p].pc = "write" /\ proc[p].app = ev.app
                          /\ proc[p].email = ev.email /\ proc[p].to = ev.what

(* An event that was reflected stays so, when it stays where it is.        *)
LEMMA ReflectedStays ==
  ASSUME TypeInv, [Next]_vars, NEW ev \in timeline, Reflected(ev)
  PROVE  Reflected(ev)'
<1>1. ev.app \in Live /\ ev.app \in Ids /\ ev.what \in Statuses \cup {"LINKED"}
  BY TypeParts, RowFacts DEF RowType
<1> DEFINE a == ev.app
<1>2. touched \subseteq touched'
  BY <1>1, StatusStep
<1>3. CASE ev.what = "LINKED" \/ a \in touched
  BY <1>2, <1>3 DEF Reflected
<1>4. ASSUME ev.what # "LINKED", STATUS_RANK[app[a].status] >= STATUS_RANK[ev.what]
      PROVE  Reflected(ev)'
  <2>1. CASE app'[a].status = app[a].status
    BY <1>4, <2>1 DEF Reflected
  <2>2. CASE a \in touched'
    BY <2>2 DEF Reflected
  <2>3. ASSUME NEW p \in Processes, ApplyWrites(p), proc[p].app = a, a \notin touched'
        PROVE  Reflected(ev)'
    <3>1. proc[p].from = app[a].status
      BY <2>3 DEF ApplyWrites
    <3>2. app'[a].status = proc[p].to
      BY <2>3, WriteRows
    <3>3. STATUS_RANK[proc[p].from] <= STATUS_RANK[proc[p].to]
          /\ STATUS_RANK[proc[p].from] \in Nat /\ STATUS_RANK[proc[p].to] \in Nat
          /\ STATUS_RANK[ev.what] \in Nat
      BY <1>1, <1>4, <2>3, WriteRows, RankFacts
    <3>4. STATUS_RANK[app'[a].status] >= STATUS_RANK[ev.what]
      BY <1>4, <3>1, <3>2, <3>3
    <3>5. QED
      BY <3>4 DEF Reflected
  <2>4. QED
    BY <1>1, <2>1, <2>2, <2>3, StatusStep
<1>5. ASSUME ev.what # "LINKED", NEW p \in Processes, proc[p].pc = "write", proc[p].app = a,
             proc[p].email = ev.email, proc[p].to = ev.what
      PROVE  Reflected(ev)'
  <2>1. CASE proc'[p] = proc[p]
    BY <1>5, <2>1 DEF Reflected
  <2>2. CASE ApplyWrites(p)
    <3>1. app'[a].status = ev.what
      BY <1>5, <2>2, WriteRows
    <3>2. STATUS_RANK[ev.what] \in Nat
      BY <1>1, <1>5, RankFacts
    <3>3. QED
      BY <3>1, <3>2 DEF Reflected
  <2>3. CASE ApplicationGone(p)
    BY <1>1, <1>5, <2>3 DEF ApplicationGone
  <2>4. CASE Crash(p)
    BY <1>5, <2>4 DEF Crash, Reflected
  <2>5. QED
    BY <1>5, <2>1, <2>2, <2>3, <2>4, WriterSteps
<1>6. QED
  BY <1>3, <1>4, <1>5 DEF Reflected

LEMMA ReflectedStep == TypeInv /\ TimelineReflected /\ [Next]_vars => TimelineReflected'
<1> SUFFICES ASSUME TypeInv, TimelineReflected, [Next]_vars, NEW ev \in timeline'
             PROVE  Reflected(ev)'
  BY DEF TimelineReflected, Reflected
<1>1. \A old \in timeline : Reflected(old)
  BY DEF TimelineReflected, Reflected
<1>2. CASE ev \in timeline
  BY <1>1, <1>2, ReflectedStays
<1>3. ASSUME NEW p \in Processes, ApplyEvidence(p), ev \notin timeline PROVE Reflected(ev)'
  <2>1. ev.what = "LINKED"
    BY <1>3 DEF ApplyEvidence, Event
  <2>2. QED
    BY <2>1 DEF Reflected
<1>4. ASSUME NEW p \in Processes, ApplyMove(p), ev \notin timeline PROVE Reflected(ev)'
  <2>1. ev = Event(p, proc[p].to)
    BY <1>4 DEF ApplyMove
  <2>2. proc'[p] = [proc[p] EXCEPT !.pc = "write"] /\ proc[p] \in Process
    BY <1>4, ProcFacts DEF ApplyMove, Goto
  <2>3. QED
    BY <2>1, <2>2 DEF Reflected, Event, Process
<1>5. ASSUME NEW a \in Ids, Merge(a) PROVE Reflected(ev)'
  <2>1. PICK old \in timeline :
          /\ ev.app = IF old.app = a THEN app[a].prev ELSE old.app
          /\ ev = [app |-> ev.app, email |-> old.email, what |-> old.what]
    BY <1>5, MergeLinks
  <2>2. CASE old.app = a
    <3>1. ev.app \in touched'
      BY <1>5, <2>1, <2>2 DEF Merge
    <3>2. QED
      BY <3>1 DEF Reflected
  <2>3. CASE old.app # a
    <3>1. ev = old
      BY <2>1, <2>3, TypeParts DEF RowType
    <3>2. QED
      BY <1>2, <3>1
  <2>4. QED
    BY <2>2, <2>3
<1>6. QED
  BY <1>2, <1>3, <1>4, <1>5, TimelineChanges

(* The status keeps up with what the timeline says, unless the user or a   *)
(* write from a stale read touched the row.                                *)
THEOREM StatusKeepsUp == Spec => []TimelineReflected
<1>1. Init => TimelineReflected
  BY DEF Init, TimelineReflected
<1>2. QED
  BY <1>1, ReflectedStep, TypeInit, TypeStep, PTL DEF Spec

-----------------------------------------------------------------------------
(* The rows of a cycle.                                                    *)

LEMMA RowsFinite ==
  ASSUME TypeInv, NEW c
  PROVE  IsFiniteSet(Rows(c)) /\ IsFiniteSet(Creating(c))
<1>1. Ids = 1..Len(app) /\ Len(app) \in Nat /\ Rows(c) \subseteq Ids
  BY RowFacts DEF Rows, Live
<1>2. IsFiniteSet(Ids)
  BY <1>1, FS_Interval
<1>3. IsFiniteSet(Slots) /\ Creating(c) \subseteq Slots
  BY ProcessesAssumption DEF Creating
<1>4. QED
  BY <1>1, <1>2, <1>3, FS_Subset

(* Rows that keep what the count looks at.                                 *)
LEMMA RowsShrink ==
  ASSUME NEW c, Ids' = Ids, Live' \subseteq Live,
         \A b \in Ids : app'[b].cycle = app[b].cycle /\ app'[b].byUser = app[b].byUser
  PROVE  Rows(c)' \subseteq Rows(c)
  BY DEF Rows, Live

(* Only a process that creates adds a row.                                 *)
LEMMA RowsChange ==
  ASSUME TypeInv, [Next]_vars, NEW c
  PROVE  \/ Rows(c)' \subseteq Rows(c)
         \/ \E p \in Slots : /\ CreateApplication(p) /\ proc[p].cycle = c
                             /\ Rows(c)' \subseteq Rows(c) \cup {Len(app) + 1}
<1>1. CASE UNCHANGED app
  BY <1>1, FrameRows DEF Rows
<1>2. ASSUME NEW p \in Processes, CreateApplication(p)
      PROVE  \/ Rows(c)' \subseteq Rows(c)
             \/ /\ p \in Slots /\ proc[p].cycle = c
                /\ Rows(c)' \subseteq Rows(c) \cup {Len(app) + 1}
  <2> DEFINE row == [live |-> TRUE, cycle |-> proc[p].cycle, status |-> "APPLIED", prev |-> 0,
                     byUser |-> p = User]
             new == Len(app) + 1
  <2>1. row \in Application /\ row.live /\ row.cycle = proc[p].cycle /\ row.byUser = (p = User)
    <3>1. proc[p].cycle \in Cycles /\ "APPLIED" \in Statuses
      BY <1>2, ProcFacts DEF CreateApplication, Grounded, Searching, Statuses, STATUS_RANK
    <3>2. QED
      BY <3>1 DEF Application
  <2>2. app' = Append(app, row)
    BY <1>2 DEF CreateApplication
  <2> HIDE DEF row
  <2>3. /\ \A b \in Ids : app'[b] = app[b]
        /\ app'[new] = row /\ Live' = Live \cup {new} /\ Live \subseteq Ids
    BY <2>1, <2>2, NewRow, TypeParts, RowFacts
  <2> HIDE DEF new
  <2>4. \A b \in Rows(c)' : b \in Rows(c) \/ (b = new /\ proc[p].cycle = c /\ p # User)
    BY <2>1, <2>3 DEF Rows
  <2>5. QED
    BY <2>4 DEF new, Processes
<1>3. ASSUME NEW p \in Processes, ApplyWrites(p) PROVE Rows(c)' \subseteq Rows(c)
  <2>1. \A b \in Ids : app'[b].cycle = app[b].cycle /\ app'[b].byUser = app[b].byUser
                       /\ app'[b].live = app[b].live
    <3> SUFFICES ASSUME NEW b \in Ids
                 PROVE  app'[b].cycle = app[b].cycle /\ app'[b].byUser = app[b].byUser
                        /\ app'[b].live = app[b].live
      OBVIOUS
    <3>1. app[b] \in Application
      BY RowFacts
    <3>2. app'[b] = [app[b] EXCEPT !.status = proc[p].to] \/ app'[b] = app[b]
      BY <1>3, WriteRows
    <3>3. QED
      BY <3>1, <3>2 DEF Application
  <2>2. Ids' = Ids
    BY <1>3, RowFacts DEF ApplyWrites, Ids
  <2>3. QED
    BY <2>1, <2>2, RowsShrink DEF Live
<1>4. ASSUME NEW p \in Processes, FlagPossibleDuplicate(p) PROVE Rows(c)' \subseteq Rows(c)
  <2>1. Ids' = Ids
    BY <1>4, RowFacts DEF FlagPossibleDuplicate, Ids
  <2>2. QED
    BY <1>4, <2>1, FlagRows, RowsShrink DEF Live
<1>5. ASSUME NEW a \in Ids, Merge(a) PROVE Rows(c)' \subseteq Rows(c)
  BY <1>5, MergeRows, RowsShrink
<1>6. ASSUME NEW a \in Ids, NEW status \in Overrides, OverrideStatus(a, status)
      PROVE  Rows(c)' \subseteq Rows(c)
  BY <1>6, OverrideRows, RowsShrink
<1>7. QED
  BY <1>1, <1>2, <1>3, <1>4, <1>5, <1>6, RowChanges DEF Crash

(* A slot is about to create for a cycle when it found no row of it.       *)
LEMMA CreatingChange ==
  ASSUME TypeInv, [Next]_vars, NEW c, NEW p \in Slots, p \in Creating(c)'
  PROVE  \/ p \in Creating(c) /\ ~CreateApplication(p)
         \/ SearchFindsNone(p) /\ proc[p].cycle = c
<1>1. proc'[p].pc \in {"detect", "create"} /\ proc'[p].cycle = c
  BY DEF Creating
<1>2. p \in Processes /\ p # User
  BY SlotFacts
<1>3. proc \in [Processes -> Process] /\ proc[p] \in Process
  BY <1>2, ProcFacts
<1>4. CASE proc'[p] = proc[p]
  BY <1>1, <1>2, <1>3, <1>4 DEF Creating, CreateApplication, Process
<1>5. CASE TakeJob(p)
  <2>1. PICK e \in Emails :
          AskForReview(p, e) \/ LeaveToCleanup(p, e) \/ StartUpdate(p, e) \/ StartSearch(p, e)
    BY <1>5 DEF TakeJob
  <2>2. CASE AskForReview(p, e) \/ LeaveToCleanup(p, e)
    BY <1>1, <2>2 DEF AskForReview, LeaveToCleanup
  <2>3. CASE StartUpdate(p, e) \/ StartSearch(p, e)
    <3>1. PICK pc \in {"read", "search"} : Take(p, e, pc)
      BY <2>3 DEF StartUpdate, StartSearch
    <3>2. proc'[p].pc = pc
      BY <1>2, <1>3, <3>1 DEF Take, Free
    <3>3. QED
      BY <1>1, <3>2
  <2>4. QED
    BY <2>1, <2>2, <2>3
<1>6. CASE Search(p)
  <2>1. CASE SearchMatches(p)
    BY <1>1, <1>2, <1>3, <2>1 DEF SearchMatches, Process
  <2>2. CASE SearchIsUnsure(p)
    BY <1>1, <1>2, <1>3, <2>2 DEF SearchIsUnsure, Free
  <2>3. CASE SearchFindsNone(p)
    BY <1>1, <1>2, <1>3, <2>3 DEF SearchFindsNone, Goto, Process
  <2>4. CASE DetectDuplicate(p)
    BY <1>1, <1>2, <1>3, <2>4 DEF DetectDuplicate, Process, Creating, CreateApplication
  <2>5. QED
    BY <1>6, <2>1, <2>2, <2>3, <2>4 DEF Search
<1>7. CASE CreateApplication(p) \/ LinkNew(p) \/ Apply(p) \/ FlagPossibleDuplicate(p)
           \/ MaybeNotify(p) \/ Crash(p)
  <2>1. proc'[p].pc \notin {"detect", "create"}
    BY <1>2, <1>3, <1>7
    DEF CreateApplication, LinkNew, Apply, ApplyReads, ApplyEvidence, ApplyMove, ApplyWrites,
        ApplyRelinks, ApplicationGone, FlagPossibleDuplicate, MaybeNotify, Crash, Goto, Free, Process
  <2>2. QED
    BY <1>1, <2>1
<1>8. ASSUME NEW q \in Processes, Acts(q)
      PROVE  \/ proc'[p] = proc[p] \/ TakeJob(p) \/ Search(p)
             \/ CreateApplication(p) \/ LinkNew(p) \/ Apply(p) \/ FlagPossibleDuplicate(p)
             \/ MaybeNotify(p) \/ Crash(p)
  BY <1>2, <1>8, ActsAlone DEF Acts, ActsSlot, ActsUser, WorkOn
<1>9. QED
  BY <1>4, <1>5, <1>6, <1>7, <1>8, StepActs

(* Only a search that finds none counts as one that overlooked a row.      *)
LEMMA OverlookedChanges ==
  ASSUME TypeInv, [Next]_vars
  PROVE  used'.overlooked = used.overlooked \/ \E p \in Slots : SearchFindsNone(p)
<1>1. used \in Usage
  BY TypeParts DEF AnalysisType
<1>2. ASSUME NEW j \in aq, AnalyzeSkips(j) \/ \E w \in Analysts : AnalyzeStarts(w, j)
      PROVE  used' = used
  BY <1>2 DEF AnalyzeSkips, AnalyzeStarts
<1>3. ASSUME NEW w \in Analysts, Analyze(w) \/ AnalysisFails(w) \/ AnalystStalls(w)
      PROVE  used'.overlooked = used.overlooked
  BY <1>1, <1>3, UsedType
  DEF Analyze, PersistAnalysis, SettleState, HandOver, AnalysisFails, AnalystStalls
<1>4. ASSUME NEW p \in Slots, TakeJob(p) \/ (WorkOn(p) /\ ~SearchFindsNone(p))
      PROVE  used' = used
  BY <1>4
  DEF TakeJob, AskForReview, LeaveToCleanup, StartUpdate, StartSearch, WorkOn, Search, SearchMatches,
      SearchIsUnsure, DetectDuplicate, CreateApplication, LinkNew, Apply, ApplyReads, ApplyEvidence,
      ApplyMove, ApplyWrites, ApplyRelinks, ApplicationGone, FlagPossibleDuplicate, MaybeNotify
<1>5. CASE Serve
  BY <1>1, <1>5, UsedType
  DEF Serve, CreateApplication, Apply, ApplyReads, ApplyEvidence, ApplyMove, ApplyWrites, ApplyRelinks,
      ApplicationGone, Confirm, Reclassify, ReprocessQueues
<1>6. CASE Decide
  BY <1>1, <1>6, UsedType
  DEF Decide, DecideCreate, DecideIgnore, DecideNotJob, ReprocessMarks, CorrectAnalysis, DecideLink,
      Merge, OverrideStatus
<1>7. ASSUME NEW p \in Processes, Crash(p) PROVE used'.overlooked = used.overlooked
  BY <1>1, <1>7, UsedType DEF Crash
<1>8. CASE UNCHANGED vars
  BY <1>8 DEF vars
<1> QED
  BY <1>2, <1>3, <1>4, <1>5, <1>6, <1>7, <1>8 DEF Next

(* The rows of a cycle and the slots about to add one never exceed the     *)
(* slots and the searches that overlooked a row: who finds no row, where   *)
(* there is none or where there is one, is counted from then on, and its   *)
(* row replaces it.                                                        *)
LEMMA RowStep == TypeInv /\ RowInv /\ [Next]_vars => RowInv'
<1> SUFFICES ASSUME TypeInv, RowInv, [Next]_vars, NEW c \in Cycles
             PROVE  Cardinality(Rows(c)') + Cardinality(Creating(c)')
                      <= Cardinality(Slots) + used'.overlooked[c]
  BY DEF RowInv
<1> DEFINE R == Rows(c)
           C == Creating(c)
           S == Cardinality(Slots)
           O == used.overlooked[c]
<1>1. /\ IsFiniteSet(Slots) /\ S \in Nat
      /\ IsFiniteSet(R) /\ IsFiniteSet(C) /\ Cardinality(R) \in Nat /\ Cardinality(C) \in Nat
      /\ Cardinality(R) + Cardinality(C) <= S + O
  BY RowsFinite, ProcessesAssumption, FS_CardinalityType DEF RowInv
<1>11. O \in Nat /\ O' \in Nat /\ O <= O'
  <2>1. used \in Usage /\ O \in Nat
    BY TypeParts DEF AnalysisType, Usage
  <2>2. used'.overlooked[c] \in {used.overlooked[c], used.overlooked[c] + 1}
    BY <2>1, OverlookedChanges, OverlooksOne
  <2>3. QED
    BY <2>1, <2>2
<1>2. C' \subseteq Slots
  BY DEF Creating
<1>3. IsFiniteSet(C') /\ Cardinality(C') \in Nat /\ Cardinality(C') <= S
  <2> HIDE DEF C, S
  <2>1. QED
    BY <1>1, <1>2, FS_Subset, FS_CardinalityType DEF S
<1>4. \/ R' \subseteq R
      \/ \E p \in Slots : /\ CreateApplication(p) /\ proc[p].cycle = c
                          /\ R' \subseteq R \cup {Len(app) + 1}
  BY RowsChange
<1>5. ASSUME R' \subseteq R
      PROVE  IsFiniteSet(R') /\ Cardinality(R') \in Nat /\ Cardinality(R') <= Cardinality(R)
  <2> HIDE DEF R
  <2>1. QED
    BY <1>1, <1>5, FS_Subset, FS_CardinalityType
<1>6. CASE R' \subseteq R /\ C' \subseteq C
  <2> HIDE DEF R, C, S, O
  <2>1. Cardinality(C') <= Cardinality(C)
    BY <1>1, <1>6, FS_Subset
  <2>2. Cardinality(R') + Cardinality(C') <= S + O'
    BY <1>1, <1>3, <1>5, <1>6, <1>11, <2>1
  <2>3. QED
    BY <2>2 DEF R, C, S, O
<1>7. ASSUME NEW p \in Slots, SearchFindsNone(p), proc[p].cycle = c, R' \subseteq R
      PROVE  Cardinality(R') + Cardinality(C') <= S + O'
  <2>1. CASE Exact(c) = {}
    <3>1. R = {}
      BY <2>1 DEF Exact, Rows
    <3> HIDE DEF R, C, S, O
    <3>2. Cardinality(R') = 0
      BY <1>7, <3>1, FS_EmptySet
    <3> QED BY <1>1, <1>3, <1>11, <3>2
  <2>2. CASE Exact(c) # {}
    <3>1. O' = O + 1
      BY <1>7, <2>2, OverlooksOne, TypeParts DEF AnalysisType
    <3>2. C' \subseteq C \cup {p}
      <4>1. ASSUME NEW q \in C', q \notin C PROVE q = p
        <5>1. q \in Slots /\ SearchFindsNone(q)
          BY <1>2, <4>1, CreatingChange
        <5>2. proc'[q] # proc[q]
          BY <4>1, <5>1 DEF Creating
        <5>3. Acts(p)
          BY <1>7 DEF Acts, ActsSlot, WorkOn, Search
        <5> QED BY <1>7, <5>1, <5>2, <5>3, ActsAlone, SlotFacts
      <4> QED BY <4>1
    <3> HIDE DEF R, C, S, O
    <3>3. /\ IsFiniteSet(C \cup {p}) /\ Cardinality(C \cup {p}) <= Cardinality(C) + 1
          /\ Cardinality(C \cup {p}) \in Nat
      <4>1. /\ IsFiniteSet(C \cup {p})
            /\ \/ Cardinality(C \cup {p}) = Cardinality(C)
               \/ Cardinality(C \cup {p}) = Cardinality(C) + 1
        BY <1>1, FS_AddElement
      <4> QED BY <1>1, <4>1
    <3>4. Cardinality(C') <= Cardinality(C \cup {p})
      BY <3>2, <3>3, FS_Subset
    <3> QED BY <1>1, <1>3, <1>5, <1>7, <1>11, <3>1, <3>3, <3>4
  <2>3. QED
    BY <2>1, <2>2
<1>8. ASSUME NEW p \in Slots, CreateApplication(p), proc[p].cycle = c,
             R' \subseteq R \cup {Len(app) + 1}
      PROVE  Cardinality(R') + Cardinality(C') <= S + O'
  <2>1. p \in C
    BY <1>8 DEF Creating, CreateApplication
  <2>2. C' \subseteq C \ {p}
    <3> SUFFICES ASSUME NEW q \in C' PROVE q \in C \ {p}
      OBVIOUS
    <3>1. q \in Slots
      BY <1>2
    <3>2. ~SearchFindsNone(q)
      <4>1. CASE q = p
        BY <1>8, <4>1 DEF CreateApplication, SearchFindsNone
      <4>2. CASE q # p
        <5>1. proc'[q] = proc[q]
          BY <1>8, <3>1, <4>2, SlotFacts, ActsAlone DEF Acts, ActsSlot, WorkOn
        <5>2. proc[q].pc # "search"
          BY <5>1 DEF Creating
        <5>3. QED
          BY <5>2 DEF SearchFindsNone
      <4>3. QED
        BY <4>1, <4>2
    <3>3. QED
      BY <1>8, <3>1, <3>2, CreatingChange
  <2> DEFINE new == Len(app) + 1
  <2> HIDE DEF R, C, S, O, new
  <2>3. /\ IsFiniteSet(C \ {p}) /\ Cardinality(C \ {p}) = Cardinality(C) - 1
        /\ Cardinality(C') <= Cardinality(C \ {p})
    BY <1>1, <2>1, <2>2, FS_RemoveElement, FS_Subset
  <2>4. /\ IsFiniteSet(R \cup {new}) /\ Cardinality(R \cup {new}) <= Cardinality(R) + 1
        /\ Cardinality(R \cup {new}) \in Nat
    <3>1. IsFiniteSet(R) /\ Cardinality(R) \in Nat
      BY <1>1
    <3>2. /\ IsFiniteSet(R \cup {new})
          /\ \/ Cardinality(R \cup {new}) = Cardinality(R)
             \/ Cardinality(R \cup {new}) = Cardinality(R) + 1
      BY <3>1, FS_AddElement
    <3>3. QED
      BY <3>1, <3>2
  <2>5. IsFiniteSet(R') /\ Cardinality(R') <= Cardinality(R \cup {new}) /\ Cardinality(R') \in Nat
    BY <1>8, <2>4, FS_Subset, FS_CardinalityType DEF new
  <2>6. QED
    BY <1>1, <1>3, <1>11, <2>3, <2>4, <2>5
<1>9. CASE R' \subseteq R /\ ~(C' \subseteq C)
  <2>1. PICK p \in C' : p \notin C
    BY <1>9
  <2>2. p \in Slots
    BY <1>2
  <2>3. SearchFindsNone(p) /\ proc[p].cycle = c
    BY <2>1, <2>2, CreatingChange
  <2>4. QED
    BY <1>7, <1>9, <2>2, <2>3
<1>10. QED
  BY <1>4, <1>6, <1>8, <1>9

(* DuplicatesBounded holds in every reachable state: one row for a cycle,  *)
(* one more for each further slot that searched before the first row was   *)
(* there, and one for each search that overlooked a row of the cycle; no   *)
(* crash, retry or merge adds one.                                         *)
THEOREM OneRowPerSearch == Spec => []DuplicatesBounded
<1>1. Init => RowInv
  <2> SUFFICES ASSUME Init, NEW c \in Cycles
               PROVE  Cardinality(Rows(c)) + Cardinality(Creating(c))
                        <= Cardinality(Slots) + used.overlooked[c]
    BY DEF RowInv
  <2>1. Rows(c) = {} /\ Creating(c) = {}
    BY SlotFacts DEF Init, Rows, Live, Ids, Creating, Free
  <2>2. Cardinality({}) = 0 /\ Cardinality(Slots) \in Nat
    BY FS_EmptySet, FS_CardinalityType, ProcessesAssumption
  <2>3. used.overlooked[c] = 0
    BY DEF Init
  <2>4. QED
    BY <2>1, <2>2, <2>3
<1>2. TypeInv /\ RowInv => DuplicatesBounded
  <2> SUFFICES ASSUME TypeInv, RowInv, NEW c \in Cycles
               PROVE  Cardinality(Rows(c)) <= Cardinality(Slots) + used.overlooked[c]
    BY DEF DuplicatesBounded, Rows
  <2>1. /\ Cardinality(Rows(c)) \in Nat /\ Cardinality(Creating(c)) \in Nat
        /\ Cardinality(Slots) \in Nat /\ used.overlooked[c] \in Nat
    BY RowsFinite, FS_CardinalityType, ProcessesAssumption, TypeParts DEF AnalysisType, Usage
  <2>2. QED
    BY <2>1 DEF RowInv
<1>3. QED
  BY <1>1, <1>2, RowStep, TypeInit, TypeStep, PTL DEF Spec

-----------------------------------------------------------------------------
(* The evidence on the timeline.                                           *)

(* A row that is gone stays gone.                                          *)
LEMMA GoneForGood ==
  ASSUME TypeInv, [Next]_vars, NEW a \in Ids, a \in Live'
  PROVE  a \in Live
<1>1. CASE UNCHANGED app
  BY <1>1, FrameRows
<1>2. ASSUME NEW p \in Processes, CreateApplication(p) PROVE app'[a] = app[a]
  BY <1>2, TypeParts, IdsFacts DEF CreateApplication, RowType
<1>3. ASSUME NEW p \in Processes, ApplyWrites(p) PROVE app'[a].live = app[a].live
  <2>1. app[a] \in Application
    BY RowFacts
  <2>2. app'[a] = [app[a] EXCEPT !.status = proc[p].to] \/ app'[a] = app[a]
    BY <1>3, WriteRows
  <2>3. QED
    BY <2>1, <2>2 DEF Application
<1>4. ASSUME NEW p \in Processes, FlagPossibleDuplicate(p) PROVE app'[a].live = app[a].live
  BY <1>4, FlagRows
<1>5. ASSUME NEW b \in Ids, Merge(b) PROVE a \in Live
  BY <1>5, MergeRows
<1>6. ASSUME NEW b \in Ids, NEW status \in Overrides, OverrideStatus(b, status) PROVE a \in Live
  BY <1>6, OverrideRows
<1>7. QED
  BY <1>1, <1>2, <1>3, <1>4, <1>5, <1>6, RowChanges DEF Crash, Live

(* Evidence stays where it is, as long as its application does.            *)
LEMMA LinkStays ==
  ASSUME TypeInv, [Next]_vars, NEW a \in Live', NEW e, Link(a, e) \in timeline
  PROVE  Link(a, e) \in timeline'
<1>1. ASSUME NEW p \in Processes, ApplyEvidence(p) \/ ApplyMove(p)
      PROVE  timeline \subseteq timeline'
  BY <1>1 DEF ApplyEvidence, ApplyMove
<1>2. ASSUME NEW b \in Ids, Merge(b) PROVE Link(a, e) \in timeline'
  <2>1. a # b
    BY <1>2, MergeRows
  <2>2. Link(a, e).app = a /\ Link(a, e).email = e /\ Link(a, e).what = "LINKED"
    BY DEF Link
  <2>3. QED
    BY <1>2, <2>1, <2>2, MergeLinks DEF Link
<1>3. QED
  BY <1>1, <1>2, TimelineChanges

(* A process that is past the evidence after a step.                       *)
LEMMA RecordedSteps ==
  ASSUME TypeInv, [Next]_vars, NEW p \in Processes,
         proc'[p].pc \in {"move", "write", "relink", "confirm"}
  PROVE  \/ proc'[p] = proc[p]
         \/ /\ ApplyEvidence(p) \/ ApplyMove(p) \/ ApplyWrites(p) \/ ApplyRelinks(p)
            /\ proc'[p].app = proc[p].app /\ proc'[p].email = proc[p].email
<1>1. proc \in [Processes -> Process] /\ proc[p] \in Process
  BY ProcFacts
<1>2. CASE ApplyEvidence(p) \/ ApplyMove(p) \/ ApplyWrites(p) \/ ApplyRelinks(p)
  BY <1>1, <1>2 DEF ApplyEvidence, ApplyMove, ApplyWrites, ApplyRelinks, Goto, Process
<1>3. CASE Search(p) \/ CreateApplication(p) \/ LinkNew(p) \/ ApplyReads(p) \/ ApplicationGone(p)
           \/ FlagPossibleDuplicate(p) \/ MaybeNotify(p) \/ Crash(p)
  BY <1>1, <1>3
  DEF Search, SearchMatches, SearchIsUnsure, SearchFindsNone, DetectDuplicate, CreateApplication,
      LinkNew, ApplyReads, ApplicationGone, FlagPossibleDuplicate, MaybeNotify, Crash, Goto, Free,
      Process
<1>4. CASE TakeJob(p)
  <2>1. PICK e \in Emails :
          AskForReview(p, e) \/ LeaveToCleanup(p, e) \/ StartUpdate(p, e) \/ StartSearch(p, e)
    BY <1>4 DEF TakeJob
  <2>2. CASE AskForReview(p, e) \/ LeaveToCleanup(p, e)
    BY <2>2 DEF AskForReview, LeaveToCleanup
  <2>3. CASE StartUpdate(p, e) \/ StartSearch(p, e)
    <3>1. PICK pc \in {"read", "search"} : Take(p, e, pc)
      BY <2>3 DEF StartUpdate, StartSearch
    <3>2. proc'[p].pc = pc
      BY <1>1, <3>1 DEF Take, Free
    <3>3. QED
      BY <3>2
  <2>4. QED
    BY <2>1, <2>2, <2>3
<1>5. CASE p = User /\ (Confirm \/ Reclassify \/ ReprocessQueues)
  BY <1>1, <1>5 DEF Confirm, Reclassify, ReprocessQueues, Free
<1>6. CASE p = User /\ Decide
  <2>1. ASSUME NEW e \in Emails, DecideCreate(e) \/ DecideNotJob(e) \/ ReprocessMarks(e)
        PROVE  proc'[p].pc \in {"create", "reclassify", "requeue"}
    <3>1. CASE DecideCreate(e)
      BY <1>1, <1>6, <3>1 DEF DecideCreate, Free
    <3>2. CASE DecideNotJob(e)
      BY <1>1, <1>6, <3>2 DEF DecideNotJob, Free
    <3>3. CASE ReprocessMarks(e)
      BY <1>1, <1>6, <3>3 DEF ReprocessMarks, Free
    <3>4. QED
      BY <2>1, <3>1, <3>2, <3>3
  <2>2. ASSUME NEW e \in Emails, NEW a \in Ids, DecideLink(e, a) PROVE proc'[p].pc = "read"
    BY <1>1, <1>6, <2>2 DEF DecideLink, Free
  <2>3. QED
    BY <1>6, <2>1, <2>2 DEF Decide, DecideIgnore, CorrectAnalysis, Merge, OverrideStatus
<1>7. ASSUME NEW q \in Processes, Acts(q)
      PROVE  \/ proc'[p] = proc[p] \/ TakeJob(p) \/ Search(p) \/ CreateApplication(p) \/ LinkNew(p)
             \/ Apply(p) \/ FlagPossibleDuplicate(p) \/ MaybeNotify(p) \/ Crash(p)
             \/ (p = User /\ (Confirm \/ Reclassify \/ ReprocessQueues \/ Decide))
  BY <1>7, ActsAlone DEF Acts, ActsSlot, ActsUser, WorkOn, Serve
<1>8. QED
  BY <1>2, <1>3, <1>4, <1>5, <1>6, <1>7, StepActs DEF Apply

LEMMA RecordedStep == TypeInv /\ RecordedInv /\ [Next]_vars => RecordedInv'
<1> SUFFICES ASSUME TypeInv, RecordedInv, [Next]_vars, NEW p \in Processes,
                    proc'[p].pc \in {"move", "write", "relink", "confirm"}, proc'[p].app \in Live'
             PROVE  Link(proc'[p].app, proc'[p].email) \in timeline'
  BY DEF RecordedInv, Link
<1>1. CASE proc'[p] = proc[p]
  <2>1. proc[p].app \in Ids
    BY <1>1, ProcFacts DEF Grounded, Applying
  <2>2. proc[p].app \in Live
    BY <1>1, <2>1, GoneForGood
  <2>3. QED
    BY <1>1, <2>2, LinkStays DEF RecordedInv
<1>2. CASE ApplyEvidence(p) /\ proc'[p].app = proc[p].app /\ proc'[p].email = proc[p].email
  BY <1>2 DEF ApplyEvidence, Event, Link
<1>3. CASE /\ ApplyMove(p) \/ ApplyWrites(p) \/ ApplyRelinks(p)
           /\ proc'[p].app = proc[p].app /\ proc'[p].email = proc[p].email
  <2>1. proc[p].pc \in {"move", "write", "relink"} /\ proc[p].app \in Live
    BY <1>3 DEF ApplyMove, ApplyWrites, ApplyRelinks
  <2>2. Link(proc[p].app, proc[p].email) \in timeline
    BY <2>1 DEF RecordedInv
  <2>3. QED
    BY <1>3, <2>2, LinkStays
<1>4. QED
  BY <1>1, <1>2, <1>3, RecordedSteps

-----------------------------------------------------------------------------
(* What a step can do to the place where an email is filed.                *)
LEMMA FiledChanges ==
  ASSUME TypeInv, [Next]_vars, NEW e \in Emails
  PROVE  \/ filed'[e] = filed[e]
         \/ \E p \in Slots : /\ LinkNew(p) /\ proc[p].email = e /\ filed'[e] = proc[p].app
         \/ \E p \in Processes : /\ ApplyRelinks(p) \/ (p = User /\ Confirm)
                                 /\ proc[p].email = e /\ filed'[e] = proc[p].app
         \/ \E a \in Ids : Merge(a) /\ filed[e] = a /\ filed'[e] \in {0, app[a].prev}
<1>1. filed \in [Emails -> Live \cup {0}]
  BY TypeParts DEF RowType
<1>2. ASSUME NEW p \in Processes, LinkNew(p) \/ ApplyRelinks(p) \/ (p = User /\ Confirm)
      PROVE  filed'[e] = filed[e] \/ (proc[p].email = e /\ filed'[e] = proc[p].app)
  <2>1. filed' = [filed EXCEPT ![proc[p].email] = proc[p].app]
    BY <1>2 DEF LinkNew, ApplyRelinks, Confirm
  <2>2. QED
    BY <1>1, <2>1
<1>3. ASSUME NEW a \in Ids, Merge(a)
      PROVE  filed'[e] = filed[e] \/ (filed[e] = a /\ filed'[e] \in {0, app[a].prev})
  BY <1>3, MergeLinks
<1>4. ASSUME NEW p \in Slots, ActsSlot(p) PROVE UNCHANGED filed \/ LinkNew(p) \/ ApplyRelinks(p)
  BY <1>4 DEF ActsSlot, TakeJob, AskForReview, LeaveToCleanup, StartUpdate, StartSearch, WorkOn,
       Search, SearchMatches, SearchIsUnsure, SearchFindsNone, DetectDuplicate, CreateApplication,
       Apply, ApplyReads, ApplyEvidence, ApplyMove, ApplyWrites, ApplicationGone,
       FlagPossibleDuplicate, MaybeNotify
<1>5. CASE Serve
  <2>1. UNCHANGED filed \/ ApplyRelinks(User) \/ Confirm
    BY <1>5 DEF Serve, CreateApplication, Apply, ApplyReads, ApplyEvidence, ApplyMove, ApplyWrites,
                ApplicationGone, Reclassify, ReprocessQueues
  <2>2. QED
    BY <1>2, <2>1, SlotFacts
<1>6. CASE Decide
  <2>1. UNCHANGED filed \/ \E a \in Ids : Merge(a)
    BY <1>6 DEF Decide, DecideCreate, DecideIgnore, DecideNotJob, ReprocessMarks, CorrectAnalysis,
                DecideLink, OverrideStatus
  <2>2. QED
    BY <1>3, <2>1
<1>7. ASSUME NEW p \in Slots, ActsSlot(p)
      PROVE  \/ filed'[e] = filed[e]
             \/ LinkNew(p) /\ proc[p].email = e /\ filed'[e] = proc[p].app
             \/ ApplyRelinks(p) /\ proc[p].email = e /\ filed'[e] = proc[p].app
  BY <1>2, <1>4, <1>7, SlotFacts
<1>8. ASSUME NEW p \in Processes, Crash(p) PROVE UNCHANGED filed
  BY <1>8 DEF Crash
<1>9. QED
  BY <1>5, <1>6, <1>7, <1>8, StepActs, SlotFacts DEF Acts, ActsSlot, ActsUser

-----------------------------------------------------------------------------
(* An email on its way to the application queue.                           *)

LEMMA RetriedComing ==
  ASSUME TypeInv, NEW p \in Slots, ApplicationGone(p) \/ Crash(p)
  PROVE  jobs'[proc[p].email] > 0
<1>1. jobs' = [jobs EXCEPT ![proc[p].email] = @ + 1]
  BY SlotFacts DEF ApplicationGone, Crash, Retried
<1>2. proc[p].email \in Emails /\ jobs \in [Emails -> Nat]
  BY TypeParts, ProcFacts, SlotFacts DEF ApplicationGone, Crash, Grounded, AnalysisType
<1>3. QED
  BY <1>1, <1>2

(* The steps of an analyst: what is owed comes, or is dropped.             *)
LEMMA AnalysisComing ==
  ASSUME TypeInv, NEW e \in Emails, Owed(e)',
         \/ \E j \in aq : AnalyzeSkips(j) \/ \E w \in Analysts : AnalyzeStarts(w, j)
         \/ \E w \in Analysts : Analyze(w) \/ AnalysisFails(w) \/ AnalystStalls(w)
  PROVE  Coming(e)' \/ (Owed(e) /\ ~Coming(e))
<1>1. /\ analysis \in [Emails -> Analysis] /\ jobs \in [Emails -> Nat]
      /\ analyst \in [Analysts -> AnalystRecord] /\ AnalystInv
      /\ aq \subseteq [email : Emails, force : BOOLEAN]
  BY TypeParts DEF AnalysisType, AnalystRecord
<1>2. ASSUME NEW j \in aq, AnalyzeSkips(j) PROVE Coming(e)' \/ (Owed(e) /\ ~Coming(e))
  <2>1. Owed(e)
    BY <1>2 DEF AnalyzeSkips, Owed, Ripe
  <2>2. j.email # e
    BY <1>2 DEF AnalyzeSkips, Owed, Ripe
  <2>3. Coming(e) => Coming(e)'
    BY <1>2, <2>2 DEF AnalyzeSkips, Coming
  <2>4. QED
    BY <2>1, <2>3
<1>3. ASSUME NEW j \in aq, NEW w \in Analysts, AnalyzeStarts(w, j)
      PROVE  Coming(e)' \/ (Owed(e) /\ ~Coming(e))
  <2>1. Owed(e)
    BY <1>3 DEF AnalyzeStarts, Owed, Ripe
  <2>2. analyst'[w].pc = "persist" /\ analyst'[w].email = j.email
    BY <1>1, <1>3 DEF AnalyzeStarts, Off
  <2>3. \A v \in Analysts : v # w => analyst'[v] = analyst[v]
    BY <1>1, <1>3 DEF AnalyzeStarts
  <2>4. analyst[w].pc = "idle" /\ UNCHANGED jobs /\ aq' = aq \ {j}
    BY <1>3 DEF AnalyzeStarts
  <2>5. CASE j.email = e
    BY <2>2, <2>5 DEF Coming
  <2>6. CASE j.email # e
    <3>1. Coming(e) => Coming(e)'
      BY <2>3, <2>4, <2>6 DEF Coming
    <3>2. QED
      BY <2>1, <3>1
  <2>7. QED
    BY <2>5, <2>6
<1>4. ASSUME NEW w \in Analysts, analyst[w].email # e, UNCHANGED jobs \/ jobs'[e] = jobs[e],
             aq \subseteq aq', \A v \in Analysts : v # w => analyst'[v] = analyst[v]
      PROVE  Coming(e) => Coming(e)'
  BY <1>4 DEF Coming
<1>5. ASSUME NEW w \in Analysts, PersistAnalysis(w)
      PROVE  Coming(e)' \/ (Owed(e) /\ ~Coming(e))
  <2>1. PICK r \in Readings[analyst[w].email] :
          /\ analysis' = [analysis EXCEPT ![analyst[w].email] =
               [done |-> TRUE, corrected |-> FALSE, job |-> r.job, review |-> r.review,
                cycle |-> r.cycle, sub |-> r.sub]]
          /\ analyst' = [analyst EXCEPT ![w].pc = "settle", ![w].job = r.job, ![w].review = r.review]
    BY <1>5 DEF PersistAnalysis
  <2>2. UNCHANGED << jobs, aq, dropped >> /\ \A v \in Analysts : v # w => analyst'[v] = analyst[v]
    BY <1>1, <1>5, <2>1 DEF PersistAnalysis
  <2>3. CASE analyst[w].email = e
    <3>1. analysis'[e].job = r.job
      BY <1>1, <2>1, <2>3
    <3>2. r.job
      BY <3>1 DEF Owed, Ripe
    <3>3. analyst'[w].pc = "settle" /\ analyst'[w].job = r.job /\ analyst'[w].email = e
      BY <1>1, <2>1, <2>3 DEF AnalystRecord
    <3>4. QED
      BY <3>2, <3>3 DEF Coming
  <2>4. CASE analyst[w].email # e
    <3>1. analysis'[e] = analysis[e]
      BY <1>1, <2>1, <2>4
    <3>2. Owed(e)
      BY <2>2, <3>1 DEF Owed, Ripe
    <3>3. QED
      BY <1>4, <2>2, <2>4, <3>2
  <2>5. QED
    BY <2>3, <2>4
<1>6. ASSUME NEW w \in Analysts, SettleState(w)
      PROVE  Coming(e)' \/ (Owed(e) /\ ~Coming(e))
  <2>1. Owed(e) /\ UNCHANGED << jobs, aq >>
    BY <1>6 DEF SettleState, Owed, Ripe
  <2>2. /\ analyst[w].pc = "settle" /\ analyst'[w].pc = "hand"
        /\ analyst'[w].email = analyst[w].email /\ analyst'[w].job = analyst[w].job
        /\ \A v \in Analysts : v # w => analyst'[v] = analyst[v]
    BY <1>1, <1>6 DEF SettleState, AnalystRecord
  <2>3. Coming(e) => Coming(e)'
    BY <2>1, <2>2 DEF Coming
  <2>4. QED
    BY <2>1, <2>3
<1>7. ASSUME NEW w \in Analysts, HandOver(w)
      PROVE  Coming(e)' \/ (Owed(e) /\ ~Coming(e))
  <2>1. /\ analyst[w].pc = "hand" /\ UNCHANGED << aq, analysis >>
        /\ \A v \in Analysts : v # w => analyst'[v] = analyst[v]
    BY <1>1, <1>7 DEF HandOver
  <2>2. CASE analyst[w].email = e /\ analyst[w].job
    <3>1. jobs' = [jobs EXCEPT ![e] = @ + 1] \/ e \in dropped'
      BY <1>7, <2>2 DEF HandOver
    <3>2. jobs'[e] > 0
      BY <1>1, <3>1 DEF Owed
    <3>3. QED
      BY <3>2 DEF Coming
  <2>3. CASE analyst[w].email # e \/ ~analyst[w].job
    <3>1. jobs'[e] = jobs[e] /\ (e \in dropped => e \in dropped')
      BY <1>1, <1>7, <2>3 DEF HandOver
    <3>2. Owed(e)
      BY <2>1, <3>1 DEF Owed, Ripe
    <3>3. Coming(e) => Coming(e)'
      BY <2>1, <2>3, <3>1 DEF Coming
    <3>4. QED
      BY <3>2, <3>3
  <2>4. QED
    BY <2>2, <2>3
<1>8. ASSUME NEW w \in Analysts, AnalysisFails(w) \/ AnalystStalls(w)
      PROVE  Coming(e)' \/ (Owed(e) /\ ~Coming(e))
  <2>1. /\ UNCHANGED << jobs, analysis, dropped >> /\ aq' = aq \cup {JobOf(w)}
        /\ \A v \in Analysts : v # w => analyst'[v] = analyst[v]
    BY <1>1, <1>8 DEF AnalysisFails, AnalystStalls
  <2>2. Owed(e)
    BY <2>1 DEF Owed, Ripe
  <2>3. CASE analyst[w].email = e
    <3>1. JobOf(w) \in aq' /\ JobOf(w).email = e
      BY <2>1, <2>3 DEF JobOf
    <3>2. QED
      BY <3>1 DEF Coming
  <2>4. CASE analyst[w].email # e
    BY <1>4, <2>1, <2>2, <2>4
  <2>5. QED
    BY <2>3, <2>4
<1>9. QED
  BY <1>2, <1>3, <1>5, <1>6, <1>7, <1>8 DEF Analyze

(* The steps that only add to the queues and change no analysis.           *)
LEMMA QueuesGrow ==
  ASSUME NEW e \in Emails, Owed(e)', jobs[e] > 0 => jobs'[e] > 0, aq \subseteq aq',
         dropped \subseteq dropped', UNCHANGED analyst, analysis'[e] = analysis[e]
  PROVE  Coming(e)' \/ (Owed(e) /\ ~Coming(e))
<1>1. Owed(e)
  BY DEF Owed, Ripe
<1>2. Coming(e) => Coming(e)'
  BY DEF Coming
<1>3. QED
  BY <1>1, <1>2

Takes(p, e) == AskForReview(p, e) \/ LeaveToCleanup(p, e) \/ StartUpdate(p, e) \/ StartSearch(p, e)

(* An email that is owed something comes to the queue until a slot takes   *)
(* its job.                                                                *)
LEMMA ComingStep ==
  ASSUME TypeInv, [Next]_vars, NEW e \in Emails, Owed(e)'
  PROVE  \/ Coming(e)'
         \/ \E p \in Slots : Takes(p, e)
         \/ Owed(e) /\ ~Coming(e)
<1>1. analysis \in [Emails -> Analysis] /\ jobs \in [Emails -> Nat]
  BY TypeParts DEF AnalysisType
<1>2. CASE UNCHANGED vars
  BY <1>2, QueuesGrow DEF vars
<1>3. ASSUME NEW p \in Slots, NEW f \in Emails, Takes(p, f), f # e
      PROVE  Coming(e)' \/ (Owed(e) /\ ~Coming(e))
  <2>1. jobs' = [jobs EXCEPT ![f] = @ - 1] /\ UNCHANGED << aq, dropped, analyst, analysis >>
    BY <1>3 DEF Takes, AskForReview, LeaveToCleanup, StartUpdate, StartSearch
  <2>2. jobs'[e] = jobs[e]
    BY <1>1, <1>3, <2>1
  <2>3. QED
    BY <2>1, <2>2, QueuesGrow
<1>4. ASSUME NEW p \in Processes, ApplicationGone(p) \/ Crash(p)
      PROVE  Coming(e)' \/ (Owed(e) /\ ~Coming(e))
  <2>1. jobs' = Retried(p) /\ UNCHANGED << aq, dropped, analyst, analysis >>
    BY <1>4 DEF ApplicationGone, Crash
  <2>2. jobs'[e] = jobs[e] \/ jobs'[e] = jobs[e] + 1
    BY <1>1, <2>1 DEF Retried
  <2>3. jobs[e] \in Nat
    BY <1>1
  <2>4. QED
    BY <2>1, <2>2, <2>3, QueuesGrow
<1>5. ASSUME NEW p \in Processes, WorkOn(p)
      PROVE  Coming(e)' \/ (Owed(e) /\ ~Coming(e))
  <2>1. ApplicationGone(p) \/ UNCHANGED << jobs, aq, dropped, analyst, analysis >>
    BY <1>5 DEF WorkOn, Search, SearchMatches, SearchIsUnsure, SearchFindsNone, DetectDuplicate,
       CreateApplication, LinkNew, Apply, ApplyReads, ApplyEvidence, ApplyMove, ApplyWrites,
       ApplyRelinks, FlagPossibleDuplicate, MaybeNotify
  <2>2. QED
    BY <1>4, <2>1, QueuesGrow
<1>6. CASE Serve
  <2>1. \/ ApplicationGone(User)
        \/ UNCHANGED << jobs, dropped, analyst, analysis >> /\ aq \subseteq aq'
    BY <1>6 DEF Serve, CreateApplication, Apply, ApplyReads, ApplyEvidence, ApplyMove, ApplyWrites,
       ApplyRelinks, Confirm, Reclassify, ReprocessQueues
  <2>2. QED
    BY <1>4, <2>1, QueuesGrow, SlotFacts
<1>7. CASE Decide
  <2>1. UNCHANGED << jobs, aq, analyst >> /\ dropped \subseteq dropped'
    BY <1>7 DEF Decide, DecideCreate, DecideIgnore, DecideNotJob, ReprocessMarks, CorrectAnalysis,
       DecideLink, Merge, OverrideStatus
  <2>2. ASSUME NEW f \in Emails, DecideNotJob(f) PROVE analysis'[e] = analysis[e]
    <3>1. analysis' = [analysis EXCEPT ![f] = [@ EXCEPT !.job = FALSE, !.review = FALSE,
                                                        !.sub = "NONE"]]
      BY <1>1, <2>2 DEF DecideNotJob, Analysis
    <3>2. CASE f = e
      <4>1. ~analysis'[e].job
        BY <1>1, <3>1, <3>2 DEF Analysis
      <4>2. QED
        BY <4>1 DEF Owed, Ripe
    <3>3. QED
      BY <1>1, <3>1, <3>2
  <2>3. ASSUME NEW f \in Emails, NEW c \in Cycles, CorrectAnalysis(f, c)
        PROVE  analysis'[e] = analysis[e]
    <3>1. CASE f = e
      <4>1. analysis'[e].corrected
        BY <1>1, <2>3, <3>1 DEF CorrectAnalysis
      <4>2. QED
        BY <4>1 DEF Owed, Ripe
    <3>2. QED
      BY <1>1, <2>3, <3>1 DEF CorrectAnalysis
  <2>4. analysis'[e] = analysis[e]
    BY <1>7, <2>2, <2>3 DEF Decide, DecideCreate, DecideIgnore, ReprocessMarks, DecideLink, Merge,
       OverrideStatus
  <2>5. QED
    BY <2>1, <2>4, QueuesGrow
<1>8. QED
  BY <1>2, <1>3, <1>4, <1>5, <1>6, <1>7, AnalysisComing, SlotFacts DEF Next, TakeJob, Takes

(* What a slot does with the email it has in hand.                         *)
LEMMA SlotSteps ==
  ASSUME TypeInv, [Next]_vars, NEW p \in Slots, proc[p].pc # "idle"
  PROVE  proc'[p] = proc[p] \/ WorkOn(p) \/ Crash(p)
<1>1. ~TakeJob(p)
  BY DEF TakeJob, AskForReview, LeaveToCleanup, StartUpdate, StartSearch
<1>2. QED
  BY <1>1, StepActs, ActsAlone, SlotFacts DEF Acts, ActsSlot, ActsUser

(* The job of an email that is taken.                                      *)
LEMMA TakenSteps ==
  ASSUME TypeInv, NEW p \in Slots, NEW e \in Emails, Takes(p, e), Owed(e)'
  PROVE  /\ UNCHANGED << filed, timeline, app >>
         /\ \/ AskForReview(p, e) /\ filed[e] = 0
            \/ StartSearch(p, e) /\ filed[e] = 0 /\ proc'[p].pc = "search" /\ proc'[p].email = e
            \/ StartUpdate(p, e) /\ proc'[p].pc = "read" /\ proc'[p].email = e
                                 /\ proc'[p].app = filed[e]
<1>1. proc \in [Processes -> Process] /\ p \in Processes
  BY ProcFacts, SlotFacts
<1>2. UNCHANGED << filed, timeline, app, analysis >>
  BY DEF Takes, AskForReview, LeaveToCleanup, StartUpdate, StartSearch
<1>3. ~LeaveToCleanup(p, e)
  BY <1>2 DEF LeaveToCleanup, NothingToDo, Owed, Ripe
<1>4. ASSUME AskForReview(p, e) PROVE filed[e] = 0
  BY <1>4 DEF AskForReview, AsksReview
<1>5. ASSUME NEW pc, Take(p, e, pc)
      PROVE  proc'[p].pc = pc /\ proc'[p].email = e /\ proc'[p].app = filed[e]
  BY <1>1, <1>5 DEF Take, Free
<1>6. QED
  BY <1>2, <1>3, <1>4, <1>5 DEF Takes, StartSearch, StartUpdate, Searches

-----------------------------------------------------------------------------
(* A slot that is at the first steps of applying, after a step.            *)
LEMMA LinkingSteps ==
  ASSUME TypeInv, [Next]_vars, NEW p \in Slots, proc[p].pc \in {"read", "evidence"}
  PROVE  \/ proc'[p] = proc[p]
         \/ /\ ApplyReads(p) /\ proc'[p].pc = "evidence"
            /\ proc'[p].app = proc[p].app /\ proc'[p].email = proc[p].email
         \/ ApplyEvidence(p)
         \/ ApplicationGone(p) \/ Crash(p)
<1>1. proc \in [Processes -> Process] /\ proc[p] \in Process
  BY ProcFacts, SlotFacts
<1>2. CASE WorkOn(p)
  <2>1. ApplyReads(p) \/ ApplyEvidence(p) \/ ApplicationGone(p)
    BY <1>2 DEF WorkOn, Search, SearchMatches, SearchIsUnsure, SearchFindsNone, DetectDuplicate,
       CreateApplication, LinkNew, Apply, ApplyMove, ApplyWrites, ApplyRelinks,
       FlagPossibleDuplicate, MaybeNotify
  <2>2. CASE ApplyReads(p)
    <3>1. proc'[p].pc = "evidence" /\ proc'[p].app = proc[p].app /\ proc'[p].email = proc[p].email
      BY <1>1, <2>2, SlotFacts DEF ApplyReads, Process
    <3>2. QED
      BY <2>2, <3>1
  <2>3. QED
    BY <2>1, <2>2
<1>3. QED
  BY <1>2, SlotSteps

LEMMA EvidenceStep ==
  TypeInv /\ RecordedInv /\ EvidenceInv /\ [Next]_vars => EvidenceInv'
<1> SUFFICES ASSUME TypeInv, RecordedInv, EvidenceInv, [Next]_vars,
                    NEW e \in Emails, Owed(e)', filed'[e] # 0
             PROVE  Link(filed'[e], e) \in timeline' \/ Coming(e)' \/ \E p \in Slots : Linking(p, e)'
  BY DEF EvidenceInv, Link
<1>1. /\ filed \in [Emails -> Live \cup {0}] /\ filed' \in [Emails -> Live' \cup {0}]
      /\ Live \subseteq Ids
  BY TypeStep, TypeParts, RowFacts DEF RowType
<1>2. ASSUME NEW p \in Slots, Takes(p, e)
      PROVE  Linking(p, e)'
  BY <1>2, TakenSteps DEF Linking
<1>3. ASSUME NEW p \in Slots, ApplicationGone(p) \/ Crash(p), proc[p].email = e PROVE Coming(e)'
  BY <1>3, RetriedComing DEF Coming
<1>4. ASSUME filed'[e] = filed[e], Link(filed[e], e) \in timeline
      PROVE  Link(filed'[e], e) \in timeline'
  BY <1>1, <1>4, LinkStays
<1>5. ASSUME NEW p \in Slots, Linking(p, e), filed'[e] = filed[e]
      PROVE  Link(filed'[e], e) \in timeline' \/ Coming(e)' \/ Linking(p, e)'
  <2>1. /\ proc[p].email = e /\ proc[p].pc \in {"read", "evidence"} /\ proc[p].app \in Ids
        /\ proc[p].app = filed[e] \/ proc[p].app \notin Live
    BY <1>5, ProcFacts, SlotFacts DEF Linking, Grounded, Applying
  <2>2. proc[p].app \notin Live => proc[p].app \notin Live'
    BY <2>1, GoneForGood
  <2>3. CASE proc'[p] = proc[p]
    BY <1>5, <2>1, <2>2, <2>3 DEF Linking
  <2>4. CASE /\ ApplyReads(p) /\ proc'[p].pc = "evidence"
             /\ proc'[p].app = proc[p].app /\ proc'[p].email = proc[p].email
    BY <1>5, <2>1, <2>2, <2>4 DEF Linking
  <2>5. CASE ApplyEvidence(p)
    BY <1>5, <2>1, <2>5 DEF ApplyEvidence, Event, Link
  <2>6. QED
    BY <1>3, <2>1, <2>3, <2>4, <2>5, LinkingSteps
<1>6. CASE Owed(e) /\ ~Coming(e) /\ filed'[e] = filed[e]
  BY <1>4, <1>5, <1>6 DEF EvidenceInv
<1>7. ASSUME NEW p \in Slots, LinkNew(p), proc[p].email = e, filed'[e] = proc[p].app
      PROVE  Linking(p, e)'
  <2>1. proc'[p].pc = "read" /\ proc'[p].app = proc[p].app /\ proc'[p].email = e
    BY <1>7, ProcFacts, SlotFacts DEF LinkNew, Goto, Process
  <2>2. QED
    BY <1>7, <2>1 DEF Linking
<1>8. ASSUME NEW p \in Processes, ApplyRelinks(p) \/ (p = User /\ Confirm),
             proc[p].email = e, filed'[e] = proc[p].app
      PROVE  Link(filed'[e], e) \in timeline'
  <2>1. proc[p].pc \in {"relink", "confirm"} /\ proc[p].app \in Live /\ UNCHANGED timeline
    BY <1>8 DEF ApplyRelinks, Confirm
  <2>2. QED
    BY <1>8, <2>1 DEF RecordedInv
<1>9. ASSUME NEW a \in Ids, Merge(a), filed[e] = a, filed'[e] \in {0, app[a].prev},
             Owed(e) /\ ~Coming(e)
      PROVE  Link(filed'[e], e) \in timeline' \/ \E p \in Slots : Linking(p, e)'
  <2>1. a # 0 /\ filed'[e] = app[a].prev /\ Live' = Live \ {a} /\ filed'[e] # a
    BY <1>1, <1>9, MergeRows, TypeParts, IdsFacts DEF RowType
  <2>2. CASE Link(a, e) \in timeline
    <3>1. Link(a, e).app = a /\ Link(a, e).email = e /\ Link(a, e).what = "LINKED"
      BY DEF Link
    <3>2. QED
      BY <1>9, <2>1, <2>2, <3>1, MergeLinks DEF Link
  <2>3. ASSUME NEW p \in Slots, Linking(p, e) PROVE Linking(p, e)'
    <3>1. UNCHANGED proc
      BY <1>9 DEF Merge
    <3>2. proc[p].app \notin Live'
      BY <1>9, <2>1, <2>3 DEF Linking
    <3>3. QED
      BY <2>3, <3>1, <3>2 DEF Linking
  <2>4. QED
    BY <1>9, <2>1, <2>2, <2>3 DEF EvidenceInv
<1>10. QED
  BY <1>2, <1>6, <1>7, <1>8, <1>9, ComingStep, FiledChanges

(* A filed job email has its evidence on the timeline of the application   *)
(* it is filed under, once nothing in the pipeline has it in hand.         *)
THEOREM FiledWithEvidence == Spec => []EvidenceOfFiling
<1>1. Init => RecordedInv /\ EvidenceInv
  <2> SUFFICES ASSUME Init PROVE RecordedInv /\ EvidenceInv
    OBVIOUS
  <2>1. \A p \in Processes : proc[p].pc = "idle"
    BY DEF Init, Free
  <2>2. \A e \in Emails : filed[e] = 0
    BY DEF Init
  <2>3. QED
    BY <2>1, <2>2 DEF RecordedInv, EvidenceInv
<1>2. TypeInv /\ EvidenceInv => EvidenceOfFiling
  <2> SUFFICES ASSUME TypeInv, EvidenceInv, NEW e \in Emails, filed[e] # 0, ~Underway(e), Owed(e)
               PROVE  Link(filed[e], e) \in timeline
    BY DEF EvidenceOfFiling, Owed, Ripe, Link
  <2>1. ~Coming(e)
    BY DEF Underway, Coming
  <2>2. \A p \in Slots : ~Linking(p, e)
    BY DEF Underway, Linking
  <2>3. QED
    BY <2>1, <2>2 DEF EvidenceInv
<1>3. TypeInv /\ RecordedInv /\ EvidenceInv /\ [Next]_vars
        => TypeInv' /\ RecordedInv' /\ EvidenceInv'
  BY TypeStep, RecordedStep, EvidenceStep
<1>4. QED
  BY <1>1, <1>2, <1>3, TypeInit, PTL DEF Spec

-----------------------------------------------------------------------------
(* A slot on its way to filing an email, after a step.                     *)
LEMMA FilingSteps ==
  ASSUME TypeInv, [Next]_vars, NEW p \in Slots, NEW e \in Emails, Filing(p, e)
  PROVE  \/ Filing(p, e)'
         \/ e \in asked'
         \/ ApplyRelinks(p)
         \/ ApplicationGone(p) \/ Crash(p)
<1>1. proc \in [Processes -> Process] /\ proc[p] \in Process /\ p \in Processes /\ p # User
  BY ProcFacts, SlotFacts
<1>2. proc[p].email = e /\ proc[p].pc # "idle"
      /\ proc[p].pc \in Searching \cup {"link", "read", "evidence", "move", "write", "relink"}
  BY DEF Filing, Searching
<1>3. ASSUME NEW pc \in Searching \cup {"link", "read", "evidence", "move", "write", "relink"},
             proc'[p].pc = pc, proc'[p].email = e
      PROVE  Filing(p, e)'
  BY <1>3 DEF Filing
<1>4. CASE Search(p)
  <2>1. CASE SearchMatches(p)
    <3>1. proc'[p].pc = "read" /\ proc'[p].email = e
      BY <1>1, <1>2, <2>1 DEF SearchMatches, Process
    <3>2. QED
      BY <1>3, <3>1
  <2>2. CASE SearchIsUnsure(p)
    BY <1>2, <2>2 DEF SearchIsUnsure
  <2>3. CASE SearchFindsNone(p)
    <3>1. proc'[p].pc = "detect" /\ proc'[p].email = e
      BY <1>1, <1>2, <2>3 DEF SearchFindsNone, Goto, Process
    <3>2. QED
      BY <1>3, <3>1 DEF Searching
  <2>4. CASE DetectDuplicate(p)
    <3>1. proc'[p].pc = "create" /\ proc'[p].email = e
      BY <1>1, <1>2, <2>4 DEF DetectDuplicate, Process
    <3>2. QED
      BY <1>3, <3>1 DEF Searching
  <2>5. QED
    BY <1>4, <2>1, <2>2, <2>3, <2>4 DEF Search
<1>5. CASE CreateApplication(p)
  <2>1. proc'[p].pc = "link" /\ proc'[p].email = e
    BY <1>1, <1>2, <1>5 DEF CreateApplication, Process
  <2>2. QED
    BY <1>3, <2>1
<1>6. CASE LinkNew(p)
  <2>1. proc'[p].pc = "read" /\ proc'[p].email = e
    BY <1>1, <1>2, <1>6 DEF LinkNew, Goto, Process
  <2>2. QED
    BY <1>3, <2>1
<1>7. CASE ApplyReads(p)
  <2>1. proc'[p].pc = "evidence" /\ proc'[p].email = e
    BY <1>1, <1>2, <1>7 DEF ApplyReads, Process
  <2>2. QED
    BY <1>3, <2>1
<1>8. CASE ApplyEvidence(p) \/ ApplyMove(p) \/ ApplyWrites(p)
  <2>1. PICK pc \in {"move", "write", "relink"} : Goto(p, pc)
    BY <1>8 DEF ApplyEvidence, ApplyMove, ApplyWrites
  <2>2. proc'[p].pc = pc /\ proc'[p].email = e
    BY <1>1, <1>2, <2>1 DEF Goto, Process
  <2>3. QED
    BY <1>3, <2>2
<1>9. ~FlagPossibleDuplicate(p) /\ ~MaybeNotify(p)
  BY <1>2 DEF FlagPossibleDuplicate, MaybeNotify, Searching
<1>10. CASE proc'[p] = proc[p]
  BY <1>2, <1>3, <1>10
<1>11. QED
  BY <1>2, <1>4, <1>5, <1>6, <1>7, <1>8, <1>9, <1>10, SlotSteps DEF WorkOn, Apply

LEMMA AskedStays == [Next]_vars => asked \subseteq asked'
<1>1. CASE UNCHANGED vars
  BY <1>1 DEF vars
<1>2. CASE \/ \E j \in aq : AnalyzeSkips(j) \/ \E w \in Analysts : AnalyzeStarts(w, j)
           \/ \E w \in Analysts : Analyze(w) \/ AnalysisFails(w) \/ AnalystStalls(w)
  BY <1>2 DEF AnalyzeSkips, AnalyzeStarts, Analyze, PersistAnalysis, SettleState, HandOver,
              AnalysisFails, AnalystStalls
<1>3. ASSUME NEW p \in Slots, TakeJob(p) \/ WorkOn(p) PROVE asked \subseteq asked'
  BY <1>3 DEF TakeJob, AskForReview, LeaveToCleanup, StartUpdate, StartSearch, WorkOn, Search,
       SearchMatches, SearchIsUnsure, SearchFindsNone, DetectDuplicate, CreateApplication, LinkNew,
       Apply, ApplyReads, ApplyEvidence, ApplyMove, ApplyWrites, ApplyRelinks, ApplicationGone,
       FlagPossibleDuplicate, MaybeNotify
<1>4. CASE Serve
  BY <1>4 DEF Serve, CreateApplication, Apply, ApplyReads, ApplyEvidence, ApplyMove, ApplyWrites,
       ApplyRelinks, ApplicationGone, Confirm, Reclassify, ReprocessQueues
<1>5. CASE Decide
  BY <1>5 DEF Decide, DecideCreate, DecideIgnore, DecideNotJob, ReprocessMarks, CorrectAnalysis,
       DecideLink, Merge, OverrideStatus
<1>6. ASSUME NEW p \in Processes, Crash(p) PROVE asked \subseteq asked'
  BY <1>6 DEF Crash
<1>7. QED
  BY <1>1, <1>2, <1>3, <1>4, <1>5, <1>6 DEF Next

LEMMA StrandedStep == TypeInv /\ StrandedInv /\ [Next]_vars => StrandedInv'
<1> SUFFICES ASSUME TypeInv, StrandedInv, [Next]_vars, NEW e \in Emails, Owed(e)'
             PROVE  Answered(e)' \/ Coming(e)' \/ \E p \in Slots : Filing(p, e)'
  BY DEF StrandedInv
<1>1. filed \in [Emails -> Live \cup {0}] /\ Live \subseteq Ids /\ 0 \notin Ids
  BY TypeParts, RowFacts, IdsFacts DEF RowType
<1>2. ASSUME NEW p \in Slots, Takes(p, e)
      PROVE  Answered(e)' \/ Filing(p, e)'
  <2>1. CASE AskForReview(p, e)
    BY <2>1 DEF AskForReview, Answered
  <2>2. CASE proc'[p].pc \in {"search", "read"} /\ proc'[p].email = e
    BY <2>2 DEF Filing, Searching
  <2>3. QED
    BY <1>2, <2>1, <2>2, TakenSteps
<1>3. ASSUME NEW p \in Slots, ApplicationGone(p) \/ Crash(p), proc[p].email = e PROVE Coming(e)'
  BY <1>3, RetriedComing DEF Coming
<1>4. ASSUME NEW p \in Processes, proc[p].app \in Live, filed'[e] = proc[p].app
      PROVE  Answered(e)'
  BY <1>1, <1>4 DEF Answered
<1>5. ASSUME filed[e] # 0 PROVE Answered(e)'
  <2>1. CASE filed'[e] = filed[e]
    BY <1>5, <2>1 DEF Answered
  <2>2. ASSUME NEW p \in Processes, LinkNew(p) \/ ApplyRelinks(p) \/ (p = User /\ Confirm),
               filed'[e] = proc[p].app
        PROVE  Answered(e)'
    BY <1>4, <2>2 DEF LinkNew, ApplyRelinks, Confirm
  <2>3. ASSUME NEW a \in Ids, Merge(a) PROVE Answered(e)'
    <3>1. e \notin dropped'
      BY DEF Owed
    <3>2. filed'[e] # 0
      BY <1>5, <2>3, <3>1 DEF Merge
    <3>3. QED
      BY <3>2 DEF Answered
  <2>4. QED
    BY <2>1, <2>2, <2>3, FiledChanges, SlotFacts
<1>6. ASSUME NEW p \in Slots, Filing(p, e)
      PROVE  Answered(e)' \/ Coming(e)' \/ Filing(p, e)'
  <2>1. proc[p].email = e
    BY <1>6 DEF Filing
  <2>2. CASE ApplyRelinks(p)
    <3>1. filed'[e] = proc[p].app /\ proc[p].app \in Live
      BY <1>1, <2>1, <2>2 DEF ApplyRelinks
    <3>2. QED
      BY <1>4, <3>1, SlotFacts
  <2>3. QED
    BY <1>3, <1>6, <2>1, <2>2, FilingSteps DEF Answered
<1>7. CASE Owed(e) /\ ~Coming(e)
  <2>1. Answered(e) \/ \E p \in Slots : Filing(p, e)
    BY <1>7 DEF StrandedInv
  <2>2. CASE e \in asked
    BY <2>2, AskedStays DEF Answered
  <2>3. QED
    BY <1>5, <1>6, <2>1, <2>2 DEF Answered
<1>8. QED
  BY <1>2, <1>7, ComingStep

(* An email found to be about a job is filed, put to the user, or still in *)
(* hand; the hand-off and a merge are the only places where it is lost.    *)
THEOREM NothingStranded == Spec => []NeverStranded
<1>1. Init => StrandedInv
  BY DEF Init, StrandedInv, Owed, Ripe, Unread
<1>2. TypeInv /\ StrandedInv => NeverStranded
  <2> SUFFICES ASSUME TypeInv, StrandedInv, NEW e \in Emails, Owed(e), ~Answered(e), ~Underway(e)
               PROVE  FALSE
    BY DEF NeverStranded, Owed
  <2>1. ~Coming(e)
    BY DEF Underway, Coming
  <2>2. \A p \in Slots : ~Filing(p, e)
    BY DEF Underway, Filing
  <2>3. QED
    BY <2>1, <2>2 DEF StrandedInv
<1>3. QED
  BY <1>1, <1>2, StrandedStep, TypeInit, TypeStep, PTL DEF Spec

=============================================================================
