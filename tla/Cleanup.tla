-------------------------------- MODULE Cleanup --------------------------------
(***************************************************************************)
(* Cleaning up a mailbox: the proposals of the pipeline and of the daily   *)
(* run, the batches the user approves, their reversal, the retention sweep *)
(* and the user's purge, while emails are linked to applications.          *)
(***************************************************************************)
EXTENDS Integers, Sequences, FiniteSets

CONSTANTS
  Message,      \* the messages of the mailbox, all of them cleanup material
  Requests,     \* the API's cleanup requests that can be under way at a time
  Pipeline,     \* application workers that may be proposing
  MaxActions,   \* bound on the CleanupAction rows
  MaxRequests,  \* bound on what the user asks for
  MaxFaults     \* bound on crashes and failed or lost calls

ASSUME BoundsAssumption ==
  /\ MaxActions \in Nat
  /\ MaxRequests \in Nat
  /\ MaxFaults \in Nat
ASSUME NamesAssumption == "none" \notin Message /\ {"cleanup", "sweep"} \cap (Pipeline \cup Requests) = {}
ASSUME FinitelyMany == IsFiniteSet(Pipeline)

(* The cleanup worker runs one job at a time.                              *)
Proposers == Pipeline \cup {"cleanup"}

VARIABLES
  trash,     \* messages in Gmail's Trash
  archived,  \* messages taken out of Gmail's inbox
  rows,      \* messages with an Email row
  flagged,   \* rows marked deletedFromGmail
  linked,    \* rows linked to an application
  acts,      \* the CleanupAction rows, the oldest first
  req,       \* the requests under way
  prop,      \* the proposers at work
  doomed,    \* what the retention sweep has selected
  late,      \* who has read an email as unlinked that has been linked since
  asked,     \* how often the user has decided about a message
  used       \* how many requests and faults have happened

vars == << trash, archived, rows, flagged, linked, acts, req, prop, doomed, late, asked, used >>

-----------------------------------------------------------------------------
Free == [pc |-> "idle", kind |-> "KEEP", bad |-> {}, todo |-> {}, msg |-> "none", act |-> 0]
Rest == [pc |-> "idle", msg |-> "none", bad |-> FALSE]

Ask(ms) ==
  /\ used.requests < MaxRequests
  /\ used' = [used EXCEPT !.requests = @ + 1]
  /\ asked' = [m \in Message |-> IF m \in ms THEN asked[m] + 1 ELSE asked[m]]
Fault == used.faults < MaxFaults /\ used' = [used EXCEPT !.faults = @ + 1]

ActsOf(m)  == { a \in DOMAIN acts : acts[a].email = m }
OpenOf(m)  == { a \in ActsOf(m) : acts[a].status = "PROPOSED" }

Forget(x) == { l \in late : l[1] # x }
Leave(r)  == req' = [req EXCEPT ![r] = Free] /\ late' = Forget(r)
Proceed(r, pc) == req' = [req EXCEPT ![r].pc = pc] /\ UNCHANGED late

(* The latest row of the message is overwritten, whatever its status; when *)
(* there is none, one is created, which the database refuses for a message *)
(* without a row.                                                          *)
Latest(m) == { a \in ActsOf(m) : \A b \in ActsOf(m) : b <= a }

Create(act) ==
  /\ act.email \in rows
  /\ Len(acts) < MaxActions
  /\ acts' = Append(acts, act)

(* upsertAction                                                            *)
Upsert(m, kind, status) ==
  \/ \E a \in Latest(m) : acts' = [acts EXCEPT ![a].type = kind, ![a].status = status]
  \/ ActsOf(m) = {} /\ Create([email |-> m, type |-> kind, status |-> status])

(* upsertBlockedAction                                                     *)
UpsertBlocked(m) ==
  \/ \E a \in Latest(m) : acts' = [acts EXCEPT ![a].status = "BLOCKED"]
  \/ ActsOf(m) = {} /\ Create([email |-> m, type |-> "KEEP", status |-> "BLOCKED"])

-----------------------------------------------------------------------------
(* executeCleanupBatch.                                                    *)

(* Faulty variant: the link to an application protects nothing.            *)
ApproveUnprotected(r, kind, ms) ==
  /\ req[r].pc = "idle"
  /\ Ask(ms)
  /\ req' = [req EXCEPT ![r] = [Free EXCEPT !.pc = "block", !.kind = kind, !.todo = ms \cap rows]]
  /\ UNCHANGED << trash, archived, rows, flagged, linked, acts, prop, doomed, late >>

(* One read of the emails decides about the whole batch.                   *)
Approve(r, kind, ms) ==
  /\ req[r].pc = "idle"
  /\ Ask(ms)
  /\ req' = [req EXCEPT ![r] = [Free EXCEPT !.pc = "block", !.kind = kind,
                                   !.bad = ms \cap linked, !.todo = (ms \cap rows) \ linked]]
  /\ UNCHANGED << trash, archived, rows, flagged, linked, acts, prop, doomed, late >>

Block(r, m) ==
  /\ req[r].pc = "block"
  /\ m \in req[r].bad
  /\ \/ /\ UpsertBlocked(m)
        /\ req' = [req EXCEPT ![r].bad = @ \ {m}]
        /\ UNCHANGED late
     \/ m \notin rows /\ ActsOf(m) = {} /\ Leave(r) /\ UNCHANGED acts
  /\ UNCHANGED << trash, archived, rows, flagged, linked, prop, doomed, asked, used >>

(* KEEP writes every row of the messages, whatever its status.             *)
KeepAll(r) ==
  /\ req[r].pc = "block"
  /\ req[r].bad = {}
  /\ req[r].kind = "KEEP"
  /\ acts' = [a \in DOMAIN acts |->
                IF acts[a].email \in req[r].todo THEN [acts[a] EXCEPT !.status = "SKIPPED"] ELSE acts[a]]
  /\ Leave(r)
  /\ UNCHANGED << trash, archived, rows, flagged, linked, prop, doomed, asked, used >>

(* Without a connected account, or when its tokens are refused, every      *)
(* message of the batch fails.                                             *)
Authenticate(r) ==
  /\ req[r].pc = "block"
  /\ req[r].bad = {}
  /\ req[r].kind # "KEEP"
  /\ \/ Proceed(r, "go") /\ UNCHANGED used
     \/ Proceed(r, "failing") /\ Fault
  /\ UNCHANGED << trash, archived, rows, flagged, linked, acts, prop, doomed, asked >>

AllFail(r, m) ==
  /\ req[r].pc = "failing"
  /\ m \in req[r].todo
  /\ \/ Upsert(m, req[r].kind, "FAILED") /\ req' = [req EXCEPT ![r].todo = @ \ {m}] /\ UNCHANGED late
     \/ m \notin rows /\ ActsOf(m) = {} /\ Leave(r) /\ UNCHANGED acts
  /\ UNCHANGED << trash, archived, rows, flagged, linked, prop, doomed, asked, used >>

Does(kind, m) ==
  /\ trash' = IF kind = "DELETE" THEN trash \cup {m} ELSE trash
  /\ archived' = IF kind = "ARCHIVE" THEN archived \cup {m} ELSE archived

(* The call may fail, having taken effect or not.                          *)
CallGmail(r, m) ==
  /\ req[r].pc = "go"
  /\ m \in req[r].todo
  /\ \/ /\ Does(req[r].kind, m)
        /\ \E pc \in {IF req[r].kind = "ARCHIVE" THEN "executed" ELSE "record"} :
             req' = [req EXCEPT ![r].pc = pc, ![r].msg = m, ![r].todo = @ \ {m}]
        /\ UNCHANGED used
     \/ /\ Does(req[r].kind, m) \/ UNCHANGED << trash, archived >>
        /\ req' = [req EXCEPT ![r].pc = "failed", ![r].msg = m, ![r].todo = @ \ {m}]
        /\ Fault
  /\ UNCHANGED << rows, flagged, linked, acts, prop, doomed, late, asked >>

RecordEmail(r) ==
  /\ req[r].pc = "record"
  /\ \/ /\ req[r].msg \in rows
        /\ flagged' = IF req[r].kind = "DELETE" THEN flagged \cup {req[r].msg} ELSE flagged
        /\ Proceed(r, "executed")
        /\ UNCHANGED used
     \/ /\ req[r].msg \in rows => Fault
        /\ req[r].msg \notin rows => UNCHANGED used
        /\ Proceed(r, "failed")
        /\ UNCHANGED flagged
  /\ UNCHANGED << trash, archived, rows, linked, acts, prop, doomed, asked >>

(* Faulty variant: only a message that was proposed gets a record.         *)
RecordProposedAction(r) ==
  /\ req[r].pc \in {"executed", "failed"}
  /\ IF OpenOf(req[r].msg) # {}
     THEN Upsert(req[r].msg, req[r].kind, IF req[r].pc = "executed" THEN "EXECUTED" ELSE "FAILED")
     ELSE UNCHANGED acts
  /\ req' = [req EXCEPT ![r].pc = "go", ![r].msg = "none"]
  /\ UNCHANGED << trash, archived, rows, flagged, linked, prop, doomed, late, asked, used >>

(* A write that fails is caught and recorded as a failure; a record that   *)
(* cannot be written ends the request and the rest of the batch is left.   *)
RecordAction(r) ==
  /\ req[r].pc \in {"executed", "failed"}
  /\ \/ /\ Upsert(req[r].msg, req[r].kind, IF req[r].pc = "executed" THEN "EXECUTED" ELSE "FAILED")
        /\ req' = [req EXCEPT ![r].pc = "go", ![r].msg = "none"]
        /\ UNCHANGED << late, used >>
     \/ req[r].pc = "executed" /\ Fault /\ Proceed(r, "failed") /\ UNCHANGED acts
     \/ req[r].msg \notin rows /\ ActsOf(req[r].msg) = {} /\ Leave(r) /\ UNCHANGED << acts, used >>
  /\ UNCHANGED << trash, archived, rows, flagged, linked, prop, doomed, asked >>

BatchEnds(r) ==
  /\ req[r].pc \in {"go", "failing"}
  /\ req[r].todo = {}
  /\ Leave(r)
  /\ UNCHANGED << trash, archived, rows, flagged, linked, acts, prop, doomed, asked, used >>

-----------------------------------------------------------------------------
(* revertCleanupAction.                                                    *)

(* An action that is not EXECUTED, or has no email any more, is refused.   *)
Revert(r, a) ==
  /\ req[r].pc = "idle"
  /\ acts[a].status = "EXECUTED"
  /\ acts[a].type \in {"DELETE", "ARCHIVE"}
  /\ acts[a].email # "none"
  /\ Ask({acts[a].email})
  /\ req' = [req EXCEPT ![r] = [Free EXCEPT !.pc = "restore", !.kind = acts[a].type,
                                   !.msg = acts[a].email, !.act = a]]
  /\ UNCHANGED << trash, archived, rows, flagged, linked, acts, prop, doomed, late >>

Undoes(r) ==
  /\ trash' = IF req[r].kind = "DELETE" THEN trash \ {req[r].msg} ELSE trash
  /\ archived' = IF req[r].kind = "ARCHIVE" THEN archived \ {req[r].msg} ELSE archived

(* Faulty variant: a failed call to Gmail is taken for a restore.          *)
RestoreClaimed(r) ==
  /\ req[r].pc = "restore"
  /\ \/ Undoes(r) /\ UNCHANGED used
     \/ Fault /\ UNCHANGED << trash, archived >>
  /\ Proceed(r, IF req[r].kind = "DELETE" THEN "unflag" ELSE "mark")
  /\ UNCHANGED << rows, flagged, linked, acts, prop, doomed, asked >>

(* When the call fails, having taken effect or not, the action stays as it *)
(* is.                                                                     *)
Restore(r) ==
  /\ req[r].pc = "restore"
  /\ \/ /\ Undoes(r)
        /\ Proceed(r, IF req[r].kind = "DELETE" THEN "unflag" ELSE "mark")
        /\ UNCHANGED used
     \/ (Undoes(r) \/ UNCHANGED << trash, archived >>) /\ Leave(r) /\ Fault
  /\ UNCHANGED << rows, flagged, linked, acts, prop, doomed, asked >>

Unflag(r) ==
  /\ req[r].pc = "unflag"
  /\ \/ req[r].msg \in rows /\ flagged' = flagged \ {req[r].msg} /\ Proceed(r, "mark")
     \/ req[r].msg \notin rows /\ Leave(r) /\ UNCHANGED flagged
  /\ UNCHANGED << trash, archived, rows, linked, acts, prop, doomed, asked, used >>

MarkReverted(r) ==
  /\ req[r].pc = "mark"
  /\ acts' = [acts EXCEPT ![req[r].act].status = "REVERTED"]
  /\ Leave(r)
  /\ UNCHANGED << trash, archived, rows, flagged, linked, prop, doomed, asked, used >>

-----------------------------------------------------------------------------
(* Proposals.  The daily run looks for emails without any action; the      *)
(* pipeline proposes whatever it has just analysed.                        *)

Candidate(p, m) ==
  /\ prop[p].pc = "idle"
  /\ m \in rows
  /\ p = "cleanup" => doomed = {} /\ m \notin linked /\ ActsOf(m) = {}
  /\ prop' = [prop EXCEPT ![p] = [pc |-> "check", msg |-> m, bad |-> m \in linked]]
  /\ UNCHANGED << trash, archived, rows, flagged, linked, acts, req, doomed, late, asked, used >>

(* Faulty variant: an open proposal is not looked for.                     *)
CheckNothing(p) ==
  /\ prop[p].pc = "check"
  /\ prop' = [prop EXCEPT ![p].pc = "create"]
  /\ UNCHANGED << trash, archived, rows, flagged, linked, acts, req, doomed, late, asked, used >>

CheckOpen(p) ==
  /\ prop[p].pc = "check"
  /\ prop' = [prop EXCEPT ![p] = IF OpenOf(@.msg) = {} THEN [@ EXCEPT !.pc = "create"] ELSE Rest]
  /\ UNCHANGED << trash, archived, rows, flagged, linked, acts, req, doomed, late, asked, used >>

(* The database refuses an action for an email that is gone.               *)
CreateProposal(p) ==
  /\ prop[p].pc = "create"
  /\ \/ Create([email |-> prop[p].msg, type |-> "ARCHIVE",
                 status |-> IF prop[p].bad THEN "BLOCKED" ELSE "PROPOSED"])
     \/ prop[p].msg \notin rows /\ UNCHANGED acts
  /\ prop' = [prop EXCEPT ![p] = Rest]
  /\ UNCHANGED << trash, archived, rows, flagged, linked, req, doomed, late, asked, used >>

-----------------------------------------------------------------------------
(* Retention and purge.                                                    *)

(* Faulty variant: linked emails are selected too.                         *)
SweepSelectsAll ==
  /\ prop["cleanup"].pc = "idle"
  /\ doomed = {}
  /\ doomed' = rows
  /\ UNCHANGED << trash, archived, rows, flagged, linked, acts, req, prop, late, asked, used >>

SweepSelects ==
  /\ prop["cleanup"].pc = "idle"
  /\ doomed = {}
  /\ doomed' = rows \ linked
  /\ UNCHANGED << trash, archived, rows, flagged, linked, acts, req, prop, late, asked, used >>

Gone(ms) ==
  /\ rows' = rows \ ms
  /\ linked' = linked \ ms
  /\ flagged' = flagged \ ms
  /\ acts' = [a \in DOMAIN acts |-> IF acts[a].email \in ms THEN [acts[a] EXCEPT !.email = "none"] ELSE acts[a]]

(* Faulty variant: the actions keep pointing at the deleted email.         *)
SweepLeavesActions ==
  /\ doomed # {}
  /\ rows' = rows \ doomed /\ linked' = linked \ doomed /\ flagged' = flagged \ doomed
  /\ doomed' = {}
  /\ late' = Forget("sweep")
  /\ UNCHANGED << trash, archived, acts, req, prop, asked, used >>

SweepDeletes ==
  /\ doomed # {}
  /\ Gone(doomed)
  /\ doomed' = {}
  /\ late' = Forget("sweep")
  /\ UNCHANGED << trash, archived, req, prop, asked, used >>

Purge ==
  /\ Ask({})
  /\ Gone(rows)
  /\ UNCHANGED << trash, archived, req, prop, doomed, late >>

-----------------------------------------------------------------------------
(* What a request or the sweep may still do to an email it read.           *)
Pending(x) == IF x = "sweep" THEN doomed ELSE req[x].todo

(* A review, an override or a new analysis files the email.                *)
Link(m) ==
  /\ m \in rows \ linked
  /\ linked' = linked \cup {m}
  /\ late' = late \cup { << x, m >> : x \in { y \in Requests \cup {"sweep"} : m \in Pending(y) } }
  /\ UNCHANGED << trash, archived, rows, flagged, acts, req, prop, doomed, asked, used >>

(* The API or the workers die.                                             *)
Crash ==
  /\ Fault
  /\ \/ /\ req' = [r \in Requests |-> Free]
        /\ late' = { l \in late : l[1] = "sweep" }
        /\ UNCHANGED << prop, doomed >>
     \/ /\ prop' = [p \in Proposers |-> Rest]
        /\ doomed' = {}
        /\ late' = Forget("sweep")
        /\ UNCHANGED req
  /\ UNCHANGED << trash, archived, rows, flagged, linked, acts, asked >>

-----------------------------------------------------------------------------
Init ==
  /\ trash = {}
  /\ archived = {}
  /\ rows = Message
  /\ flagged = {}
  /\ linked = {}
  /\ acts = << >>
  /\ req = [r \in Requests |-> Free]
  /\ prop = [p \in Proposers |-> Rest]
  /\ doomed = {}
  /\ late = {}
  /\ asked = [m \in Message |-> 0]
  /\ used = [requests |-> 0, faults |-> 0]

Batch(r) ==
  \/ \E m \in Message : Block(r, m) \/ AllFail(r, m) \/ CallGmail(r, m)
  \/ KeepAll(r) \/ Authenticate(r) \/ RecordEmail(r) \/ RecordAction(r) \/ BatchEnds(r)

Reversal(r) == Restore(r) \/ Unflag(r) \/ MarkReverted(r)

Propose(p) == (\E m \in Message : Candidate(p, m)) \/ CheckOpen(p) \/ CreateProposal(p)

User(r) ==
  \/ \E kind \in {"DELETE", "ARCHIVE", "KEEP", "IGNORE_SENDER"}, ms \in SUBSET Message :
       ms # {} /\ Approve(r, kind, ms)
  \/ \E a \in DOMAIN acts : Revert(r, a)

Next ==
  \/ \E r \in Requests : User(r) \/ Batch(r) \/ Reversal(r)
  \/ \E p \in Proposers : Propose(p)
  \/ SweepSelects \/ SweepDeletes \/ Purge
  \/ \E m \in Message : Link(m)
  \/ Crash

Spec == Init /\ [][Next]_vars

-----------------------------------------------------------------------------
(* Properties.                                                             *)

Kind   == {"DELETE", "ARCHIVE", "KEEP", "IGNORE_SENDER"}
Action == [email : Message \cup {"none"}, type : Kind,
           status : {"PROPOSED", "BLOCKED", "SKIPPED", "FAILED", "EXECUTED", "REVERTED"}]
Request == [pc : {"idle", "block", "failing", "go", "record", "executed", "failed", "restore", "unflag", "mark"},
            kind : Kind, bad : SUBSET Message, todo : SUBSET Message, msg : Message \cup {"none"}, act : Nat]

(* Every value has its type; what a row says, the row is there for, and a  *)
(* reversal under way is of an action that exists.                         *)
TypeOK ==
  /\ trash \subseteq Message /\ archived \subseteq Message
  /\ rows \subseteq Message /\ flagged \subseteq rows /\ linked \subseteq rows
  /\ acts \in Seq(Action) /\ Len(acts) <= MaxActions
  /\ \A a \in DOMAIN acts : acts[a].email \in rows \cup {"none"}
  /\ req \in [Requests -> Request]
  /\ prop \in [Proposers -> [pc : {"idle", "check", "create"}, msg : Message \cup {"none"}, bad : BOOLEAN]]
  /\ doomed \subseteq Message
  /\ late \subseteq (Requests \cup {"sweep"}) \X Message
  /\ asked \in [Message -> Nat]
  /\ used \in [requests : Nat, faults : Nat]
  /\ \A r \in Requests :
       /\ req[r].pc \in {"restore", "unflag", "mark"} => req[r].act \in DOMAIN acts
       /\ req[r].pc \in {"record", "executed", "failed", "restore", "unflag", "mark"} => req[r].msg \in Message
  /\ \A p \in Proposers : prop[p].pc # "idle" => prop[p].msg \in Message

(* An email that is evidence for an application is left alone: a batch     *)
(* trashes or archives, and the sweep deletes, none that was linked when   *)
(* they read it.  Only a link that lands between the read and the deed is  *)
(* overrun, and only by those who had read it.                             *)
Harmed(m) ==
  \/ m \in (trash' \cup archived') \ (trash \cup archived)
  \/ m \in rows \ rows'
EvidenceStays ==
  [][Purge \/ \A m \in linked : Harmed(m) => \E x \in Requests \cup {"sweep"} : << x, m >> \in late]_vars

(* However often the daily run and the pipeline propose, an email has no   *)
(* more open proposals than there are proposers at work.                   *)
ProposalsBounded == \A m \in Message : Cardinality(OpenOf(m)) <= Cardinality(Proposers)

(* A message in the Trash can be brought back: as long as its row is kept, *)
(* the user has decided about it once, and nothing failed, its deletion is *)
(* recorded as EXECUTED or is about to be.                                 *)
DeletesUndoable ==
  \A m \in trash \cap rows :
    asked[m] = 1 /\ used.faults = 0 =>
      \/ \E a \in ActsOf(m) : acts[a].status = "EXECUTED" /\ acts[a].type = "DELETE"
      \/ \E r \in Requests : req[r].pc \in {"record", "executed"} /\ req[r].msg = m

(* A revert never claims a restore that did not happen: a deletion marked  *)
(* REVERTED, about which the user decided no more than to delete and to    *)
(* restore, has left the Trash, and its row says so.                       *)
NoFalseRestore ==
  \A a \in DOMAIN acts :
    /\ acts[a].status = "REVERTED"
    /\ acts[a].type = "DELETE"
    /\ acts[a].email \in rows
    /\ asked[acts[a].email] = 2
    => acts[a].email \notin trash \cup flagged
=============================================================================
