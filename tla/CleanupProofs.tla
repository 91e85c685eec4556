----------------------------- MODULE CleanupProofs -----------------------------
(***************************************************************************)
(* What holds of the cleanup of a mailbox for every set of messages,       *)
(* requests and pipeline workers and any number of actions and faults: the *)
(* types, that linked emails are left alone, how many proposals can be     *)
(* open, and what the records of deletions and restores can be relied on   *)
(* for.                                                                    *)
(***************************************************************************)
EXTENDS Cleanup, FiniteSetTheorems, TLAPS

Phase   == {"idle", "block", "failing", "go", "record", "executed", "failed", "restore", "unflag", "mark"}
Holding == {"record", "executed", "failed", "restore", "unflag", "mark"}
Undoing == {"restore", "unflag", "mark"}
Proposer == [pc : {"idle", "check", "create"}, msg : Message \cup {"none"}, bad : BOOLEAN]
Status  == {"PROPOSED", "BLOCKED", "SKIPPED", "FAILED", "EXECUTED", "REVERTED"}

-----------------------------------------------------------------------------
(* What the steps do.                                                      *)

SetsOK ==
  /\ trash \subseteq Message /\ archived \subseteq Message
  /\ rows \subseteq Message /\ flagged \subseteq rows /\ linked \subseteq rows
  /\ doomed \subseteq Message
  /\ late \subseteq (Requests \cup {"sweep"}) \X Message
  /\ asked \in [Message -> Nat]
  /\ used \in [requests : Nat, faults : Nat]

ActsOK ==
  /\ acts \in Seq(Action) /\ Len(acts) <= MaxActions
  /\ \A a \in DOMAIN acts : acts[a].email \in rows \cup {"none"}

ReqOK ==
  /\ req \in [Requests -> Request]
  /\ \A r \in Requests :
       /\ req[r].pc \in Undoing => req[r].act \in DOMAIN acts
       /\ req[r].pc \in Holding => req[r].msg \in Message

PropOK ==
  /\ prop \in [Proposers -> Proposer]
  /\ \A p \in Proposers : prop[p].pc # "idle" => prop[p].msg \in Message

LEMMA TypeParts == TypeOK <=> SetsOK /\ ActsOK /\ ReqOK /\ PropOK
BY DEF TypeOK, SetsOK, ActsOK, ReqOK, PropOK, Undoing, Holding, Proposer

LEMMA FreeFields ==
  /\ Free \in Request /\ Free.pc = "idle" /\ Free.bad = {} /\ Free.todo = {} /\ Free.msg = "none"
  /\ Rest \in Proposer /\ Rest.pc = "idle" /\ Rest.msg = "none"
BY DEF Free, Request, Kind, Rest, Proposer

(* One request goes on; the others stay where they are.                    *)
Moves(r) ==
  /\ req' \in [Requests -> Request]
  /\ \A s \in Requests \ {r} : req'[s] = req[s]

LEMMA LeaveEffect ==
  ASSUME TypeOK, NEW r \in Requests, Leave(r)
  PROVE  Moves(r) /\ req'[r] = Free /\ late' = Forget(r)
BY TypeParts, FreeFields DEF Leave, Moves, ReqOK

LEMMA ProceedEffect ==
  ASSUME TypeOK, NEW r \in Requests, NEW pc \in Phase, Proceed(r, pc)
  PROVE  /\ Moves(r) /\ late' = late /\ req'[r].pc = pc
         /\ req'[r].kind = req[r].kind /\ req'[r].bad = req[r].bad /\ req'[r].todo = req[r].todo
         /\ req'[r].msg = req[r].msg /\ req'[r].act = req[r].act
BY TypeParts DEF Proceed, Moves, ReqOK, Request, Phase

LEMMA AskEffect ==
  ASSUME TypeOK, NEW ms, Ask(ms)
  PROVE  /\ used'.faults = used.faults /\ used' \in [requests : Nat, faults : Nat]
         /\ asked' \in [Message -> Nat]
         /\ \A m \in Message : asked'[m] = IF m \in ms THEN asked[m] + 1 ELSE asked[m]
<1>1. used \in [requests : Nat, faults : Nat] /\ asked \in [Message -> Nat]
  BY TypeParts DEF SetsOK
<1>2. used' = [used EXCEPT !.requests = used.requests + 1]
  BY DEF Ask
<1>3. asked' = [m \in Message |-> IF m \in ms THEN asked[m] + 1 ELSE asked[m]]
  BY DEF Ask
<1> QED BY <1>1, <1>2, <1>3

LEMMA FaultEffect ==
  ASSUME TypeOK, Fault
  PROVE  used' \in [requests : Nat, faults : Nat] /\ used'.faults > 0
<1>1. used \in [requests : Nat, faults : Nat]
  BY TypeParts DEF SetsOK
<1>2. used' = [used EXCEPT !.faults = used.faults + 1]
  BY DEF Fault
<1> QED BY <1>1, <1>2

LEMMA SameLength ==
  ASSUME NEW S, NEW n \in Nat, NEW f \in [1..n -> S]
  PROVE  f \in Seq(S) /\ Len(f) = n
OBVIOUS

(* The actions of one message are written, or it gets one more.            *)
Writes(m) ==
  /\ acts' \in Seq(Action) /\ Len(acts') <= MaxActions
  /\ DOMAIN acts \subseteq DOMAIN acts'
  /\ \A a \in DOMAIN acts : acts'[a].email = acts[a].email /\ (acts[a].email # m => acts'[a] = acts[a])
  /\ \A a \in DOMAIN acts' \ DOMAIN acts : acts'[a].email = m /\ m \in rows

LEMMA CreateEffect ==
  ASSUME TypeOK, NEW act \in Action, Create(act)
  PROVE  /\ Writes(act.email) /\ act.email \in rows
         /\ \A a \in DOMAIN acts : acts'[a] = acts[a]
         /\ Len(acts) + 1 \in DOMAIN acts' /\ acts'[Len(acts) + 1] = act
         /\ DOMAIN acts' = DOMAIN acts \cup {Len(acts) + 1}
<1>1. acts \in Seq(Action) /\ Len(acts) < MaxActions /\ MaxActions \in Nat /\ acts' = Append(acts, act)
  BY TypeParts, BoundsAssumption DEF ActsOK, Create
<1>2. /\ acts' \in Seq(Action) /\ Len(acts') = Len(acts) + 1
      /\ DOMAIN acts' = 1..(Len(acts) + 1) /\ DOMAIN acts = 1..Len(acts)
      /\ \A a \in DOMAIN acts : acts'[a] = acts[a]
      /\ acts'[Len(acts) + 1] = act
  BY <1>1
<1>3. DOMAIN acts' = DOMAIN acts \cup {Len(acts) + 1} /\ Len(acts) \in Nat
  BY <1>1, <1>2
<1> QED BY <1>1, <1>2, <1>3 DEF Writes, Create

LEMMA UpsertEffect ==
  ASSUME TypeOK, NEW m \in Message, NEW kind \in Kind, NEW status \in Status, Upsert(m, kind, status)
  PROVE  /\ Writes(m)
         /\ \A a \in DOMAIN acts' :
              (a \in DOMAIN acts /\ acts'[a] = acts[a]) \/ (acts'[a].status = status /\ acts'[a].type = kind)
         /\ \E a \in DOMAIN acts' : acts'[a].email = m /\ acts'[a].status = status /\ acts'[a].type = kind
<1>1. acts \in Seq(Action) /\ Len(acts) <= MaxActions
  BY TypeParts DEF ActsOK
<1>2. ASSUME NEW a \in Latest(m), acts' = [acts EXCEPT ![a].type = kind, ![a].status = status]
      PROVE  /\ Writes(m)
             /\ \A b \in DOMAIN acts' :
                  (b \in DOMAIN acts /\ acts'[b] = acts[b]) \/ (acts'[b].status = status /\ acts'[b].type = kind)
             /\ \E b \in DOMAIN acts' : acts'[b].email = m /\ acts'[b].status = status /\ acts'[b].type = kind
  <2>1. a \in DOMAIN acts /\ acts[a].email = m
    BY <1>2 DEF Latest, ActsOf
  <2>2. DOMAIN acts' = DOMAIN acts /\ (\A b \in DOMAIN acts : b # a => acts'[b] = acts[b])
    BY <1>1, <1>2, <2>1
  <2>3. acts[a] \in Action
    BY <1>1, <2>1
  <2>4. acts'[a].email = m /\ acts'[a].status = status /\ acts'[a].type = kind /\ acts'[a] \in Action
    BY <1>1, <1>2, <2>1, <2>3 DEF Action, Status
  <2>5. acts' \in Seq(Action) /\ Len(acts') = Len(acts)
    <3>1. acts' \in [1..Len(acts) -> Action]
      BY <1>1, <1>2, <2>1, <2>2, <2>4
    <3> QED BY <1>1, <3>1, SameLength
  <2> QED BY <1>1, <2>1, <2>2, <2>4, <2>5 DEF Writes
<1>3. CASE Create([email |-> m, type |-> kind, status |-> status])
  <2>1. PICK act \in Action : act = [email |-> m, type |-> kind, status |-> status]
    BY DEF Action, Status
  <2>2. act.email = m /\ act.type = kind /\ act.status = status
    BY <2>1
  <2>3. Create(act)
    BY <1>3, <2>1
  <2> QED BY <2>2, <2>3, CreateEffect
<1> QED BY <1>2, <1>3 DEF Upsert

LEMMA BlockedEffect ==
  ASSUME TypeOK, NEW m \in Message, UpsertBlocked(m)
  PROVE  /\ Writes(m)
         /\ \A a \in DOMAIN acts' : (a \in DOMAIN acts /\ acts'[a] = acts[a]) \/ acts'[a].status = "BLOCKED"
<1>1. acts \in Seq(Action) /\ Len(acts) <= MaxActions
  BY TypeParts DEF ActsOK
<1>2. ASSUME NEW a \in Latest(m), acts' = [acts EXCEPT ![a].status = "BLOCKED"]
      PROVE  /\ Writes(m)
             /\ \A b \in DOMAIN acts' : (b \in DOMAIN acts /\ acts'[b] = acts[b]) \/ acts'[b].status = "BLOCKED"
  <2>1. a \in DOMAIN acts /\ acts[a].email = m
    BY <1>2 DEF Latest, ActsOf
  <2>2. DOMAIN acts' = DOMAIN acts /\ (\A b \in DOMAIN acts : b # a => acts'[b] = acts[b])
    BY <1>1, <1>2, <2>1
  <2>3. acts[a] \in Action
    BY <1>1, <2>1
  <2>4. acts'[a].email = m /\ acts'[a].status = "BLOCKED" /\ acts'[a] \in Action
    BY <1>1, <1>2, <2>1, <2>3 DEF Action
  <2>5. acts' \in Seq(Action) /\ Len(acts') = Len(acts)
    <3>1. acts' \in [1..Len(acts) -> Action]
      BY <1>1, <1>2, <2>1, <2>2, <2>4
    <3> QED BY <1>1, <3>1, SameLength
  <2> QED BY <1>1, <2>1, <2>2, <2>4, <2>5 DEF Writes
<1>3. CASE Create([email |-> m, type |-> "KEEP", status |-> "BLOCKED"])
  <2>1. PICK act \in Action : act = [email |-> m, type |-> "KEEP", status |-> "BLOCKED"]
    BY DEF Action, Kind
  <2>2. act.email = m /\ act.status = "BLOCKED"
    BY <2>1
  <2>3. Create(act)
    BY <1>3, <2>1
  <2> QED BY <2>2, <2>3, CreateEffect
<1> QED BY <1>2, <1>3 DEF UpsertBlocked

LEMMA ApproveEffect ==
  ASSUME TypeOK, NEW r \in Requests, NEW kind \in Kind, NEW ms \in SUBSET Message, Approve(r, kind, ms)
  PROVE  /\ Moves(r) /\ req'[r].pc = "block" /\ req'[r].kind = kind
         /\ req'[r].bad = ms \cap linked /\ req'[r].todo = (ms \cap rows) \ linked
         /\ req'[r].msg = "none" /\ req[r].pc = "idle" /\ Ask(ms)
         /\ UNCHANGED << trash, archived, rows, flagged, linked, acts, prop, doomed, late >>
<1>1. req \in [Requests -> Request]
  BY TypeParts DEF ReqOK
<1>2. PICK c : c = [Free EXCEPT !.pc = "block", !.kind = kind,
                        !.bad = ms \cap linked, !.todo = (ms \cap rows) \ linked]
  OBVIOUS
<1>3. c \in Request /\ c.pc = "block" /\ c.kind = kind /\ c.bad = ms \cap linked
      /\ c.todo = (ms \cap rows) \ linked /\ c.msg = "none"
  BY <1>2, FreeFields DEF Request
<1>4. req' = [req EXCEPT ![r] = c]
  BY <1>2 DEF Approve
<1> QED BY <1>1, <1>3, <1>4 DEF Approve, Moves

LEMMA RevertEffect ==
  ASSUME TypeOK, NEW r \in Requests, NEW a \in DOMAIN acts, Revert(r, a)
  PROVE  /\ Moves(r) /\ req'[r].pc = "restore" /\ req'[r].kind = acts[a].type
         /\ req'[r].bad = {} /\ req'[r].todo = {} /\ req'[r].msg = acts[a].email /\ req'[r].act = a
         /\ req[r].pc = "idle" /\ acts[a].email \in Message /\ Ask({acts[a].email})
         /\ acts[a].status = "EXECUTED" /\ acts[a].type \in {"DELETE", "ARCHIVE"}
         /\ UNCHANGED << trash, archived, rows, flagged, linked, acts, prop, doomed, late >>
<1>1. req \in [Requests -> Request] /\ acts \in Seq(Action)
  BY TypeParts DEF ReqOK, ActsOK
<1>2. acts[a] \in Action /\ a \in Nat
  BY <1>1
<1>3. PICK c : c = [Free EXCEPT !.pc = "restore", !.kind = acts[a].type, !.msg = acts[a].email, !.act = a]
  OBVIOUS
<1>4. c \in Request /\ c.pc = "restore" /\ c.kind = acts[a].type /\ c.bad = {} /\ c.todo = {}
      /\ c.msg = acts[a].email /\ c.act = a
  BY <1>2, <1>3, FreeFields DEF Request, Action
<1>5. req' = [req EXCEPT ![r] = c]
  BY <1>3 DEF Revert
<1> QED BY <1>1, <1>2, <1>4, <1>5 DEF Revert, Moves, Action

(* A request that has dealt with a message whose protection or failure it  *)
(* recorded, or ends because the record is refused.                        *)
LEMMA BlockEffect ==
  ASSUME TypeOK, NEW r \in Requests, NEW m \in Message, Block(r, m)
  PROVE  /\ Moves(r) /\ req[r].pc = "block" /\ m \in req[r].bad
         /\ \/ /\ UpsertBlocked(m) /\ late' = late /\ req'[r].pc = "block" /\ req'[r].kind = req[r].kind
               /\ req'[r].bad = req[r].bad \ {m} /\ req'[r].todo = req[r].todo /\ req'[r].msg = req[r].msg
            \/ req'[r] = Free /\ late' = Forget(r) /\ acts' = acts
         /\ UNCHANGED << trash, archived, rows, flagged, linked, prop, doomed, asked, used >>
<1>1. req \in [Requests -> Request]
  BY TypeParts DEF ReqOK
<1>2. CASE UpsertBlocked(m) /\ req' = [req EXCEPT ![r].bad = req[r].bad \ {m}] /\ UNCHANGED late
  BY <1>1, <1>2 DEF Block, Moves, Request
<1>3. CASE Leave(r) /\ UNCHANGED acts
  BY <1>3, LeaveEffect DEF Block
<1> QED BY <1>2, <1>3 DEF Block

LEMMA AllFailEffect ==
  ASSUME TypeOK, NEW r \in Requests, NEW m \in Message, AllFail(r, m)
  PROVE  /\ Moves(r) /\ req[r].pc = "failing" /\ m \in req[r].todo
         /\ \/ /\ Upsert(m, req[r].kind, "FAILED") /\ late' = late /\ req'[r].pc = "failing"
               /\ req'[r].bad = req[r].bad /\ req'[r].todo = req[r].todo \ {m} /\ req'[r].msg = req[r].msg
            \/ req'[r] = Free /\ late' = Forget(r) /\ acts' = acts
         /\ UNCHANGED << trash, archived, rows, flagged, linked, prop, doomed, asked, used >>
<1>1. req \in [Requests -> Request]
  BY TypeParts DEF ReqOK
<1>2. CASE Upsert(m, req[r].kind, "FAILED") /\ req' = [req EXCEPT ![r].todo = req[r].todo \ {m}] /\ UNCHANGED late
  BY <1>1, <1>2 DEF AllFail, Moves, Request
<1>3. CASE Leave(r) /\ UNCHANGED acts
  BY <1>3, LeaveEffect DEF AllFail
<1> QED BY <1>2, <1>3 DEF AllFail

LEMMA KeepEffect ==
  ASSUME TypeOK, NEW r \in Requests, KeepAll(r)
  PROVE  /\ Moves(r) /\ req'[r] = Free /\ late' = Forget(r) /\ req[r].pc = "block"
         /\ acts' \in Seq(Action) /\ Len(acts') = Len(acts) /\ DOMAIN acts' = DOMAIN acts
         /\ \A a \in DOMAIN acts :
              /\ acts'[a].email = acts[a].email
              /\ acts'[a] = acts[a] \/ (acts[a].email \in req[r].todo /\ acts'[a].status = "SKIPPED")
         /\ UNCHANGED << trash, archived, rows, flagged, linked, prop, doomed, asked, used >>
<1>1. acts \in Seq(Action) /\ Len(acts) \in Nat
  BY TypeParts DEF ActsOK
<1>2. acts' = [a \in DOMAIN acts |->
                 IF acts[a].email \in req[r].todo THEN [acts[a] EXCEPT !.status = "SKIPPED"] ELSE acts[a]]
  BY DEF KeepAll
<1>3. ASSUME NEW a \in DOMAIN acts
      PROVE  /\ acts'[a] \in Action /\ acts'[a].email = acts[a].email
             /\ acts'[a] = acts[a] \/ (acts[a].email \in req[r].todo /\ acts'[a].status = "SKIPPED")
  <2>1. acts[a] \in Action BY <1>1
  <2> QED BY <1>2, <2>1 DEF Action
<1>4. acts' \in [1..Len(acts) -> Action]
  BY <1>1, <1>2, <1>3
<1>5. acts' \in Seq(Action) /\ Len(acts') = Len(acts)
  BY <1>1, <1>4, SameLength
<1> QED BY <1>2, <1>3, <1>5, LeaveEffect DEF KeepAll

LEMMA AuthenticateEffect ==
  ASSUME TypeOK, NEW r \in Requests, Authenticate(r)
  PROVE  /\ Moves(r) /\ late' = late /\ req[r].pc = "block" /\ req[r].bad = {} /\ req'[r].kind = req[r].kind
         /\ req'[r].bad = req[r].bad /\ req'[r].todo = req[r].todo /\ req'[r].msg = req[r].msg
         /\ \/ req'[r].pc = "go" /\ used' = used
            \/ req'[r].pc = "failing" /\ Fault
         /\ UNCHANGED << trash, archived, rows, flagged, linked, acts, prop, doomed, asked >>
<1>1. \/ Proceed(r, "go") /\ used' = used
      \/ Proceed(r, "failing") /\ Fault
  BY DEF Authenticate
<1>2. req[r].pc = "block" /\ req[r].bad = {}
      /\ UNCHANGED << trash, archived, rows, flagged, linked, acts, prop, doomed, asked >>
  BY DEF Authenticate
<1>3. "go" \in Phase /\ "failing" \in Phase
  BY DEF Phase
<1> QED BY <1>1, <1>2, <1>3, ProceedEffect

LEMMA CallEffect ==
  ASSUME TypeOK, NEW r \in Requests, NEW m \in Message, CallGmail(r, m)
  PROVE  /\ Moves(r) /\ req[r].pc = "go" /\ m \in req[r].todo
         /\ req'[r].kind = req[r].kind /\ req'[r].bad = req[r].bad
         /\ req'[r].todo = req[r].todo \ {m} /\ req'[r].msg = m
         /\ \/ req'[r].pc \in {"record", "executed"} /\ used' = used
            \/ req'[r].pc = "failed" /\ Fault
         /\ trash' = trash \/ (trash' = trash \cup {m} /\ req[r].kind = "DELETE")
         /\ archived' = archived \/ archived' = archived \cup {m}
         /\ UNCHANGED << rows, flagged, linked, acts, prop, doomed, late, asked >>
<1>1. req \in [Requests -> Request]
  BY TypeParts DEF ReqOK
<1>2. ASSUME NEW pc \in {"record", "executed", "failed"},
             req' = [req EXCEPT ![r].pc = pc, ![r].msg = m, ![r].todo = req[r].todo \ {m}]
      PROVE  /\ Moves(r) /\ req'[r].kind = req[r].kind /\ req'[r].bad = req[r].bad
             /\ req'[r].todo = req[r].todo \ {m} /\ req'[r].msg = m /\ req'[r].pc = pc
  <2>1. PICK todo \in SUBSET Message : todo = req[r].todo \ {m}
    BY <1>1 DEF Request
  <2>2. req' = [req EXCEPT ![r].pc = pc, ![r].msg = m, ![r].todo = todo]
    BY <1>2, <2>1
  <2>3. req'[r] \in Request
    BY <1>1, <2>2 DEF Request
  <2>4. req' \in [Requests -> Request] /\ \A s \in Requests \ {r} : req'[s] = req[s]
    BY <1>1, <2>2, <2>3
  <2>5. /\ req'[r].kind = req[r].kind /\ req'[r].bad = req[r].bad
        /\ req'[r].todo = todo /\ req'[r].msg = m /\ req'[r].pc = pc
    BY <1>1, <2>2 DEF Request
  <2> QED BY <2>1, <2>3, <2>4, <2>5 DEF Moves
<1>3. \/ /\ Does(req[r].kind, m)
         /\ \E pc \in {"record", "executed"} :
              req' = [req EXCEPT ![r].pc = pc, ![r].msg = m, ![r].todo = req[r].todo \ {m}]
         /\ UNCHANGED used
      \/ /\ Does(req[r].kind, m) \/ UNCHANGED << trash, archived >>
         /\ req' = [req EXCEPT ![r].pc = "failed", ![r].msg = m, ![r].todo = req[r].todo \ {m}]
         /\ Fault
  BY DEF CallGmail
<1>4. req[r].pc = "go" /\ m \in req[r].todo /\ UNCHANGED << rows, flagged, linked, acts, prop, doomed, late, asked >>
  BY DEF CallGmail
<1> QED BY <1>2, <1>3, <1>4 DEF Does

LEMMA RecordEmailEffect ==
  ASSUME TypeOK, NEW r \in Requests, RecordEmail(r)
  PROVE  /\ Moves(r) /\ late' = late /\ req[r].pc = "record" /\ req[r].msg \in Message
         /\ req'[r].kind = req[r].kind
         /\ req'[r].bad = req[r].bad /\ req'[r].todo = req[r].todo /\ req'[r].msg = req[r].msg
         /\ \/ req'[r].pc = "executed" /\ used' = used
            \/ req'[r].pc = "failed" /\ Fault
            \/ req'[r].pc = "failed" /\ req[r].msg \notin rows /\ used' = used
         /\ flagged' = flagged \/ (flagged' = flagged \cup {req[r].msg} /\ req[r].msg \in rows)
         /\ UNCHANGED << trash, archived, rows, linked, acts, prop, doomed, asked >>
<1>1. req[r].msg \in Message
  BY TypeParts DEF ReqOK, RecordEmail, Holding
<1> QED BY <1>1, ProceedEffect DEF RecordEmail, Phase

LEMMA RecordActionEffect ==
  ASSUME TypeOK, NEW r \in Requests, RecordAction(r)
  PROVE  /\ Moves(r) /\ req[r].pc \in {"executed", "failed"} /\ req[r].msg \in Message
         /\ \/ /\ Upsert(req[r].msg, req[r].kind, IF req[r].pc = "executed" THEN "EXECUTED" ELSE "FAILED")
               /\ req'[r].pc = "go" /\ req'[r].msg = "none" /\ req'[r].bad = req[r].bad
               /\ req'[r].todo = req[r].todo /\ late' = late /\ used' = used
            \/ /\ req'[r].pc = "failed" /\ Fault /\ acts' = acts /\ late' = late
               /\ req'[r].bad = req[r].bad /\ req'[r].todo = req[r].todo /\ req'[r].msg = req[r].msg
            \/ /\ req'[r] = Free /\ late' = Forget(r) /\ acts' = acts /\ used' = used
               /\ req[r].msg \notin rows
         /\ UNCHANGED << trash, archived, rows, flagged, linked, prop, doomed, asked >>
<1>1. req[r].msg \in Message
  BY TypeParts DEF ReqOK, RecordAction, Holding
<1>2. req \in [Requests -> Request]
  BY TypeParts DEF ReqOK
<1>3. CASE /\ Upsert(req[r].msg, req[r].kind, IF req[r].pc = "executed" THEN "EXECUTED" ELSE "FAILED")
           /\ req' = [req EXCEPT ![r].pc = "go", ![r].msg = "none"]
           /\ UNCHANGED << late, used >>
  <2>1. /\ Moves(r) /\ req'[r].pc = "go" /\ req'[r].msg = "none" /\ req'[r].bad = req[r].bad
        /\ req'[r].todo = req[r].todo
    BY <1>2, <1>3 DEF Moves, Request
  <2> QED BY <1>1, <1>3, <2>1 DEF RecordAction
<1>4. CASE Fault /\ Proceed(r, "failed") /\ UNCHANGED acts
  BY <1>1, <1>4, ProceedEffect DEF RecordAction, Phase
<1>5. CASE req[r].msg \notin rows /\ Leave(r) /\ UNCHANGED << acts, used >>
  BY <1>1, <1>5, LeaveEffect DEF RecordAction
<1> QED BY <1>3, <1>4, <1>5 DEF RecordAction

LEMMA RestoreEffect ==
  ASSUME TypeOK, NEW r \in Requests, Restore(r)
  PROVE  /\ Moves(r) /\ req[r].pc = "restore" /\ req[r].msg \in Message
         /\ \/ /\ used' = used /\ late' = late /\ req'[r].kind = req[r].kind /\ req'[r].act = req[r].act
               /\ req'[r].pc = IF req[r].kind = "DELETE" THEN "unflag" ELSE "mark"
               /\ req[r].kind = "DELETE" => trash' = trash \ {req[r].msg}
               /\ req'[r].bad = req[r].bad /\ req'[r].todo = req[r].todo /\ req'[r].msg = req[r].msg
            \/ req'[r] = Free /\ late' = Forget(r) /\ Fault
         /\ trash' = trash \/ trash' = trash \ {req[r].msg}
         /\ archived' = archived \/ archived' = archived \ {req[r].msg}
         /\ UNCHANGED << rows, flagged, linked, acts, prop, doomed, asked >>
<1>1. req[r].msg \in Message
  BY TypeParts DEF ReqOK, Restore, Holding
<1>2. (IF req[r].kind = "DELETE" THEN "unflag" ELSE "mark") \in Phase
  BY DEF Phase
<1>3. CASE Undoes(r) /\ Proceed(r, IF req[r].kind = "DELETE" THEN "unflag" ELSE "mark") /\ UNCHANGED used
  BY <1>1, <1>2, <1>3, ProceedEffect DEF Restore, Undoes
<1>4. CASE (Undoes(r) \/ UNCHANGED << trash, archived >>) /\ Leave(r) /\ Fault
  BY <1>1, <1>4, LeaveEffect DEF Restore, Undoes
<1> QED BY <1>3, <1>4 DEF Restore

LEMMA UnflagEffect ==
  ASSUME TypeOK, NEW r \in Requests, Unflag(r)
  PROVE  /\ Moves(r) /\ req[r].pc = "unflag" /\ req[r].msg \in Message
         /\ \/ /\ flagged' = flagged \ {req[r].msg} /\ late' = late /\ req'[r].pc = "mark"
               /\ req'[r].kind = req[r].kind /\ req'[r].act = req[r].act
               /\ req'[r].bad = req[r].bad /\ req'[r].todo = req[r].todo /\ req'[r].msg = req[r].msg
            \/ req'[r] = Free /\ late' = Forget(r) /\ flagged' = flagged
         /\ UNCHANGED << trash, archived, rows, linked, acts, prop, doomed, asked, used >>
<1>1. req[r].msg \in Message
  BY TypeParts DEF ReqOK, Unflag, Holding
<1> QED BY <1>1, ProceedEffect, LeaveEffect DEF Unflag, Phase

LEMMA MarkEffect ==
  ASSUME TypeOK, NEW r \in Requests, MarkReverted(r)
  PROVE  /\ Moves(r) /\ req[r].pc = "mark" /\ req[r].msg \in Message /\ req[r].act \in DOMAIN acts
         /\ req'[r] = Free /\ late' = Forget(r)
         /\ acts' \in Seq(Action) /\ Len(acts') = Len(acts) /\ DOMAIN acts' = DOMAIN acts
         /\ \A a \in DOMAIN acts :
              /\ acts'[a].email = acts[a].email /\ acts'[a].type = acts[a].type
              /\ a # req[r].act => acts'[a] = acts[a]
         /\ acts'[req[r].act].status = "REVERTED"
         /\ UNCHANGED << trash, archived, rows, flagged, linked, prop, doomed, asked, used >>
<1>1. req[r].msg \in Message /\ req[r].act \in DOMAIN acts
  BY TypeParts DEF ReqOK, MarkReverted, Holding, Undoing
<1>2. acts \in Seq(Action) /\ Len(acts) \in Nat
  BY TypeParts DEF ActsOK
<1>3. acts' = [acts EXCEPT ![req[r].act].status = "REVERTED"]
  BY DEF MarkReverted
<1>4. acts[req[r].act] \in Action
  BY <1>1, <1>2
<1>5. DOMAIN acts' = DOMAIN acts /\ (\A a \in DOMAIN acts : a # req[r].act => acts'[a] = acts[a])
  BY <1>2, <1>3
<1>6. /\ acts'[req[r].act] \in Action /\ acts'[req[r].act].status = "REVERTED"
      /\ acts'[req[r].act].email = acts[req[r].act].email /\ acts'[req[r].act].type = acts[req[r].act].type
  BY <1>1, <1>2, <1>3, <1>4 DEF Action
<1>7. acts' \in [1..Len(acts) -> Action]
  <2>1. DOMAIN acts = 1..Len(acts) /\ acts \in [1..Len(acts) -> Action]
    BY <1>2
  <2>2. \A a \in 1..Len(acts) : acts'[a] \in Action
    BY <1>1, <1>5, <1>6, <2>1
  <2> QED BY <1>3, <2>1, <2>2
<1>8. acts' \in Seq(Action) /\ Len(acts') = Len(acts)
  BY <1>2, <1>7, SameLength
<1> QED BY <1>1, <1>5, <1>6, <1>8, LeaveEffect DEF MarkReverted

LEMMA CandidateEffect ==
  ASSUME TypeOK, NEW p \in Proposers, NEW m \in Message, Candidate(p, m)
  PROVE  /\ prop' \in [Proposers -> Proposer] /\ prop'[p].pc = "check" /\ prop'[p].msg = m
         /\ \A q \in Proposers \ {p} : prop'[q] = prop[q]
         /\ UNCHANGED << trash, archived, rows, flagged, linked, acts, req, doomed, late, asked, used >>
<1>1. prop \in [Proposers -> Proposer]
  BY TypeParts DEF PropOK
<1>2. PICK b : b = (m \in linked)
  OBVIOUS
<1>3. b \in BOOLEAN
  BY <1>2
<1>4. PICK c \in Proposer : c = [pc |-> "check", msg |-> m, bad |-> b]
  BY <1>3 DEF Proposer
<1>5. c.pc = "check" /\ c.msg = m
  BY <1>4
<1>6. prop' = [prop EXCEPT ![p] = c]
  BY <1>2, <1>4 DEF Candidate
<1> QED BY <1>1, <1>5, <1>6 DEF Candidate

LEMMA CheckEffect ==
  ASSUME TypeOK, NEW p \in Proposers, CheckOpen(p)
  PROVE  /\ prop' \in [Proposers -> Proposer] /\ prop[p].pc = "check" /\ prop[p].msg \in Message
         /\ \/ prop'[p].pc = "create" /\ prop'[p].msg = prop[p].msg /\ OpenOf(prop[p].msg) = {}
            \/ prop'[p].pc = "idle"
         /\ \A q \in Proposers \ {p} : prop'[q] = prop[q]
         /\ UNCHANGED << trash, archived, rows, flagged, linked, acts, req, doomed, late, asked, used >>
<1>1. prop \in [Proposers -> Proposer] /\ prop[p].pc = "check" /\ prop[p].msg \in Message
  BY TypeParts DEF PropOK, CheckOpen
<1>2. PICK c : c = IF OpenOf(prop[p].msg) = {} THEN [prop[p] EXCEPT !.pc = "create"] ELSE Rest
  OBVIOUS
<1>3. c \in Proposer /\ \/ c.pc = "create" /\ c.msg = prop[p].msg /\ OpenOf(prop[p].msg) = {}
                        \/ c.pc = "idle"
  <2>1. CASE OpenOf(prop[p].msg) = {}
    BY <1>1, <1>2, <2>1 DEF Proposer
  <2>2. CASE OpenOf(prop[p].msg) # {}
    BY <1>2, <2>2, FreeFields
  <2> QED BY <2>1, <2>2
<1>4. prop' = [prop EXCEPT ![p] = c]
  BY <1>1, <1>2 DEF CheckOpen
<1> QED BY <1>1, <1>3, <1>4 DEF CheckOpen

LEMMA ProposalEffect ==
  ASSUME TypeOK, NEW p \in Proposers, CreateProposal(p)
  PROVE  /\ prop' \in [Proposers -> Proposer] /\ prop[p].pc = "create" /\ prop[p].msg \in Message
         /\ prop'[p].pc = "idle"
         /\ \A q \in Proposers \ {p} : prop'[q] = prop[q]
         /\ \/ /\ Writes(prop[p].msg)
               /\ \A a \in DOMAIN acts : acts'[a] = acts[a]
               /\ DOMAIN acts' = DOMAIN acts \cup {Len(acts) + 1}
               /\ acts'[Len(acts) + 1].status \in {"BLOCKED", "PROPOSED"}
               /\ acts'[Len(acts) + 1].email = prop[p].msg
            \/ acts' = acts
         /\ UNCHANGED << trash, archived, rows, flagged, linked, req, doomed, late, asked, used >>
<1>1. prop \in [Proposers -> Proposer] /\ prop[p].pc = "create" /\ prop[p].msg \in Message
  BY TypeParts DEF PropOK, CreateProposal
<1>2. prop' \in [Proposers -> Proposer] /\ prop'[p].pc = "idle" /\ (\A q \in Proposers \ {p} : prop'[q] = prop[q])
  BY <1>1, FreeFields DEF CreateProposal
<1>3. PICK status \in {"BLOCKED", "PROPOSED"} : status = IF prop[p].bad THEN "BLOCKED" ELSE "PROPOSED"
  OBVIOUS
<1>4. PICK act \in Action : act = [email |-> prop[p].msg, type |-> "ARCHIVE", status |-> status]
  BY <1>1 DEF Action, Kind
<1>5. act.email = prop[p].msg /\ act.status = status
  BY <1>4
<1>6. CASE Create(act)
  BY <1>1, <1>2, <1>3, <1>5, <1>6, CreateEffect DEF CreateProposal
<1>7. CASE UNCHANGED acts
  BY <1>1, <1>2, <1>7 DEF CreateProposal
<1> QED BY <1>3, <1>4, <1>6, <1>7 DEF CreateProposal

LEMMA GoneEffect ==
  ASSUME TypeOK, NEW ms \in SUBSET Message, Gone(ms)
  PROVE  /\ rows' = rows \ ms /\ linked' = linked \ ms /\ flagged' = flagged \ ms
         /\ acts' \in Seq(Action) /\ Len(acts') = Len(acts) /\ DOMAIN acts' = DOMAIN acts
         /\ \A a \in DOMAIN acts :
              /\ acts[a].email \in ms => acts'[a].email = "none"
              /\ acts[a].email \notin ms => acts'[a] = acts[a]
              /\ acts'[a].status = acts[a].status /\ acts'[a].type = acts[a].type
<1>1. acts \in Seq(Action) /\ Len(acts) \in Nat
  BY TypeParts DEF ActsOK
<1>2. acts' = [a \in DOMAIN acts |-> IF acts[a].email \in ms THEN [acts[a] EXCEPT !.email = "none"] ELSE acts[a]]
  BY DEF Gone
<1>3. ASSUME NEW a \in DOMAIN acts
      PROVE  /\ acts'[a] \in Action
             /\ acts[a].email \in ms => acts'[a].email = "none"
             /\ acts[a].email \notin ms => acts'[a] = acts[a]
             /\ acts'[a].status = acts[a].status /\ acts'[a].type = acts[a].type
  <2>1. acts[a] \in Action BY <1>1
  <2> QED BY <1>2, <2>1 DEF Action
<1>4. acts' \in [1..Len(acts) -> Action]
  BY <1>1, <1>2, <1>3
<1>5. acts' \in Seq(Action) /\ Len(acts') = Len(acts)
  BY <1>1, <1>4, SameLength
<1> QED BY <1>2, <1>3, <1>5 DEF Gone

-----------------------------------------------------------------------------
(* Type correctness.                                                       *)

LEMMA TypeInit == Init => TypeOK
<1> SUFFICES ASSUME Init PROVE TypeOK
  OBVIOUS
<1>1. SetsOK
  BY DEF Init, SetsOK
<1>2. ActsOK
  BY BoundsAssumption DEF Init, ActsOK
<1>3. ReqOK /\ PropOK
  BY FreeFields DEF Init, ReqOK, PropOK, Undoing, Holding
<1> QED BY <1>1, <1>2, <1>3, TypeParts

LEMMA ForgetTyped ==
  ASSUME SetsOK, NEW x PROVE Forget(x) \subseteq (Requests \cup {"sweep"}) \X Message
BY DEF SetsOK, Forget

LEMMA TypeMoves ==
  ASSUME TypeOK, NEW r \in Requests, Moves(r), DOMAIN acts \subseteq DOMAIN acts',
         req'[r].pc \in Undoing => req'[r].act \in DOMAIN acts',
         req'[r].pc \in Holding => req'[r].msg \in Message
  PROVE  ReqOK'
BY TypeParts DEF ReqOK, Moves

LEMMA TypeWrites ==
  ASSUME TypeOK, NEW m \in Message, Writes(m), rows' = rows
  PROVE  ActsOK'
BY TypeParts DEF ActsOK, Writes

(* A step of a request that leaves the rows alone.                         *)
LEMMA TypeRequests ==
  ASSUME TypeOK, NEW r \in Requests, Moves(r), UNCHANGED << rows, linked, prop, doomed >>,
         trash' \subseteq Message, archived' \subseteq Message, flagged' \subseteq rows,
         late' \in {late, Forget(r)}, asked' \in [Message -> Nat], used' \in [requests : Nat, faults : Nat],
         ActsOK', DOMAIN acts \subseteq DOMAIN acts',
         req'[r].pc \in Undoing => req'[r].act \in DOMAIN acts',
         req'[r].pc \in Holding => req'[r].msg \in Message
  PROVE  TypeOK'
<1>1. SetsOK'
  BY TypeParts, ForgetTyped DEF SetsOK
<1>2. ReqOK'
  BY TypeMoves
<1>3. PropOK'
  BY TypeParts DEF PropOK
<1> QED BY <1>1, <1>2, <1>3, TypeParts DEF TypeOK, SetsOK, ActsOK, ReqOK, PropOK, Undoing, Holding, Proposer

LEMMA TypeBatch ==
  ASSUME TypeOK, NEW r \in Requests, User(r) \/ Batch(r) \/ Reversal(r)
  PROVE  TypeOK'
<1>1. SetsOK /\ ActsOK /\ ReqOK
  BY TypeParts
<1>2. "idle" \notin Undoing \cup Holding /\ "block" \notin Undoing \cup Holding
      /\ "go" \notin Undoing \cup Holding /\ "failing" \notin Undoing \cup Holding
      /\ {"record", "executed", "failed"} \cap Undoing = {} /\ Undoing \subseteq Holding
  BY DEF Undoing, Holding
<1>3. ASSUME NEW kind \in Kind, NEW ms \in SUBSET Message, Approve(r, kind, ms) PROVE TypeOK'
  <2>1. ActsOK' BY <1>1, <1>3, ApproveEffect DEF ActsOK
  <2> QED BY <1>1, <1>2, <1>3, <2>1, ApproveEffect, AskEffect, TypeRequests DEF SetsOK
<1>4. ASSUME NEW a \in DOMAIN acts, Revert(r, a) PROVE TypeOK'
  <2>1. ActsOK' BY <1>1, <1>4, RevertEffect DEF ActsOK
  <2>2. Ask({acts[a].email}) /\ Moves(r) /\ UNCHANGED << trash, archived, rows, flagged, linked, acts, prop, doomed, late >>
    BY <1>4, RevertEffect
  <2>3. used' \in [requests : Nat, faults : Nat] /\ asked' \in [Message -> Nat]
    BY <2>2, AskEffect
  <2>4. req'[r].msg \in Message /\ req'[r].act \in DOMAIN acts'
    BY <1>4, <2>2, RevertEffect
  <2>5. trash' \subseteq Message /\ archived' \subseteq Message /\ flagged' \subseteq rows
    BY <1>1, <2>2 DEF SetsOK
  <2> QED BY <2>1, <2>2, <2>3, <2>4, <2>5, TypeRequests
<1>5. ASSUME NEW m \in Message, Block(r, m) PROVE TypeOK'
  <2>1. ActsOK' /\ DOMAIN acts \subseteq DOMAIN acts'
    <3>1. CASE UpsertBlocked(m) BY <1>5, <3>1, BlockEffect, BlockedEffect, TypeWrites DEF Writes
    <3>2. CASE acts' = acts BY <1>1, <1>5, <3>2, BlockEffect DEF ActsOK
    <3> QED BY <1>5, <3>1, <3>2, BlockEffect
  <2> QED BY <1>1, <1>2, <1>5, <2>1, BlockEffect, FreeFields, TypeRequests DEF SetsOK
<1>6. ASSUME NEW m \in Message, AllFail(r, m) PROVE TypeOK'
  <2>1. req[r].kind \in Kind BY <1>1 DEF ReqOK, Request
  <2>2. ActsOK' /\ DOMAIN acts \subseteq DOMAIN acts'
    <3>1. CASE Upsert(m, req[r].kind, "FAILED")
      BY <1>6, <2>1, <3>1, AllFailEffect, UpsertEffect, TypeWrites DEF Writes, Status
    <3>2. CASE acts' = acts BY <1>1, <1>6, <3>2, AllFailEffect DEF ActsOK
    <3> QED BY <1>6, <3>1, <3>2, AllFailEffect
  <2> QED BY <1>1, <1>2, <1>6, <2>2, AllFailEffect, FreeFields, TypeRequests DEF SetsOK
<1>7. ASSUME NEW m \in Message, CallGmail(r, m) PROVE TypeOK'
  <2>1. ActsOK' BY <1>1, <1>7, CallEffect DEF ActsOK
  <2>2. used' \in [requests : Nat, faults : Nat] BY <1>1, <1>7, CallEffect, FaultEffect DEF SetsOK
  <2>3. trash' \subseteq Message /\ archived' \subseteq Message BY <1>1, <1>7, CallEffect DEF SetsOK
  <2> QED BY <1>1, <1>2, <1>7, <2>1, <2>2, <2>3, CallEffect, TypeRequests DEF SetsOK
<1>8. CASE KeepAll(r)
  <2>1. ActsOK' /\ DOMAIN acts' = DOMAIN acts BY <1>1, <1>8, KeepEffect DEF ActsOK
  <2> QED BY <1>1, <1>2, <1>8, <2>1, KeepEffect, FreeFields, TypeRequests DEF SetsOK
<1>9. CASE Authenticate(r)
  <2>1. ActsOK' BY <1>1, <1>9, AuthenticateEffect DEF ActsOK
  <2>2. used' \in [requests : Nat, faults : Nat] BY <1>1, <1>9, AuthenticateEffect, FaultEffect DEF SetsOK
  <2> QED BY <1>1, <1>2, <1>9, <2>1, <2>2, AuthenticateEffect, TypeRequests DEF SetsOK
<1>10. CASE RecordEmail(r)
  <2>1. ActsOK' BY <1>1, <1>10, RecordEmailEffect DEF ActsOK
  <2>2. used' \in [requests : Nat, faults : Nat] BY <1>1, <1>10, RecordEmailEffect, FaultEffect DEF SetsOK
  <2>3. flagged' \subseteq rows BY <1>1, <1>10, RecordEmailEffect DEF SetsOK
  <2> QED BY <1>1, <1>2, <1>10, <2>1, <2>2, <2>3, RecordEmailEffect, TypeRequests DEF SetsOK
<1>11. CASE RecordAction(r)
  <2>1. req[r].kind \in Kind BY <1>1 DEF ReqOK, Request
  <2>2. ActsOK' /\ DOMAIN acts \subseteq DOMAIN acts'
    <3>1. ASSUME NEW status \in Status, Upsert(req[r].msg, req[r].kind, status)
          PROVE  ActsOK' /\ DOMAIN acts \subseteq DOMAIN acts'
      BY <1>11, <2>1, <3>1, RecordActionEffect, UpsertEffect, TypeWrites DEF Writes
    <3>2. CASE acts' = acts BY <1>1, <1>11, <3>2, RecordActionEffect DEF ActsOK
    <3> QED BY <1>11, <3>1, <3>2, RecordActionEffect DEF Status
  <2>3. used' \in [requests : Nat, faults : Nat] BY <1>1, <1>11, RecordActionEffect, FaultEffect DEF SetsOK
  <2>4. req'[r].pc \notin Undoing /\ (req'[r].pc \in Holding => req'[r].msg \in Message)
    BY <1>2, <1>11, RecordActionEffect, FreeFields
  <2> QED BY <1>1, <1>2, <1>11, <2>2, <2>3, <2>4, RecordActionEffect, TypeRequests DEF SetsOK
<1>12. CASE BatchEnds(r)
  <2>1. ActsOK' BY <1>1, <1>12 DEF ActsOK, BatchEnds
  <2> QED BY <1>1, <1>2, <1>12, <2>1, LeaveEffect, FreeFields, TypeRequests DEF BatchEnds, SetsOK
<1>13. CASE Restore(r)
  <2>1. ActsOK' BY <1>1, <1>13, RestoreEffect DEF ActsOK
  <2>2. used' \in [requests : Nat, faults : Nat] BY <1>1, <1>13, RestoreEffect, FaultEffect DEF SetsOK
  <2>3. trash' \subseteq Message /\ archived' \subseteq Message BY <1>1, <1>13, RestoreEffect DEF SetsOK
  <2>4. req'[r].pc \in Undoing => req'[r].act \in DOMAIN acts'
    BY <1>1, <1>2, <1>13, RestoreEffect, FreeFields DEF ReqOK, Undoing
  <2>5. req'[r].pc \in Holding => req'[r].msg \in Message
    BY <1>2, <1>13, RestoreEffect, FreeFields
  <2>6. late' \in {late, Forget(r)} /\ asked' \in [Message -> Nat] /\ flagged' \subseteq rows
    BY <1>1, <1>13, RestoreEffect DEF SetsOK
  <2>7. Moves(r) /\ UNCHANGED << rows, linked, prop, doomed, acts >>
    BY <1>13, RestoreEffect
  <2> QED BY <2>1, <2>2, <2>3, <2>4, <2>5, <2>6, <2>7, TypeRequests
<1>14. CASE Unflag(r)
  <2>1. ActsOK' BY <1>1, <1>14, UnflagEffect DEF ActsOK
  <2>2. req'[r].pc \in Undoing => req'[r].act \in DOMAIN acts'
    BY <1>1, <1>2, <1>14, UnflagEffect, FreeFields DEF ReqOK, Undoing
  <2>3. req'[r].pc \in Holding => req'[r].msg \in Message
    BY <1>2, <1>14, UnflagEffect, FreeFields
  <2>4. late' \in {late, Forget(r)} /\ flagged' \subseteq rows
    BY <1>1, <1>14, UnflagEffect DEF SetsOK
  <2> QED BY <1>1, <1>14, <2>1, <2>2, <2>3, <2>4, UnflagEffect, TypeRequests DEF SetsOK
<1>15. CASE MarkReverted(r)
  <2>1. ActsOK' BY <1>1, <1>15, MarkEffect DEF ActsOK
  <2> QED BY <1>1, <1>2, <1>15, <2>1, MarkEffect, FreeFields, TypeRequests DEF SetsOK
<1> QED
  BY <1>3, <1>4, <1>5, <1>6, <1>7, <1>8, <1>9, <1>10, <1>11, <1>12, <1>13, <1>14, <1>15
  DEF User, Batch, Reversal, Kind

LEMMA TypeProposes ==
  ASSUME TypeOK, NEW p \in Proposers, Propose(p)
  PROVE  TypeOK'
<1>1. SetsOK /\ ActsOK /\ ReqOK /\ PropOK
  BY TypeParts
<1>2. ASSUME NEW m \in Message, Candidate(p, m) PROVE SetsOK' /\ ActsOK' /\ ReqOK' /\ PropOK'
  <2>1. SetsOK' /\ ActsOK' /\ ReqOK'
    BY <1>1, <1>2, CandidateEffect DEF SetsOK, ActsOK, ReqOK
  <2>2. PropOK'
    <3>1. /\ prop' \in [Proposers -> Proposer] /\ prop'[p].msg \in Message
          /\ \A q \in Proposers \ {p} : prop'[q] = prop[q]
      BY <1>2, CandidateEffect
    <3> QED BY <1>1, <3>1 DEF PropOK
  <2> QED BY <2>1, <2>2
<1>3. ASSUME CheckOpen(p) PROVE SetsOK' /\ ActsOK' /\ ReqOK' /\ PropOK'
  <2>1. SetsOK' /\ ActsOK' /\ ReqOK'
    BY <1>1, <1>3, CheckEffect DEF SetsOK, ActsOK, ReqOK
  <2>2. PropOK'
    <3>1. /\ prop' \in [Proposers -> Proposer] /\ (prop'[p].pc # "idle" => prop'[p].msg \in Message)
          /\ \A q \in Proposers \ {p} : prop'[q] = prop[q]
      BY <1>3, CheckEffect
    <3>2. ASSUME NEW q \in Proposers, prop'[q].pc # "idle" PROVE prop'[q].msg \in Message
      <4>1. CASE q = p BY <3>1, <3>2, <4>1
      <4>2. CASE q # p BY <1>1, <3>1, <3>2, <4>2 DEF PropOK
      <4> QED BY <4>1, <4>2
    <3> QED BY <3>1, <3>2 DEF PropOK
  <2> QED BY <2>1, <2>2
<1>4. CASE CreateProposal(p)
  <2>1. ActsOK' /\ DOMAIN acts \subseteq DOMAIN acts'
    <3>1. CASE Writes(prop[p].msg) BY <1>4, <3>1, ProposalEffect, TypeWrites DEF Writes
    <3>2. CASE acts' = acts BY <1>1, <1>4, <3>2, ProposalEffect DEF ActsOK
    <3> QED BY <1>4, <3>1, <3>2, ProposalEffect
  <2>2. SetsOK' /\ ReqOK' /\ PropOK'
    BY <1>1, <1>4, <2>1, ProposalEffect DEF SetsOK, ReqOK, PropOK
  <2> QED BY <2>1, <2>2, TypeParts DEF TypeOK, SetsOK, ActsOK, ReqOK, PropOK, Undoing, Holding, Proposer
<1>5. SetsOK' /\ ActsOK' /\ ReqOK' /\ PropOK' => TypeOK'
  BY DEF TypeOK, SetsOK, ActsOK, ReqOK, PropOK, Undoing, Holding, Proposer
<1> QED BY <1>2, <1>3, <1>4, <1>5 DEF Propose, SetsOK, ActsOK, ReqOK, PropOK

LEMMA TypeNext == TypeOK /\ [Next]_vars => TypeOK'
<1> SUFFICES ASSUME TypeOK, [Next]_vars PROVE TypeOK'
  OBVIOUS
<1>1. SetsOK /\ ActsOK /\ ReqOK /\ PropOK
  BY TypeParts
<1>2. SetsOK' /\ ActsOK' /\ ReqOK' /\ PropOK' => TypeOK'
  BY DEF TypeOK, SetsOK, ActsOK, ReqOK, PropOK, Undoing, Holding, Proposer
<1>3. CASE SweepSelects
  <2>1. SetsOK' /\ ActsOK' /\ ReqOK' /\ PropOK'
    BY <1>1, <1>3 DEF SweepSelects, SetsOK, ActsOK, ReqOK, PropOK
  <2> QED BY <1>2, <2>1
<1>4. CASE SweepDeletes
  <2>1. doomed \in SUBSET Message /\ Gone(doomed) /\ doomed' = {} /\ late' = Forget("sweep")
        /\ UNCHANGED << trash, archived, req, prop, asked, used >>
    BY <1>1, <1>4 DEF SweepDeletes, SetsOK
  <2>2. SetsOK' /\ ActsOK' /\ ReqOK' /\ PropOK'
    BY <1>1, <2>1, GoneEffect, ForgetTyped DEF SetsOK, ActsOK, ReqOK, PropOK
  <2> QED BY <1>2, <2>2
<1>5. CASE Purge
  <2>1. rows \in SUBSET Message /\ Gone(rows) /\ Ask({})
        /\ UNCHANGED << trash, archived, req, prop, doomed, late >>
    BY <1>1, <1>5 DEF Purge, SetsOK
  <2>2. SetsOK' /\ ActsOK' /\ ReqOK' /\ PropOK'
    <3>1. used' \in [requests : Nat, faults : Nat] /\ asked' \in [Message -> Nat]
      BY <2>1, AskEffect
    <3>2. rows' = rows \ rows /\ linked' = linked \ rows /\ flagged' = flagged \ rows
      BY <2>1, GoneEffect
    <3>3. SetsOK'
      BY <1>1, <2>1, <3>1, <3>2 DEF SetsOK
    <3>4. ActsOK'
      BY <1>1, <2>1, GoneEffect DEF ActsOK
    <3>5. DOMAIN acts' = DOMAIN acts
      BY <2>1, GoneEffect
    <3>6. ReqOK' /\ PropOK'
      BY <1>1, <2>1, <3>5 DEF ReqOK, PropOK
    <3> QED BY <3>3, <3>4, <3>6
  <2> QED BY <1>2, <2>2
<1>6. ASSUME NEW m \in Message, Link(m) PROVE TypeOK'
  <2>1. SetsOK' /\ ActsOK' /\ ReqOK' /\ PropOK'
    BY <1>1, <1>6 DEF Link, SetsOK, ActsOK, ReqOK, PropOK
  <2> QED BY <1>2, <2>1
<1>7. CASE Crash
  <2>1. used' \in [requests : Nat, faults : Nat]
    BY <1>7, FaultEffect DEF Crash
  <2>2. late' \subseteq late /\ doomed' \subseteq doomed /\ UNCHANGED << trash, archived, rows, flagged, linked, acts, asked >>
    BY <1>7 DEF Crash, Forget
  <2>3. SetsOK' /\ ActsOK'
    BY <1>1, <2>1, <2>2 DEF SetsOK, ActsOK
  <2>4. ReqOK' /\ PropOK'
    BY <1>1, <1>7, FreeFields DEF Crash, ReqOK, PropOK, Undoing, Holding
  <2> QED BY <1>2, <2>3, <2>4
<1>8. CASE UNCHANGED vars
  BY <1>1, <1>2, <1>8 DEF vars, SetsOK, ActsOK, ReqOK, PropOK
<1> QED BY <1>3, <1>4, <1>5, <1>6, <1>7, <1>8, TypeBatch, TypeProposes DEF Next

(* TypeOK holds in every reachable state: what a row says, the row is      *)
(* there for, no action points at an email that is gone, and a reversal    *)
(* under way is of an action that exists.                                  *)
THEOREM TypeCorrect == Spec => []TypeOK
<1> QED BY TypeInit, TypeNext, PTL DEF Spec

-----------------------------------------------------------------------------
(* Evidence.                                                               *)

(* What a request or the sweep may still do to an email that is linked by  *)
(* now, it had read before: the link came after.                           *)
EvidenceInv ==
  /\ \A r \in Requests : \A m \in req[r].todo \cap linked : << r, m >> \in late
  /\ \A m \in doomed \cap linked : << "sweep", m >> \in late

LEMMA ForgetOthers ==
  ASSUME NEW x, NEW y, NEW m, << y, m >> \in late, y # x
  PROVE  << y, m >> \in Forget(x)
BY DEF Forget

LEMMA NamesApart == "sweep" \notin Requests /\ "cleanup" \notin Requests /\ "none" \notin Message
BY NamesAssumption

(* A request that goes on has no more to do than before, unless it has just *)
(* read what to do.                                                        *)
LEMMA EvidenceMoves ==
  ASSUME EvidenceInv, NEW r \in Requests, Moves(r), UNCHANGED << linked, doomed >>,
         \/ late' = late /\ (req'[r].todo \subseteq req[r].todo \/ req'[r].todo \cap linked = {})
         \/ late' = Forget(r) /\ req'[r].todo = {}
  PROVE  EvidenceInv'
<1>1. ASSUME NEW s \in Requests, NEW m \in req'[s].todo \cap linked PROVE << s, m >> \in late'
  <2>1. CASE s = r
    BY <1>1, <2>1 DEF EvidenceInv
  <2>2. CASE s # r
    BY <1>1, <2>2, ForgetOthers DEF EvidenceInv, Moves
  <2> QED BY <2>1, <2>2
<1>2. ASSUME NEW m \in doomed \cap linked PROVE << "sweep", m >> \in late'
  BY <1>2, ForgetOthers, NamesApart DEF EvidenceInv
<1> QED BY <1>1, <1>2 DEF EvidenceInv

LEMMA EvidenceNext == TypeOK /\ EvidenceInv /\ [Next]_vars => EvidenceInv'
<1> SUFFICES ASSUME TypeOK, EvidenceInv, [Next]_vars PROVE EvidenceInv'
  OBVIOUS
<1>1. ASSUME NEW r \in Requests, User(r) \/ Batch(r) \/ Reversal(r) PROVE EvidenceInv'
  <2>1. ASSUME NEW kind \in Kind, NEW ms \in SUBSET Message, Approve(r, kind, ms) PROVE EvidenceInv'
    <3>1. Moves(r) /\ UNCHANGED << linked, doomed, late >> /\ req'[r].todo \cap linked = {}
      BY <2>1, ApproveEffect
    <3> QED BY <3>1, EvidenceMoves
  <2>2. ASSUME NEW a \in DOMAIN acts, Revert(r, a) PROVE EvidenceInv'
    <3>1. Moves(r) /\ UNCHANGED << linked, doomed, late >> /\ req'[r].todo \cap linked = {}
      BY <2>2, RevertEffect
    <3> QED BY <3>1, EvidenceMoves
  <2>3. ASSUME NEW m \in Message, Block(r, m) PROVE EvidenceInv'
    BY <2>3, BlockEffect, FreeFields, EvidenceMoves
  <2>4. ASSUME NEW m \in Message, AllFail(r, m) PROVE EvidenceInv'
    BY <2>4, AllFailEffect, FreeFields, EvidenceMoves
  <2>5. ASSUME NEW m \in Message, CallGmail(r, m) PROVE EvidenceInv'
    BY <2>5, CallEffect, EvidenceMoves
  <2>6. CASE KeepAll(r)
    BY <2>6, KeepEffect, FreeFields, EvidenceMoves
  <2>7. CASE Authenticate(r)
    BY <2>7, AuthenticateEffect, EvidenceMoves
  <2>8. CASE RecordEmail(r)
    BY <2>8, RecordEmailEffect, EvidenceMoves
  <2>9. CASE RecordAction(r)
    BY <2>9, RecordActionEffect, FreeFields, EvidenceMoves
  <2>10. CASE BatchEnds(r)
    BY <2>10, LeaveEffect, FreeFields, EvidenceMoves DEF BatchEnds
  <2>11. CASE Restore(r)
    BY <2>11, RestoreEffect, FreeFields, EvidenceMoves
  <2>12. CASE Unflag(r)
    BY <2>12, UnflagEffect, FreeFields, EvidenceMoves
  <2>13. CASE MarkReverted(r)
    BY <2>13, MarkEffect, FreeFields, EvidenceMoves
  <2> QED
    BY <1>1, <2>1, <2>2, <2>3, <2>4, <2>5, <2>6, <2>7, <2>8, <2>9, <2>10, <2>11, <2>12, <2>13
    DEF User, Batch, Reversal, Kind
<1>2. ASSUME NEW p \in Proposers, Propose(p) PROVE EvidenceInv'
  <2>1. UNCHANGED << req, linked, doomed, late >>
    BY <1>2 DEF Propose, Candidate, CheckOpen, CreateProposal
  <2> QED BY <2>1 DEF EvidenceInv
<1>3. CASE SweepSelects
  BY <1>3 DEF SweepSelects, EvidenceInv
<1>4. CASE SweepDeletes
  <2>1. linked' \subseteq linked /\ doomed' = {} /\ req' = req /\ late' = Forget("sweep")
    BY <1>4 DEF SweepDeletes, Gone
  <2> QED BY <2>1, ForgetOthers, NamesApart DEF EvidenceInv
<1>5. CASE Purge
  BY <1>5 DEF Purge, Gone, EvidenceInv
<1>6. ASSUME NEW m \in Message, Link(m) PROVE EvidenceInv'
  <2>1. /\ linked' = linked \cup {m} /\ UNCHANGED << req, doomed >>
        /\ late' = late \cup { << x, m >> : x \in { y \in Requests \cup {"sweep"} : m \in Pending(y) } }
    BY <1>6 DEF Link
  <2>2. \A r \in Requests : m \in req[r].todo => << r, m >> \in late'
    BY <2>1, NamesApart DEF Pending
  <2>3. m \in doomed => << "sweep", m >> \in late'
    BY <2>1 DEF Pending
  <2> QED BY <2>1, <2>2, <2>3 DEF EvidenceInv
<1>7. CASE Crash
  <2>1. CASE req' = [r \in Requests |-> Free] /\ late' = { l \in late : l[1] = "sweep" } /\ UNCHANGED << doomed, linked >>
    BY <2>1, FreeFields DEF EvidenceInv
  <2>2. CASE doomed' = {} /\ late' = Forget("sweep") /\ UNCHANGED << req, linked >>
    BY <2>2, ForgetOthers, NamesApart DEF EvidenceInv
  <2> QED BY <1>7, <2>1, <2>2 DEF Crash
<1>8. CASE UNCHANGED vars
  BY <1>8 DEF vars, EvidenceInv
<1> QED BY <1>1, <1>2, <1>3, <1>4, <1>5, <1>6, <1>7, <1>8 DEF Next

(* EvidenceStays holds of every step: a batch trashes or archives, and the *)
(* sweep deletes, no linked email but one that was linked after they had   *)
(* read it.                                                                *)
THEOREM EvidenceLeftAlone == Spec => EvidenceStays
<1> DEFINE Spared == Purge \/ \A m \in linked : Harmed(m) => \E x \in Requests \cup {"sweep"} : << x, m >> \in late
<1>1. Init => EvidenceInv
  BY FreeFields DEF Init, EvidenceInv
<1>2. TypeOK /\ EvidenceInv /\ [Next]_vars => [Spared]_vars
  <2> SUFFICES ASSUME TypeOK, EvidenceInv, [Next]_vars PROVE [Spared]_vars
    OBVIOUS
  <2>1. ASSUME trash' \subseteq trash, archived' \subseteq archived, rows' = rows PROVE Spared
    BY <2>1 DEF Harmed
  <2>2. ASSUME NEW r \in Requests, User(r) \/ Batch(r) \/ Reversal(r) PROVE Spared
    <3>1. ASSUME NEW m \in Message, CallGmail(r, m) PROVE Spared
      <4>1. /\ m \in req[r].todo /\ rows' = rows
            /\ trash' \subseteq trash \cup {m} /\ archived' \subseteq archived \cup {m}
        BY <3>1, CallEffect
      <4>2. \A n : Harmed(n) => n = m
        BY <4>1 DEF Harmed
      <4> QED BY <4>1, <4>2 DEF EvidenceInv
    <3>2. CASE User(r)
      BY <2>1, <3>2 DEF User, Approve, Revert
    <3>3. CASE Reversal(r)
      BY <2>1, <3>3, RestoreEffect, UnflagEffect, MarkEffect DEF Reversal
    <3>4. CASE KeepAll(r) \/ Authenticate(r) \/ RecordEmail(r) \/ RecordAction(r) \/ BatchEnds(r)
               \/ \E m \in Message : Block(r, m) \/ AllFail(r, m)
      <4>1. UNCHANGED << trash, archived, rows >>
        BY <3>4 DEF KeepAll, Authenticate, RecordEmail, RecordAction, BatchEnds, Block, AllFail
      <4> QED BY <2>1, <4>1
    <3> QED BY <2>2, <3>1, <3>2, <3>3, <3>4 DEF Batch
  <2>3. ASSUME NEW p \in Proposers, Propose(p) PROVE Spared
    <3>1. UNCHANGED << trash, archived, rows >>
      BY <2>3 DEF Propose, Candidate, CheckOpen, CreateProposal
    <3> QED BY <2>1, <3>1
  <2>4. CASE SweepDeletes
    <3>1. UNCHANGED << trash, archived >> /\ rows' = rows \ doomed
      BY <2>4 DEF SweepDeletes, Gone
    <3>2. \A n : Harmed(n) => n \in doomed
      BY <3>1 DEF Harmed
    <3> QED BY <3>2 DEF EvidenceInv
  <2>5. CASE SweepSelects \/ Crash \/ \E m \in Message : Link(m)
    BY <2>1, <2>5 DEF SweepSelects, Crash, Link
  <2> QED BY <2>2, <2>3, <2>4, <2>5 DEF Next
<1> QED BY <1>1, <1>2, TypeInit, TypeNext, EvidenceNext, PTL DEF Spec, EvidenceStays

-----------------------------------------------------------------------------
(* Proposals.                                                              *)

Creating(m) == { p \in Proposers : prop[p].pc = "create" /\ prop[p].msg = m }

(* A proposer that found no open proposal is about to open one, so those   *)
(* are counted with the open ones.                                         *)
ProposalInv ==
  \A m \in Message : Cardinality(OpenOf(m)) + Cardinality(Creating(m)) <= Cardinality(Proposers)

LEMMA ProposersFinite ==
  /\ IsFiniteSet(Proposers) /\ Cardinality(Proposers) \in Nat
  /\ \A m : IsFiniteSet(Creating(m)) /\ Cardinality(Creating(m)) \in Nat
<1>1. IsFiniteSet(Proposers)
  BY FinitelyMany, FS_AddElement DEF Proposers
<1>2. ASSUME NEW m PROVE IsFiniteSet(Creating(m))
  <2>1. Creating(m) \subseteq Proposers BY DEF Creating
  <2> QED BY <1>1, <2>1, FS_Subset
<1> QED BY <1>1, <1>2, FS_CardinalityType

LEMMA OpenFinite ==
  ASSUME TypeOK, NEW m
  PROVE  IsFiniteSet(OpenOf(m)) /\ Cardinality(OpenOf(m)) \in Nat /\ OpenOf(m) \subseteq DOMAIN acts
<1>1. acts \in Seq(Action)
  BY TypeParts DEF ActsOK
<1>2. IsFiniteSet(DOMAIN acts)
  BY <1>1, FS_Interval
<1>3. OpenOf(m) \subseteq DOMAIN acts
  BY DEF OpenOf, ActsOf
<1>4. IsFiniteSet(OpenOf(m))
  BY <1>2, <1>3, FS_Subset
<1> QED BY <1>3, <1>4, FS_CardinalityType

(* Nothing but a proposer's own step opens a proposal or prepares one.     *)
LEMMA ProposalsFewer ==
  ASSUME TypeOK, ProposalInv, \A m \in Message : OpenOf(m)' \subseteq OpenOf(m) /\ Creating(m)' \subseteq Creating(m)
  PROVE  ProposalInv'
<1> SUFFICES ASSUME NEW m \in Message
             PROVE  Cardinality(OpenOf(m)') + Cardinality(Creating(m)') <= Cardinality(Proposers)
  BY DEF ProposalInv
<1>1. Cardinality(OpenOf(m)') <= Cardinality(OpenOf(m)) /\ Cardinality(OpenOf(m)') \in Nat
  <2>1. IsFiniteSet(OpenOf(m)) /\ OpenOf(m)' \subseteq OpenOf(m) BY OpenFinite
  <2>2. IsFiniteSet(OpenOf(m)') /\ Cardinality(OpenOf(m)') <= Cardinality(OpenOf(m)) BY <2>1, FS_Subset
  <2> QED BY <2>2, FS_CardinalityType
<1>2. Cardinality(Creating(m)') <= Cardinality(Creating(m)) /\ Cardinality(Creating(m)') \in Nat
  <2>1. IsFiniteSet(Creating(m)) /\ Creating(m)' \subseteq Creating(m) BY ProposersFinite
  <2>2. IsFiniteSet(Creating(m)') /\ Cardinality(Creating(m)') <= Cardinality(Creating(m)) BY <2>1, FS_Subset
  <2> QED BY <2>2, FS_CardinalityType
<1>3. Cardinality(OpenOf(m)) + Cardinality(Creating(m)) <= Cardinality(Proposers)
  BY DEF ProposalInv
<1> QED BY <1>1, <1>2, <1>3, OpenFinite, ProposersFinite

(* A write of another status opens none.                                   *)
LEMMA WritesClose ==
  ASSUME TypeOK, NEW m \in Message, Writes(m),
         \A a \in DOMAIN acts' : (a \in DOMAIN acts /\ acts'[a] = acts[a]) \/ acts'[a].status # "PROPOSED"
  PROVE  \A n \in Message : OpenOf(n)' \subseteq OpenOf(n)
BY DEF OpenOf, ActsOf, Writes

LEMMA BatchOpensNone ==
  ASSUME TypeOK, NEW r \in Requests, User(r) \/ Batch(r) \/ Reversal(r)
  PROVE  \A n \in Message : OpenOf(n)' \subseteq OpenOf(n)
<1>1. ASSUME acts' = acts PROVE \A n \in Message : OpenOf(n)' \subseteq OpenOf(n)
  BY <1>1 DEF OpenOf, ActsOf
<1>2. req[r].kind \in Kind
  BY TypeParts DEF ReqOK, Request
<1>3. CASE User(r)
  BY <1>1, <1>3 DEF User, Approve, Revert
<1>4. ASSUME NEW m \in Message, Block(r, m) PROVE \A n \in Message : OpenOf(n)' \subseteq OpenOf(n)
  BY <1>1, <1>4, BlockEffect, BlockedEffect, WritesClose
<1>5. ASSUME NEW m \in Message, NEW status \in Status \ {"PROPOSED"}, Upsert(m, req[r].kind, status)
      PROVE  \A n \in Message : OpenOf(n)' \subseteq OpenOf(n)
  BY <1>2, <1>5, UpsertEffect, WritesClose
<1>6. ASSUME NEW m \in Message, AllFail(r, m) PROVE \A n \in Message : OpenOf(n)' \subseteq OpenOf(n)
  BY <1>1, <1>5, <1>6, AllFailEffect DEF Status
<1>7. CASE RecordAction(r)
  BY <1>1, <1>5, <1>7, RecordActionEffect DEF Status
<1>8. CASE KeepAll(r)
  <2>1. /\ DOMAIN acts' = DOMAIN acts
        /\ \A a \in DOMAIN acts : acts'[a] = acts[a] \/ acts'[a].status = "SKIPPED"
    BY <1>8, KeepEffect
  <2> QED BY <2>1 DEF OpenOf, ActsOf
<1>9. CASE MarkReverted(r)
  <2>1. /\ DOMAIN acts' = DOMAIN acts
        /\ \A a \in DOMAIN acts : acts'[a] = acts[a] \/ acts'[a].status = "REVERTED"
    BY <1>9, MarkEffect
  <2> QED BY <2>1 DEF OpenOf, ActsOf
<1>10. CASE Authenticate(r) \/ RecordEmail(r) \/ BatchEnds(r) \/ Restore(r) \/ Unflag(r)
            \/ \E m \in Message : CallGmail(r, m)
  BY <1>1, <1>10 DEF Authenticate, RecordEmail, BatchEnds, Restore, Unflag, CallGmail
<1> QED BY <1>3, <1>4, <1>6, <1>7, <1>8, <1>9, <1>10 DEF Batch, Reversal

LEMMA ProposalNext == TypeOK /\ ProposalInv /\ [Next]_vars => ProposalInv'
<1> SUFFICES ASSUME TypeOK, ProposalInv, [Next]_vars PROVE ProposalInv'
  OBVIOUS
<1>1. ASSUME prop' = prop PROVE \A m \in Message : Creating(m)' \subseteq Creating(m)
  BY <1>1 DEF Creating
<1>2. ASSUME acts' = acts PROVE \A m \in Message : OpenOf(m)' = OpenOf(m)
  BY <1>2 DEF OpenOf, ActsOf
<1>3. ASSUME NEW r \in Requests, User(r) \/ Batch(r) \/ Reversal(r) PROVE ProposalInv'
  <2>1. prop' = prop
    BY <1>3 DEF User, Batch, Reversal, Approve, Revert, Block, AllFail, CallGmail, KeepAll, Authenticate, RecordEmail,
       RecordAction, BatchEnds, Restore, Unflag, MarkReverted
  <2> QED BY <1>1, <1>3, <2>1, BatchOpensNone, ProposalsFewer
<1>4. ASSUME NEW p \in Proposers, NEW m \in Message, Candidate(p, m) PROVE ProposalInv'
  <2>1. /\ prop'[p].pc = "check" /\ acts' = acts
        /\ \A q \in Proposers \ {p} : prop'[q] = prop[q]
    BY <1>4, CandidateEffect
  <2>2. \A n \in Message : Creating(n)' \subseteq Creating(n)
    BY <2>1 DEF Creating
  <2> QED BY <1>2, <2>1, <2>2, ProposalsFewer
<1>5. ASSUME NEW p \in Proposers, CheckOpen(p) PROVE ProposalInv'
  <2>1. /\ acts' = acts /\ prop[p].pc = "check" /\ (\A q \in Proposers \ {p} : prop'[q] = prop[q])
        /\ \/ prop'[p].pc = "create" /\ prop'[p].msg = prop[p].msg /\ OpenOf(prop[p].msg) = {}
           \/ prop'[p].pc = "idle"
    BY <1>5, CheckEffect
  <2>2. CASE prop'[p].pc = "idle"
    <3>1. \A n \in Message : Creating(n)' \subseteq Creating(n)
      BY <2>1, <2>2 DEF Creating
    <3> QED BY <1>2, <2>1, <3>1, ProposalsFewer
  <2>3. CASE prop'[p].pc = "create" /\ prop'[p].msg = prop[p].msg /\ OpenOf(prop[p].msg) = {}
    <3> SUFFICES ASSUME NEW m \in Message
                 PROVE  Cardinality(OpenOf(m)') + Cardinality(Creating(m)') <= Cardinality(Proposers)
      BY DEF ProposalInv
    <3>1. OpenOf(m)' = OpenOf(m)
      BY <1>2, <2>1
    <3>2. CASE m = prop[p].msg
      <4>1. Cardinality(OpenOf(m)') = 0
        BY <2>3, <3>1, <3>2, FS_EmptySet
      <4>2. Creating(m)' \subseteq Proposers
        BY DEF Creating
      <4>3. Cardinality(Creating(m)') <= Cardinality(Proposers) /\ IsFiniteSet(Creating(m)')
        BY <4>2, ProposersFinite, FS_Subset
      <4>4. Cardinality(Creating(m)') \in Nat
        BY <4>3, FS_CardinalityType
      <4> QED BY <4>1, <4>3, <4>4, ProposersFinite
    <3>3. CASE m # prop[p].msg
      <4>1. Creating(m)' = Creating(m)
        BY <2>1, <2>3, <3>3 DEF Creating
      <4> QED BY <3>1, <4>1 DEF ProposalInv
    <3> QED BY <3>2, <3>3
  <2> QED BY <2>1, <2>2, <2>3
<1>6. ASSUME NEW p \in Proposers, CreateProposal(p) PROVE ProposalInv'
  <2>1. /\ prop[p].pc = "create" /\ prop[p].msg \in Message /\ prop'[p].pc = "idle"
        /\ \A q \in Proposers \ {p} : prop'[q] = prop[q]
    BY <1>6, ProposalEffect
  <2>2. ASSUME NEW m \in Message PROVE Creating(m)' = Creating(m) \ {p}
    BY <2>1 DEF Creating
  <2>3. CASE acts' = acts
    BY <1>2, <2>2, <2>3, ProposalsFewer
  <2>4. ASSUME DOMAIN acts' = DOMAIN acts \cup {Len(acts) + 1}, \A a \in DOMAIN acts : acts'[a] = acts[a],
               acts'[Len(acts) + 1].email = prop[p].msg
        PROVE  ProposalInv'
    <3> SUFFICES ASSUME NEW m \in Message
                 PROVE  Cardinality(OpenOf(m)') + Cardinality(Creating(m)') <= Cardinality(Proposers)
      BY DEF ProposalInv
    <3>1. Cardinality(OpenOf(m)) + Cardinality(Creating(m)) <= Cardinality(Proposers)
      BY DEF ProposalInv
    <3>2. IsFiniteSet(OpenOf(m)) /\ Cardinality(OpenOf(m)) \in Nat
      BY OpenFinite
    <3>3. IsFiniteSet(Creating(m)) /\ Cardinality(Creating(m)) \in Nat /\ Cardinality(Proposers) \in Nat
      BY ProposersFinite
    <3>4. Cardinality(Creating(m) \ {p}) = IF p \in Creating(m) THEN Cardinality(Creating(m)) - 1
                                                             ELSE Cardinality(Creating(m))
      BY <3>3, FS_RemoveElement
    <3>5. CASE m = prop[p].msg
      <4>1. p \in Creating(m)
        BY <2>1, <3>5 DEF Creating
      <4>2. PICK i : i = Len(acts) + 1
        OBVIOUS
      <4>3. OpenOf(m)' \subseteq OpenOf(m) \cup {i}
        BY <2>4, <4>2 DEF OpenOf, ActsOf
      <4>4. IsFiniteSet(OpenOf(m) \cup {i}) /\ Cardinality(OpenOf(m) \cup {i}) <= Cardinality(OpenOf(m)) + 1
        <5>1. /\ IsFiniteSet(OpenOf(m) \cup {i})
              /\ Cardinality(OpenOf(m) \cup {i}) = IF i \in OpenOf(m) THEN Cardinality(OpenOf(m))
                                                                     ELSE Cardinality(OpenOf(m)) + 1
          BY <3>2, FS_AddElement
        <5> QED BY <3>2, <5>1
      <4>5. IsFiniteSet(OpenOf(m)') /\ Cardinality(OpenOf(m)') <= Cardinality(OpenOf(m) \cup {i})
        BY <4>3, <4>4, FS_Subset
      <4>6. Cardinality(OpenOf(m)') \in Nat /\ Cardinality(OpenOf(m) \cup {i}) \in Nat
        BY <4>4, <4>5, FS_CardinalityType
      <4> QED BY <2>2, <3>1, <3>2, <3>3, <3>4, <4>1, <4>4, <4>5, <4>6
    <3>6. CASE m # prop[p].msg
      <4>1. p \notin Creating(m)
        BY <2>1, <3>6 DEF Creating
      <4>2. OpenOf(m)' = OpenOf(m)
        BY <2>4, <3>6 DEF OpenOf, ActsOf
      <4> QED BY <2>2, <3>1, <3>4, <4>1, <4>2
    <3> QED BY <3>5, <3>6
  <2> QED BY <1>6, <2>3, <2>4, ProposalEffect
<1>7. ASSUME NEW ms \in SUBSET Message, Gone(ms), prop' = prop PROVE ProposalInv'
  <2>1. \A m \in Message : OpenOf(m)' \subseteq OpenOf(m)
    BY <1>7, GoneEffect, NamesApart DEF OpenOf, ActsOf
  <2> QED BY <1>1, <1>7, <2>1, ProposalsFewer
<1>8. CASE SweepDeletes \/ Purge
  BY <1>7, <1>8, TypeParts DEF SweepDeletes, Purge, SetsOK
<1>9. CASE SweepSelects \/ UNCHANGED vars \/ \E m \in Message : Link(m)
  BY <1>1, <1>2, <1>9, ProposalsFewer DEF SweepSelects, vars, Link
<1>10. CASE Crash
  <2>1. \A m \in Message : Creating(m)' \subseteq Creating(m)
    BY <1>10, FreeFields DEF Crash, Creating
  <2> QED BY <1>2, <1>10, <2>1, ProposalsFewer DEF Crash
<1> QED BY <1>3, <1>4, <1>5, <1>6, <1>8, <1>9, <1>10 DEF Next, Propose

(* ProposalsBounded holds in every reachable state: a message has no more  *)
(* open proposals than there are proposers.                                *)
THEOREM ProposalsFew == Spec => []ProposalsBounded
<1>1. Init => ProposalInv
  <2> SUFFICES ASSUME Init, NEW m \in Message
               PROVE  Cardinality(OpenOf(m)) + Cardinality(Creating(m)) <= Cardinality(Proposers)
    BY DEF ProposalInv
  <2>1. OpenOf(m) = {} /\ Creating(m) = {}
    BY FreeFields DEF Init, OpenOf, ActsOf, Creating
  <2> QED BY <2>1, FS_EmptySet, ProposersFinite
<1>2. TypeOK /\ ProposalInv => ProposalsBounded
  <2> SUFFICES ASSUME TypeOK, ProposalInv, NEW m \in Message
               PROVE  Cardinality(OpenOf(m)) <= Cardinality(Proposers)
    BY DEF ProposalsBounded
  <2> QED BY OpenFinite, ProposersFinite DEF ProposalInv
<1> QED BY <1>1, <1>2, TypeInit, TypeNext, ProposalNext, PTL DEF Spec

-----------------------------------------------------------------------------
(* Deletions and restores.                                                 *)

Concerned(m) == { r \in Requests : m \in req[r].todo \cup req[r].bad \cup {req[r].msg} }
Deleted(m)  == \E a \in ActsOf(m) : acts[a].status = "EXECUTED" /\ acts[a].type = "DELETE"
Deleting(m) == \E r \in Requests : req[r].pc \in {"record", "executed"} /\ req[r].msg = m /\ req[r].kind = "DELETE"

(* A request has a message in one place at a time.                         *)
Neat(c) ==
  /\ c.todo \cap c.bad = {} /\ c.msg \notin c.todo \cup c.bad
  /\ c.pc = "idle" => c.todo = {}
  /\ c.pc \in {"idle", "block", "failing", "go"} => c.msg = "none"
  /\ c.pc # "block" => c.bad = {}
  /\ c.pc \in Undoing => c.todo = {}

(* A reversal has the user's second decision behind it.                    *)
Backed(r) ==
  req[r].pc \in Undoing => asked[req[r].msg] >= 2 /\ acts[req[r].act].email \in {req[r].msg, "none"}

ShapeInv == \A r \in Requests : Neat(req[r]) /\ Backed(r)

(* A message the user has not decided about is nobody's concern.           *)
Fresh(m) ==
  asked[m] = 0 =>
    /\ Concerned(m) = {} /\ m \notin trash
    /\ \A a \in ActsOf(m) : acts[a].status \in {"PROPOSED", "BLOCKED"}

(* One decision is one request's concern, until it is recorded.            *)
Once(m) ==
  asked[m] = 1 =>
    /\ \A r, s \in Concerned(m) : r = s
    /\ \A a \in ActsOf(m) : acts[a].status # "REVERTED"
    /\ \A a \in ActsOf(m) : acts[a].status = "EXECUTED" => Concerned(m) = {}
    /\ used.faults = 0 /\ m \in trash \cap rows => Deleted(m) \/ Deleting(m)

(* When the second decision is to restore, the first has been recorded.    *)
Twice(m) ==
  asked[m] = 2 =>
    /\ \A r \in Concerned(m) : req[r].pc \in Undoing =>
         /\ \A s \in Concerned(m) : s = r
         /\ \A a \in ActsOf(m) : acts[a].status # "REVERTED"
         /\ acts[req[r].act].email = m => acts[req[r].act].type = req[r].kind
         /\ req[r].kind = "DELETE" /\ req[r].pc \in {"unflag", "mark"} => m \notin trash
         /\ req[r].kind = "DELETE" /\ req[r].pc = "mark" => m \notin flagged
    /\ \A a \in ActsOf(m) : acts[a].status = "REVERTED" =>
         /\ Concerned(m) = {}
         /\ acts[a].type = "DELETE" => m \notin trash \cup flagged

MessageInv(m) == Fresh(m) /\ Once(m) /\ Twice(m)

(* A step that does not concern the message.                               *)
LEMMA QuietStep ==
  ASSUME TypeOK, NEW m \in Message, MessageInv(m), asked'[m] = asked[m], DOMAIN acts \subseteq DOMAIN acts',
         Concerned(m)' \subseteq Concerned(m),
         \A r \in Concerned(m)' : req'[r].pc \in Undoing => req'[r] = req[r],
         m \in trash' => m \in trash, m \in flagged' => m \in flagged,
         \A a \in ActsOf(m)' : \/ a \in ActsOf(m) /\ acts'[a] = acts[a]
                               \/ a \notin DOMAIN acts /\ acts'[a].status \in {"PROPOSED", "BLOCKED"},
         m \in rows' => m \in rows /\ \A a \in ActsOf(m) : a \in ActsOf(m)' /\ acts'[a] = acts[a],
         used'.faults = 0 => used.faults = 0 /\ (Deleting(m) => Deleting(m)')
  PROVE  MessageInv(m)'
<1>1. Fresh(m)'
  BY DEF MessageInv, Fresh
<1>2. Once(m)'
  <2> SUFFICES ASSUME asked[m] = 1
               PROVE  /\ \A r, s \in Concerned(m)' : r = s
                      /\ \A a \in ActsOf(m)' : acts'[a].status # "REVERTED"
                      /\ \A a \in ActsOf(m)' : acts'[a].status = "EXECUTED" => Concerned(m)' = {}
                      /\ used'.faults = 0 /\ m \in trash' \cap rows' => Deleted(m)' \/ Deleting(m)'
    BY DEF Once
  <2>1. \A r, s \in Concerned(m)' : r = s
    BY DEF MessageInv, Once
  <2>2. \A a \in ActsOf(m)' : acts'[a].status # "REVERTED"
    BY DEF MessageInv, Once
  <2>3. \A a \in ActsOf(m)' : acts'[a].status = "EXECUTED" => Concerned(m)' = {}
    BY DEF MessageInv, Once
  <2>4. ASSUME used'.faults = 0, m \in trash', m \in rows' PROVE Deleted(m)' \/ Deleting(m)'
    <3>1. Deleted(m) \/ Deleting(m)
      BY <2>4 DEF MessageInv, Once
    <3>2. Deleted(m) => Deleted(m)'
      BY <2>4 DEF Deleted
    <3> QED BY <2>4, <3>1, <3>2
  <2> QED BY <2>1, <2>2, <2>3, <2>4
<1>3. Twice(m)'
  <2> SUFFICES ASSUME asked[m] = 2
               PROVE  /\ \A r \in Concerned(m)' : req'[r].pc \in Undoing =>
                           /\ \A s \in Concerned(m)' : s = r
                           /\ \A a \in ActsOf(m)' : acts'[a].status # "REVERTED"
                           /\ acts'[req'[r].act].email = m => acts'[req'[r].act].type = req'[r].kind
                           /\ req'[r].kind = "DELETE" /\ req'[r].pc \in {"unflag", "mark"} => m \notin trash'
                           /\ req'[r].kind = "DELETE" /\ req'[r].pc = "mark" => m \notin flagged'
                      /\ \A a \in ActsOf(m)' : acts'[a].status = "REVERTED" =>
                           /\ Concerned(m)' = {}
                           /\ acts'[a].type = "DELETE" => m \notin trash' \cup flagged'
    BY DEF Twice
  <2>1. ASSUME NEW r \in Concerned(m)', req'[r].pc \in Undoing
        PROVE  /\ \A s \in Concerned(m)' : s = r
               /\ \A a \in ActsOf(m)' : acts'[a].status # "REVERTED"
               /\ acts'[req'[r].act].email = m => acts'[req'[r].act].type = req'[r].kind
               /\ req'[r].kind = "DELETE" /\ req'[r].pc \in {"unflag", "mark"} => m \notin trash'
               /\ req'[r].kind = "DELETE" /\ req'[r].pc = "mark" => m \notin flagged'
    <3>1. r \in Concerned(m) /\ req'[r] = req[r] /\ req[r].pc \in Undoing
      BY <2>1
    <3>2. /\ \A s \in Concerned(m) : s = r
          /\ \A a \in ActsOf(m) : acts[a].status # "REVERTED"
          /\ acts[req[r].act].email = m => acts[req[r].act].type = req[r].kind
          /\ req[r].kind = "DELETE" /\ req[r].pc \in {"unflag", "mark"} => m \notin trash
          /\ req[r].kind = "DELETE" /\ req[r].pc = "mark" => m \notin flagged
      BY <3>1 DEF MessageInv, Twice
    <3>3. req[r].act \in DOMAIN acts
      BY <3>1, TypeParts DEF ReqOK, Concerned
    <3>4. ASSUME acts'[req[r].act].email = m, req[r].act \in DOMAIN acts'
          PROVE  acts'[req[r].act].type = req[r].kind
      BY <3>2, <3>3, <3>4 DEF ActsOf
    <3>5. req[r].act \in DOMAIN acts'
      BY <3>3
    <3> QED BY <3>1, <3>2, <3>4, <3>5
  <2>2. \A a \in ActsOf(m)' : acts'[a].status = "REVERTED" =>
           /\ Concerned(m)' = {}
           /\ acts'[a].type = "DELETE" => m \notin trash' \cup flagged'
    BY DEF MessageInv, Twice
  <2> QED BY <2>1, <2>2
<1> QED BY <1>1, <1>2, <1>3 DEF MessageInv
(* The actions of the message stay as they are, or it gets a proposal.     *)
ActsKept(m) ==
  /\ DOMAIN acts \subseteq DOMAIN acts'
  /\ \A a \in ActsOf(m)' : \/ a \in ActsOf(m) /\ acts'[a] = acts[a]
                           \/ a \notin DOMAIN acts /\ acts'[a].status \in {"PROPOSED", "BLOCKED"}
  /\ m \in rows' => m \in rows /\ \A a \in ActsOf(m) : a \in ActsOf(m)' /\ acts'[a] = acts[a]

LEMMA ActsPrimed == \A m : ActsOf(m)' = { a \in DOMAIN acts' : acts'[a].email = m }
BY DEF ActsOf

LEMMA KeptWhenUnchanged ==
  ASSUME NEW m \in Message, acts' = acts, rows' = rows
  PROVE  ActsKept(m)
<1>1. ActsOf(m)' = ActsOf(m)
  BY DEF ActsOf
<1> QED BY <1>1 DEF ActsKept

LEMMA KeptByWrites ==
  ASSUME NEW m \in Message, NEW n \in Message \ {m}, Writes(n), rows' = rows
  PROVE  ActsKept(m)
<1>1. ASSUME NEW a \in ActsOf(m)' PROVE a \in ActsOf(m) /\ acts'[a] = acts[a]
  <2>1. a \in DOMAIN acts' /\ acts'[a].email = m
    BY <1>1, ActsPrimed
  <2> QED BY <2>1 DEF Writes, ActsOf
<1>2. ASSUME NEW a \in ActsOf(m) PROVE a \in ActsOf(m)' /\ acts'[a] = acts[a]
  <2>1. a \in DOMAIN acts' /\ acts'[a] = acts[a] /\ acts'[a].email = m
    BY <1>2 DEF Writes, ActsOf
  <2> QED BY <2>1, ActsPrimed
<1>3. DOMAIN acts \subseteq DOMAIN acts'
  BY DEF Writes
<1>4. m \in rows' => m \in rows
  OBVIOUS
<1> QED BY <1>1, <1>2, <1>3, <1>4 DEF ActsKept

LEMMA KeptByGone ==
  ASSUME TypeOK, NEW m \in Message, NEW ms \in SUBSET Message, Gone(ms)
  PROVE  ActsKept(m)
<1>0. /\ rows' = rows \ ms /\ DOMAIN acts' = DOMAIN acts
      /\ \A a \in DOMAIN acts :
           /\ acts[a].email \in ms => acts'[a].email = "none"
           /\ acts[a].email \notin ms => acts'[a] = acts[a]
  BY GoneEffect
<1>1. ASSUME NEW a \in ActsOf(m)' PROVE a \in ActsOf(m) /\ acts'[a] = acts[a]
  <2>1. a \in DOMAIN acts /\ acts'[a].email = m
    BY <1>0, <1>1, ActsPrimed
  <2> QED BY <1>0, <2>1, NamesApart DEF ActsOf
<1>2. ASSUME m \in rows', NEW a \in ActsOf(m) PROVE a \in ActsOf(m)' /\ acts'[a] = acts[a]
  <2>1. a \in DOMAIN acts' /\ acts'[a] = acts[a] /\ acts'[a].email = m
    BY <1>0, <1>2 DEF ActsOf
  <2> QED BY <2>1, ActsPrimed
<1>3. DOMAIN acts \subseteq DOMAIN acts' /\ (m \in rows' => m \in rows)
  BY <1>0
<1> QED BY <1>1, <1>2, <1>3 DEF ActsKept

(* A request that leaves the message where it is.                          *)
LEMMA QuietRequest ==
  ASSUME TypeOK, NEW m \in Message, MessageInv(m), asked'[m] = asked[m], ActsKept(m),
         NEW r \in Requests, Moves(r),
         r \in Concerned(m)' => r \in Concerned(m) /\ req'[r].pc \notin Undoing,
         m \in trash' => m \in trash, m \in flagged' => m \in flagged,
         used'.faults = 0 => used.faults = 0,
         ~(req[r].pc \in {"record", "executed"} /\ req[r].msg = m)
  PROVE  MessageInv(m)'
<1>1. \A s \in Requests \ {r} : req'[s] = req[s]
  BY DEF Moves
<1>2. Concerned(m)' \subseteq Concerned(m)
  BY <1>1 DEF Concerned
<1>3. \A s \in Concerned(m)' : req'[s].pc \in Undoing => req'[s] = req[s]
  BY <1>1 DEF Concerned
<1>4. Deleting(m) => Deleting(m)'
  BY <1>1 DEF Deleting
<1> QED BY <1>2, <1>3, <1>4, QuietStep DEF ActsKept

(* A request that takes the message a step further.                        *)
LEMMA ActiveStep ==
  ASSUME TypeOK, NEW m \in Message, MessageInv(m), asked'[m] = asked[m],
         NEW r \in Concerned(m), Moves(r), req[r].pc \notin Undoing, req'[r].pc \notin Undoing,
         Concerned(m)' \subseteq Concerned(m),
         \A a \in ActsOf(m)' : (a \in ActsOf(m) /\ acts'[a] = acts[a]) \/ acts'[a].status # "REVERTED",
         asked[m] = 1 => \A a \in ActsOf(m)' : acts'[a].status = "EXECUTED" => Concerned(m)' = {},
         asked[m] = 1 /\ used'.faults = 0 /\ m \in trash' /\ m \in rows' => Deleted(m)' \/ Deleting(m)'
  PROVE  MessageInv(m)'
<1>1. Fresh(m)'
  BY DEF MessageInv, Fresh
<1>2. Once(m)'
  BY DEF MessageInv, Once
<1>3. ASSUME asked[m] = 2
      PROVE  /\ \A s \in Concerned(m) : req[s].pc \notin Undoing
             /\ \A a \in ActsOf(m) : acts[a].status # "REVERTED"
  BY <1>3 DEF MessageInv, Twice
<1>4. ASSUME asked[m] = 2
      PROVE  /\ \A s \in Concerned(m)' : req'[s].pc \notin Undoing
             /\ \A a \in ActsOf(m)' : acts'[a].status # "REVERTED"
  BY <1>3, <1>4 DEF Moves, Concerned
<1>5. Twice(m)'
  BY <1>4 DEF Twice
<1> QED BY <1>1, <1>2, <1>5 DEF MessageInv

(* While one request has the message to deal with, nothing is recorded of  *)
(* it, and it is in the Trash only when that request has put it there.     *)
LEMMA NotYet ==
  ASSUME TypeOK, NEW m \in Message, MessageInv(m), asked[m] = 1, NEW r \in Concerned(m)
  PROVE  /\ \A s \in Concerned(m) : s = r
         /\ \A a \in ActsOf(m) : acts[a].status # "EXECUTED"
         /\ used.faults = 0 /\ m \in trash /\ m \in rows =>
              req[r].pc \in {"record", "executed"} /\ req[r].msg = m /\ req[r].kind = "DELETE"
<1>1. /\ \A s \in Concerned(m) : s = r
      /\ \A a \in ActsOf(m) : acts[a].status # "EXECUTED"
      /\ used.faults = 0 /\ m \in trash /\ m \in rows => Deleted(m) \/ Deleting(m)
  BY DEF MessageInv, Once
<1>2. ~Deleted(m)
  BY <1>1 DEF Deleted
<1>3. ASSUME NEW s \in Requests, req[s].pc \in {"record", "executed"}, req[s].msg = m, req[s].kind = "DELETE"
      PROVE  s = r
  BY <1>1, <1>3 DEF Concerned
<1> QED BY <1>1, <1>2, <1>3 DEF Deleting
-----------------------------------------------------------------------------
(* The requests keep their shape.                                          *)

LEMMA FreeNeat == Neat(Free)
BY FreeFields DEF Neat, Undoing

LEMMA NeatBatch ==
  ASSUME TypeOK, NEW r \in Requests, Neat(req[r]), User(r) \/ Batch(r) \/ Reversal(r)
  PROVE  Moves(r) /\ Neat(req'[r])
<1>0. req[r] \in Request
  BY TypeParts DEF ReqOK
<1>1. ASSUME NEW kind \in Kind, NEW ms \in SUBSET Message, Approve(r, kind, ms)
      PROVE  Moves(r) /\ Neat(req'[r])
  BY <1>1, ApproveEffect, NamesApart DEF Neat, Undoing
<1>2. ASSUME NEW a \in DOMAIN acts, Revert(r, a) PROVE Moves(r) /\ Neat(req'[r])
  BY <1>2, RevertEffect, NamesApart DEF Neat, Undoing
<1>3. ASSUME NEW m \in Message, Block(r, m) PROVE Moves(r) /\ Neat(req'[r])
  BY <1>3, BlockEffect, FreeNeat DEF Neat, Undoing
<1>4. ASSUME NEW m \in Message, AllFail(r, m) PROVE Moves(r) /\ Neat(req'[r])
  BY <1>4, AllFailEffect, FreeNeat DEF Neat, Undoing
<1>5. ASSUME NEW m \in Message, CallGmail(r, m) PROVE Moves(r) /\ Neat(req'[r])
  BY <1>5, CallEffect DEF Neat, Undoing
<1>6. CASE KeepAll(r)
  BY <1>6, KeepEffect, FreeNeat
<1>7. CASE Authenticate(r)
  BY <1>7, AuthenticateEffect DEF Neat, Undoing
<1>8. CASE RecordEmail(r)
  BY <1>8, RecordEmailEffect DEF Neat, Undoing
<1>9. CASE RecordAction(r)
  BY <1>0, <1>9, RecordActionEffect, FreeNeat, NamesApart DEF Neat, Undoing, Request
<1>10. CASE BatchEnds(r)
  BY <1>10, LeaveEffect, FreeNeat DEF BatchEnds
<1>11. CASE Restore(r)
  BY <1>11, RestoreEffect, FreeNeat DEF Neat, Undoing
<1>12. CASE Unflag(r)
  BY <1>12, UnflagEffect, FreeNeat DEF Neat, Undoing
<1>13. CASE MarkReverted(r)
  BY <1>13, MarkEffect, FreeNeat
<1> QED
  BY <1>1, <1>2, <1>3, <1>4, <1>5, <1>6, <1>7, <1>8, <1>9, <1>10, <1>11, <1>12, <1>13
     DEF User, Batch, Reversal, Kind

(* No step takes a decision back or gives an action another email.         *)
Onward ==
  /\ \A m \in Message : asked'[m] >= asked[m]
  /\ \A a \in DOMAIN acts : a \in DOMAIN acts' /\ acts'[a].email \in {acts[a].email, "none"}

LEMMA OnwardAsk == ASSUME TypeOK, NEW ms, Ask(ms), acts' = acts PROVE Onward
<1>1. asked \in [Message -> Nat]
  BY TypeParts DEF SetsOK
<1> QED BY <1>1, AskEffect DEF Onward

LEMMA OnwardWrites == ASSUME TypeOK, asked' = asked, acts' = acts \/ \E m \in Message : Writes(m) PROVE Onward
<1>1. asked \in [Message -> Nat]
  BY TypeParts DEF SetsOK
<1> QED BY <1>1 DEF Onward, Writes

LEMMA OnwardGone ==
  ASSUME TypeOK, NEW ms \in SUBSET Message, Gone(ms), asked' = asked \/ \E ns : Ask(ns)
  PROVE  Onward
<1>1. asked \in [Message -> Nat]
  BY TypeParts DEF SetsOK
<1>2. \A m \in Message : asked'[m] >= asked[m]
  BY <1>1, AskEffect
<1>3. \A a \in DOMAIN acts : a \in DOMAIN acts' /\ acts'[a].email \in {acts[a].email, "none"}
  BY GoneEffect
<1> QED BY <1>2, <1>3 DEF Onward
LEMMA OnwardNext == ASSUME TypeOK, [Next]_vars PROVE Onward
<1>0. asked \in [Message -> Nat]
  BY TypeParts DEF SetsOK
<1>1. ASSUME asked' = asked, DOMAIN acts' = DOMAIN acts,
             \A a \in DOMAIN acts : acts'[a].email = acts[a].email
      PROVE  Onward
  BY <1>0, <1>1 DEF Onward
<1>2. ASSUME NEW r \in Requests, User(r) PROVE Onward
  BY <1>2, OnwardAsk DEF User, Approve, Revert
<1>3. ASSUME NEW r \in Requests, NEW m \in Message, Block(r, m) PROVE Onward
  BY <1>3, BlockEffect, BlockedEffect, OnwardWrites
<1>4. ASSUME NEW r \in Requests, NEW m \in Message, AllFail(r, m) PROVE Onward
  <2>1. req[r].kind \in Kind /\ "FAILED" \in Status
    BY TypeParts DEF ReqOK, Request, Status
  <2> QED BY <1>4, <2>1, AllFailEffect, UpsertEffect, OnwardWrites
<1>5. ASSUME NEW r \in Requests, RecordAction(r) PROVE Onward
  <2>1. req[r].kind \in Kind /\ "FAILED" \in Status /\ "EXECUTED" \in Status
    BY TypeParts DEF ReqOK, Request, Status
  <2>2. req[r].msg \in Message /\ asked' = asked
    BY <1>5, RecordActionEffect
  <2>3. acts' = acts \/ Upsert(req[r].msg, req[r].kind, "EXECUTED") \/ Upsert(req[r].msg, req[r].kind, "FAILED")
    BY <1>5, RecordActionEffect
  <2> QED BY <2>1, <2>2, <2>3, UpsertEffect, OnwardWrites
<1>6. ASSUME NEW r \in Requests, KeepAll(r) \/ MarkReverted(r) PROVE Onward
  BY <1>1, <1>6, KeepEffect, MarkEffect
<1>7. ASSUME NEW r \in Requests,
             Authenticate(r) \/ RecordEmail(r) \/ BatchEnds(r) \/ Restore(r) \/ Unflag(r)
               \/ \E m \in Message : CallGmail(r, m)
      PROVE  Onward
  <2>1. acts' = acts /\ asked' = asked
    BY <1>7 DEF Authenticate, RecordEmail, BatchEnds, Restore, Unflag, CallGmail
  <2> QED BY <1>1, <2>1
<1>8. ASSUME NEW p \in Proposers, Propose(p) PROVE Onward
  <2>1. CASE CreateProposal(p)
    BY <2>1, ProposalEffect, OnwardWrites
  <2>2. CASE CheckOpen(p) \/ \E m \in Message : Candidate(p, m)
    <3>1. acts' = acts /\ asked' = asked
      BY <2>2 DEF CheckOpen, Candidate
    <3> QED BY <1>1, <3>1
  <2> QED BY <1>8, <2>1, <2>2 DEF Propose
<1>9. CASE SweepDeletes
  <2>1. doomed \in SUBSET Message /\ Gone(doomed) /\ asked' = asked
    BY <1>9, TypeParts DEF SweepDeletes, SetsOK
  <2> QED BY <2>1, OnwardGone
<1>10. CASE Purge
  <2>1. rows \in SUBSET Message /\ Gone(rows) /\ Ask({})
    BY <1>10, TypeParts DEF Purge, SetsOK
  <2> QED BY <2>1, OnwardGone
<1>11. CASE SweepSelects \/ Crash \/ UNCHANGED vars \/ \E m \in Message : Link(m)
  <2>1. acts' = acts /\ asked' = asked
    BY <1>11 DEF SweepSelects, Crash, vars, Link
  <2> QED BY <1>1, <2>1
<1> QED
  BY <1>2, <1>3, <1>4, <1>5, <1>6, <1>7, <1>8, <1>9, <1>10, <1>11 DEF Next, Batch, Reversal

(* A reversal that goes on has the same decision behind it.                *)
LEMMA BackedStays ==
  ASSUME TypeOK, TypeOK', NEW r \in Requests, Backed(r), Onward,
         req'[r].pc \in Undoing => req[r].pc \in Undoing /\ req'[r].msg = req[r].msg /\ req'[r].act = req[r].act
  PROVE  Backed(r)'
<1> SUFFICES ASSUME req'[r].pc \in Undoing
             PROVE  asked'[req[r].msg] >= 2 /\ acts'[req[r].act].email \in {req[r].msg, "none"}
  BY DEF Backed
<1>1. asked[req[r].msg] >= 2 /\ acts[req[r].act].email \in {req[r].msg, "none"}
  BY DEF Backed
<1>2. req[r].msg \in Message /\ req[r].act \in DOMAIN acts
  BY TypeParts DEF ReqOK, Undoing, Holding
<1>3. asked[req[r].msg] \in Nat /\ asked'[req[r].msg] >= asked[req[r].msg]
      /\ acts'[req[r].act].email \in {acts[req[r].act].email, "none"}
  BY <1>2, TypeParts DEF SetsOK, Onward
<1>4. asked'[req[r].msg] \in Nat
  BY <1>2 DEF TypeOK
<1>5. asked'[req[r].msg] >= 2
  BY <1>1, <1>3, <1>4
<1> QED BY <1>1, <1>3, <1>5
LEMMA ShapeNext ==
  ASSUME TypeOK, ShapeInv, \A m \in Message : MessageInv(m), [Next]_vars
  PROVE  ShapeInv'
<1>0. TypeOK' /\ Onward
  BY TypeNext, OnwardNext
<1>1. ASSUME NEW r \in Requests, req'[r] = req[r] PROVE Neat(req'[r]) /\ Backed(r)'
  BY <1>0, <1>1, BackedStays DEF ShapeInv
<1>2. ASSUME req' = req PROVE ShapeInv'
  BY <1>1, <1>2 DEF ShapeInv
<1>3. ASSUME NEW r \in Requests, User(r) \/ Batch(r) \/ Reversal(r) PROVE ShapeInv'
  <2>1. Moves(r) /\ Neat(req'[r])
    BY <1>3, NeatBatch DEF ShapeInv
  <2>2. \A s \in Requests \ {r} : Neat(req'[s]) /\ Backed(s)'
    BY <1>1, <2>1 DEF Moves
  <2>3. ASSUME req'[r].pc \in Undoing =>
                 req[r].pc \in Undoing /\ req'[r].msg = req[r].msg /\ req'[r].act = req[r].act
        PROVE  Backed(r)'
    BY <1>0, <2>3, BackedStays DEF ShapeInv
  <2>4. ASSUME req'[r] = Free PROVE Backed(r)'
    BY <2>4, FreeFields DEF Backed, Undoing
  <2>5. ASSUME NEW kind \in Kind, NEW ms \in SUBSET Message, Approve(r, kind, ms) PROVE Backed(r)'
    BY <2>5, ApproveEffect DEF Backed, Undoing
  <2>6. ASSUME NEW a \in DOMAIN acts, Revert(r, a) PROVE Backed(r)'
    <3>1. /\ req'[r].msg = acts[a].email /\ req'[r].act = a /\ acts' = acts /\ acts[a].email \in Message
          /\ Ask({acts[a].email}) /\ acts[a].status = "EXECUTED"
      BY <2>6, RevertEffect
    <3>2. PICK m \in Message : m = acts[a].email
      BY <3>1
    <3>3. asked[m] # 0
      BY <3>1, <3>2 DEF MessageInv, Fresh, ActsOf
    <3>4. asked[m] \in Nat /\ asked'[m] = asked[m] + 1
      BY <3>1, <3>2, AskEffect, TypeParts DEF SetsOK
    <3>5. asked'[m] >= 2
      BY <3>3, <3>4
    <3> QED BY <3>1, <3>2, <3>5 DEF Backed
  <2>7. ASSUME NEW m \in Message, Block(r, m) \/ AllFail(r, m) \/ CallGmail(r, m) PROVE Backed(r)'
    <3>1. req'[r] = Free \/ req'[r].pc \notin Undoing
      BY <2>7, BlockEffect, AllFailEffect, CallEffect DEF Undoing
    <3> QED BY <2>4, <3>1 DEF Backed
  <2>8. ASSUME KeepAll(r) \/ BatchEnds(r) \/ MarkReverted(r) PROVE Backed(r)'
    BY <2>4, <2>8, KeepEffect, MarkEffect, LeaveEffect DEF BatchEnds
  <2>9. ASSUME Authenticate(r) \/ RecordEmail(r) \/ RecordAction(r) PROVE Backed(r)'
    BY <2>4, <2>9, AuthenticateEffect, RecordEmailEffect, RecordActionEffect DEF Backed, Undoing
  <2>10. ASSUME Restore(r) \/ Unflag(r) PROVE Backed(r)'
    BY <2>3, <2>4, <2>10, RestoreEffect, UnflagEffect DEF Undoing
  <2>11. Backed(r)'
    BY <1>3, <2>5, <2>6, <2>7, <2>8, <2>9, <2>10 DEF User, Batch, Reversal, Kind
  <2> QED BY <2>1, <2>2, <2>11 DEF ShapeInv
<1>4. CASE Crash
  <2>1. ASSUME NEW r \in Requests PROVE Neat(req'[r]) /\ Backed(r)'
    <3>1. CASE req'[r] = Free
      BY <3>1, FreeNeat, FreeFields DEF Backed, Undoing
    <3>2. CASE req'[r] = req[r]
      BY <1>1, <3>2
    <3> QED BY <1>4, <3>1, <3>2 DEF Crash
  <2> QED BY <2>1 DEF ShapeInv
<1>5. CASE \/ SweepSelects \/ SweepDeletes \/ Purge \/ UNCHANGED vars
           \/ (\E p \in Proposers : Propose(p)) \/ (\E m \in Message : Link(m))
  BY <1>2, <1>5 DEF SweepSelects, SweepDeletes, Purge, vars, Propose, Candidate, CheckOpen, CreateProposal, Link
<1> QED BY <1>3, <1>4, <1>5 DEF Next
-----------------------------------------------------------------------------
(* What a message goes through, action by action.                          *)

LEMMA MessageAsked ==
  ASSUME TypeOK, ShapeInv, NEW m \in Message, MessageInv(m), NEW r \in Requests, Moves(r),
         asked'[m] = asked[m] + 1, acts' = acts, trash' = trash, asked[m] = 0 \/ asked[m] >= 1,
         asked[m] = 1 /\ req'[r].pc \in Undoing =>
           /\ Concerned(m) = {} /\ req'[r].pc = "restore" /\ acts[req'[r].act].type = req'[r].kind,
         asked[m] = 0 => req'[r].pc \notin Undoing
  PROVE  MessageInv(m)'
<1>0. asked[m] \in Nat /\ ActsOf(m)' = ActsOf(m)
  BY TypeParts DEF SetsOK, ActsOf
<1>1. Fresh(m)'
  BY <1>0 DEF Fresh
<1>2. Concerned(m)' \subseteq Concerned(m) \cup {r}
  BY DEF Concerned, Moves
<1>3. ASSUME asked[m] = 0 PROVE Once(m)'
  <2>1. Concerned(m) = {} /\ m \notin trash /\ (\A a \in ActsOf(m) : acts[a].status \in {"PROPOSED", "BLOCKED"})
    BY <1>3 DEF MessageInv, Fresh
  <2> QED BY <1>0, <1>2, <2>1 DEF Once
<1>4. ASSUME asked[m] # 0 PROVE Once(m)'
  BY <1>0, <1>4 DEF Once
<1>5. ASSUME asked[m] # 1 PROVE Twice(m)'
  BY <1>0, <1>5 DEF Twice
<1>6. ASSUME asked[m] = 1 PROVE Twice(m)'
  <2>1. \A a \in ActsOf(m) : acts[a].status # "REVERTED"
    BY <1>6 DEF MessageInv, Once
  <2>2. ASSUME NEW s \in Concerned(m)', req'[s].pc \in Undoing PROVE s = r
    <3>1. SUFFICES ASSUME s # r PROVE FALSE
      OBVIOUS
    <3>2. s \in Concerned(m) /\ req'[s] = req[s]
      BY <1>2, <3>1, <2>2 DEF Moves, Concerned
    <3>3. s \in Requests /\ req[s].msg = m /\ asked[m] >= 2
      BY <2>2, <3>2 DEF ShapeInv, Neat, Backed, Concerned, Undoing
    <3> QED BY <1>6, <3>3
  <2>3. ASSUME NEW s \in Concerned(m)', req'[s].pc \in Undoing
        PROVE  /\ \A q \in Concerned(m)' : q = s
               /\ req'[s].pc = "restore"
               /\ acts'[req'[s].act].type = req'[s].kind
    BY <1>2, <1>6, <2>2, <2>3
  <2> QED BY <1>0, <2>1, <2>3 DEF Twice
<1> QED BY <1>1, <1>3, <1>4, <1>5, <1>6 DEF MessageInv

LEMMA MessageUser ==
  ASSUME TypeOK, ShapeInv, NEW m \in Message, MessageInv(m), NEW r \in Requests, User(r)
  PROVE  MessageInv(m)'
<1>0. asked[m] \in Nat
  BY TypeParts DEF SetsOK
<1>1. ASSUME NEW kind \in Kind, NEW ms \in SUBSET Message, Approve(r, kind, ms) PROVE MessageInv(m)'
  <2>1. /\ Moves(r) /\ req'[r].pc = "block" /\ req[r].pc = "idle"
        /\ req'[r].bad = ms \cap linked /\ req'[r].todo = (ms \cap rows) \ linked /\ req'[r].msg = "none"
        /\ acts' = acts /\ rows' = rows /\ trash' = trash /\ flagged' = flagged
    BY <1>1, ApproveEffect
  <2>2. used'.faults = used.faults /\ asked'[m] = IF m \in ms THEN asked[m] + 1 ELSE asked[m]
    BY <1>1, ApproveEffect, AskEffect
  <2>3. CASE m \in ms
    BY <1>0, <2>1, <2>2, <2>3, MessageAsked DEF Undoing
  <2>4. CASE m \notin ms
    <3>1. r \notin Concerned(m)'
      BY <2>1, <2>4, NamesApart DEF Concerned
    <3> QED BY <2>1, <2>2, <2>4, <3>1, KeptWhenUnchanged, QuietRequest
  <2> QED BY <2>3, <2>4
<1>2. ASSUME NEW a \in DOMAIN acts, Revert(r, a) PROVE MessageInv(m)'
  <2>1. /\ Moves(r) /\ req'[r].pc = "restore" /\ req[r].pc = "idle" /\ req'[r].act = a
        /\ req'[r].bad = {} /\ req'[r].todo = {} /\ req'[r].msg = acts[a].email /\ req'[r].kind = acts[a].type
        /\ acts[a].status = "EXECUTED" /\ Ask({acts[a].email})
        /\ acts' = acts /\ rows' = rows /\ trash' = trash /\ flagged' = flagged
    BY <1>2, RevertEffect
  <2>2. used'.faults = used.faults /\ asked'[m] = IF m \in {acts[a].email} THEN asked[m] + 1 ELSE asked[m]
    BY <2>1, AskEffect
  <2>3. ASSUME m = acts[a].email PROVE MessageInv(m)'
    <3>1. a \in ActsOf(m)
      BY <2>3 DEF ActsOf
    <3>2. asked[m] # 0
      BY <2>1, <3>1 DEF MessageInv, Fresh
    <3>3. asked[m] = 1 => Concerned(m) = {}
      BY <2>1, <3>1 DEF MessageInv, Once
    <3> QED BY <1>0, <2>1, <2>2, <2>3, <3>2, <3>3, MessageAsked
  <2>4. ASSUME m # acts[a].email PROVE MessageInv(m)'
    <3>1. r \notin Concerned(m)'
      BY <2>1, <2>4 DEF Concerned
    <3> QED BY <2>1, <2>2, <2>4, <3>1, KeptWhenUnchanged, QuietRequest
  <2> QED BY <2>3, <2>4
<1> QED BY <1>1, <1>2 DEF User, Kind
(* A record about the message that says neither EXECUTED nor REVERTED.     *)
LEMMA MessageMissed ==
  ASSUME TypeOK, NEW m \in Message, MessageInv(m), asked' = asked, rows' = rows, trash' = trash, used' = used,
         NEW r \in Concerned(m), Moves(r), Concerned(m)' \subseteq Concerned(m),
         req[r].pc \notin {"record", "executed"} \cup Undoing, req'[r].pc \notin Undoing,
         \A a \in ActsOf(m)' : \/ a \in ActsOf(m) /\ acts'[a] = acts[a]
                               \/ acts'[a].status \in {"BLOCKED", "SKIPPED", "FAILED"}
  PROVE  MessageInv(m)'
<1>1. ASSUME asked[m] = 1 PROVE \A a \in ActsOf(m)' : acts'[a].status # "EXECUTED"
  BY <1>1, NotYet
<1>2. ASSUME asked[m] = 1 PROVE ~(used'.faults = 0 /\ m \in trash' /\ m \in rows')
  BY <1>2, NotYet
<1> QED BY <1>1, <1>2, ActiveStep

LEMMA MessageBlock ==
  ASSUME TypeOK, ShapeInv, NEW m \in Message, MessageInv(m), NEW r \in Requests,
         NEW n \in Message, Block(r, n) \/ AllFail(r, n)
  PROVE  MessageInv(m)'
<1>1. /\ Moves(r) /\ req[r].pc \in {"block", "failing"} /\ n \in req[r].todo \cup req[r].bad
      /\ asked' = asked /\ rows' = rows /\ trash' = trash /\ flagged' = flagged /\ used' = used
      /\ \/ /\ req'[r].pc \in {"block", "failing"} /\ req'[r].todo \subseteq req[r].todo
            /\ req'[r].bad \subseteq req[r].bad /\ req'[r].msg = req[r].msg
         \/ req'[r] = Free
  BY BlockEffect, AllFailEffect
<1>2. Concerned(m)' \subseteq Concerned(m)
  BY <1>1, FreeFields, NamesApart DEF Concerned, Moves
<1>3. req'[r].pc \notin Undoing
  BY <1>1, FreeFields DEF Undoing
<1>4. \/ acts' = acts
      \/ /\ Writes(n)
         /\ \A a \in DOMAIN acts' :
              (a \in DOMAIN acts /\ acts'[a] = acts[a]) \/ acts'[a].status \in {"BLOCKED", "FAILED"}
  <2>1. req[r].kind \in Kind /\ "FAILED" \in Status
    BY TypeParts DEF ReqOK, Request, Status
  <2> QED BY <2>1, BlockEffect, AllFailEffect, BlockedEffect, UpsertEffect
<1>5. CASE n = m
  <2>1. r \in Concerned(m)
    BY <1>1, <1>5 DEF Concerned
  <2>2. \A a \in ActsOf(m)' : \/ a \in ActsOf(m) /\ acts'[a] = acts[a]
                              \/ acts'[a].status \in {"BLOCKED", "SKIPPED", "FAILED"}
    BY <1>4, ActsPrimed DEF ActsOf
  <2>3. req[r].pc \notin {"record", "executed"} \cup Undoing
    BY <1>1 DEF Undoing
  <2> QED BY <1>1, <1>2, <1>3, <2>1, <2>2, <2>3, MessageMissed
<1>6. CASE n # m
  <2>1. ActsKept(m)
    BY <1>1, <1>4, <1>6, KeptWhenUnchanged, KeptByWrites
  <2> QED BY <1>1, <1>2, <1>3, <2>1, QuietRequest
<1> QED BY <1>5, <1>6

LEMMA MessageKeep ==
  ASSUME TypeOK, ShapeInv, NEW m \in Message, MessageInv(m), NEW r \in Requests, KeepAll(r)
  PROVE  MessageInv(m)'
<1>1. /\ Moves(r) /\ req[r].pc = "block" /\ req'[r] = Free /\ DOMAIN acts' = DOMAIN acts
      /\ asked' = asked /\ rows' = rows /\ trash' = trash /\ flagged' = flagged /\ used' = used
      /\ \A a \in DOMAIN acts :
           /\ acts'[a].email = acts[a].email
           /\ acts'[a] = acts[a] \/ (acts[a].email \in req[r].todo /\ acts'[a].status = "SKIPPED")
  BY KeepEffect
<1>2. Concerned(m)' \subseteq Concerned(m)
  BY <1>1, FreeFields, NamesApart DEF Concerned, Moves
<1>3. req'[r].pc \notin Undoing
  BY <1>1, FreeFields DEF Undoing
<1>4. ActsOf(m)' = ActsOf(m)
  BY <1>1 DEF ActsOf
<1>5. CASE m \in req[r].todo
  <2>1. r \in Concerned(m)
    BY <1>5 DEF Concerned
  <2>2. \A a \in ActsOf(m)' : \/ a \in ActsOf(m) /\ acts'[a] = acts[a]
                              \/ acts'[a].status \in {"BLOCKED", "SKIPPED", "FAILED"}
    BY <1>1, <1>4 DEF ActsOf
  <2>3. req[r].pc \notin {"record", "executed"} \cup Undoing
    BY <1>1 DEF Undoing
  <2> QED BY <1>1, <1>2, <1>3, <2>1, <2>2, <2>3, MessageMissed
<1>6. CASE m \notin req[r].todo
  <2>1. \A a \in ActsOf(m) : acts'[a] = acts[a]
    BY <1>1, <1>6 DEF ActsOf
  <2>2. ActsKept(m)
    BY <1>1, <1>4, <2>1 DEF ActsKept
  <2> QED BY <1>1, <1>2, <1>3, <2>2, QuietRequest
<1> QED BY <1>5, <1>6

LEMMA MessageCall ==
  ASSUME TypeOK, ShapeInv, NEW m \in Message, MessageInv(m), NEW r \in Requests,
         NEW n \in Message, CallGmail(r, n)
  PROVE  MessageInv(m)'
<1>1. /\ Moves(r) /\ req[r].pc = "go" /\ n \in req[r].todo
      /\ req'[r].kind = req[r].kind /\ req'[r].bad = req[r].bad
      /\ req'[r].todo = req[r].todo \ {n} /\ req'[r].msg = n
      /\ \/ req'[r].pc \in {"record", "executed"} /\ used' = used
         \/ req'[r].pc = "failed" /\ Fault
      /\ trash' = trash \/ (trash' = trash \cup {n} /\ req[r].kind = "DELETE")
      /\ rows' = rows /\ flagged' = flagged /\ acts' = acts /\ asked' = asked
  BY CallEffect
<1>2. req[r].msg = "none" /\ req'[r].pc \notin Undoing
  BY <1>1 DEF ShapeInv, Neat, Undoing
<1>3. Concerned(m)' \subseteq Concerned(m)
  BY <1>1 DEF Concerned, Moves
<1>4. used'.faults = 0 => used' = used /\ req'[r].pc \in {"record", "executed"}
  BY <1>1, FaultEffect
<1>5. CASE n = m
  <2>1. r \in Concerned(m) /\ req[r].pc \notin Undoing
    BY <1>1, <1>5 DEF Concerned, Undoing
  <2>2. ActsOf(m)' = ActsOf(m)
    BY <1>1 DEF ActsOf
  <2>3. ASSUME asked[m] = 1 PROVE \A a \in ActsOf(m)' : acts'[a].status # "EXECUTED"
    BY <1>1, <2>1, <2>2, <2>3, NotYet
  <2>4. ASSUME asked[m] = 1, used'.faults = 0, m \in trash', m \in rows' PROVE Deleting(m)'
    <3>1. m \notin trash
      BY <1>1, <1>4, <2>1, <2>4, NotYet
    <3> QED BY <1>1, <1>4, <1>5, <2>4, <3>1 DEF Deleting
  <2> QED BY <1>1, <1>2, <1>3, <2>1, <2>2, <2>3, <2>4, ActiveStep
<1>6. CASE n # m
  <2>1. ActsKept(m)
    BY <1>1, KeptWhenUnchanged
  <2> QED BY <1>1, <1>2, <1>3, <1>4, <1>6, <2>1, QuietRequest
<1> QED BY <1>5, <1>6
LEMMA MessageRecordEmail ==
  ASSUME TypeOK, ShapeInv, NEW m \in Message, MessageInv(m), NEW r \in Requests, RecordEmail(r)
  PROVE  MessageInv(m)'
<1>1. /\ Moves(r) /\ req[r].pc = "record" /\ req[r].msg \in Message
      /\ req'[r].kind = req[r].kind /\ req'[r].bad = req[r].bad
      /\ req'[r].todo = req[r].todo /\ req'[r].msg = req[r].msg
      /\ \/ req'[r].pc = "executed" /\ used' = used
         \/ req'[r].pc = "failed" /\ Fault
         \/ req'[r].pc = "failed" /\ req[r].msg \notin rows /\ used' = used
      /\ flagged' = flagged \/ (flagged' = flagged \cup {req[r].msg} /\ req[r].msg \in rows)
      /\ trash' = trash /\ rows' = rows /\ acts' = acts /\ asked' = asked
  BY RecordEmailEffect
<1>2. req[r].pc \notin Undoing /\ req'[r].pc \notin Undoing
  BY <1>1 DEF Undoing
<1>3. Concerned(m)' \subseteq Concerned(m)
  BY <1>1 DEF Concerned, Moves
<1>4. used'.faults = 0 => used' = used
  BY <1>1, FaultEffect
<1>5. ASSUME req[r].msg = m PROVE MessageInv(m)'
  <2>1. r \in Concerned(m)
    BY <1>5 DEF Concerned
  <2>2. ActsOf(m)' = ActsOf(m)
    BY <1>1 DEF ActsOf
  <2>3. ASSUME asked[m] = 1 PROVE \A a \in ActsOf(m)' : acts'[a].status # "EXECUTED"
    BY <1>1, <2>1, <2>2, <2>3, NotYet
  <2>4. ASSUME asked[m] = 1, used'.faults = 0, m \in trash', m \in rows' PROVE Deleting(m)'
    <3>1. req[r].kind = "DELETE"
      BY <1>1, <1>4, <2>1, <2>4, NotYet
    <3>2. req'[r].pc = "executed"
      BY <1>1, <1>5, <2>4, FaultEffect
    <3> QED BY <1>1, <1>5, <3>1, <3>2 DEF Deleting
  <2> QED BY <1>1, <1>2, <1>3, <2>1, <2>2, <2>3, <2>4, ActiveStep
<1>6. ASSUME req[r].msg # m PROVE MessageInv(m)'
  <2>1. ActsKept(m)
    BY <1>1, KeptWhenUnchanged
  <2> QED BY <1>1, <1>2, <1>3, <1>4, <1>6, <2>1, QuietRequest
<1> QED BY <1>5, <1>6

LEMMA MessageRecordAction ==
  ASSUME TypeOK, ShapeInv, NEW m \in Message, MessageInv(m), NEW r \in Requests, RecordAction(r)
  PROVE  MessageInv(m)'
<1>0. PICK status \in {"EXECUTED", "FAILED"} :
        status = IF req[r].pc = "executed" THEN "EXECUTED" ELSE "FAILED"
  OBVIOUS
<1>1. /\ Moves(r) /\ req[r].pc \in {"executed", "failed"} /\ req[r].msg \in Message
      /\ \/ /\ Upsert(req[r].msg, req[r].kind, status)
            /\ req'[r].pc = "go" /\ req'[r].msg = "none" /\ req'[r].bad = req[r].bad
            /\ req'[r].todo = req[r].todo /\ used' = used
         \/ /\ req'[r].pc = "failed" /\ Fault /\ acts' = acts
            /\ req'[r].bad = req[r].bad /\ req'[r].todo = req[r].todo /\ req'[r].msg = req[r].msg
         \/ req'[r] = Free /\ acts' = acts /\ used' = used /\ req[r].msg \notin rows
      /\ trash' = trash /\ rows' = rows /\ flagged' = flagged /\ asked' = asked
  BY <1>0, RecordActionEffect
<1>2. req[r].pc \notin Undoing /\ req'[r].pc \notin Undoing
  BY <1>1, FreeFields DEF Undoing
<1>3. Concerned(m)' \subseteq Concerned(m)
  BY <1>1, FreeFields, NamesApart DEF Concerned, Moves
<1>4. used'.faults = 0 => used' = used
  BY <1>1, FaultEffect
<1>5. req[r].msg \notin req[r].todo /\ req[r].bad = {} /\ req[r].kind \in Kind
  BY <1>1, TypeParts DEF ShapeInv, Neat, ReqOK, Request
<1>6. ASSUME Upsert(req[r].msg, req[r].kind, status)
      PROVE  /\ Writes(req[r].msg)
             /\ \A a \in DOMAIN acts' :
                  (a \in DOMAIN acts /\ acts'[a] = acts[a]) \/ (acts'[a].status = status /\ acts'[a].type = req[r].kind)
             /\ \E a \in DOMAIN acts' :
                  acts'[a].email = req[r].msg /\ acts'[a].status = status /\ acts'[a].type = req[r].kind
  <2>1. status \in Status
    BY <1>0 DEF Status
  <2> QED BY <1>1, <1>5, <1>6, <2>1, UpsertEffect
<1>7. ASSUME req[r].msg = m PROVE MessageInv(m)'
  <2>1. r \in Concerned(m)
    BY <1>7 DEF Concerned
  <2>2. \A a \in ActsOf(m)' : (a \in ActsOf(m) /\ acts'[a] = acts[a]) \/ acts'[a].status = status
    <3>1. CASE acts' = acts
      BY <3>1 DEF ActsOf
    <3>2. CASE Upsert(req[r].msg, req[r].kind, status)
      BY <1>6, <3>2, ActsPrimed DEF ActsOf
    <3> QED BY <1>1, <3>1, <3>2
  <2>3. ASSUME asked[m] = 1, NEW a \in ActsOf(m)', acts'[a].status = "EXECUTED" PROVE Concerned(m)' = {}
    <3>1. \A s \in Concerned(m) : s = r
      BY <2>1, <2>3, NotYet
    <3>2. Upsert(req[r].msg, req[r].kind, status)
      <4>1. SUFFICES ASSUME acts' = acts PROVE FALSE
        BY <1>1
      <4>2. a \in ActsOf(m) /\ acts[a].status = "EXECUTED"
        BY <2>3, <4>1 DEF ActsOf
      <4> QED BY <2>1, <2>3, <4>2, NotYet
    <3>3. ASSUME r \in Concerned(m)' PROVE FALSE
      <4>1. req'[r] = Free \/ m \in req'[r].todo \cup req'[r].bad \cup {req'[r].msg}
        BY <3>3 DEF Concerned
      <4>2. req'[r].pc # "failed"
        <5>1. SUFFICES ASSUME req'[r].pc = "failed", acts' = acts PROVE FALSE
          BY <1>1, FreeFields
        <5>2. a \in ActsOf(m) /\ acts[a].status = "EXECUTED"
          BY <2>3, <5>1 DEF ActsOf
        <5> QED BY <2>1, <2>3, <5>2, NotYet
      <4>3. m \in req'[r].todo \cup req'[r].bad \cup {req'[r].msg}
        BY <3>3 DEF Concerned
      <4> QED BY <1>1, <1>5, <1>7, <4>2, <4>3, FreeFields, NamesApart
    <3> QED BY <1>3, <3>1, <3>3
  <2>4. ASSUME asked[m] = 1, used'.faults = 0, m \in trash', m \in rows' PROVE Deleted(m)'
    <3>1. req[r].pc = "executed" /\ req[r].kind = "DELETE"
      BY <1>1, <1>4, <2>1, <2>4, NotYet
    <3>2. status = "EXECUTED"
      BY <1>0, <3>1
    <3>3. Upsert(req[r].msg, req[r].kind, status)
      BY <1>1, <1>7, <2>4, FaultEffect
    <3>4. \E a \in DOMAIN acts' : acts'[a].email = m /\ acts'[a].status = "EXECUTED" /\ acts'[a].type = "DELETE"
      BY <1>6, <1>7, <3>1, <3>2, <3>3
    <3> QED BY <3>4, ActsPrimed DEF Deleted
  <2>5. \A a \in ActsOf(m)' : (a \in ActsOf(m) /\ acts'[a] = acts[a]) \/ acts'[a].status # "REVERTED"
    BY <2>2
  <2> QED BY <1>1, <1>2, <1>3, <2>1, <2>3, <2>4, <2>5, ActiveStep
<1>8. ASSUME req[r].msg # m PROVE MessageInv(m)'
  <2>1. ActsKept(m)
    BY <1>1, <1>6, <1>8, KeptWhenUnchanged, KeptByWrites
  <2> QED BY <1>1, <1>2, <1>3, <1>4, <1>8, <2>1, QuietRequest
<1> QED BY <1>7, <1>8
LEMMA MessageAuthenticate ==
  ASSUME TypeOK, NEW m \in Message, MessageInv(m), NEW r \in Requests, Authenticate(r)
  PROVE  MessageInv(m)'
<1>1. /\ Moves(r) /\ req[r].pc = "block" /\ req'[r].pc \in {"go", "failing"}
      /\ req'[r].bad = req[r].bad /\ req'[r].todo = req[r].todo /\ req'[r].msg = req[r].msg
      /\ used' = used \/ Fault
      /\ rows' = rows /\ acts' = acts /\ asked' = asked /\ trash' = trash /\ flagged' = flagged
  BY AuthenticateEffect
<1>2. r \in Concerned(m)' => r \in Concerned(m) /\ req'[r].pc \notin Undoing
  BY <1>1 DEF Concerned, Undoing
<1>3. ActsKept(m) /\ (used'.faults = 0 => used.faults = 0)
  BY <1>1, KeptWhenUnchanged, FaultEffect
<1> QED BY <1>1, <1>2, <1>3, QuietRequest

LEMMA MessageBatchEnds ==
  ASSUME TypeOK, NEW m \in Message, MessageInv(m), NEW r \in Requests, BatchEnds(r)
  PROVE  MessageInv(m)'
<1>1. /\ Moves(r) /\ req[r].pc \in {"go", "failing"} /\ req'[r] = Free
      /\ rows' = rows /\ acts' = acts /\ asked' = asked /\ trash' = trash /\ flagged' = flagged /\ used' = used
  BY LeaveEffect DEF BatchEnds
<1>2. r \notin Concerned(m)'
  BY <1>1, FreeFields, NamesApart DEF Concerned
<1>3. ActsKept(m)
  BY <1>1, KeptWhenUnchanged
<1> QED BY <1>1, <1>2, <1>3, QuietRequest

(* A reversal of the message.                                              *)
LEMMA ReversalStep ==
  ASSUME TypeOK, ShapeInv, NEW m \in Message, MessageInv(m), asked'[m] = asked[m],
         NEW r \in Requests, Moves(r), req[r].pc \in Undoing, req[r].msg = m,
         Concerned(m)' \subseteq Concerned(m),
         \A a \in ActsOf(m)' : a \in ActsOf(m) /\ acts'[a].type = acts[a].type,
         \/ /\ req'[r].act = req[r].act /\ req'[r].kind = req[r].kind /\ acts' = acts
            /\ asked[m] = 2 /\ req[r].kind = "DELETE" /\ req'[r].pc \in {"unflag", "mark"} => m \notin trash'
            /\ asked[m] = 2 /\ req[r].kind = "DELETE" /\ req'[r].pc = "mark" => m \notin flagged'
         \/ req'[r] = Free /\ acts' = acts
         \/ /\ req'[r] = Free
            /\ \A a \in ActsOf(m) :
                 a = req[r].act \/ acts'[a] = acts[a]
            /\ asked[m] = 2 /\ req[r].kind = "DELETE" => m \notin trash' \cup flagged'
  PROVE  MessageInv(m)'
<1>1. asked[m] \in Nat /\ asked[m] >= 2
  BY TypeParts DEF SetsOK, ShapeInv, Backed
<1>2. Fresh(m)' /\ Once(m)'
  BY <1>1 DEF Fresh, Once
<1>3. ASSUME asked[m] = 2 PROVE Twice(m)'
  <2>1. r \in Concerned(m)
    BY DEF Concerned
  <2>2. /\ \A s \in Concerned(m) : s = r
        /\ \A a \in ActsOf(m) : acts[a].status # "REVERTED"
        /\ acts[req[r].act].email = m => acts[req[r].act].type = req[r].kind
    BY <1>3, <2>1 DEF MessageInv, Twice
  <2>3. ASSUME req'[r] = Free PROVE Concerned(m)' = {}
    <3>1. r \notin Concerned(m)'
      BY <2>3, FreeFields, NamesApart DEF Concerned
    <3> QED BY <2>2, <3>1
  <2>4. CASE req'[r] = Free /\ acts' = acts
    BY <2>2, <2>3, <2>4 DEF Twice
  <2>5. CASE /\ req'[r] = Free
             /\ \A a \in ActsOf(m) :
                  a = req[r].act \/ acts'[a] = acts[a]
             /\ asked[m] = 2 /\ req[r].kind = "DELETE" => m \notin trash' \cup flagged'
    <3>1. ASSUME NEW a \in ActsOf(m)', acts'[a].status = "REVERTED", acts'[a].type = "DELETE"
          PROVE  m \notin trash' \cup flagged'
      <4>1. a \in ActsOf(m) /\ acts[a].type = "DELETE" /\ acts'[a] # acts[a]
        BY <2>2, <3>1
      <4>2. a = req[r].act /\ acts[a].email = m
        BY <2>5, <4>1 DEF ActsOf
      <4> QED BY <1>3, <2>2, <2>5, <4>1, <4>2
    <3> QED BY <2>3, <2>5, <3>1 DEF Twice
  <2>6. CASE /\ req'[r].act = req[r].act /\ req'[r].kind = req[r].kind /\ acts' = acts
             /\ asked[m] = 2 /\ req[r].kind = "DELETE" /\ req'[r].pc \in {"unflag", "mark"} => m \notin trash'
             /\ asked[m] = 2 /\ req[r].kind = "DELETE" /\ req'[r].pc = "mark" => m \notin flagged'
    BY <1>3, <2>2, <2>6 DEF Twice
  <2> QED BY <2>4, <2>5, <2>6
<1>4. ASSUME asked[m] # 2 PROVE Twice(m)'
  BY <1>4 DEF Twice
<1> QED BY <1>2, <1>3, <1>4 DEF MessageInv

LEMMA MessageReversal ==
  ASSUME TypeOK, ShapeInv, NEW m \in Message, MessageInv(m), NEW r \in Requests, Reversal(r)
  PROVE  MessageInv(m)'
<1>1. /\ Moves(r) /\ req[r].pc \in Undoing /\ req[r].msg \in Message /\ req[r].act \in DOMAIN acts
      /\ rows' = rows /\ asked' = asked
  BY RestoreEffect, UnflagEffect, MarkEffect, TypeParts DEF Reversal, Undoing, ReqOK
<1>2. /\ req[r].todo = {} /\ req[r].bad = {} /\ asked[req[r].msg] >= 2
      /\ acts[req[r].act].email \in {req[r].msg, "none"}
  BY <1>1 DEF ShapeInv, Neat, Backed, Undoing
<1>3. req'[r] = Free \/ (/\ req'[r].todo = {} /\ req'[r].bad = {} /\ req'[r].msg = req[r].msg
                         /\ req'[r].act = req[r].act /\ req'[r].kind = req[r].kind)
  BY <1>2, RestoreEffect, UnflagEffect, MarkEffect DEF Reversal
<1>4. Concerned(m)' \subseteq Concerned(m)
  BY <1>1, <1>3, FreeFields, NamesApart DEF Concerned, Moves
<1>5. /\ trash' \subseteq trash /\ flagged' \subseteq flagged /\ (used' = used \/ Fault)
  BY RestoreEffect, UnflagEffect, MarkEffect DEF Reversal
<1>6. CASE req[r].msg # m
  <2>1. r \notin Concerned(m)'
    BY <1>2, <1>3, <1>6, FreeFields, NamesApart DEF Concerned
  <2>2. ActsKept(m)
    <3>1. CASE acts' = acts
      BY <1>1, <3>1, KeptWhenUnchanged
    <3>2. CASE MarkReverted(r)
      <4>1. /\ DOMAIN acts' = DOMAIN acts
            /\ \A a \in DOMAIN acts : acts'[a].email = acts[a].email /\ (a # req[r].act => acts'[a] = acts[a])
        BY <3>2, MarkEffect
      <4>2. ActsOf(m)' = ActsOf(m)
        BY <4>1 DEF ActsOf
      <4>3. \A a \in ActsOf(m) : acts'[a] = acts[a]
        BY <1>2, <1>6, <4>1, NamesApart DEF ActsOf
      <4> QED BY <1>1, <4>1, <4>2, <4>3 DEF ActsKept
    <3> QED BY <3>1, <3>2, RestoreEffect, UnflagEffect DEF Reversal
  <2> QED BY <1>1, <1>5, <1>6, <2>1, <2>2, FaultEffect, QuietRequest
<1>7. CASE req[r].msg = m
  <2>1. r \in Concerned(m)
    BY <1>7 DEF Concerned
  <2>2. ASSUME asked[m] = 2, req[r].kind = "DELETE"
        PROVE  /\ req[r].pc \in {"unflag", "mark"} => m \notin trash
               /\ req[r].pc = "mark" => m \notin flagged
    BY <1>1, <2>1, <2>2 DEF MessageInv, Twice
  <2>3. ASSUME acts' = acts PROVE \A a \in ActsOf(m)' : a \in ActsOf(m) /\ acts'[a].type = acts[a].type
    BY <2>3 DEF ActsOf
  <2>4. ASSUME req'[r] = Free, acts' = acts PROVE MessageInv(m)'
    BY <1>1, <1>4, <1>7, <2>3, <2>4, ReversalStep
  <2>5. ASSUME Restore(r) PROVE MessageInv(m)'
    <3>1. acts' = acts /\ (\/ req'[r] = Free
                           \/ /\ req'[r].kind = req[r].kind /\ req'[r].act = req[r].act
                              /\ req'[r].pc = IF req[r].kind = "DELETE" THEN "unflag" ELSE "mark"
                              /\ req[r].kind = "DELETE" => trash' = trash \ {req[r].msg})
      BY <2>5, RestoreEffect
    <3>2. ASSUME req'[r] # Free PROVE MessageInv(m)'
      BY <1>1, <1>4, <1>7, <2>3, <3>1, <3>2, ReversalStep
    <3> QED BY <2>4, <3>1, <3>2
  <2>6. ASSUME Unflag(r) PROVE MessageInv(m)'
    <3>1. /\ acts' = acts /\ trash' = trash /\ req[r].pc = "unflag"
          /\ \/ req'[r] = Free
             \/ /\ flagged' = flagged \ {req[r].msg} /\ req'[r].pc = "mark"
                /\ req'[r].kind = req[r].kind /\ req'[r].act = req[r].act
      BY <2>6, UnflagEffect
    <3>2. ASSUME req'[r] # Free PROVE MessageInv(m)'
      BY <1>1, <1>4, <1>7, <2>2, <2>3, <3>1, <3>2, ReversalStep
    <3> QED BY <2>4, <3>1, <3>2
  <2>7. ASSUME MarkReverted(r) PROVE MessageInv(m)'
    <3>1. /\ req'[r] = Free /\ trash' = trash /\ flagged' = flagged /\ req[r].pc = "mark"
          /\ DOMAIN acts' = DOMAIN acts
          /\ \A a \in DOMAIN acts :
               /\ acts'[a].email = acts[a].email /\ acts'[a].type = acts[a].type
               /\ a # req[r].act => acts'[a] = acts[a]
      BY <2>7, MarkEffect
    <3>2. ActsOf(m)' = ActsOf(m) /\ (\A a \in ActsOf(m) : a \in DOMAIN acts)
      BY <3>1 DEF ActsOf
    <3>3. /\ \A a \in ActsOf(m)' : a \in ActsOf(m) /\ acts'[a].type = acts[a].type
          /\ \A a \in ActsOf(m) : a = req[r].act \/ acts'[a] = acts[a]
      BY <3>1, <3>2
    <3>4. asked[m] = 2 /\ req[r].kind = "DELETE" => m \notin trash' \cup flagged'
      BY <2>2, <3>1
    <3> QED BY <1>1, <1>4, <1>7, <3>1, <3>3, <3>4, ReversalStep
  <2> QED BY <2>5, <2>6, <2>7 DEF Reversal
<1> QED BY <1>6, <1>7
LEMMA MessageNext ==
  ASSUME TypeOK, ShapeInv, NEW m \in Message, MessageInv(m), [Next]_vars
  PROVE  MessageInv(m)'
<1>1. ASSUME NEW r \in Requests, User(r) \/ Batch(r) \/ Reversal(r) PROVE MessageInv(m)'
  BY <1>1, MessageUser, MessageBlock, MessageKeep, MessageCall, MessageRecordEmail, MessageRecordAction,
     MessageAuthenticate, MessageBatchEnds, MessageReversal DEF Batch
<1>2. ASSUME asked'[m] = asked[m], req' = req, trash' = trash, m \in flagged' => m \in flagged, ActsKept(m),
             used'.faults = used.faults
      PROVE  MessageInv(m)'
  <2>1. Concerned(m)' = Concerned(m) /\ (Deleting(m) => Deleting(m)')
    BY <1>2 DEF Concerned, Deleting
  <2> QED BY <1>2, <2>1, QuietStep DEF ActsKept
<1>3. ASSUME NEW ms \in SUBSET Message, Gone(ms), asked'[m] = asked[m], req' = req, trash' = trash,
             used'.faults = used.faults
      PROVE  MessageInv(m)'
  BY <1>2, <1>3, KeptByGone, GoneEffect
<1>4. CASE SweepDeletes
  BY <1>3, <1>4, TypeParts DEF SweepDeletes, SetsOK
<1>5. CASE Purge
  <2>1. rows \in SUBSET Message /\ Gone(rows) /\ Ask({}) /\ req' = req /\ trash' = trash
    BY <1>5, TypeParts DEF Purge, SetsOK
  <2> QED BY <1>3, <2>1, AskEffect
<1>6. ASSUME NEW p \in Proposers, CreateProposal(p) PROVE MessageInv(m)'
  <2>1. /\ rows' = rows /\ asked' = asked /\ req' = req /\ trash' = trash /\ flagged' = flagged /\ used' = used
        /\ \/ acts' = acts
           \/ /\ DOMAIN acts' = DOMAIN acts \cup {Len(acts) + 1}
              /\ \A a \in DOMAIN acts : acts'[a] = acts[a]
              /\ acts'[Len(acts) + 1].status \in {"BLOCKED", "PROPOSED"}
    BY <1>6, ProposalEffect
  <2>2. ActsKept(m)
    <3>1. CASE acts' = acts
      BY <2>1, <3>1, KeptWhenUnchanged
    <3>2. CASE /\ DOMAIN acts' = DOMAIN acts \cup {Len(acts) + 1}
               /\ \A a \in DOMAIN acts : acts'[a] = acts[a]
               /\ acts'[Len(acts) + 1].status \in {"BLOCKED", "PROPOSED"}
      <4>1. \A a \in ActsOf(m)' : \/ a \in ActsOf(m) /\ acts'[a] = acts[a]
                                  \/ a \notin DOMAIN acts /\ acts'[a].status \in {"PROPOSED", "BLOCKED"}
        BY <3>2, ActsPrimed DEF ActsOf
      <4>2. \A a \in ActsOf(m) : a \in ActsOf(m)' /\ acts'[a] = acts[a]
        BY <3>2, ActsPrimed DEF ActsOf
      <4> QED BY <2>1, <3>2, <4>1, <4>2 DEF ActsKept
    <3> QED BY <2>1, <3>1, <3>2
  <2> QED BY <1>2, <2>1, <2>2
<1>7. CASE \/ SweepSelects \/ UNCHANGED vars \/ \E n \in Message : Link(n)
           \/ \E p \in Proposers, n \in Message : Candidate(p, n) \/ CheckOpen(p)
  <2>1. /\ rows' = rows /\ acts' = acts /\ asked' = asked /\ req' = req
        /\ trash' = trash /\ flagged' = flagged /\ used' = used
    BY <1>7 DEF SweepSelects, vars, Link, Candidate, CheckOpen
  <2> QED BY <1>2, <2>1, KeptWhenUnchanged
<1>8. CASE Crash
  <2>1. /\ rows' = rows /\ acts' = acts /\ asked' = asked /\ trash' = trash /\ flagged' = flagged /\ Fault
        /\ \A r \in Requests : req'[r] = Free \/ req'[r] = req[r]
    BY <1>8 DEF Crash
  <2>2. /\ Concerned(m)' \subseteq Concerned(m)
        /\ \A r \in Concerned(m)' : req'[r] = req[r]
    BY <2>1, FreeFields, NamesApart DEF Concerned
  <2>3. used'.faults # 0
    BY <2>1, FaultEffect
  <2> QED BY <2>1, <2>2, <2>3, KeptWhenUnchanged, QuietStep DEF ActsKept
<1> QED BY <1>1, <1>4, <1>5, <1>6, <1>7, <1>8 DEF Next, Propose

RecordInv == TypeOK /\ ShapeInv /\ \A m \in Message : MessageInv(m)

LEMMA RecordInit == Init => RecordInv
<1> SUFFICES ASSUME Init PROVE RecordInv
  OBVIOUS
<1>1. ShapeInv
  BY FreeNeat, FreeFields DEF Init, ShapeInv, Backed, Undoing
<1>2. ASSUME NEW m \in Message PROVE MessageInv(m)
  <2>1. Concerned(m) = {} /\ ActsOf(m) = {}
    BY FreeFields, NamesApart DEF Init, Concerned, ActsOf
  <2> QED BY <2>1 DEF Init, MessageInv, Fresh, Once, Twice
<1> QED BY <1>1, <1>2, TypeInit DEF RecordInv

LEMMA RecordNext == RecordInv /\ [Next]_vars => RecordInv'
<1> SUFFICES ASSUME RecordInv, [Next]_vars PROVE RecordInv'
  OBVIOUS
<1>1. TypeOK /\ ShapeInv /\ (\A m \in Message : MessageInv(m))
  BY DEF RecordInv
<1>2. TypeOK'
  BY <1>1, TypeNext
<1>3. ShapeInv'
  BY <1>1, ShapeNext
<1>4. \A m \in Message : MessageInv(m)'
  BY <1>1, MessageNext
<1> QED BY <1>2, <1>3, <1>4 DEF RecordInv

(* DeletesUndoable holds in every reachable state: what one decision of    *)
(* the user has put in the Trash is recorded as a deletion that can be     *)
(* reverted, or is about to be.                                            *)
THEOREM DeletionsRecorded == Spec => []DeletesUndoable
<1>1. RecordInv => DeletesUndoable
  BY DEF RecordInv, DeletesUndoable, MessageInv, Once, Deleted, Deleting, SetsOK, TypeOK
<1> QED BY <1>1, RecordInit, RecordNext, PTL DEF Spec

(* NoFalseRestore holds in every reachable state: a deletion marked        *)
(* REVERTED after the user decided to delete and to restore has left the   *)
(* Trash, and the row says so.                                             *)
THEOREM RestoresHappened == Spec => []NoFalseRestore
<1>1. RecordInv => NoFalseRestore
  BY DEF RecordInv, NoFalseRestore, MessageInv, Twice, ActsOf, TypeOK
<1> QED BY <1>1, RecordInit, RecordNext, PTL DEF Spec
=============================================================================
