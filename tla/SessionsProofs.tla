----------------------------- MODULE SessionsProofs -----------------------------
(***************************************************************************)
(* Theorems about Sessions, for every set of browsers and tabs and every   *)
(* number of tokens, links, requests and faults.                           *)
(***************************************************************************)
EXTENDS Sessions, FiniteSetTheorems, TLAPS

-----------------------------------------------------------------------------
(* Type correctness, one part of the state at a time.                      *)

RowsOK ==
  /\ rows \in [Token -> Row]
  /\ \A k \in Token :
       /\ rows[k].state # "unused" => rows[k].root \in Token
       /\ rows[k].epoch <= epoch

CallOK(t) ==
  /\ call[t].pc \in {"read", "rotate"} => call[t].token \in Token /\ call[t].kind = "refresh"
  /\ call[t].pc = "signout" => call[t].token \in Token /\ call[t].kind = "logout"
  /\ call[t].pc = "rotate" => call[t].root \in Token
  /\ call[t].pc = "issue" /\ call[t].kind = "refresh" => call[t].root \in Token
  /\ call[t].pc = "answer" /\ call[t].kind \in {"register", "login", "refresh"} => call[t].token \in Token
  /\ call[t].token # 0 => rows[call[t].token].state # "unused"
  /\ call[t].pc = "commit" => call[t].link \in Link /\ links[call[t].link].state # "unused"
  /\ call[t].epoch <= epoch

RestOK ==
  /\ user \in {"absent", "unverified", "verified"}
  /\ epoch \in Nat
  /\ torn \in BOOLEAN
  /\ links \in [Link -> LinkRow]
  /\ out \subseteq Token
  /\ races \in [Token -> Nat]
  /\ piled \in [Purpose -> Nat]
  /\ missed \subseteq Browsers
  /\ used \in [calls : Nat, faults : Nat]

JarsOK ==
  /\ jar \in [Browsers -> [at : BOOLEAN, rt : 0..MaxTokens]]
  /\ \A b \in Browsers : jar[b].rt # 0 => rows[jar[b].rt].state # "unused"

CallsOK == call \in [Tabs -> Call] /\ \A t \in Tabs : CallOK(t)

LEMMA TypeParts == TypeOK <=> RowsOK /\ CallsOK /\ JarsOK /\ RestOK
BY DEF TypeOK, RowsOK, CallsOK, CallOK, JarsOK, RestOK

LEMMA NoCallIsACall == NoCall \in Call /\ NoCall.token = 0
BY SizesAssumption DEF NoCall, Call, Step, Kind

LEMMA TypeInit == Init => TypeOK
<1> SUFFICES ASSUME Init PROVE TypeOK
  OBVIOUS
<1>1. RowsOK
  BY SizesAssumption DEF Init, RowsOK, NoRow, Row
<1>2. CallsOK
  BY SizesAssumption DEF Init, CallsOK, CallOK, NoCall, Call, Step, Kind
<1>3. JarsOK
  BY SizesAssumption DEF Init, JarsOK, NoJar
<1>4. RestOK
  BY SizesAssumption DEF Init, RestOK, NoLink, LinkRow, Purpose
<1> QED BY <1>1, <1>2, <1>3, <1>4, TypeParts

(* No step makes a row unused again or takes the epoch back.               *)
Forward ==
  /\ epoch' \in Nat /\ epoch <= epoch'
  /\ \A k \in Token : rows[k].state # "unused" => rows'[k].state # "unused"
  /\ \A l \in Link : links[l].state # "unused" => links'[l].state # "unused"

(* The request of one tab goes on, the others' stay.                       *)
LEMMA CallsKeep ==
  ASSUME TypeOK, Forward, NEW t \in Tabs, NEW c \in Call,
         call' = [call EXCEPT ![t] = c], CallOK(t)'
  PROVE  CallsOK'
<1>1. call' \in [Tabs -> Call]
  BY DEF TypeOK
<1>2. \A v \in Tabs \ {t} : CallOK(v)'
  <2> SUFFICES ASSUME NEW v \in Tabs \ {t} PROVE CallOK(v)'
    OBVIOUS
  <2>1. call'[v] = call[v] /\ CallOK(v) /\ call[v] \in Call /\ epoch \in Nat
    BY TypeParts DEF CallsOK, TypeOK
  <2>2. call[v].token # 0 => rows'[call[v].token].state # "unused"
    BY <2>1, SizesAssumption DEF CallOK, Forward, Call, Token
  <2>3. call[v].pc = "commit" => call[v].link \in Link /\ links'[call[v].link].state # "unused"
    BY <2>1 DEF CallOK, Forward
  <2>4. call[v].epoch <= epoch'
    BY <2>1 DEF CallOK, Forward, Call
  <2> QED BY <2>1, <2>2, <2>3, <2>4 DEF CallOK
<1>3. \A v \in Tabs : CallOK(v)'
  BY <1>2 DEF CallOK
<1> QED BY <1>1, <1>3 DEF CallsOK

LEMMA JarsKeep ==
  ASSUME TypeOK, Forward, UNCHANGED jar
  PROVE  JarsOK'
<1>1. jar \in [Browsers -> [at : BOOLEAN, rt : 0..MaxTokens]]
  BY DEF TypeOK
<1>2. \A b \in Browsers : jar[b].rt = 0 \/ (jar[b].rt \in Token /\ rows[jar[b].rt].state # "unused")
  BY <1>1, SizesAssumption DEF TypeOK, Token
<1> QED BY <1>1, <1>2 DEF Forward, JarsOK

LEMMA LinksForward ==
  ASSUME TypeOK, UNCHANGED << rows, links, epoch >>
  PROVE  Forward
BY DEF TypeOK, Forward

LEMMA SendCounts ==
  ASSUME TypeOK, NEW t \in Tabs, NEW c, Send(t, c)
  PROVE  used' \in [calls : Nat, faults : Nat] /\ call' = [call EXCEPT ![t] = c]
BY DEF TypeOK, Send

LEMMA FaultCounts ==
  ASSUME TypeOK, Fault
  PROVE  used' \in [calls : Nat, faults : Nat]
BY DEF TypeOK, Fault

(* Requests that are sent and change nothing else.                         *)
LEMMA TypeSent ==
  ASSUME TypeOK, NEW t \in Tabs, NEW c \in Call, Send(t, c),
         UNCHANGED << rows, epoch, torn, jar, out, races, piled, missed >>,
         user' \in {"absent", "unverified", "verified"},
         UNCHANGED links,
         CallOK(t)'
  PROVE  TypeOK'
<1>1. Forward
  BY LinksForward
<1>2. CallsOK' /\ JarsOK'
  BY <1>1, CallsKeep, JarsKeep, SendCounts
<1>3. RowsOK'
  BY DEF TypeOK, RowsOK
<1>4. RestOK'
  BY SendCounts DEF TypeOK, RestOK
<1>5. TypeOK'
  BY <1>2, <1>3, <1>4 DEF TypeOK, RowsOK, CallsOK, CallOK, JarsOK, RestOK
<1> QED BY <1>5

LEMMA TypeSends ==
  ASSUME TypeOK, NEW t \in Tabs, Sends(t), ~RevokeAllSessions(t), \A l \in Link : ~OpenLink(t, l)
  PROVE  TypeOK'
<1> USE SizesAssumption
<1>0. epoch \in Nat
  BY DEF TypeOK
<1>1. CASE Register(t)
  <2> DEFINE c == [NoCall EXCEPT !.pc = "retire", !.kind = "register", !.epoch = epoch]
  <2>1. c.pc = "retire" /\ c.kind = "register" /\ c.token = 0 /\ c.root = 0 /\ c.epoch = epoch /\ c.late = FALSE /\ c.link = 0
    BY DEF NoCall
  <2>2. c \in Call
    BY <1>0, NoCallIsACall DEF Call, Step, Kind
  <2>3. Send(t, c)
    BY <1>1 DEF Register
  <2>4. call'[t] = c /\ epoch' = epoch
    BY <1>1, <2>3, SendCounts DEF TypeOK, Register
  <2>5. CallOK(t)'
    BY <1>0, <2>1, <2>4 DEF CallOK
  <2> QED BY <1>1, <2>2, <2>3, <2>5, TypeSent DEF Register
<1>2. CASE Login(t)
  <2> DEFINE c == [NoCall EXCEPT !.pc = "issue", !.kind = "login", !.epoch = epoch]
  <2>1. c.pc = "issue" /\ c.kind = "login" /\ c.token = 0 /\ c.root = 0 /\ c.epoch = epoch /\ c.late = FALSE /\ c.link = 0
    BY DEF NoCall
  <2>2. c \in Call
    BY <1>0, NoCallIsACall DEF Call, Step, Kind
  <2>3. Send(t, c)
    BY <1>2 DEF Login
  <2>4. call'[t] = c /\ epoch' = epoch
    BY <1>2, <2>3, SendCounts DEF TypeOK, Login
  <2>5. CallOK(t)'
    BY <1>0, <2>1, <2>4 DEF CallOK
  <2> QED BY <1>2, <2>2, <2>3, <2>5, TypeSent DEF Login, TypeOK
<1>3. ASSUME NEW pc \in {"read", "signout", "write"}, NEW kind \in {"refresh", "logout", "change"},
             pc # "write" => Jar(t).rt # 0, pc = "read" => kind = "refresh", pc = "signout" => kind = "logout",
             Send(t, [NoCall EXCEPT !.pc = pc, !.kind = kind, !.token = Jar(t).rt]),
             UNCHANGED << user, epoch, torn, rows, links, jar, out, races, piled, missed >>
      PROVE  TypeOK'
  <2> DEFINE c == [NoCall EXCEPT !.pc = pc, !.kind = kind, !.token = Jar(t).rt]
  <2>1. c.pc = pc /\ c.kind = kind /\ c.token = Jar(t).rt /\ c.root = 0 /\ c.epoch = 0 /\ c.late = FALSE /\ c.link = 0
    BY DEF NoCall
  <2>2. /\ Jar(t).rt \in 0..MaxTokens
        /\ Jar(t).rt # 0 => rows[Jar(t).rt].state # "unused" /\ Jar(t).rt \in Token
    BY BrowserAssumption DEF TypeOK, Jar, Token
  <2>3. c \in Call
    BY <2>2, NoCallIsACall DEF Call, Step, Kind
  <2>4. call'[t] = c
    BY <1>3, SendCounts DEF TypeOK
  <2>5. CallOK(t)'
    BY <1>0, <1>3, <2>1, <2>2, <2>4 DEF CallOK
  <2> QED BY <1>3, <2>3, <2>5, TypeSent DEF TypeOK
<1>4. CASE RefreshSends(t) \/ LogoutSends(t) \/ ChangePassword(t)
  BY <1>3, <1>4 DEF RefreshSends, LogoutSends, ChangePassword
<1>5. ASSUME NEW kind \in {"forgot", "resend"},
             Send(t, [NoCall EXCEPT !.pc = "retire", !.kind = kind]),
             UNCHANGED << user, epoch, torn, rows, links, jar, out, races, piled, missed >>
      PROVE  TypeOK'
  <2> DEFINE c == [NoCall EXCEPT !.pc = "retire", !.kind = kind]
  <2>1. c.pc = "retire" /\ c.kind = kind /\ c.token = 0 /\ c.root = 0 /\ c.epoch = 0 /\ c.late = FALSE /\ c.link = 0
    BY DEF NoCall
  <2>2. c \in Call
    BY NoCallIsACall DEF Call, Step, Kind
  <2>3. call'[t] = c
    BY <1>5, SendCounts DEF TypeOK
  <2>4. CallOK(t)'
    BY <1>0, <1>5, <2>1, <2>3 DEF CallOK
  <2> QED BY <1>5, <2>2, <2>4, TypeSent DEF TypeOK
<1>6. CASE ForgotPassword(t) \/ ResendVerification(t)
  BY <1>5, <1>6 DEF ForgotPassword, ResendVerification
<1> QED BY <1>1, <1>2, <1>4, <1>6 DEF Sends

LEMMA TypeOpens ==
  ASSUME TypeOK, NEW t \in Tabs, NEW l \in Link, OpenLink(t, l)
  PROVE  TypeOK'
<1> DEFINE c == [NoCall EXCEPT !.pc = "commit", !.kind = links[l].for, !.link = l]
<1>0. epoch \in Nat /\ links[l] \in LinkRow
  BY DEF TypeOK
<1>1. c.pc = "commit" /\ c.token = 0 /\ c.epoch = 0 /\ c.link = l
  BY DEF NoCall
<1>2. c \in Call
  <2>1. links[l].for \in Kind /\ l \in 0..MaxLinks
    BY <1>0, SizesAssumption DEF Kind, LinkRow, Purpose, Link
  <2>2. "commit" \in Step
    BY DEF Step
  <2> QED BY <2>1, <2>2, NoCallIsACall DEF Call
<1>3. /\ links' \in [Link -> LinkRow]
      /\ \A i \in Link : links'[i].state = links[i].state
  <2> DEFINE n == IF Spending(l) = {} THEN links[l].shared ELSE links[l].shared + 1
  <2>1. links' = [links EXCEPT ![l].shared = n]
    BY DEF OpenLink
  <2>2. n \in Nat
    BY <1>0 DEF LinkRow
  <2> HIDE DEF n
  <2> QED BY <2>1, <2>2 DEF TypeOK, LinkRow
<1>4. call' = [call EXCEPT ![t] = c] /\ used' \in [calls : Nat, faults : Nat]
  BY SendCounts DEF OpenLink
<1>5. Forward
  BY <1>0, <1>3 DEF OpenLink, Forward
<1>6. call'[t] = c
  BY <1>4 DEF TypeOK
<1>7. CallOK(t)'
  BY <1>0, <1>1, <1>3, <1>6 DEF CallOK, OpenLink
<1>8. CallsOK' /\ JarsOK'
  BY <1>2, <1>4, <1>5, <1>7, CallsKeep, JarsKeep DEF OpenLink
<1>9. RowsOK' /\ RestOK'
  BY <1>3, <1>4 DEF OpenLink, TypeOK, RowsOK, RestOK
<1> QED BY <1>8, <1>9 DEF TypeOK, RowsOK, CallsOK, CallOK, JarsOK, RestOK

(* What a revocation of all sessions but one leaves of the rows.           *)
LEMMA SweptRows ==
  ASSUME TypeOK, NEW keep, rows' = Swept(keep), epoch' \in Nat, epoch <= epoch'
  PROVE  /\ RowsOK'
         /\ \A k \in Token :
              /\ rows'[k].root = rows[k].root
              /\ rows'[k].rotated = rows[k].rotated
              /\ rows'[k].state = "unused" <=> rows[k].state = "unused"
              /\ rows'[k].state = "live" =>
                   rows[k].state = "live" /\ k = keep /\ rows'[k].epoch = epoch'
<1>1. \A k \in Token : rows'[k] \in Row
  BY DEF TypeOK, Swept, Row
<1>2. rows' \in [Token -> Row]
  BY <1>1 DEF Swept
<1>3. \A k \in Token : rows[k] \in Row /\ rows[k].epoch <= epoch /\ epoch \in Nat
  BY DEF TypeOK
<1>4. \A k \in Token :
        /\ rows'[k].root = rows[k].root
        /\ rows'[k].rotated = rows[k].rotated
        /\ rows'[k].state = "unused" <=> rows[k].state = "unused"
        /\ rows'[k].state = "live" =>
             rows[k].state = "live" /\ k = keep /\ rows'[k].epoch = epoch'
        /\ rows'[k].epoch <= epoch'
  BY <1>3 DEF Swept, Row
<1> QED BY <1>2, <1>4 DEF RowsOK, TypeOK

(* The requests that were overtaken are the same but for the mark.         *)
LEMMA OvertakenCalls ==
  ASSUME TypeOK, NEW t \in Tabs
  PROVE  /\ Overtaken(t) \in [Tabs -> Call]
         /\ \A v \in Tabs :
              /\ Overtaken(t)[v].pc = call[v].pc
              /\ Overtaken(t)[v].kind = call[v].kind
              /\ Overtaken(t)[v].token = call[v].token
              /\ Overtaken(t)[v].root = call[v].root
              /\ Overtaken(t)[v].epoch = call[v].epoch
              /\ Overtaken(t)[v].link = call[v].link
              /\ v # t /\ WillIssue(v) => Overtaken(t)[v].late
              /\ v = t \/ ~WillIssue(v) => Overtaken(t)[v] = call[v]
<1>1. \A v \in Tabs : Overtaken(t)[v] \in Call
  BY DEF TypeOK, Overtaken, Call
<1>2. Overtaken(t) \in [Tabs -> Call]
  BY <1>1 DEF Overtaken
<1> QED BY <1>2 DEF TypeOK, Overtaken, Call

(* A step that ends with the revocation of all sessions but one.           *)
LEMMA TypeSweeps ==
  ASSUME TypeOK, NEW t \in Tabs, NEW keep, rows' = Swept(keep), epoch' \in Nat, epoch <= epoch',
         NEW c \in Call, call' = [Overtaken(t) EXCEPT ![t] = c],
         c.pc = "idle" \/ (c.pc = "answer" /\ c.kind \notin {"register", "login", "refresh"}),
         c.token = 0 \/ c.token = call[t].token,
         c.epoch = 0 \/ c.epoch = call[t].epoch,
         torn' = FALSE,
         UNCHANGED << user, jar, out, races, piled, missed >>,
         links' \in [Link -> LinkRow], \A l \in Link : links[l].state # "unused" => links'[l].state # "unused",
         used' \in [calls : Nat, faults : Nat]
  PROVE  TypeOK'
<1>1. Forward /\ RowsOK'
  BY SweptRows DEF Forward
<1>2. call' \in [Tabs -> Call] /\ call'[t] = c /\ \A v \in Tabs \ {t} : call'[v] = Overtaken(t)[v]
  BY OvertakenCalls
<1>3. \A v \in Tabs : CallOK(v) /\ call[v] \in Call /\ epoch \in Nat
  BY TypeParts DEF CallsOK, RestOK
<1>4. CallOK(t)'
  <2>1. c.token # 0 => rows'[c.token].state # "unused"
    BY <1>1, <1>3, SizesAssumption DEF CallOK, Forward, Call, Token
  <2>2. c.epoch <= epoch'
    BY <1>1, <1>3 DEF CallOK, Forward, Call
  <2> QED BY <1>2, <2>1, <2>2 DEF CallOK
<1>5. \A v \in Tabs \ {t} : CallOK(v)'
  <2> SUFFICES ASSUME NEW v \in Tabs \ {t} PROVE CallOK(v)'
    OBVIOUS
  <2>1. /\ call'[v].pc = call[v].pc /\ call'[v].kind = call[v].kind /\ call'[v].token = call[v].token
        /\ call'[v].root = call[v].root /\ call'[v].epoch = call[v].epoch /\ call'[v].link = call[v].link
    BY <1>2, OvertakenCalls
  <2> QED BY <1>1, <1>3, <2>1, SizesAssumption DEF CallOK, Forward, Call, Token
<1>6. CallsOK' /\ JarsOK'
  BY <1>1, <1>2, <1>4, <1>5, JarsKeep DEF CallsOK
<1>7. RestOK'
  BY DEF TypeOK, RestOK
<1> QED BY <1>1, <1>6, <1>7 DEF TypeOK, RowsOK, CallsOK, CallOK, JarsOK, RestOK

LEMMA TypeRevokesAll ==
  ASSUME TypeOK, NEW t \in Tabs, RevokeAllSessions(t)
  PROVE  TypeOK'
<1> DEFINE c == [NoCall EXCEPT !.pc = "answer", !.kind = "revoke"]
<1>1. c.pc = "answer" /\ c.kind = "revoke" /\ c.token = 0 /\ c.epoch = 0
  BY DEF NoCall
<1>2. c \in Call
  BY NoCallIsACall DEF Call, Step, Kind
<1>3. call' = [Overtaken(t) EXCEPT ![t] = c]
  BY DEF RevokeAllSessions
<1>4. epoch' \in Nat /\ epoch <= epoch' /\ used' \in [calls : Nat, faults : Nat]
  BY DEF TypeOK, RevokeAllSessions
<1>5. links' \in [Link -> LinkRow] /\ \A l \in Link : links'[l] = links[l]
  BY DEF TypeOK, RevokeAllSessions
<1> HIDE DEF c
<1> QED BY <1>1, <1>2, <1>3, <1>4, <1>5, TypeSweeps DEF RevokeAllSessions

LEMMA TypeChangeSweeps ==
  ASSUME TypeOK, NEW t \in Tabs, ChangeSweeps(t)
  PROVE  TypeOK'
<1>1. NoCall.pc = "idle" /\ NoCall.token = 0 /\ NoCall.epoch = 0
  BY DEF NoCall
<1>2. epoch' \in Nat /\ epoch <= epoch' /\ used' \in [calls : Nat, faults : Nat]
  BY DEF TypeOK, ChangeSweeps
<1>3. links' \in [Link -> LinkRow] /\ \A l \in Link : links'[l] = links[l]
  BY DEF TypeOK, ChangeSweeps
<1> QED BY <1>1, <1>2, <1>3, NoCallIsACall, TypeSweeps DEF ChangeSweeps

(* A link that is spent.                                                   *)
LEMMA SpentLinks ==
  ASSUME TypeOK, NEW l \in Link
  PROVE  /\ Spent(l) \in [Link -> LinkRow]
         /\ Spent(l)[l].state = "used" /\ Spent(l)[l].uses = links[l].uses + 1
         /\ Spent(l)[l].shared = links[l].shared /\ Spent(l)[l].for = links[l].for
         /\ \A i \in Link \ {l} : Spent(l)[i] = links[i]
<1>1. links[l] \in LinkRow
  BY DEF TypeOK
<1>2. Spent(l)[l] = [state |-> "used", for |-> links[l].for, uses |-> links[l].uses + 1, shared |-> links[l].shared]
  BY <1>1 DEF TypeOK, Spent, LinkRow
<1>3. Spent(l)[l] \in LinkRow
  BY <1>1, <1>2 DEF LinkRow
<1>4. \A i \in Link \ {l} : Spent(l)[i] = links[i]
  BY DEF TypeOK, Spent
<1>5. Spent(l) \in [Link -> LinkRow]
  BY <1>3, <1>4 DEF Spent, TypeOK
<1> QED BY <1>2, <1>4, <1>5

LEMMA TypeResets ==
  ASSUME TypeOK, NEW t \in Tabs, ResetCommits(t)
  PROVE  TypeOK'
<1> DEFINE c == [Overtaken(t)[t] EXCEPT !.pc = "answer"]
<1>0. Overtaken(t)[t] = call[t] /\ call[t] \in Call /\ call[t].link \in Link /\ call[t].kind = "reset"
  BY OvertakenCalls DEF TypeOK, ResetCommits
<1>1. /\ c \in Call /\ c.pc = "answer" /\ c.kind = "reset"
      /\ c.token = call[t].token /\ c.epoch = call[t].epoch
  BY <1>0 DEF Call, Step
<1>2. call' = [Overtaken(t) EXCEPT ![t] = c]
  BY DEF ResetCommits
<1>3. epoch' \in Nat /\ epoch <= epoch' /\ used' \in [calls : Nat, faults : Nat]
  BY DEF TypeOK, ResetCommits
<1>4. links' \in [Link -> LinkRow] /\ \A l \in Link : links[l].state # "unused" => links'[l].state # "unused"
  BY <1>0, SpentLinks DEF ResetCommits
<1> HIDE DEF c
<1> QED BY <1>1, <1>2, <1>3, <1>4, TypeSweeps DEF ResetCommits

(* A step of one request after which the parts of the state are typed.     *)
LEMMA TypeSteps ==
  ASSUME TypeOK, NEW t \in Tabs, NEW c \in Call, call' = [call EXCEPT ![t] = c],
         Forward, RowsOK', JarsOK', RestOK',
         c.token = 0 \/ (c.token \in Token /\ rows'[c.token].state # "unused"),
         c.pc \in {"read", "rotate"} => c.token \in Token /\ c.kind = "refresh",
         c.pc = "signout" => c.token \in Token /\ c.kind = "logout",
         c.pc = "rotate" \/ (c.pc = "issue" /\ c.kind = "refresh") => c.root \in Token,
         c.pc = "answer" /\ c.kind \in {"register", "login", "refresh"} => c.token \in Token,
         c.pc # "commit", c.epoch <= epoch'
  PROVE  TypeOK'
<1>1. call'[t] = c
  BY DEF TypeOK
<1>2. CallOK(t)'
  BY <1>1 DEF CallOK
<1>3. CallsOK'
  BY <1>2, CallsKeep
<1> QED BY <1>3 DEF TypeOK, RowsOK, CallsOK, CallOK, JarsOK, RestOK

LEMMA NoCallFields ==
  /\ NoCall \in Call /\ NoCall.pc = "idle" /\ NoCall.kind = "login" /\ NoCall.token = 0 /\ NoCall.root = 0
  /\ NoCall.epoch = 0 /\ NoCall.link = 0
BY NoCallIsACall DEF NoCall

(* A request that ends.                                                    *)
LEMMA TypeFinishes ==
  ASSUME TypeOK, NEW t \in Tabs, Finish(t), Forward, RowsOK', JarsOK', RestOK'
  PROVE  TypeOK'
<1>1. call' = [call EXCEPT ![t] = NoCall]
  BY DEF Finish
<1>2. NoCall.epoch <= epoch'
  BY NoCallFields DEF Forward
<1> QED BY <1>1, <1>2, NoCallFields, TypeSteps

LEMMA RowsKeep == TypeOK /\ UNCHANGED << rows, epoch >> => RowsOK'
BY DEF TypeOK, RowsOK

LEMMA RestKeeps == TypeOK /\ UNCHANGED << user, epoch, torn, links, out, races, piled, missed, used >> => RestOK'
BY DEF TypeOK, RestOK

(* Every request under way is typed.                                       *)
LEMMA CallTyped ==
  ASSUME TypeOK, NEW t \in Tabs
  PROVE  /\ call[t] \in Call /\ CallOK(t) /\ epoch \in Nat
         /\ call[t].token = 0 \/ (call[t].token \in Token /\ rows[call[t].token].state # "unused")
<1>1. call[t] \in Call /\ CallOK(t) /\ epoch \in Nat
  BY TypeParts DEF CallsOK, RestOK
<1>2. call[t].token \in 0..MaxTokens
  BY <1>1 DEF Call
<1>3. call[t].token = 0 \/ call[t].token \in Token
  BY <1>2, SizesAssumption DEF Token
<1> QED BY <1>1, <1>3 DEF CallOK

LEMMA IssueEffect ==
  ASSUME TypeOK, NEW t \in Tabs, IssueTokens(t)
  PROVE  \E k \in Token :
           /\ rows[k].state = "unused"
           /\ rows'[k].state = "live" /\ rows'[k].rotated = FALSE
           /\ rows'[k].root = (IF call[t].kind = "refresh" THEN call[t].root ELSE k)
           /\ rows'[k].epoch = call[t].epoch /\ rows'[k].late = call[t].late
           /\ \A i \in Token \ {k} : rows'[i] = rows[i]
           /\ call' = [call EXCEPT ![t] = [call[t] EXCEPT !.pc = "answer", !.token = k]]
           /\ call[t].pc = "issue"
<1>1. PICK k \in Token :
        /\ rows[k].state = "unused"
        /\ rows' = [rows EXCEPT ![k] =
             [state |-> "live", root |-> IF call[t].kind = "refresh" THEN call[t].root ELSE k,
              epoch |-> call[t].epoch, late |-> call[t].late, rotated |-> FALSE]]
        /\ call' = [call EXCEPT ![t].pc = "answer", ![t].token = k]
  BY DEF IssueTokens
<1>2. call' = [call EXCEPT ![t] = [call[t] EXCEPT !.pc = "answer", !.token = k]]
  BY <1>1 DEF TypeOK
<1>3. /\ rows'[k].state = "live" /\ rows'[k].rotated = FALSE
      /\ rows'[k].root = (IF call[t].kind = "refresh" THEN call[t].root ELSE k)
      /\ rows'[k].epoch = call[t].epoch /\ rows'[k].late = call[t].late
      /\ \A i \in Token \ {k} : rows'[i] = rows[i]
  BY <1>1 DEF TypeOK
<1> QED BY <1>1, <1>2, <1>3 DEF IssueTokens

LEMMA TypeIssues ==
  ASSUME TypeOK, NEW t \in Tabs, IssueTokens(t)
  PROVE  TypeOK'
<1>1. PICK k \in Token :
        /\ rows[k].state = "unused"
        /\ rows'[k].state = "live" /\ rows'[k].rotated = FALSE
        /\ rows'[k].root = (IF call[t].kind = "refresh" THEN call[t].root ELSE k)
        /\ rows'[k].epoch = call[t].epoch /\ rows'[k].late = call[t].late
        /\ \A i \in Token \ {k} : rows'[i] = rows[i]
        /\ call' = [call EXCEPT ![t] = [call[t] EXCEPT !.pc = "answer", !.token = k]]
        /\ call[t].pc = "issue"
  BY IssueEffect
<1> DEFINE c == [call[t] EXCEPT !.pc = "answer", !.token = k]
<1>2. call[t] \in Call /\ CallOK(t) /\ k \in 0..MaxTokens /\ k # 0 /\ epoch \in Nat
  BY CallTyped, SizesAssumption DEF Token
<1>3. c \in Call /\ c.pc = "answer" /\ c.token = k /\ c.epoch = call[t].epoch
  BY <1>2 DEF Call, Step
<1>4. UNCHANGED << user, epoch, torn, links, jar, out, races, piled, missed, used >>
  BY DEF IssueTokens
<1>5. RowsOK'
  <2>1. rows' \in [Token -> Row]
    <3>1. rows' = [rows EXCEPT ![k] = [state |-> "live", root |-> rows'[k].root,
                     epoch |-> call[t].epoch, late |-> call[t].late, rotated |-> FALSE]]
      <4>1. PICK j \in Token :
              rows' = [rows EXCEPT ![j] =
                [state |-> "live", root |-> IF call[t].kind = "refresh" THEN call[t].root ELSE j,
                 epoch |-> call[t].epoch, late |-> call[t].late, rotated |-> FALSE]]
              /\ rows[j].state = "unused"
        BY DEF IssueTokens
      <4>2. j = k
        BY <1>1, <4>1 DEF TypeOK
      <4> QED BY <1>1, <4>1, <4>2
    <3>2. rows'[k].root \in 0..MaxTokens
      BY <1>1, <1>2 DEF Call
    <3>3. [state |-> "live", root |-> rows'[k].root,
           epoch |-> call[t].epoch, late |-> call[t].late, rotated |-> FALSE] \in Row
      BY <1>2, <3>2 DEF Row, Call
    <3> QED BY <3>1, <3>3 DEF TypeOK
  <2>2. rows'[k].root \in Token /\ rows'[k].epoch <= epoch
    BY <1>1, <1>2 DEF CallOK
  <2> QED BY <1>1, <1>4, <2>1, <2>2 DEF RowsOK, TypeOK
<1>6. Forward
  BY <1>1, <1>2, <1>4 DEF Forward
<1>7. JarsOK' /\ RestOK'
  BY <1>4, <1>6, JarsKeep, RestKeeps
<1>8. c.epoch <= epoch'
  BY <1>2, <1>3, <1>4 DEF CallOK
<1> HIDE DEF c
<1> QED BY <1>1, <1>3, <1>5, <1>6, <1>7, <1>8, TypeSteps DEF c

LEMMA ReadEffect ==
  ASSUME TypeOK, NEW t \in Tabs, RefreshReads(t)
  PROVE  /\ call[t].token \in Token /\ rows[call[t].token].state = "live" /\ rows[call[t].token].root \in Token
         /\ rows[call[t].token] \in Row
         /\ call'[t].pc = "rotate" /\ call'[t].token = call[t].token /\ call'[t].kind = "refresh"
         /\ call[t].kind = "refresh"
         /\ call'[t].root = rows[call[t].token].root
         /\ call'[t].epoch = rows[call[t].token].epoch /\ call'[t].late = rows[call[t].token].late
         /\ call' = [call EXCEPT ![t] = call'[t]]
         /\ call'[t] \in Call
         /\ races' = [races EXCEPT ![rows[call[t].token].root] =
                        IF ReadersOf(call[t].token) = {} THEN races[rows[call[t].token].root]
                        ELSE races[rows[call[t].token].root] + 1]
<1>1. /\ call[t].token \in Token /\ rows[call[t].token].state = "live" /\ call[t] \in Call
      /\ call[t].kind = "refresh"
  BY CallTyped DEF RefreshReads, CallOK
<1>2. rows[call[t].token] \in Row /\ rows[call[t].token].root \in Token
  BY <1>1 DEF TypeOK
<1>3. call' = [call EXCEPT ![t].pc = "rotate", ![t].root = rows[call[t].token].root,
                 ![t].epoch = rows[call[t].token].epoch, ![t].late = rows[call[t].token].late]
  BY DEF RefreshReads
<1> DEFINE row == rows[call[t].token]
<1>0. call \in [Tabs -> Call]
  BY DEF TypeOK
<1>7. row.root \in 0..MaxTokens /\ row.epoch \in Nat /\ row.late \in BOOLEAN
  BY <1>2 DEF Row, Token
<1> HIDE DEF row
<1>4. /\ call'[t].pc = "rotate" /\ call'[t].token = call[t].token /\ call'[t].kind = call[t].kind
      /\ call'[t].root = row.root /\ call'[t].epoch = row.epoch /\ call'[t].late = row.late
  BY <1>0, <1>1, <1>3 DEF Call, row
<1>5. call'[t] \in Call
  <2>1. call' = [call EXCEPT ![t].pc = "rotate", ![t].root = row.root, ![t].epoch = row.epoch, ![t].late = row.late]
    BY <1>3 DEF row
  <2> QED BY <1>0, <1>1, <1>7, <2>1 DEF Call, Step
<1>6. call' = [call EXCEPT ![t] = call'[t]]
  BY <1>0, <1>3
<1> USE DEF row
<1> QED BY <1>1, <1>2, <1>4, <1>5, <1>6 DEF RefreshReads, TypeOK

LEMMA TypeReads ==
  ASSUME TypeOK, NEW t \in Tabs, RefreshReads(t)
  PROVE  TypeOK'
<1> DEFINE r == rows[call[t].token].root
           n == IF ReadersOf(call[t].token) = {} THEN races[r] ELSE races[r] + 1
<1>0. /\ call[t].token \in Token /\ r \in Token /\ rows[call[t].token].epoch <= epoch
      /\ races[r] \in Nat /\ epoch' = epoch
  BY ReadEffect DEF TypeOK, RefreshReads
<1>1. races' = [races EXCEPT ![r] = n] /\ n \in Nat
  BY <1>0, ReadEffect
<1> HIDE DEF n
<1>2. races' \in [Token -> Nat]
  BY <1>1 DEF TypeOK
<1>3. Forward /\ RowsOK'
  BY LinksForward, RowsKeep DEF RefreshReads
<1>4. JarsOK' /\ RestOK'
  BY <1>2, <1>3, JarsKeep DEF RefreshReads, TypeOK, RestOK
<1>5. call'[t].epoch <= epoch'
  BY <1>0, ReadEffect
<1> DEFINE c == call'[t]
<1>6. /\ c \in Call /\ call' = [call EXCEPT ![t] = c] /\ c.token \in Token /\ rows'[c.token].state # "unused"
      /\ c.root \in Token /\ c.pc = "rotate" /\ c.kind = "refresh" /\ c.epoch <= epoch'
  BY <1>5, ReadEffect DEF RefreshReads
<1> HIDE DEF c
<1> QED BY <1>3, <1>4, <1>6, TypeSteps

LEMMA RotateEffect ==
  ASSUME TypeOK, NEW t \in Tabs, RefreshRotates(t)
  PROVE  LET k == call[t].token IN
         /\ k \in Token /\ call[t].pc = "rotate"
         /\ rows' \in [Token -> Row]
         /\ rows'[k].state = "revoked" /\ rows'[k].rotated = TRUE
         /\ rows'[k].root = rows[k].root /\ rows'[k].epoch = rows[k].epoch
         /\ \A i \in Token \ {k} : rows'[i] = rows[i]
         /\ call' = [call EXCEPT ![t] = [call[t] EXCEPT !.pc = "issue"]]
         /\ [call[t] EXCEPT !.pc = "issue"] \in Call
<1> DEFINE k == call[t].token
<1>1. k \in Token /\ call[t] \in Call /\ call[t].pc = "rotate"
  BY CallTyped DEF RefreshRotates, CallOK
<1>2. rows' = [rows EXCEPT ![k].state = "revoked", ![k].rotated = TRUE]
  BY DEF RefreshRotates
<1>0. rows \in [Token -> Row] /\ rows[k] \in Row
  BY <1>1 DEF TypeOK
<1>3. /\ rows'[k].state = "revoked" /\ rows'[k].rotated = TRUE
      /\ rows'[k].root = rows[k].root /\ rows'[k].epoch = rows[k].epoch
  BY <1>0, <1>1, <1>2 DEF Row
<1>4. rows'[k] \in Row
  BY <1>0, <1>1, <1>2 DEF Row
<1>5. \A i \in Token \ {k} : rows'[i] = rows[i]
  BY <1>2 DEF TypeOK
<1>6. rows' \in [Token -> Row]
  BY <1>2, <1>4, <1>5 DEF TypeOK
<1>7. call' = [call EXCEPT ![t] = [call[t] EXCEPT !.pc = "issue"]]
  BY DEF RefreshRotates
<1>8. [call[t] EXCEPT !.pc = "issue"] \in Call
  BY <1>1 DEF Call, Step
<1> QED BY <1>1, <1>3, <1>5, <1>6, <1>7, <1>8

LEMMA TypeRotates ==
  ASSUME TypeOK, NEW t \in Tabs, RefreshRotates(t)
  PROVE  TypeOK'
<1> DEFINE k == call[t].token
           c == [call[t] EXCEPT !.pc = "issue"]
<1>1. /\ k \in Token /\ call[t].pc = "rotate" /\ rows' \in [Token -> Row]
      /\ rows'[k].state = "revoked" /\ rows'[k].root = rows[k].root /\ rows'[k].epoch = rows[k].epoch
      /\ \A i \in Token \ {k} : rows'[i] = rows[i]
      /\ call' = [call EXCEPT ![t] = c] /\ c \in Call
  BY RotateEffect
<1>2. UNCHANGED << user, epoch, torn, links, jar, out, races, piled, missed, used >>
  BY DEF RefreshRotates
<1>3. /\ call[t] \in Call /\ CallOK(t) /\ epoch \in Nat /\ rows[k].state # "unused"
      /\ rows[k].root \in Token
  BY <1>1, CallTyped DEF TypeOK, Token
<1>4. Forward
  BY <1>1, <1>2, <1>3 DEF Forward
<1>5. RowsOK'
  BY <1>1, <1>2, <1>3 DEF RowsOK, TypeOK
<1>6. JarsOK' /\ RestOK'
  BY <1>2, <1>4, JarsKeep, RestKeeps
<1>7. /\ c.pc = "issue" /\ c.token = k /\ c.root = call[t].root /\ c.epoch = call[t].epoch
      /\ c.root \in Token /\ c.epoch <= epoch'
  BY <1>1, <1>2, <1>3 DEF CallOK, Call
<1> HIDE DEF c, k
<1> QED BY <1>1, <1>4, <1>5, <1>6, <1>7, TypeSteps

(* A row that is revoked, or expires.                                      *)
LEMMA EndedRow ==
  ASSUME TypeOK, NEW k \in Token, NEW st \in {"revoked", "expired"}, rows[k].state # "unused",
         rows' = [rows EXCEPT ![k].state = st], UNCHANGED << epoch, links >>
  PROVE  /\ RowsOK' /\ Forward
         /\ rows'[k].state = st /\ rows'[k].root = rows[k].root /\ rows'[k].rotated = rows[k].rotated
         /\ \A i \in Token \ {k} : rows'[i] = rows[i]
<1>1. /\ rows' \in [Token -> Row]
      /\ rows'[k].state = st /\ rows'[k].root = rows[k].root /\ rows'[k].rotated = rows[k].rotated
      /\ rows'[k].epoch = rows[k].epoch
      /\ \A i \in Token \ {k} : rows'[i] = rows[i]
  BY DEF TypeOK, Row
<1> QED BY <1>1 DEF TypeOK, RowsOK, Forward

LEMMA TypeRejects ==
  ASSUME TypeOK, NEW t \in Tabs, RefreshRejected(t)
  PROVE  TypeOK'
<1> DEFINE k == call[t].token
<1>1. k \in Token /\ rows[k].state # "unused"
  BY CallTyped DEF RefreshRejected, CallOK, Token
<1>2. RowsOK' /\ Forward
  BY <1>1, EndedRow DEF RefreshRejected
<1>3. JarsOK' /\ RestOK'
  BY <1>2, JarsKeep, RestKeeps DEF RefreshRejected
<1> QED BY <1>2, <1>3, TypeFinishes DEF RefreshRejected

(* A step of one request that changes its step alone.                      *)
LEMMA TypeMoves ==
  ASSUME TypeOK, NEW t \in Tabs, NEW pc \in {"answer", "sweep", "create", "issue"},
         call' = [call EXCEPT ![t].pc = pc],
         pc = "answer" => call[t].kind \notin {"register", "login", "refresh"},
         pc = "issue" => call[t].kind # "refresh",
         Forward, RowsOK', JarsOK', RestOK'
  PROVE  TypeOK'
<1> DEFINE c == [call[t] EXCEPT !.pc = pc]
<1>1. call[t] \in Call /\ CallOK(t) /\ epoch \in Nat
      /\ (call[t].token = 0 \/ (call[t].token \in Token /\ rows[call[t].token].state # "unused"))
  BY CallTyped
<1>2. call' = [call EXCEPT ![t] = c]
  OBVIOUS
<1>3. /\ c \in Call /\ c.pc = pc /\ c.kind = call[t].kind /\ c.token = call[t].token
      /\ c.epoch = call[t].epoch
  BY <1>1 DEF Call, Step
<1>4. c.epoch <= epoch'
  BY <1>1, <1>3 DEF CallOK, Forward, Call
<1>5. c.token = 0 \/ (c.token \in Token /\ rows'[c.token].state # "unused")
  BY <1>1, <1>3 DEF Forward
<1> HIDE DEF c
<1> QED BY <1>2, <1>3, <1>4, <1>5, TypeSteps

LEMMA TypeLogsOut ==
  ASSUME TypeOK, NEW t \in Tabs, RevokeRefreshToken(t)
  PROVE  TypeOK'
<1> DEFINE k == call[t].token
           r == rows[k].root
           n == IF ReadersOf(k) = {} THEN races[r] ELSE races[r] + 1
<1>1. k \in Token /\ rows[k].state # "unused" /\ r \in Token /\ call[t].kind = "logout"
  <2>1. call[t].pc = "signout" /\ CallOK(t)
    BY CallTyped DEF RevokeRefreshToken
  <2>2. k \in Token /\ call[t].kind = "logout"
    BY <2>1 DEF CallOK
  <2>3. k # 0 /\ rows[k] \in Row
    BY <2>2, SizesAssumption DEF Token, TypeOK
  <2>4. rows[k].state # "unused"
    BY <2>1, <2>3 DEF CallOK
  <2>5. r \in Token
    BY <2>2, <2>4 DEF TypeOK
  <2> QED BY <2>2, <2>4, <2>5
<1>2. call' = [call EXCEPT ![t].pc = "answer"] /\ UNCHANGED << user, epoch, torn, links, jar, piled, missed >>
  BY DEF RevokeRefreshToken
<1>3. Forward /\ RowsOK' /\ RestOK'
  <2>1. CASE /\ rows' = [rows EXCEPT ![k].state = "revoked"]
             /\ out' = out \cup {r} /\ races' = [races EXCEPT ![r] = n] /\ UNCHANGED used
    <3>1. n \in Nat
      BY <1>1 DEF TypeOK
    <3> HIDE DEF n
    <3>2. races' \in [Token -> Nat] /\ out' \subseteq Token
      BY <1>1, <2>1, <3>1 DEF TypeOK
    <3>3. Forward /\ RowsOK'
      BY <1>1, <1>2, <2>1, EndedRow
    <3> QED BY <1>2, <2>1, <3>2, <3>3 DEF RestOK, TypeOK
  <2>2. CASE UNCHANGED << rows, out, races, used >>
    BY <1>2, <2>2, LinksForward, RowsKeep, RestKeeps
  <2>3. CASE Fault /\ UNCHANGED << rows, out, races >>
    BY <1>2, <2>3, LinksForward, RowsKeep, FaultCounts DEF RestOK, TypeOK
  <2> QED BY <2>1, <2>2, <2>3 DEF RevokeRefreshToken
<1>4. JarsOK'
  BY <1>2, <1>3, JarsKeep
<1> QED BY <1>1, <1>2, <1>3, <1>4, TypeMoves

LEMMA TypeChanges ==
  ASSUME TypeOK, NEW t \in Tabs, ChangeWrites(t)
  PROVE  TypeOK'
<1>1. epoch \in Nat /\ epoch' = epoch + 1
      /\ UNCHANGED << user, torn, rows, links, jar, out, races, piled, missed, used >>
  BY DEF ChangeWrites, TypeOK
<1>2. Forward
  BY <1>1 DEF Forward
<1>3. RowsOK'
  BY <1>1 DEF RowsOK, TypeOK, Row
<1>4. JarsOK' /\ RestOK'
  BY <1>1, <1>2, JarsKeep DEF RestOK, TypeOK
<1> QED BY <1>2, <1>3, <1>4, TypeMoves DEF ChangeWrites

LEMMA TypeRetires ==
  ASSUME TypeOK, NEW t \in Tabs, RetireLinks(t)
  PROVE  TypeOK'
<1> DEFINE p == PurposeOf(call[t].kind)
           n == piled[p] + Cardinality(Creating(p))
<1>1. /\ call' = [call EXCEPT ![t].pc = "create"]
      /\ UNCHANGED << user, epoch, torn, rows, jar, out, races, missed, used >>
  BY DEF RetireLinks
<1>2. links' \in [Link -> LinkRow] /\ \A l \in Link : links[l].state # "unused" => links'[l].state # "unused"
  BY DEF RetireLinks, TypeOK, LinkRow
<1>3. p \in Purpose
  BY DEF PurposeOf, Purpose
<1>4. n \in Nat
  <2>1. Creating(p) \subseteq Tabs
    BY DEF Creating
  <2>2. Cardinality(Creating(p)) \in Nat
    BY <2>1, TabsAssumption, FS_Subset, FS_CardinalityType
  <2> QED BY <1>3, <2>2 DEF TypeOK
<1>5. piled' = [piled EXCEPT ![p] = n]
  BY DEF RetireLinks
<1> HIDE DEF n
<1>6. piled' \in [Purpose -> Nat]
  BY <1>4, <1>5 DEF TypeOK
<1>7. Forward
  BY <1>1, <1>2 DEF Forward, TypeOK
<1>8. RowsOK' /\ JarsOK' /\ RestOK'
  BY <1>1, <1>2, <1>6, <1>7, RowsKeep, JarsKeep DEF RestOK, TypeOK
<1> QED BY <1>1, <1>7, <1>8, TypeMoves

LEMMA CreateEffect ==
  ASSUME TypeOK, NEW t \in Tabs, CreateLink(t)
  PROVE  /\ call[t].pc = "create" /\ PurposeOf(call[t].kind) \in Purpose
         /\ links' \in [Link -> LinkRow]
         /\ \E l \in Link :
              /\ links[l].state = "unused"
              /\ links'[l] = NewLink(PurposeOf(call[t].kind))
              /\ \A i \in Link \ {l} : links'[i] = links[i]
<1> DEFINE p == PurposeOf(call[t].kind)
<1>1. p \in Purpose
  BY DEF PurposeOf, Purpose
<1>2. NewLink(p) \in LinkRow
  BY <1>1 DEF NewLink, LinkRow
<1>3. PICK l \in Link : links[l].state = "unused" /\ links' = [links EXCEPT ![l] = NewLink(p)]
  BY DEF CreateLink
<1> HIDE DEF p
<1>4. links' \in [Link -> LinkRow] /\ links'[l] = NewLink(p) /\ \A i \in Link \ {l} : links'[i] = links[i]
  BY <1>2, <1>3 DEF TypeOK
<1> QED BY <1>1, <1>3, <1>4 DEF CreateLink, p

LEMMA TypeCreates ==
  ASSUME TypeOK, NEW t \in Tabs, CreateLink(t)
  PROVE  TypeOK'
<1>1. /\ links' \in [Link -> LinkRow]
      /\ \A l \in Link : links[l].state # "unused" => links'[l].state # "unused"
  BY CreateEffect DEF NewLink
<1>2. UNCHANGED << user, epoch, torn, rows, jar, out, races, piled, missed, used >>
  BY DEF CreateLink
<1>3. Forward
  BY <1>1, <1>2 DEF Forward, TypeOK
<1>4. RowsOK' /\ JarsOK' /\ RestOK'
  BY <1>1, <1>2, <1>3, RowsKeep, JarsKeep DEF RestOK, TypeOK
<1>5. CASE call[t].kind = "register" /\ call' = [call EXCEPT ![t].pc = "issue"]
  BY <1>3, <1>4, <1>5, TypeMoves
<1>6. CASE Finish(t)
  BY <1>3, <1>4, <1>6, TypeFinishes
<1> QED BY <1>5, <1>6 DEF CreateLink

LEMMA TypeVerifies ==
  ASSUME TypeOK, NEW t \in Tabs, VerifyCommits(t)
  PROVE  TypeOK'
<1>1. call[t].link \in Link
  BY CallTyped DEF VerifyCommits, CallOK
<1>2. /\ user' = "verified" /\ links' = Spent(call[t].link) /\ Finish(t)
      /\ UNCHANGED << epoch, torn, rows, jar, out, races, piled, missed, used >>
  BY DEF VerifyCommits
<1>3. /\ links' \in [Link -> LinkRow]
      /\ \A l \in Link : links[l].state # "unused" => links'[l].state # "unused"
  BY <1>1, <1>2, SpentLinks
<1>4. Forward
  BY <1>2, <1>3 DEF Forward, TypeOK
<1>5. RowsOK' /\ JarsOK' /\ RestOK'
  BY <1>2, <1>3, <1>4, RowsKeep, JarsKeep DEF RestOK, TypeOK
<1> QED BY <1>2, <1>4, <1>5, TypeFinishes

LEMMA AnswerEffect ==
  ASSUME TypeOK, NEW t \in Tabs, Answer(t)
  PROVE  LET b == BrowserOf[t] IN
         /\ b \in Browsers
         /\ jar' \in [Browsers -> [at : BOOLEAN, rt : 0..MaxTokens]]
         /\ jar'[b].rt = IF call[t].kind \in {"register", "login", "refresh"} THEN call[t].token ELSE 0
         /\ \A i \in Browsers \ {b} : jar'[i] = jar[i]
<1> DEFINE b == BrowserOf[t]
           j == IF call[t].kind \in {"register", "login", "refresh"}
                THEN [at |-> TRUE, rt |-> call[t].token] ELSE NoJar
<1>1. b \in Browsers /\ call[t].token \in 0..MaxTokens
  BY BrowserAssumption, CallTyped DEF Call
<1>2. j \in [at : BOOLEAN, rt : 0..MaxTokens]
  BY <1>1, SizesAssumption DEF NoJar
<1>3. j.rt = IF call[t].kind \in {"register", "login", "refresh"} THEN call[t].token ELSE 0
  BY DEF NoJar
<1>4. jar' = [jar EXCEPT ![b] = j]
  BY DEF Answer
<1> HIDE DEF j, b
<1>5. /\ jar' \in [Browsers -> [at : BOOLEAN, rt : 0..MaxTokens]] /\ jar'[b] = j
      /\ \A i \in Browsers \ {b} : jar'[i] = jar[i]
  BY <1>1, <1>2, <1>4 DEF TypeOK
<1> QED BY <1>1, <1>3, <1>5 DEF b

LEMMA TypeAnswers ==
  ASSUME TypeOK, NEW t \in Tabs, Answer(t)
  PROVE  TypeOK'
<1>1. UNCHANGED << user, epoch, torn, rows, links, out, races, piled, used >> /\ Finish(t)
      /\ missed' \subseteq Browsers
  BY DEF Answer, TypeOK
<1>2. Forward
  BY <1>1, LinksForward
<1>3. JarsOK'
  <2>1. \A b \in Browsers : jar[b].rt # 0 => rows'[jar[b].rt].state # "unused"
    BY <1>1 DEF TypeOK
  <2>2. call[t].token # 0 => rows'[call[t].token].state # "unused"
    BY <1>1, CallTyped DEF CallOK
  <2> QED BY <2>1, <2>2, AnswerEffect DEF JarsOK
<1>4. RowsOK' /\ RestOK'
  BY <1>1, RowsKeep DEF RestOK, TypeOK
<1> QED BY <1>1, <1>2, <1>3, <1>4, TypeFinishes

LEMMA TypeInterrupted ==
  ASSUME TypeOK, NEW t \in Tabs, Interrupted(t)
  PROVE  TypeOK'
<1>1. /\ Fault /\ Finish(t) /\ UNCHANGED << user, epoch, rows, links, jar, out, races, piled >>
      /\ torn' \in BOOLEAN /\ missed' \subseteq Browsers
  BY BrowserAssumption DEF Interrupted, TypeOK
<1>2. Forward
  BY <1>1, LinksForward
<1>3. RowsOK' /\ JarsOK' /\ RestOK'
  BY <1>1, <1>2, RowsKeep, JarsKeep, FaultCounts DEF RestOK, TypeOK
<1> QED BY <1>1, <1>2, <1>3, TypeFinishes

(* A step that leaves the requests alone.                                  *)
LEMMA TypeStays ==
  ASSUME TypeOK, UNCHANGED call, Forward, RowsOK', JarsOK', RestOK'
  PROVE  TypeOK'
<1>1. \A v \in Tabs : CallOK(v)'
  <2> SUFFICES ASSUME NEW v \in Tabs PROVE CallOK(v)'
    OBVIOUS
  <2>1. /\ call'[v] = call[v] /\ CallOK(v) /\ call[v] \in Call /\ epoch \in Nat
        /\ (call[v].token = 0 \/ (call[v].token \in Token /\ rows[call[v].token].state # "unused"))
    BY CallTyped
  <2>2. call[v].token # 0 => rows'[call[v].token].state # "unused"
    BY <2>1 DEF Forward
  <2>3. call[v].pc = "commit" => call[v].link \in Link /\ links'[call[v].link].state # "unused"
    BY <2>1 DEF CallOK, Forward
  <2>4. call[v].epoch <= epoch'
    BY <2>1 DEF CallOK, Forward, Call
  <2> QED BY <2>1, <2>2, <2>3, <2>4 DEF CallOK
<1>2. CallsOK'
  BY <1>1 DEF CallsOK, TypeOK
<1> QED BY <1>2 DEF TypeOK, RowsOK, CallsOK, CallOK, JarsOK, RestOK

LEMMA TypeAccessExpires ==
  ASSUME TypeOK, NEW b \in Browsers, AccessExpires(b)
  PROVE  TypeOK'
<1>1. UNCHANGED << user, epoch, torn, rows, links, call, out, races, piled, missed, used >>
  BY DEF AccessExpires
<1>2. jar' \in [Browsers -> [at : BOOLEAN, rt : 0..MaxTokens]] /\ \A i \in Browsers : jar'[i].rt = jar[i].rt
  BY DEF TypeOK, AccessExpires
<1>3. JarsOK'
  BY <1>1, <1>2 DEF TypeOK, JarsOK
<1> QED BY <1>1, <1>3, LinksForward, RowsKeep, RestKeeps, TypeStays

LEMMA TokenExpiresEffect ==
  ASSUME TypeOK, NEW k \in Token, TokenExpires(k)
  PROVE  /\ jar' \in [Browsers -> [at : BOOLEAN, rt : 0..MaxTokens]]
         /\ \A b \in Browsers : jar'[b].rt = IF jar[b].rt = k THEN 0 ELSE jar[b].rt
<1>1. jar' = [b \in Browsers |-> IF jar[b].rt = k THEN [jar[b] EXCEPT !.rt = 0] ELSE jar[b]]
  BY DEF TokenExpires
<1>2. \A b \in Browsers : jar[b] \in [at : BOOLEAN, rt : 0..MaxTokens]
  BY DEF TypeOK
<1>3. 0 \in 0..MaxTokens
  BY SizesAssumption
<1> QED BY <1>1, <1>2, <1>3

LEMMA TypeTokenExpires ==
  ASSUME TypeOK, NEW k \in Token, TokenExpires(k)
  PROVE  TypeOK'
<1>1. /\ UNCHANGED << user, epoch, torn, links, call, out, races, piled, missed, used >>
      /\ rows[k].state = "live" /\ rows' = [rows EXCEPT ![k].state = "expired"]
  BY DEF TokenExpires
<1>2. RowsOK' /\ Forward
  BY <1>1, EndedRow
<1>3. JarsOK'
  <2>1. \A b \in Browsers : jar[b].rt = 0 \/ (jar[b].rt \in Token /\ rows[jar[b].rt].state # "unused")
    BY SizesAssumption DEF TypeOK, Token
  <2> QED BY <1>2, <2>1, TokenExpiresEffect DEF JarsOK, Forward
<1> QED BY <1>1, <1>2, <1>3, RestKeeps, TypeStays

LEMMA TypeLinkExpires ==
  ASSUME TypeOK, NEW l \in Link, LinkExpires(l)
  PROVE  TypeOK'
<1>1. /\ UNCHANGED << user, epoch, torn, rows, jar, call, out, races, piled, missed, used >>
      /\ links' = [links EXCEPT ![l].state = "expired"]
  BY DEF LinkExpires
<1>2. links' \in [Link -> LinkRow]
      /\ \A i \in Link : links[i].state # "unused" => links'[i].state # "unused"
  BY <1>1 DEF TypeOK, LinkRow
<1>3. Forward
  BY <1>1, <1>2 DEF Forward, TypeOK
<1>4. RowsOK' /\ JarsOK' /\ RestOK'
  BY <1>1, <1>2, <1>3, RowsKeep, JarsKeep DEF RestOK, TypeOK
<1> QED BY <1>1, <1>3, <1>4, TypeStays

LEMMA TypeNext == TypeOK /\ [Next]_vars => TypeOK'
<1> SUFFICES ASSUME TypeOK, [Next]_vars PROVE TypeOK'
  OBVIOUS
<1>1. ASSUME NEW t \in Tabs, Sends(t) PROVE TypeOK'
  BY <1>1, TypeSends, TypeRevokesAll, TypeOpens
<1>2. ASSUME NEW t \in Tabs, Serves(t) PROVE TypeOK'
  BY <1>2, TypeIssues, TypeReads, TypeRejects, TypeRotates, TypeLogsOut, TypeChanges, TypeChangeSweeps,
     TypeRetires, TypeCreates, TypeResets, TypeVerifies, TypeAnswers DEF Serves
<1>3. CASE UNCHANGED vars
  BY <1>3, LinksForward, RowsKeep, RestKeeps, JarsKeep, TypeStays DEF vars
<1> QED BY <1>1, <1>2, <1>3, TypeInterrupted, TypeAccessExpires, TypeTokenExpires, TypeLinkExpires DEF Next

(* Tokens, cookies, requests and links keep their types, and every request *)
(* names rows that exist, whatever the numbers of them.                    *)
THEOREM TypeCorrect == Spec => []TypeOK
BY TypeInit, TypeNext, PTL DEF Spec

-----------------------------------------------------------------------------
(* Sessions begun before the last change of the password.                  *)

Issues(c) == c.pc \in {"rotate", "issue"} \/ (c.pc \in {"retire", "create"} /\ c.kind = "register")
Excused   == Sweeping \/ torn

RequestsExcused == \A t \in Tabs : WillIssue(t) /\ call[t].epoch < epoch => call[t].late \/ Excused

(* The requests that will issue a token are excused as the tokens are.     *)
StaleInv == StaleSessionsEnd /\ RequestsExcused

LEMMA StaleInit == Init => StaleInv
BY DEF Init, StaleInv, StaleSessionsEnd, RequestsExcused, WillIssue, Live, NoRow, NoCall

(* A step of one request that does not revoke all sessions.                *)
LEMMA StaleSteps ==
  ASSUME TypeOK, StaleInv, NEW t \in Tabs, NEW c, call' = [call EXCEPT ![t] = c],
         call[t].pc # "sweep", UNCHANGED << epoch, torn >>,
         Issues(c) /\ c.epoch < epoch => c.late \/ Excused,
         \A k \in Token : rows'[k].state = "live" =>
           \/ rows[k].state = "live" /\ rows'[k].epoch = rows[k].epoch /\ rows'[k].late = rows[k].late
           \/ (rows'[k].epoch < epoch => rows'[k].late \/ Excused)
  PROVE  StaleInv'
<1>1. call'[t] = c /\ \A v \in Tabs \ {t} : call'[v] = call[v]
  BY DEF TypeOK
<1>2. Excused => Excused'
  BY <1>1 DEF Excused, Sweeping
<1>3. StaleSessionsEnd'
  BY <1>2 DEF StaleInv, StaleSessionsEnd, Live, Excused
<1>4. RequestsExcused'
  <2> SUFFICES ASSUME NEW v \in Tabs, WillIssue(v)', (call[v].epoch < epoch)' PROVE call'[v].late \/ Excused'
    BY DEF RequestsExcused
  <2>1. CASE v = t
    BY <1>1, <1>2, <2>1 DEF WillIssue, Issues
  <2>2. CASE v # t
    BY <1>1, <1>2, <2>2 DEF WillIssue, StaleInv, RequestsExcused
  <2> QED BY <2>1, <2>2
<1> QED BY <1>3, <1>4 DEF StaleInv

(* A step that revokes all sessions but one.                               *)
LEMMA StaleSweeps ==
  ASSUME TypeOK, NEW t \in Tabs, NEW keep, rows' = Swept(keep), epoch' \in Nat, epoch <= epoch',
         NEW c, ~Issues(c), call' = [Overtaken(t) EXCEPT ![t] = c]
  PROVE  StaleInv'
<1>1. StaleSessionsEnd'
  <2>1. \A k \in Token : rows'[k].state = "live" => rows'[k].epoch = epoch'
    BY SweptRows
  <2> QED BY <2>1 DEF StaleSessionsEnd, Live
<1>2. RequestsExcused'
  <2> SUFFICES ASSUME NEW v \in Tabs, WillIssue(v)' PROVE call'[v].late
    BY DEF RequestsExcused
  <2>1. v # t
    BY OvertakenCalls DEF WillIssue, Issues
  <2>2. call'[v] = Overtaken(t)[v]
    BY <2>1, OvertakenCalls
  <2>3. WillIssue(v)
    BY <2>2, OvertakenCalls DEF WillIssue
  <2> QED BY <2>1, <2>2, <2>3, OvertakenCalls
<1> QED BY <1>1, <1>2 DEF StaleInv

LEMMA StaleSends ==
  ASSUME TypeOK, StaleInv, NEW t \in Tabs, Sends(t)
  PROVE  StaleInv'
<1>0. epoch \in Nat /\ NoCall.epoch = 0 /\ NoCall.kind = "login"
  BY DEF TypeOK, NoCall
<1>1. ASSUME NEW c, Send(t, c), Issues(c) => c.epoch = epoch, UNCHANGED << epoch, torn, rows >>
      PROVE  StaleInv'
  <2>1. call' = [call EXCEPT ![t] = c] /\ call[t].pc # "sweep"
    BY <1>1 DEF Send
  <2>2. Issues(c) /\ c.epoch < epoch => c.late \/ Excused
    BY <1>0, <1>1
  <2>3. \A k \in Token : rows'[k] = rows[k]
    BY <1>1
  <2> QED BY <1>1, <2>1, <2>2, <2>3, StaleSteps
<1>2. CASE Register(t)
  <2> DEFINE c == [NoCall EXCEPT !.pc = "retire", !.kind = "register", !.epoch = epoch]
  <2>1. c.epoch = epoch
    BY DEF NoCall
  <2> QED BY <1>1, <1>2, <2>1 DEF Register
<1>3. CASE Login(t)
  <2> DEFINE c == [NoCall EXCEPT !.pc = "issue", !.kind = "login", !.epoch = epoch]
  <2>1. c.epoch = epoch
    BY DEF NoCall
  <2> QED BY <1>1, <1>3, <2>1 DEF Login
<1>4. CASE RefreshSends(t) \/ LogoutSends(t) \/ ChangePassword(t)
  <2>1. ASSUME NEW pc \in {"read", "signout", "write"}, NEW kind
        PROVE  ~Issues([NoCall EXCEPT !.pc = pc, !.kind = kind, !.token = Jar(t).rt])
    BY DEF Issues, NoCall
  <2> QED BY <1>1, <1>4, <2>1 DEF RefreshSends, LogoutSends, ChangePassword
<1>5. CASE ForgotPassword(t) \/ ResendVerification(t)
  <2>1. ASSUME NEW kind \in {"forgot", "resend"}
        PROVE  ~Issues([NoCall EXCEPT !.pc = "retire", !.kind = kind])
    BY DEF Issues, NoCall
  <2> QED BY <1>1, <1>5, <2>1 DEF ForgotPassword, ResendVerification
<1>6. ASSUME NEW l \in Link, OpenLink(t, l) PROVE StaleInv'
  <2>1. ~Issues([NoCall EXCEPT !.pc = "commit", !.kind = links[l].for, !.link = l])
    BY DEF Issues, NoCall
  <2> QED BY <1>1, <1>6, <2>1 DEF OpenLink
<1>7. CASE RevokeAllSessions(t)
  <2>1. ~Issues([NoCall EXCEPT !.pc = "answer", !.kind = "revoke"])
    BY DEF Issues, NoCall
  <2>2. /\ rows' = Swept(0) /\ epoch' \in Nat /\ epoch <= epoch'
        /\ call' = [Overtaken(t) EXCEPT ![t] = [NoCall EXCEPT !.pc = "answer", !.kind = "revoke"]]
    BY <1>0, <1>7 DEF RevokeAllSessions
  <2> QED BY <2>1, <2>2, StaleSweeps
<1> QED BY <1>2, <1>3, <1>4, <1>5, <1>6, <1>7 DEF Sends

LEMMA StaleServes ==
  ASSUME TypeOK, StaleInv, NEW t \in Tabs, Serves(t)
  PROVE  StaleInv'
<1>0. epoch \in Nat /\ NoCall.pc = "idle" /\ call[t] \in Call
  BY DEF TypeOK, NoCall
<1>1. CASE IssueTokens(t)
  <2>1. PICK k \in Token :
          /\ rows'[k].epoch = call[t].epoch /\ rows'[k].late = call[t].late
          /\ \A i \in Token \ {k} : rows'[i] = rows[i]
          /\ call' = [call EXCEPT ![t] = [call[t] EXCEPT !.pc = "answer", !.token = k]]
          /\ call[t].pc = "issue"
    BY <1>1, IssueEffect
  <2>2. ~Issues([call[t] EXCEPT !.pc = "answer", !.token = k])
    BY <1>0 DEF Issues, Call
  <2>3. call[t].epoch < epoch => call[t].late \/ Excused
    BY <2>1 DEF StaleInv, RequestsExcused, WillIssue
  <2>4. \A i \in Token : rows'[i].state = "live" =>
           \/ rows[i].state = "live" /\ rows'[i].epoch = rows[i].epoch /\ rows'[i].late = rows[i].late
           \/ (rows'[i].epoch < epoch => rows'[i].late \/ Excused)
    BY <2>1, <2>3
  <2>5. UNCHANGED << epoch, torn >>
    BY <1>1 DEF IssueTokens
  <2> QED BY <2>1, <2>2, <2>4, <2>5, StaleSteps
<1>2. CASE RefreshReads(t)
  <2>1. /\ call[t].token \in Token /\ rows[call[t].token].state = "live"
        /\ call'[t].epoch = rows[call[t].token].epoch /\ call'[t].late = rows[call[t].token].late
        /\ call' = [call EXCEPT ![t] = call'[t]]
    BY <1>2, ReadEffect
  <2>2. call'[t].epoch < epoch => call'[t].late \/ Excused
    BY <2>1 DEF StaleInv, StaleSessionsEnd, Live, Excused
  <2>3. UNCHANGED << epoch, torn, rows >> /\ call[t].pc = "read"
    BY <1>2 DEF RefreshReads
  <2> QED BY <2>1, <2>2, <2>3, StaleSteps
<1>3. CASE RefreshRejected(t)
  <2>1. /\ UNCHANGED << epoch, torn >> /\ call[t].pc = "read" /\ call' = [call EXCEPT ![t] = NoCall]
        /\ rows' = [rows EXCEPT ![call[t].token].state = "revoked"]
    BY <1>3 DEF RefreshRejected, Finish
  <2>2. \A i \in Token : rows'[i].state = "live" => rows'[i] = rows[i] /\ rows[i].state = "live"
    BY <2>1 DEF TypeOK, Row
  <2>3. ~Issues(NoCall)
    BY <1>0 DEF Issues
  <2> QED BY <2>1, <2>2, <2>3, StaleSteps
<1>4. CASE RefreshRotates(t)
  <2> DEFINE c == [call[t] EXCEPT !.pc = "issue"]
  <2>1. /\ call[t].token \in Token /\ call[t].pc = "rotate" /\ rows'[call[t].token].state = "revoked"
        /\ \A i \in Token \ {call[t].token} : rows'[i] = rows[i]
        /\ call' = [call EXCEPT ![t] = c]
    BY <1>4, RotateEffect
  <2>2. c.epoch = call[t].epoch /\ c.late = call[t].late
    BY <1>0 DEF Call
  <2>3. c.epoch < epoch => c.late \/ Excused
    BY <2>1, <2>2 DEF StaleInv, RequestsExcused, WillIssue
  <2>4. \A i \in Token : rows'[i].state = "live" => rows'[i] = rows[i] /\ rows[i].state = "live"
    BY <2>1
  <2>5. UNCHANGED << epoch, torn >>
    BY <1>4 DEF RefreshRotates
  <2> HIDE DEF c
  <2> QED BY <2>1, <2>3, <2>4, <2>5, StaleSteps
<1>5. CASE RevokeRefreshToken(t)
  <2> DEFINE c == [call[t] EXCEPT !.pc = "answer"]
  <2>1. /\ UNCHANGED << epoch, torn >> /\ call[t].pc = "signout" /\ call' = [call EXCEPT ![t] = c]
        /\ UNCHANGED rows \/ rows' = [rows EXCEPT ![call[t].token].state = "revoked"]
    BY <1>5 DEF RevokeRefreshToken
  <2>2. \A i \in Token : rows'[i].state = "live" => rows'[i] = rows[i] /\ rows[i].state = "live"
    BY <2>1 DEF TypeOK, Row
  <2>3. ~Issues(c)
    BY <1>0 DEF Issues, Call
  <2> HIDE DEF c
  <2> QED BY <2>1, <2>2, <2>3, StaleSteps
<1>6. CASE ChangeWrites(t)
  <2>1. Sweeping'
    BY <1>6 DEF ChangeWrites, Sweeping, TypeOK
  <2> QED BY <2>1 DEF StaleInv, StaleSessionsEnd, RequestsExcused, Excused
<1>7. CASE ChangeSweeps(t)
  <2>1. ~Issues(NoCall)
    BY <1>0 DEF Issues
  <2>2. /\ rows' = Swept(call[t].token) /\ epoch' \in Nat /\ epoch <= epoch'
        /\ call' = [Overtaken(t) EXCEPT ![t] = NoCall]
    BY <1>0, <1>7 DEF ChangeSweeps
  <2> QED BY <2>1, <2>2, StaleSweeps
<1>8. CASE ResetCommits(t)
  <2> DEFINE c == [Overtaken(t)[t] EXCEPT !.pc = "answer"]
  <2>1. call' = [Overtaken(t) EXCEPT ![t] = c] /\ rows' = Swept(0)
        /\ epoch' \in Nat /\ epoch <= epoch'
    BY <1>0, <1>8 DEF ResetCommits
  <2>2. ~Issues(c)
    BY OvertakenCalls DEF Issues, Call
  <2> HIDE DEF c
  <2> QED BY <2>1, <2>2, StaleSweeps
<1>9. CASE RetireLinks(t) \/ CreateLink(t)
  <2>1. \A k \in Token : rows'[k] = rows[k]
    BY <1>9 DEF RetireLinks, CreateLink
  <2>2. UNCHANGED << epoch, torn >> /\ call[t].pc \in {"retire", "create"}
    BY <1>9 DEF RetireLinks, CreateLink
  <2>3. CASE Finish(t)
    <3>1. ~Issues(NoCall)
      BY <1>0 DEF Issues
    <3> QED BY <2>1, <2>2, <2>3, <3>1, StaleSteps DEF Finish
  <2>4. ASSUME NEW pc \in {"create", "issue"}, call' = [call EXCEPT ![t].pc = pc],
               pc = "issue" => call[t].kind = "register"
        PROVE  StaleInv'
    <3> DEFINE c == [call[t] EXCEPT !.pc = pc]
    <3>1. call' = [call EXCEPT ![t] = c]
      BY <2>4
    <3>2. c.pc = pc /\ c.kind = call[t].kind /\ c.epoch = call[t].epoch /\ c.late = call[t].late
      BY <1>0 DEF Call
    <3>3. Issues(c) /\ c.epoch < epoch => c.late \/ Excused
      BY <2>2, <2>4, <3>2 DEF Issues, StaleInv, RequestsExcused, WillIssue
    <3> HIDE DEF c
    <3> QED BY <2>1, <2>2, <3>1, <3>3, StaleSteps
  <2> QED BY <1>9, <2>3, <2>4 DEF RetireLinks, CreateLink
<1>10. CASE VerifyCommits(t) \/ Answer(t)
  <2>1. ~Issues(NoCall)
    BY <1>0 DEF Issues
  <2> QED BY <1>10, <2>1, StaleSteps DEF VerifyCommits, Answer, Finish
<1> QED BY <1>1, <1>2, <1>3, <1>4, <1>5, <1>6, <1>7, <1>8, <1>9, <1>10 DEF Serves

LEMMA StaleInterrupted ==
  ASSUME TypeOK, StaleInv, NEW t \in Tabs, Interrupted(t)
  PROVE  StaleInv'
<1>1. /\ UNCHANGED << epoch, rows >> /\ torn' = (torn \/ call[t].pc = "sweep")
      /\ call'[t] = NoCall /\ \A v \in Tabs \ {t} : call'[v] = call[v]
  BY DEF Interrupted, Finish, TypeOK
<1>2. NoCall.pc = "idle"
  BY DEF NoCall
<1>3. Excused => Excused'
  BY <1>1 DEF Excused, Sweeping
<1>4. StaleSessionsEnd'
  BY <1>1, <1>3 DEF StaleInv, StaleSessionsEnd, Live, Excused
<1>5. RequestsExcused'
  BY <1>1, <1>2, <1>3 DEF StaleInv, RequestsExcused, WillIssue
<1> QED BY <1>4, <1>5 DEF StaleInv

LEMMA StaleNext == TypeOK /\ StaleInv /\ [Next]_vars => StaleInv'
<1> SUFFICES ASSUME TypeOK, StaleInv, [Next]_vars PROVE StaleInv'
  OBVIOUS
<1>1. ASSUME UNCHANGED << epoch, torn, call >>,
             \A k \in Token : rows'[k].state = "live" => rows'[k] = rows[k] /\ rows[k].state = "live"
      PROVE  StaleInv'
  <2>1. Sweeping' <=> Sweeping
    BY <1>1 DEF Sweeping
  <2> QED BY <1>1, <2>1 DEF StaleInv, StaleSessionsEnd, RequestsExcused, WillIssue, Live, Excused
<1>2. ASSUME NEW b \in Browsers, AccessExpires(b) PROVE StaleInv'
  BY <1>1, <1>2 DEF AccessExpires
<1>3. ASSUME NEW k \in Token, TokenExpires(k) PROVE StaleInv'
  <2>1. \A i \in Token : rows'[i].state = "live" => rows'[i] = rows[i] /\ rows[i].state = "live"
    BY <1>3 DEF TokenExpires, TypeOK, Row
  <2> QED BY <1>1, <1>3, <2>1 DEF TokenExpires
<1>4. ASSUME NEW l \in Link, LinkExpires(l) PROVE StaleInv'
  BY <1>1, <1>4 DEF LinkExpires
<1>5. CASE UNCHANGED vars
  BY <1>1, <1>5 DEF vars
<1> QED BY <1>2, <1>3, <1>4, <1>5, StaleSends, StaleServes, StaleInterrupted DEF Next

(* A password change, a reset and a revocation of all sessions leave no    *)
(* session begun before, but those of the requests they overtook, whatever *)
(* the numbers of browsers, tabs, tokens, links and faults.                *)
THEOREM StaleSessionsCorrect == Spec => []StaleSessionsEnd
<1>1. Init => TypeOK /\ StaleInv
  BY TypeInit, StaleInit
<1>2. TypeOK /\ StaleInv /\ [Next]_vars => (TypeOK /\ StaleInv)'
  BY TypeNext, StaleNext
<1>3. StaleInv => StaleSessionsEnd
  BY DEF StaleInv
<1> QED BY <1>1, <1>2, <1>3, PTL DEF Spec

-----------------------------------------------------------------------------
(* The one-time links.                                                     *)

FewLinks == \A p \in Purpose : Cardinality(LiveLinks(p)) + Cardinality(Creating(p)) <= 1 + piled[p]
FewUses  == \A l \in Link : links[l].uses + Cardinality(Spending(l)) <= 1 + links[l].shared
Unspent  == \A l \in Link : links[l].state \in {"unused", "live"} => links[l].uses = 0

(* A link that can be opened has not been spent.                           *)
LinksInv == FewLinks /\ FewUses /\ Unspent

LEMMA LinkSetsFinite ==
  /\ \A p : IsFiniteSet(LiveLinks(p)) /\ Cardinality(LiveLinks(p)) \in Nat
  /\ \A p : IsFiniteSet(Creating(p)) /\ Cardinality(Creating(p)) \in Nat
  /\ \A l : IsFiniteSet(Spending(l)) /\ Cardinality(Spending(l)) \in Nat
<1>1. IsFiniteSet(Link)
  BY SizesAssumption, FS_Interval DEF Link
<1>2. \A p : LiveLinks(p) \in SUBSET Link /\ Creating(p) \in SUBSET Tabs /\ Spending(p) \in SUBSET Tabs
  BY DEF LiveLinks, Creating, Spending
<1> QED BY <1>1, <1>2, TabsAssumption, FS_Subset, FS_CardinalityType

LEMMA LinkSetsFiniteNext ==
  /\ \A p : IsFiniteSet(LiveLinks(p)') /\ Cardinality(LiveLinks(p)') \in Nat
  /\ \A p : IsFiniteSet(Creating(p)') /\ Cardinality(Creating(p)') \in Nat
  /\ \A l : IsFiniteSet(Spending(l)') /\ Cardinality(Spending(l)') \in Nat
<1>1. IsFiniteSet(Link)
  BY SizesAssumption, FS_Interval DEF Link
<1>2. \A p : LiveLinks(p)' \in SUBSET Link /\ Creating(p)' \in SUBSET Tabs /\ Spending(p)' \in SUBSET Tabs
  BY DEF LiveLinks, Creating, Spending
<1> QED BY <1>1, <1>2, TabsAssumption, FS_Subset, FS_CardinalityType

LEMMA LinksInit == Init => LinksInv
<1> SUFFICES ASSUME Init PROVE LinksInv
  OBVIOUS
<1>1. \A p : LiveLinks(p) = {} /\ Creating(p) = {} /\ Spending(p) = {}
  BY DEF Init, LiveLinks, Creating, Spending, NoLink, NoCall
<1>0. Cardinality({}) = 0
  BY FS_EmptySet
<1>2. FewLinks
  BY <1>0, <1>1 DEF Init, FewLinks
<1>3. FewUses
  <2>1. \A l \in Link : links[l].uses = 0 /\ links[l].shared = 0
    BY DEF Init, NoLink
  <2> QED BY <1>0, <1>1, <2>1 DEF FewUses
<1>4. Unspent
  BY DEF Init, Unspent, NoLink
<1> QED BY <1>2, <1>3, <1>4 DEF LinksInv

(* No request has begun to create or to spend a link.                      *)
NoneBegins ==
  \A v \in Tabs :
    /\ call'[v].pc = "create" => call[v].pc = "create" /\ call'[v].kind = call[v].kind
    /\ call'[v].pc = "commit" => call[v].pc = "commit" /\ call'[v].link = call[v].link

LEMMA FewLinksKeep ==
  ASSUME TypeOK, FewLinks, NoneBegins, UNCHANGED piled,
         \A l \in Link : links'[l].state = "live" => links[l].state = "live" /\ links'[l].for = links[l].for
  PROVE  FewLinks'
<1> SUFFICES ASSUME NEW p \in Purpose
             PROVE  Cardinality(LiveLinks(p)') + Cardinality(Creating(p)') <= 1 + piled[p]
  BY DEF FewLinks
<1>1. LiveLinks(p)' \subseteq LiveLinks(p) /\ Creating(p)' \subseteq Creating(p)
  BY DEF NoneBegins, LiveLinks, Creating
<1>2. /\ Cardinality(LiveLinks(p)') <= Cardinality(LiveLinks(p))
      /\ Cardinality(Creating(p)') <= Cardinality(Creating(p))
  BY <1>1, LinkSetsFinite, FS_Subset
<1>3. Cardinality(LiveLinks(p)) + Cardinality(Creating(p)) <= 1 + piled[p] /\ piled[p] \in Nat
  BY DEF FewLinks, TypeOK
<1> QED BY <1>2, <1>3, LinkSetsFinite, LinkSetsFiniteNext

LEMMA FewUsesKeep ==
  ASSUME TypeOK, FewUses, NEW l \in Link, Spending(l)' \subseteq Spending(l),
         links'[l].uses = links[l].uses, links'[l].shared = links[l].shared
  PROVE  links'[l].uses + Cardinality(Spending(l)') <= 1 + links'[l].shared
<1>1. Cardinality(Spending(l)') <= Cardinality(Spending(l))
  BY LinkSetsFinite, FS_Subset
<1>2. /\ links[l].uses + Cardinality(Spending(l)) <= 1 + links[l].shared
      /\ links[l].uses \in Nat /\ links[l].shared \in Nat
  BY DEF FewUses, TypeOK, LinkRow
<1> QED BY <1>1, <1>2, LinkSetsFinite, LinkSetsFiniteNext

(* A step that creates, opens and spends no link.                          *)
LEMMA LinksSteps ==
  ASSUME TypeOK, LinksInv, NoneBegins, UNCHANGED piled,
         \A l \in Link :
           /\ links'[l].uses = links[l].uses /\ links'[l].shared = links[l].shared
           /\ links'[l].state \in {"unused", "live"} => links'[l] = links[l]
  PROVE  LinksInv'
<1>1. \A l \in Link : Spending(l)' \subseteq Spending(l)
  BY DEF NoneBegins, Spending
<1>2. FewUses'
  BY <1>1, FewUsesKeep DEF LinksInv, FewUses
<1>3. Unspent'
  BY DEF LinksInv, Unspent
<1>4. FewLinks'
  BY FewLinksKeep DEF LinksInv
<1> QED BY <1>2, <1>3, <1>4 DEF LinksInv

LEMMA NoneBeginsStep ==
  ASSUME TypeOK, NEW t \in Tabs, NEW c, call' = [call EXCEPT ![t] = c], c.pc \notin {"create", "commit"}
  PROVE  NoneBegins
BY DEF TypeOK, NoneBegins

LEMMA NoneBeginsSweep ==
  ASSUME TypeOK, NEW t \in Tabs, NEW c, call' = [Overtaken(t) EXCEPT ![t] = c], c.pc \notin {"create", "commit"}
  PROVE  NoneBegins
<1>1. call'[t] = c /\ \A v \in Tabs \ {t} : call'[v] = Overtaken(t)[v]
  BY OvertakenCalls
<1> QED BY <1>1, OvertakenCalls DEF NoneBegins

LEMMA LinksSends ==
  ASSUME TypeOK, LinksInv, NEW t \in Tabs, Sends(t), \A l \in Link : ~OpenLink(t, l)
  PROVE  LinksInv'
<1>1. ASSUME NEW c, Send(t, c), c.pc \notin {"create", "commit"}, UNCHANGED << links, piled >>
      PROVE  LinksInv'
  BY <1>1, NoneBeginsStep, LinksSteps DEF Send
<1>2. CASE Register(t)
  <2>1. [NoCall EXCEPT !.pc = "retire", !.kind = "register", !.epoch = epoch].pc \notin {"create", "commit"}
    BY DEF NoCall
  <2> QED BY <1>1, <1>2, <2>1 DEF Register
<1>3. CASE Login(t)
  <2>1. [NoCall EXCEPT !.pc = "issue", !.kind = "login", !.epoch = epoch].pc \notin {"create", "commit"}
    BY DEF NoCall
  <2> QED BY <1>1, <1>3, <2>1 DEF Login
<1>4. CASE RefreshSends(t) \/ LogoutSends(t) \/ ChangePassword(t)
  <2>1. ASSUME NEW pc \in {"read", "signout", "write"}, NEW kind
        PROVE  [NoCall EXCEPT !.pc = pc, !.kind = kind, !.token = Jar(t).rt].pc \notin {"create", "commit"}
    BY DEF NoCall
  <2> QED BY <1>1, <1>4, <2>1 DEF RefreshSends, LogoutSends, ChangePassword
<1>5. CASE ForgotPassword(t) \/ ResendVerification(t)
  <2>1. ASSUME NEW kind PROVE [NoCall EXCEPT !.pc = "retire", !.kind = kind].pc \notin {"create", "commit"}
    BY DEF NoCall
  <2> QED BY <1>1, <1>5, <2>1 DEF ForgotPassword, ResendVerification
<1>6. CASE RevokeAllSessions(t)
  <2>1. [NoCall EXCEPT !.pc = "answer", !.kind = "revoke"].pc \notin {"create", "commit"}
    BY DEF NoCall
  <2>2. NoneBegins
    BY <1>6, <2>1, NoneBeginsSweep DEF RevokeAllSessions
  <2> QED BY <1>6, <2>2, LinksSteps DEF RevokeAllSessions
<1> QED BY <1>2, <1>3, <1>4, <1>5, <1>6 DEF Sends

LEMMA LinksOpens ==
  ASSUME TypeOK, LinksInv, NEW t \in Tabs, NEW l \in Link, OpenLink(t, l)
  PROVE  LinksInv'
<1> DEFINE c == [NoCall EXCEPT !.pc = "commit", !.kind = links[l].for, !.link = l]
           n == IF Spending(l) = {} THEN links[l].shared ELSE links[l].shared + 1
<1>0. c.pc = "commit" /\ c.link = l
  BY DEF NoCall
<1>1. /\ call[t].pc = "idle" /\ call'[t] = c /\ \A v \in Tabs \ {t} : call'[v] = call[v]
      /\ links[l].state = "live" /\ links[l].uses = 0 /\ links[l].shared \in Nat /\ UNCHANGED piled
  BY DEF OpenLink, Send, TypeOK, LinkRow, LinksInv, Unspent
<1>2. links' = [links EXCEPT ![l].shared = n]
  BY DEF OpenLink
<1>3. n \in Nat /\ (Spending(l) # {} => n = links[l].shared + 1)
  BY <1>1
<1> HIDE DEF n, c
<1>4. /\ links'[l].uses = 0 /\ links'[l].shared = n /\ links'[l].state = "live" /\ links'[l].for = links[l].for
      /\ \A i \in Link \ {l} : links'[i] = links[i]
  BY <1>1, <1>2 DEF TypeOK, LinkRow
<1>5. FewLinks'
  <2> SUFFICES ASSUME NEW p \in Purpose
               PROVE  Cardinality(LiveLinks(p)') + Cardinality(Creating(p)') <= 1 + piled'[p]
    BY DEF FewLinks
  <2>1. LiveLinks(p)' = LiveLinks(p) /\ Creating(p)' = Creating(p)
    BY <1>0, <1>1, <1>4 DEF LiveLinks, Creating
  <2> QED BY <1>1, <2>1 DEF LinksInv, FewLinks
<1>6. FewUses'
  <2>1. \A i \in Link \ {l} : Spending(i)' \subseteq Spending(i)
    BY <1>0, <1>1 DEF Spending
  <2>2. \A i \in Link \ {l} : links'[i].uses + Cardinality(Spending(i)') <= 1 + links'[i].shared
    BY <1>4, <2>1, FewUsesKeep DEF LinksInv
  <2>3. Spending(l)' = Spending(l) \cup {t}
    BY <1>0, <1>1 DEF Spending
  <2>4. Cardinality(Spending(l)') <= Cardinality(Spending(l)) + 1
    BY <2>3, LinkSetsFinite, FS_AddElement
  <2>5. links[l].uses + Cardinality(Spending(l)) <= 1 + links[l].shared
    BY DEF LinksInv, FewUses
  <2>6. CASE Spending(l) = {}
    <3>1. Cardinality(Spending(l)) = 0
      BY <2>6, FS_EmptySet
    <3>2. Cardinality(Spending(l)') <= 1
      BY <2>4, <3>1
    <3> QED BY <1>3, <1>4, <2>2, <3>2, LinkSetsFiniteNext DEF FewUses
  <2>7. CASE Spending(l) # {}
    <3>1. Cardinality(Spending(l)') <= 1 + n
      BY <1>1, <1>3, <2>4, <2>5, <2>7, LinkSetsFinite, LinkSetsFiniteNext
    <3> QED BY <1>3, <1>4, <2>2, <3>1, LinkSetsFiniteNext DEF FewUses
  <2> QED BY <2>6, <2>7
<1>7. Unspent'
  BY <1>4 DEF LinksInv, Unspent
<1> QED BY <1>5, <1>6, <1>7 DEF LinksInv

(* A request that spends the link it has read.                             *)
LEMMA LinksSpent ==
  ASSUME TypeOK, LinksInv, NEW t \in Tabs, call[t].pc = "commit", links' = Spent(call[t].link),
         NoneBegins, call'[t].pc # "commit", UNCHANGED piled
  PROVE  LinksInv'
<1>1. PICK l \in Link : l = call[t].link
  BY CallTyped DEF CallOK
<1>2. /\ links'[l].state = "used" /\ links'[l].uses = links[l].uses + 1
      /\ links'[l].shared = links[l].shared
      /\ \A i \in Link \ {l} : links'[i] = links[i]
  BY <1>1, SpentLinks
<1>3. FewLinks'
  BY <1>2, FewLinksKeep DEF LinksInv
<1>4. \A i \in Link : Spending(i)' \subseteq Spending(i)
  BY DEF NoneBegins, Spending
<1>5. \A i \in Link \ {l} : links'[i].uses + Cardinality(Spending(i)') <= 1 + links'[i].shared
  BY <1>2, <1>4, FewUsesKeep DEF LinksInv
<1>6. t \in Spending(l) /\ t \notin Spending(l)'
  BY <1>1 DEF Spending
<1>7. Cardinality(Spending(l)') <= Cardinality(Spending(l)) - 1
  <2>1. Spending(l)' \subseteq Spending(l) \ {t}
    BY <1>1, <1>4, <1>6
  <2>2. /\ IsFiniteSet(Spending(l) \ {t})
        /\ Cardinality(Spending(l) \ {t}) = Cardinality(Spending(l)) - 1
    BY <1>6, LinkSetsFinite, FS_RemoveElement
  <2> QED BY <2>1, <2>2, FS_Subset
<1>8. links'[l].uses + Cardinality(Spending(l)') <= 1 + links'[l].shared
  <2>1. /\ links[l].uses + Cardinality(Spending(l)) <= 1 + links[l].shared
        /\ links[l].uses \in Nat /\ links[l].shared \in Nat
    BY <1>1 DEF LinksInv, FewUses, TypeOK, LinkRow
  <2> QED BY <1>2, <1>7, <2>1, LinkSetsFinite, LinkSetsFiniteNext
<1>9. FewUses'
  BY <1>5, <1>8 DEF FewUses
<1>10. Unspent'
  BY <1>2 DEF LinksInv, Unspent
<1> QED BY <1>3, <1>9, <1>10 DEF LinksInv

LEMMA LinksRetires ==
  ASSUME TypeOK, LinksInv, NEW t \in Tabs, RetireLinks(t)
  PROVE  LinksInv'
<1>0. PICK p \in Purpose : p = PurposeOf(call[t].kind)
  BY DEF PurposeOf, Purpose
<1>1. /\ call[t].pc = "retire" /\ call'[t].pc = "create" /\ call'[t].kind = call[t].kind
      /\ \A v \in Tabs \ {t} : call'[v] = call[v]
  BY CallTyped DEF RetireLinks, TypeOK
<1>2. \A l \in Link :
        /\ links'[l].uses = links[l].uses /\ links'[l].shared = links[l].shared /\ links'[l].for = links[l].for
        /\ links'[l].state \in {"unused", "live"} => links'[l] = links[l]
        /\ links[l].for = p => links'[l].state # "live"
  BY <1>0 DEF RetireLinks, TypeOK, LinkRow
<1>3. Unspent'
  BY <1>2 DEF LinksInv, Unspent
<1>4. FewUses'
  <2>1. \A l \in Link : Spending(l)' \subseteq Spending(l)
    BY <1>1 DEF Spending
  <2> QED BY <1>2, <2>1, FewUsesKeep DEF LinksInv, FewUses
<1>5. piled'[p] = piled[p] + Cardinality(Creating(p)) /\ \A q \in Purpose \ {p} : piled'[q] = piled[q]
  BY <1>0 DEF RetireLinks, TypeOK
<1>6. Cardinality(LiveLinks(p)') + Cardinality(Creating(p)') <= 1 + piled'[p]
  <2>1. LiveLinks(p)' = {} /\ Creating(p)' \subseteq Creating(p) \cup {t}
    BY <1>0, <1>1, <1>2 DEF LiveLinks, Creating
  <2>2. /\ IsFiniteSet(Creating(p) \cup {t})
        /\ Cardinality(Creating(p) \cup {t}) <= Cardinality(Creating(p)) + 1
    BY LinkSetsFinite, FS_AddElement
  <2>3. Cardinality(Creating(p)') <= Cardinality(Creating(p) \cup {t})
    BY <2>1, <2>2, FS_Subset
  <2>4. Cardinality(Creating(p) \cup {t}) \in Nat
    BY <2>2, FS_CardinalityType
  <2>5. Cardinality(LiveLinks(p)') = 0
    BY <2>1, FS_EmptySet
  <2>6. piled[p] \in Nat
    BY <1>1 DEF TypeOK
  <2> QED BY <1>5, <2>2, <2>3, <2>4, <2>5, <2>6, LinkSetsFinite, LinkSetsFiniteNext
<1>7. ASSUME NEW q \in Purpose \ {p}
      PROVE  Cardinality(LiveLinks(q)') + Cardinality(Creating(q)') <= 1 + piled'[q]
  <2>1. LiveLinks(q)' \subseteq LiveLinks(q) /\ Creating(q)' \subseteq Creating(q)
    BY <1>0, <1>1, <1>2 DEF LiveLinks, Creating
  <2>2. /\ Cardinality(LiveLinks(q)') <= Cardinality(LiveLinks(q))
        /\ Cardinality(Creating(q)') <= Cardinality(Creating(q))
    BY <2>1, LinkSetsFinite, FS_Subset
  <2>3. Cardinality(LiveLinks(q)) + Cardinality(Creating(q)) <= 1 + piled[q] /\ piled[q] \in Nat
    BY DEF LinksInv, FewLinks, TypeOK
  <2> QED BY <1>5, <2>2, <2>3, LinkSetsFinite, LinkSetsFiniteNext
<1>8. FewLinks'
  BY <1>1, <1>6, <1>7 DEF FewLinks
<1> QED BY <1>3, <1>4, <1>8 DEF LinksInv

LEMMA LinksCreates ==
  ASSUME TypeOK, LinksInv, NEW t \in Tabs, CreateLink(t)
  PROVE  LinksInv'
<1>0. PICK p \in Purpose : p = PurposeOf(call[t].kind)
  BY CreateEffect
<1>1. /\ call[t].pc = "create" /\ UNCHANGED piled
      /\ call'[t].pc \in {"issue", "idle"} /\ \A v \in Tabs \ {t} : call'[v] = call[v]
  <2>1. call[t].pc = "create" /\ UNCHANGED piled
    BY DEF CreateLink
  <2>2. CASE call' = [call EXCEPT ![t].pc = "issue"]
    BY <2>1, <2>2 DEF TypeOK
  <2>3. CASE call' = [call EXCEPT ![t] = NoCall]
    BY <2>1, <2>3 DEF TypeOK, NoCall
  <2> QED BY <2>1, <2>2, <2>3 DEF CreateLink, Finish
<1>2. PICK l \in Link :
        /\ links[l].state = "unused"
        /\ links'[l] = NewLink(p)
        /\ \A i \in Link \ {l} : links'[i] = links[i]
  BY <1>0, CreateEffect
<1>3. /\ t \in Creating(p) /\ t \notin Creating(p)' /\ \A q : Creating(q)' \subseteq Creating(q)
      /\ \A i : Spending(i)' \subseteq Spending(i)
  BY <1>0, <1>1 DEF Creating, Spending
<1>4. links'[l].state = "live" /\ links'[l].for = p /\ links'[l].uses = 0 /\ links'[l].shared = 0
  BY <1>2 DEF NewLink
<1>5. Unspent'
  BY <1>2, <1>4 DEF LinksInv, Unspent
<1>6. FewUses'
  <2>1. Spending(l)' = {}
    <3>1. \A v \in Tabs : call[v].pc = "commit" => call[v].link # l
      BY <1>2, CallTyped DEF CallOK
    <3>2. Spending(l) = {}
      BY <3>1 DEF Spending
    <3> QED BY <1>3, <3>2
  <2>2. Cardinality(Spending(l)') = 0
    BY <2>1, FS_EmptySet
  <2>3. \A i \in Link \ {l} : links'[i].uses + Cardinality(Spending(i)') <= 1 + links'[i].shared
    BY <1>2, <1>3, FewUsesKeep DEF LinksInv
  <2> QED BY <1>4, <2>2, <2>3 DEF FewUses
<1>7. FewLinks'
  <2> SUFFICES ASSUME NEW q \in Purpose
               PROVE  Cardinality(LiveLinks(q)') + Cardinality(Creating(q)') <= 1 + piled'[q]
    BY DEF FewLinks
  <2>1. Cardinality(LiveLinks(q)) + Cardinality(Creating(q)) <= 1 + piled[q] /\ piled[q] \in Nat
    BY DEF LinksInv, FewLinks, TypeOK
  <2>2. CASE q = p
    <3>1. LiveLinks(p)' = LiveLinks(p) \cup {l}
      BY <1>2, <1>4 DEF LiveLinks
    <3>2. Cardinality(LiveLinks(p)') <= Cardinality(LiveLinks(p)) + 1
      BY <3>1, LinkSetsFinite, FS_AddElement
    <3>3. Creating(p)' \subseteq Creating(p) \ {t}
      BY <1>3
    <3>4. IsFiniteSet(Creating(p) \ {t}) /\ Cardinality(Creating(p) \ {t}) = Cardinality(Creating(p)) - 1
      BY <1>3, LinkSetsFinite, FS_RemoveElement
    <3>5. Cardinality(Creating(p)') <= Cardinality(Creating(p)) - 1
      BY <3>3, <3>4, FS_Subset
    <3> QED BY <1>1, <2>1, <2>2, <3>2, <3>5, LinkSetsFinite, LinkSetsFiniteNext
  <2>3. CASE q # p
    <3>1. LiveLinks(q)' \subseteq LiveLinks(q) /\ Creating(q)' \subseteq Creating(q)
      BY <1>2, <1>3, <1>4, <2>3 DEF LiveLinks
    <3>2. /\ Cardinality(LiveLinks(q)') <= Cardinality(LiveLinks(q))
          /\ Cardinality(Creating(q)') <= Cardinality(Creating(q))
      BY <3>1, LinkSetsFinite, FS_Subset
    <3> QED BY <1>1, <2>1, <3>2, LinkSetsFinite, LinkSetsFiniteNext
  <2> QED BY <2>2, <2>3
<1> QED BY <1>5, <1>6, <1>7 DEF LinksInv

LEMMA LinksServes ==
  ASSUME TypeOK, LinksInv, NEW t \in Tabs, Serves(t)
  PROVE  LinksInv'
<1>0. call[t] \in Call /\ NoCall.pc = "idle"
  BY DEF TypeOK, NoCall
<1>1. ASSUME NoneBegins, UNCHANGED << links, piled >> PROVE LinksInv'
  BY <1>1, LinksSteps
<1>2. ASSUME NEW pc \in {"answer", "rotate", "issue", "sweep"}, call'[t].pc = pc,
             \A v \in Tabs \ {t} : call'[v] = call[v], UNCHANGED << links, piled >>
      PROVE  LinksInv'
  <2>1. NoneBegins
    BY <1>2 DEF NoneBegins
  <2> QED BY <1>1, <1>2, <2>1
<1>3. CASE IssueTokens(t)
  <2>1. call'[t].pc = "answer" /\ \A v \in Tabs \ {t} : call'[v] = call[v]
    BY <1>3 DEF IssueTokens, TypeOK
  <2> QED BY <1>2, <1>3, <2>1 DEF IssueTokens
<1>4. CASE RefreshReads(t)
  <2>1. call'[t].pc = "rotate" /\ \A v \in Tabs \ {t} : call'[v] = call[v]
    BY <1>4 DEF RefreshReads, TypeOK
  <2> QED BY <1>2, <1>4, <2>1 DEF RefreshReads
<1>5. CASE RefreshRotates(t)
  <2>1. call'[t].pc = "issue" /\ \A v \in Tabs \ {t} : call'[v] = call[v]
    BY <1>5 DEF RefreshRotates, TypeOK
  <2> QED BY <1>2, <1>5, <2>1 DEF RefreshRotates
<1>6. CASE RevokeRefreshToken(t)
  <2>1. call'[t].pc = "answer" /\ \A v \in Tabs \ {t} : call'[v] = call[v]
    BY <1>6 DEF RevokeRefreshToken, TypeOK
  <2> QED BY <1>2, <1>6, <2>1 DEF RevokeRefreshToken
<1>7. CASE ChangeWrites(t)
  <2>1. call'[t].pc = "sweep" /\ \A v \in Tabs \ {t} : call'[v] = call[v]
    BY <1>7 DEF ChangeWrites, TypeOK
  <2> QED BY <1>2, <1>7, <2>1 DEF ChangeWrites
<1>8. CASE RefreshRejected(t) \/ Answer(t)
  <2>1. NoneBegins
    BY <1>0, <1>8, NoneBeginsStep DEF RefreshRejected, Answer, Finish
  <2> QED BY <1>1, <1>8, <2>1 DEF RefreshRejected, Answer
<1>9. CASE ChangeSweeps(t)
  <2>1. NoneBegins
    BY <1>0, <1>9, NoneBeginsSweep DEF ChangeSweeps
  <2> QED BY <1>1, <1>9, <2>1 DEF ChangeSweeps
<1>10. CASE ResetCommits(t)
  <2> DEFINE c == [Overtaken(t)[t] EXCEPT !.pc = "answer"]
  <2>1. call' = [Overtaken(t) EXCEPT ![t] = c]
    BY <1>10 DEF ResetCommits
  <2>2. c.pc = "answer"
    BY OvertakenCalls DEF Call
  <2> HIDE DEF c
  <2>3. NoneBegins /\ call'[t].pc = "answer"
    BY <2>1, <2>2, NoneBeginsSweep, OvertakenCalls
  <2> QED BY <1>10, <2>3, LinksSpent DEF ResetCommits
<1>11. CASE VerifyCommits(t)
  <2>1. NoneBegins /\ call'[t].pc = "idle"
    BY <1>0, <1>11, NoneBeginsStep DEF VerifyCommits, Finish, TypeOK
  <2> QED BY <1>11, <2>1, LinksSpent DEF VerifyCommits
<1> QED BY <1>3, <1>4, <1>5, <1>6, <1>7, <1>8, <1>9, <1>10, <1>11, LinksRetires, LinksCreates DEF Serves

LEMMA LinksNext == TypeOK /\ LinksInv /\ [Next]_vars => LinksInv'
<1> SUFFICES ASSUME TypeOK, LinksInv, [Next]_vars PROVE LinksInv'
  OBVIOUS
<1>1. ASSUME UNCHANGED << links, piled, call >> PROVE LinksInv'
  <2>1. NoneBegins
    BY <1>1 DEF NoneBegins
  <2> QED BY <1>1, <2>1, LinksSteps
<1>2. ASSUME NEW t \in Tabs, Interrupted(t) PROVE LinksInv'
  <2>1. NoCall.pc = "idle"
    BY DEF NoCall
  <2>2. NoneBegins
    BY <1>2, <2>1, NoneBeginsStep DEF Interrupted, Finish
  <2> QED BY <1>2, <2>2, LinksSteps DEF Interrupted
<1>3. ASSUME NEW b \in Browsers, AccessExpires(b) PROVE LinksInv'
  BY <1>1, <1>3 DEF AccessExpires
<1>4. ASSUME NEW k \in Token, TokenExpires(k) PROVE LinksInv'
  BY <1>1, <1>4 DEF TokenExpires
<1>5. ASSUME NEW l \in Link, LinkExpires(l) PROVE LinksInv'
  <2>1. NoneBegins
    BY <1>5 DEF NoneBegins, LinkExpires
  <2>2. \A i \in Link :
           /\ links'[i].uses = links[i].uses /\ links'[i].shared = links[i].shared
           /\ links'[i].state \in {"unused", "live"} => links'[i] = links[i]
    BY <1>5 DEF LinkExpires, TypeOK, LinkRow
  <2> QED BY <1>5, <2>1, <2>2, LinksSteps DEF LinkExpires
<1>6. CASE UNCHANGED vars
  BY <1>1, <1>6 DEF vars
<1> QED BY <1>2, <1>3, <1>4, <1>5, <1>6, LinksSends, LinksOpens, LinksServes DEF Next

(* One link of a purpose is usable at a time and is spent once, but for    *)
(* requests that met, whatever the numbers of requests, links and faults.  *)
THEOREM LinksCorrect == Spec => []LinksCounted
<1>1. Init => TypeOK /\ LinksInv
  BY TypeInit, LinksInit
<1>2. TypeOK /\ LinksInv /\ [Next]_vars => (TypeOK /\ LinksInv)'
  BY TypeNext, LinksNext
<1>3. LinksInv => LinksCounted
  BY DEF LinksInv, LinksCounted, FewLinks, FewUses
<1> QED BY <1>1, <1>2, <1>3, PTL DEF Spec

-----------------------------------------------------------------------------
(* What a refresh leaves in the browsers.                                  *)

Delivers(t) == call[t].pc = "answer" /\ call[t].kind \in {"register", "login", "refresh"}
Exchanges(t) == call[t].kind = "refresh" /\ call[t].pc \in {"issue", "answer"}

(* A token is known to one browser, and a new one to nobody else before    *)
(* its answer arrives.                                                     *)
OneHolder ==
  /\ \A t, v \in Tabs : call[t].token # 0 /\ call[t].token = call[v].token => BrowserOf[t] = BrowserOf[v]
  /\ \A t \in Tabs, b \in Browsers : call[t].token # 0 /\ call[t].token = jar[b].rt => BrowserOf[t] = b
  /\ \A b, d \in Browsers : jar[b].rt # 0 /\ jar[b].rt = jar[d].rt => b = d
FreshAnswers ==
  \A t \in Tabs : Delivers(t) =>
    /\ ~rows[call[t].token].rotated
    /\ \A b \in Browsers : jar[b].rt # call[t].token
    /\ \A v \in Tabs \ {t} : call[v].token # call[t].token
Arriving ==
  \A b \in Browsers : jar[b].rt # 0 /\ rows[jar[b].rt].rotated =>
    b \in missed \/ \E t \in Tabs : BrowserOf[t] = b /\ Exchanges(t)

RotationInv == OneHolder /\ FreshAnswers /\ Arriving

LEMMA RotationInit == Init => RotationInv
BY DEF Init, RotationInv, OneHolder, FreshAnswers, Arriving, Delivers, NoCall, NoJar

(* A token is 0 or one of the tokens.                                      *)
LEMMA TokensTyped ==
  ASSUME TypeOK
  PROVE  /\ \A b \in Browsers : jar[b].rt = 0 \/ (jar[b].rt \in Token /\ rows[jar[b].rt].state # "unused")
         /\ \A v \in Tabs : call[v].token = 0 \/ (call[v].token \in Token /\ rows[call[v].token].state # "unused")
         /\ 0 \notin Token
         /\ \A v \in Tabs : Delivers(v) => call[v].token \in Token
         /\ \A v \in Tabs : BrowserOf[v] \in Browsers
<1>1. \A b \in Browsers : jar[b].rt \in 0..MaxTokens /\ (jar[b].rt # 0 => rows[jar[b].rt].state # "unused")
  BY DEF TypeOK
<1>2. \A b \in Browsers : jar[b].rt = 0 \/ (jar[b].rt \in Token /\ rows[jar[b].rt].state # "unused")
  BY <1>1, SizesAssumption DEF Token
<1>3. \A v \in Tabs : Delivers(v) => call[v].token \in Token
  BY CallTyped DEF CallOK, Delivers
<1> QED BY <1>2, <1>3, CallTyped, BrowserAssumption DEF Token

(* A step of one request that brings no new token.                         *)
LEMMA RotationSteps ==
  ASSUME TypeOK, RotationInv, NEW t \in Tabs,
         \A v \in Tabs \ {t} :
           call'[v].pc = call[v].pc /\ call'[v].kind = call[v].kind /\ call'[v].token = call[v].token,
         call'[t].token \in {0, call[t].token, jar[BrowserOf[t]].rt},
         call'[t].pc = "answer" => call'[t].kind \notin {"register", "login", "refresh"},
         Exchanges(t) => BrowserOf[t] \in missed',
         \A b \in Browsers : jar'[b].rt \in {0, jar[b].rt},
         missed \subseteq missed',
         \A k \in Token : rows'[k].rotated =>
           \/ rows[k].rotated
           \/ k = call[t].token /\ call'[t].pc = "issue" /\ call'[t].kind = "refresh"
  PROVE  RotationInv'
<1>1. OneHolder'
  <2>1. \A v, u \in Tabs : call'[v].token # 0 /\ call'[v].token = call'[u].token => BrowserOf[v] = BrowserOf[u]
    BY TokensTyped DEF RotationInv, OneHolder
  <2>2. \A v \in Tabs, b \in Browsers : call'[v].token # 0 /\ call'[v].token = jar'[b].rt => BrowserOf[v] = b
    BY TokensTyped DEF RotationInv, OneHolder
  <2>3. \A b, d \in Browsers : jar'[b].rt # 0 /\ jar'[b].rt = jar'[d].rt => b = d
    BY DEF RotationInv, OneHolder
  <2> QED BY <2>1, <2>2, <2>3 DEF OneHolder
<1>2. FreshAnswers'
  <2> SUFFICES ASSUME NEW v \in Tabs, Delivers(v)'
               PROVE  /\ ~rows'[call'[v].token].rotated
                      /\ \A b \in Browsers : jar'[b].rt # call'[v].token
                      /\ \A u \in Tabs \ {v} : call'[u].token # call'[v].token
    BY DEF FreshAnswers
  <2>1. v # t /\ Delivers(v) /\ call'[v].token = call[v].token /\ call[v].token \in Token /\ call[v].token # 0
    BY TokensTyped DEF Delivers
  <2>2. /\ ~rows[call[v].token].rotated
        /\ \A b \in Browsers : jar[b].rt # call[v].token
        /\ \A u \in Tabs \ {v} : call[u].token # call[v].token
    BY <2>1 DEF RotationInv, FreshAnswers
  <2> QED BY <2>1, <2>2, TokensTyped
<1>3. Arriving'
  <2> SUFFICES ASSUME NEW b \in Browsers, jar'[b].rt # 0, rows'[jar'[b].rt].rotated
               PROVE  b \in missed' \/ \E v \in Tabs : BrowserOf[v] = b /\ Exchanges(v)'
    BY DEF Arriving
  <2>1. jar'[b].rt = jar[b].rt /\ jar[b].rt \in Token
    BY TokensTyped
  <2>2. CASE rows[jar[b].rt].rotated
    <3>1. b \in missed \/ \E v \in Tabs : BrowserOf[v] = b /\ Exchanges(v)
      BY <2>1, <2>2 DEF RotationInv, Arriving
    <3> QED BY <3>1 DEF Exchanges
  <2>3. CASE jar[b].rt = call[t].token /\ call'[t].pc = "issue" /\ call'[t].kind = "refresh"
    BY <2>1, <2>3 DEF RotationInv, OneHolder, Exchanges
  <2> QED BY <2>1, <2>2, <2>3
<1> QED BY <1>1, <1>2, <1>3 DEF RotationInv

(* A step that leaves the requests alone.                                  *)
LEMMA RotationStays ==
  ASSUME TypeOK, RotationInv, UNCHANGED << call, missed >>,
         \A b \in Browsers : jar'[b].rt \in {0, jar[b].rt},
         \A k \in Token : rows'[k].rotated => rows[k].rotated
  PROVE  RotationInv'
<1>1. OneHolder'
  BY DEF RotationInv, OneHolder
<1>2. FreshAnswers'
  BY TokensTyped DEF RotationInv, FreshAnswers, Delivers
<1>3. Arriving'
  BY TokensTyped DEF RotationInv, Arriving, Exchanges
<1> QED BY <1>1, <1>2, <1>3 DEF RotationInv

LEMMA RotationIssues ==
  ASSUME TypeOK, RotationInv, NEW t \in Tabs, IssueTokens(t)
  PROVE  RotationInv'
<1>1. PICK k \in Token :
        /\ rows[k].state = "unused" /\ rows'[k].rotated = FALSE
        /\ \A i \in Token \ {k} : rows'[i] = rows[i]
        /\ call' = [call EXCEPT ![t] = [call[t] EXCEPT !.pc = "answer", !.token = k]]
        /\ call[t].pc = "issue"
  BY IssueEffect
<1>2. UNCHANGED << jar, missed >>
  BY DEF IssueTokens
<1>3. /\ call'[t].pc = "answer" /\ call'[t].token = k /\ call'[t].kind = call[t].kind
      /\ \A v \in Tabs \ {t} : call'[v] = call[v]
  BY <1>1 DEF TypeOK, Call
<1>4. /\ \A b \in Browsers : jar[b].rt # k
      /\ \A v \in Tabs : call[v].token # k
  BY <1>1, TokensTyped
<1>5. OneHolder'
  <2>1. \A v, u \in Tabs : call'[v].token # 0 /\ call'[v].token = call'[u].token => BrowserOf[v] = BrowserOf[u]
    BY <1>3, <1>4 DEF RotationInv, OneHolder
  <2>2. \A v \in Tabs, b \in Browsers : call'[v].token # 0 /\ call'[v].token = jar'[b].rt => BrowserOf[v] = b
    BY <1>2, <1>3, <1>4 DEF RotationInv, OneHolder
  <2>3. \A b, d \in Browsers : jar'[b].rt # 0 /\ jar'[b].rt = jar'[d].rt => b = d
    BY <1>2 DEF RotationInv, OneHolder
  <2> QED BY <2>1, <2>2, <2>3 DEF OneHolder
<1>6. FreshAnswers'
  <2> SUFFICES ASSUME NEW v \in Tabs, Delivers(v)'
               PROVE  /\ ~rows'[call'[v].token].rotated
                      /\ \A b \in Browsers : jar'[b].rt # call'[v].token
                      /\ \A u \in Tabs \ {v} : call'[u].token # call'[v].token
    BY DEF FreshAnswers
  <2>1. CASE v = t
    BY <1>1, <1>2, <1>3, <1>4, <2>1
  <2>2. CASE v # t
    <3>1. Delivers(v) /\ call'[v] = call[v] /\ call[v].token \in Token
      BY <1>3, <2>2, TokensTyped DEF Delivers
    <3> QED BY <1>1, <1>2, <1>3, <1>4, <2>2, <3>1 DEF RotationInv, FreshAnswers
  <2> QED BY <2>1, <2>2
<1>7. Arriving'
  <2> SUFFICES ASSUME NEW b \in Browsers, jar'[b].rt # 0, rows'[jar'[b].rt].rotated
               PROVE  b \in missed' \/ \E v \in Tabs : BrowserOf[v] = b /\ Exchanges(v)'
    BY DEF Arriving
  <2>1. jar[b].rt # 0 /\ rows[jar[b].rt].rotated
    BY <1>1, <1>2, <1>4, TokensTyped
  <2>2. \A v \in Tabs : Exchanges(v) => Exchanges(v)'
    BY <1>1, <1>3 DEF Exchanges
  <2> QED BY <1>2, <2>1, <2>2 DEF RotationInv, Arriving
<1> QED BY <1>5, <1>6, <1>7 DEF RotationInv

LEMMA RotationAnswers ==
  ASSUME TypeOK, RotationInv, NEW t \in Tabs, Answer(t)
  PROVE  RotationInv'
<1>1. PICK d \in Browsers : d = BrowserOf[t]
  BY BrowserAssumption
<1>2. /\ \A b \in Browsers \ {d} : jar'[b] = jar[b]
      /\ jar'[d].rt = 0 \/ (Delivers(t) /\ jar'[d].rt = call[t].token)
  BY <1>1, AnswerEffect DEF Answer, Delivers
<1>3. /\ call[t].pc = "answer" /\ UNCHANGED rows /\ missed' = missed \ {d}
      /\ call' = [call EXCEPT ![t] = NoCall]
  BY <1>1 DEF Answer, Finish
<1>4. call'[t].token = 0 /\ call'[t].pc = "idle" /\ \A v \in Tabs \ {t} : call'[v] = call[v]
  BY <1>3 DEF TypeOK, NoCall
<1>5. Delivers(t) => /\ ~rows[call[t].token].rotated
                     /\ \A b \in Browsers : jar[b].rt # call[t].token
                     /\ \A v \in Tabs \ {t} : call[v].token # call[t].token
  BY DEF RotationInv, FreshAnswers
<1>6. OneHolder'
  <2>1. \A v, u \in Tabs : call'[v].token # 0 /\ call'[v].token = call'[u].token => BrowserOf[v] = BrowserOf[u]
    BY <1>4 DEF RotationInv, OneHolder
  <2>2. \A v \in Tabs, b \in Browsers : call'[v].token # 0 /\ call'[v].token = jar'[b].rt => BrowserOf[v] = b
    BY <1>2, <1>4, <1>5 DEF RotationInv, OneHolder
  <2>3. \A b, e \in Browsers : jar'[b].rt # 0 /\ jar'[b].rt = jar'[e].rt => b = e
    BY <1>2, <1>5 DEF RotationInv, OneHolder
  <2> QED BY <2>1, <2>2, <2>3 DEF OneHolder
<1>7. FreshAnswers'
  <2> SUFFICES ASSUME NEW v \in Tabs, Delivers(v)'
               PROVE  /\ ~rows'[call'[v].token].rotated
                      /\ \A b \in Browsers : jar'[b].rt # call'[v].token
                      /\ \A u \in Tabs \ {v} : call'[u].token # call'[v].token
    BY DEF FreshAnswers
  <2>1. v # t /\ Delivers(v) /\ call'[v] = call[v] /\ call[v].token \in Token /\ call[v].token # 0
    BY <1>4, TokensTyped DEF Delivers
  <2>2. /\ ~rows[call[v].token].rotated
        /\ \A b \in Browsers : jar[b].rt # call[v].token
        /\ \A u \in Tabs \ {v} : call[u].token # call[v].token
    BY <2>1 DEF RotationInv, FreshAnswers
  <2> QED BY <1>2, <1>3, <1>4, <2>1, <2>2
<1>8. Arriving'
  <2> SUFFICES ASSUME NEW b \in Browsers, jar'[b].rt # 0, rows'[jar'[b].rt].rotated
               PROVE  b \in missed' \/ \E v \in Tabs : BrowserOf[v] = b /\ Exchanges(v)'
    BY DEF Arriving
  <2>1. b # d
    BY <1>2, <1>3, <1>5
  <2>2. b \in missed \/ \E v \in Tabs : BrowserOf[v] = b /\ Exchanges(v)
    BY <1>2, <1>3, <2>1 DEF RotationInv, Arriving
  <2>3. \A v \in Tabs : BrowserOf[v] = b /\ Exchanges(v) => Exchanges(v)'
    BY <1>1, <1>4, <2>1 DEF Exchanges
  <2> QED BY <1>3, <2>1, <2>2, <2>3
<1> QED BY <1>6, <1>7, <1>8 DEF RotationInv

LEMMA RotationSends ==
  ASSUME TypeOK, RotationInv, NEW t \in Tabs, Sends(t)
  PROVE  RotationInv'
<1>0. Overtaken(t) \in [Tabs -> Call]
  BY OvertakenCalls
<1>1. ASSUME NEW c, Send(t, c), c.token \in {0, Jar(t).rt},
             c.pc # "answer", UNCHANGED << jar, missed, rows >>
      PROVE  RotationInv'
  <2>1. /\ call'[t] = c /\ call[t].pc = "idle" /\ \A v \in Tabs \ {t} : call'[v] = call[v]
    BY <1>1 DEF Send, TypeOK
  <2>2. ~Exchanges(t)
    BY <2>1 DEF Exchanges
  <2> QED BY <1>1, <2>1, <2>2, RotationSteps DEF Jar
<1>2. CASE Register(t)
  <2> DEFINE c == [NoCall EXCEPT !.pc = "retire", !.kind = "register", !.epoch = epoch]
  <2>1. c.token = 0 /\ c.pc # "answer"
    BY DEF NoCall
  <2> QED BY <1>1, <1>2, <2>1 DEF Register
<1>3. CASE Login(t)
  <2> DEFINE c == [NoCall EXCEPT !.pc = "issue", !.kind = "login", !.epoch = epoch]
  <2>1. c.token = 0 /\ c.pc # "answer"
    BY DEF NoCall
  <2> QED BY <1>1, <1>3, <2>1 DEF Login
<1>4. CASE RefreshSends(t) \/ LogoutSends(t) \/ ChangePassword(t)
  <2>1. ASSUME NEW pc \in {"read", "signout", "write"}, NEW kind
        PROVE  LET c == [NoCall EXCEPT !.pc = pc, !.kind = kind, !.token = Jar(t).rt]
               IN  c.token = Jar(t).rt /\ c.pc # "answer"
    BY DEF NoCall
  <2> QED BY <1>1, <1>4, <2>1 DEF RefreshSends, LogoutSends, ChangePassword
<1>5. CASE ForgotPassword(t) \/ ResendVerification(t)
  <2>1. ASSUME NEW kind
        PROVE  LET c == [NoCall EXCEPT !.pc = "retire", !.kind = kind] IN c.token = 0 /\ c.pc # "answer"
    BY DEF NoCall
  <2> QED BY <1>1, <1>5, <2>1 DEF ForgotPassword, ResendVerification
<1>6. ASSUME NEW l \in Link, OpenLink(t, l) PROVE RotationInv'
  <2> DEFINE c == [NoCall EXCEPT !.pc = "commit", !.kind = links[l].for, !.link = l]
  <2>1. c.token = 0 /\ c.pc # "answer"
    BY DEF NoCall
  <2> QED BY <1>1, <1>6, <2>1 DEF OpenLink
<1>7. CASE RevokeAllSessions(t)
  <2> DEFINE c == [NoCall EXCEPT !.pc = "answer", !.kind = "revoke"]
  <2>1. c.token = 0 /\ c.kind = "revoke"
    BY DEF NoCall
  <2>2. /\ call'[t] = c /\ call[t].pc = "idle" /\ \A v \in Tabs \ {t} : call'[v] = Overtaken(t)[v]
    BY <1>0, <1>7 DEF RevokeAllSessions
  <2>3. ~Exchanges(t)
    BY <2>2 DEF Exchanges
  <2>4. \A k \in Token : rows'[k].rotated => rows[k].rotated
    BY <1>7, SweptRows DEF RevokeAllSessions, TypeOK
  <2>5. UNCHANGED << jar, missed >>
    BY <1>7 DEF RevokeAllSessions
  <2> HIDE DEF c
  <2> QED BY <2>1, <2>2, <2>3, <2>4, <2>5, OvertakenCalls, RotationSteps
<1> QED BY <1>2, <1>3, <1>4, <1>5, <1>6, <1>7 DEF Sends

LEMMA RotationServes ==
  ASSUME TypeOK, RotationInv, NEW t \in Tabs, Serves(t)
  PROVE  RotationInv'
<1>0. /\ call[t] \in Call /\ NoCall.pc = "idle" /\ NoCall.token = 0 /\ Overtaken(t) \in [Tabs -> Call]
      /\ epoch \in Nat
  BY OvertakenCalls DEF TypeOK, NoCall
<1>1. ASSUME NEW c, call' = [call EXCEPT ![t] = c], call[t].pc \notin {"issue", "answer"},
             c.token \in {0, call[t].token}, c.pc = "answer" => c.kind \notin {"register", "login", "refresh"},
             UNCHANGED << jar, missed >>,
             \A k \in Token : rows'[k].rotated =>
               rows[k].rotated \/ (k = call[t].token /\ c.pc = "issue" /\ c.kind = "refresh")
      PROVE  RotationInv'
  <2>1. call'[t] = c /\ \A v \in Tabs \ {t} : call'[v] = call[v]
    BY <1>1 DEF TypeOK
  <2>2. ~Exchanges(t)
    BY <1>1 DEF Exchanges
  <2> QED BY <1>1, <2>1, <2>2, RotationSteps
<1>2. CASE RefreshReads(t)
  <2>1. /\ call'[t].pc = "rotate" /\ call'[t].token = call[t].token
        /\ call' = [call EXCEPT ![t] = call'[t]]
    BY <1>2, ReadEffect
  <2>2. call[t].pc = "read" /\ UNCHANGED << jar, missed, rows >>
    BY <1>2 DEF RefreshReads
  <2> QED BY <1>1, <2>1, <2>2
<1>3. CASE RefreshRejected(t)
  <2>1. /\ call[t].pc = "read" /\ call' = [call EXCEPT ![t] = NoCall] /\ UNCHANGED << jar, missed >>
        /\ rows' = [rows EXCEPT ![call[t].token].state = "revoked"]
    BY <1>3 DEF RefreshRejected, Finish
  <2>2. \A k \in Token : rows'[k].rotated = rows[k].rotated
    BY <2>1 DEF TypeOK, Row
  <2> QED BY <1>0, <1>1, <2>1, <2>2
<1>4. CASE RefreshRotates(t)
  <2> DEFINE c == [call[t] EXCEPT !.pc = "issue"]
  <2>1. /\ call[t].token \in Token /\ call[t].pc = "rotate" /\ call' = [call EXCEPT ![t] = c]
        /\ \A i \in Token \ {call[t].token} : rows'[i] = rows[i]
    BY <1>4, RotateEffect
  <2>2. c.pc = "issue" /\ c.token = call[t].token /\ c.kind = "refresh"
    BY <1>0, <2>1, CallTyped DEF Call, CallOK
  <2>3. UNCHANGED << jar, missed >>
    BY <1>4 DEF RefreshRotates
  <2> HIDE DEF c
  <2> QED BY <1>1, <2>1, <2>2, <2>3
<1>5. CASE RevokeRefreshToken(t)
  <2> DEFINE c == [call[t] EXCEPT !.pc = "answer"]
  <2>1. /\ UNCHANGED << jar, missed >> /\ call[t].pc = "signout" /\ call' = [call EXCEPT ![t] = c]
        /\ UNCHANGED rows \/ rows' = [rows EXCEPT ![call[t].token].state = "revoked"]
    BY <1>5 DEF RevokeRefreshToken
  <2>2. \A k \in Token : rows'[k].rotated = rows[k].rotated
    BY <2>1 DEF TypeOK, Row
  <2>3. c.token = call[t].token /\ c.kind = "logout"
    BY <1>0, <2>1, CallTyped DEF Call, CallOK
  <2> HIDE DEF c
  <2> QED BY <1>1, <2>1, <2>2, <2>3
<1>6. CASE ChangeWrites(t)
  <2> DEFINE c == [call[t] EXCEPT !.pc = "sweep"]
  <2>1. call' = [call EXCEPT ![t] = c] /\ UNCHANGED << jar, missed, rows >> /\ call[t].pc = "write"
    BY <1>6 DEF ChangeWrites
  <2>2. c.token = call[t].token /\ c.pc = "sweep"
    BY <1>0 DEF Call
  <2> HIDE DEF c
  <2> QED BY <1>1, <2>1, <2>2
<1>7. ASSUME NEW keep, rows' = Swept(keep), epoch' \in Nat, epoch <= epoch', NEW c,
             call' = [Overtaken(t) EXCEPT ![t] = c], call[t].pc \notin {"issue", "answer"},
             c.token \in {0, call[t].token}, c.pc = "answer" => c.kind \notin {"register", "login", "refresh"},
             UNCHANGED << jar, missed >>
      PROVE  RotationInv'
  <2>1. call'[t] = c /\ \A v \in Tabs \ {t} : call'[v] = Overtaken(t)[v]
    BY <1>0, <1>7
  <2>2. ~Exchanges(t)
    BY <1>7 DEF Exchanges
  <2>3. \A k \in Token : rows'[k].rotated => rows[k].rotated
    BY <1>7, SweptRows
  <2> QED BY <1>7, <2>1, <2>2, <2>3, OvertakenCalls, RotationSteps
<1>8. CASE ChangeSweeps(t)
  <2>1. /\ rows' = Swept(call[t].token) /\ epoch' \in Nat /\ epoch <= epoch' /\ call[t].pc = "sweep"
        /\ call' = [Overtaken(t) EXCEPT ![t] = NoCall] /\ UNCHANGED << jar, missed >>
    BY <1>0, <1>8 DEF ChangeSweeps
  <2> QED BY <1>0, <1>7, <2>1
<1>9. CASE ResetCommits(t)
  <2> DEFINE c == [Overtaken(t)[t] EXCEPT !.pc = "answer"]
  <2>1. /\ rows' = Swept(0) /\ epoch' \in Nat /\ epoch <= epoch' /\ call[t].pc = "commit"
        /\ call' = [Overtaken(t) EXCEPT ![t] = c] /\ UNCHANGED << jar, missed >> /\ call[t].kind = "reset"
    BY <1>0, <1>9 DEF ResetCommits
  <2>2. c.token = call[t].token /\ c.kind = "reset"
    BY <1>0, <2>1, OvertakenCalls DEF Call
  <2> HIDE DEF c
  <2> QED BY <1>7, <2>1, <2>2
<1>10. CASE RetireLinks(t) \/ CreateLink(t) \/ VerifyCommits(t)
  <2>1. UNCHANGED << jar, missed, rows >> /\ call[t].pc \in {"retire", "create", "commit"}
    BY <1>10 DEF RetireLinks, CreateLink, VerifyCommits
  <2>2. CASE call' = [call EXCEPT ![t] = NoCall]
    BY <1>0, <1>1, <2>1, <2>2
  <2>3. ASSUME NEW pc \in {"create", "issue"}, call' = [call EXCEPT ![t].pc = pc]
        PROVE  RotationInv'
    <3> DEFINE c == [call[t] EXCEPT !.pc = pc]
    <3>1. call' = [call EXCEPT ![t] = c] /\ c.token = call[t].token /\ c.pc = pc
      BY <1>0, <2>3 DEF Call
    <3> HIDE DEF c
    <3> QED BY <1>1, <2>1, <3>1
  <2> QED BY <1>10, <2>2, <2>3 DEF RetireLinks, CreateLink, VerifyCommits, Finish
<1> QED BY <1>2, <1>3, <1>4, <1>5, <1>6, <1>8, <1>9, <1>10, RotationIssues, RotationAnswers DEF Serves

LEMMA RotationNext == TypeOK /\ RotationInv /\ [Next]_vars => RotationInv'
<1> SUFFICES ASSUME TypeOK, RotationInv, [Next]_vars PROVE RotationInv'
  OBVIOUS
<1>1. ASSUME NEW t \in Tabs, Interrupted(t) PROVE RotationInv'
  <2>1. /\ call'[t].pc = "idle" /\ call'[t].token = 0 /\ \A v \in Tabs \ {t} : call'[v] = call[v]
        /\ UNCHANGED << rows, jar >>
    BY <1>1 DEF Interrupted, Finish, TypeOK, NoCall
  <2>2. missed \subseteq missed' /\ (Exchanges(t) => BrowserOf[t] \in missed')
    BY <1>1 DEF Interrupted, Exchanges
  <2> QED BY <2>1, <2>2, RotationSteps
<1>2. ASSUME NEW b \in Browsers, AccessExpires(b) PROVE RotationInv'
  <2>1. \A d \in Browsers : jar'[d].rt = jar[d].rt
    BY <1>2 DEF AccessExpires, TypeOK
  <2> QED BY <1>2, <2>1, RotationStays DEF AccessExpires
<1>3. ASSUME NEW k \in Token, TokenExpires(k) PROVE RotationInv'
  <2>1. \A i \in Token : rows'[i].rotated = rows[i].rotated
    BY <1>3 DEF TokenExpires, TypeOK, Row
  <2>2. \A b \in Browsers : jar'[b].rt \in {0, jar[b].rt}
    BY <1>3, TokenExpiresEffect
  <2> QED BY <1>3, <2>1, <2>2, RotationStays DEF TokenExpires
<1>4. ASSUME NEW l \in Link, LinkExpires(l) PROVE RotationInv'
  BY <1>4, RotationStays DEF LinkExpires
<1>5. CASE UNCHANGED vars
  BY <1>5, RotationStays DEF vars
<1> QED BY <1>1, <1>2, <1>3, <1>4, <1>5, RotationSends, RotationServes DEF Next

(* A browser whose token was exchanged is about to get the new one, unless *)
(* the answer was lost, whatever the numbers of browsers and of tabs.      *)
THEOREM RotationCorrect == Spec => []RotationArrives
<1>1. Init => TypeOK /\ RotationInv
  BY TypeInit, RotationInit
<1>2. TypeOK /\ RotationInv /\ [Next]_vars => (TypeOK /\ RotationInv)'
  BY TypeNext, RotationNext
<1>3. RotationInv => RotationArrives
  BY DEF RotationInv, Arriving, RotationArrives, Exchanges
<1> QED BY <1>1, <1>2, <1>3, PTL DEF Spec

-----------------------------------------------------------------------------
(* How many usable tokens a sign-in may have.                              *)

Renews(t) == call[t].pc = "issue" /\ call[t].kind = "refresh"

(* The live tokens of a sign-in nobody is exchanging, and the requests     *)
(* that hold one of its tokens and will issue the next.                    *)
IdleLive(r)   == { k \in Token : rows[k].state = "live" /\ rows[k].root = r /\ ReadersOf(k) = {} }
Exchanging(r) == { t \in Tabs : (call[t].pc = "rotate" \/ Renews(t)) /\ call[t].root = r }
Slots(r)      == (IF r \in out THEN 0 ELSE 1) + races[r]

FewTokens == \A r \in Token : Cardinality(IdleLive(r)) + Cardinality(Exchanging(r)) <= Slots(r)

(* A request carries the sign-in of its token, and a sign-in that is named *)
(* has begun.                                                              *)
RootsInv ==
  /\ \A t \in Tabs : call[t].pc = "rotate" => call[t].root = rows[call[t].token].root
  /\ \A k \in Token : rows[k].state # "unused" => rows[rows[k].root].state # "unused"
  /\ \A t \in Tabs : call[t].pc = "rotate" \/ Renews(t) => rows[call[t].root].state # "unused"
  /\ \A r \in out : rows[r].state # "unused"

LEMMA CountSetsFinite ==
  /\ \A r : IsFiniteSet(IdleLive(r)) /\ Cardinality(IdleLive(r)) \in Nat
  /\ \A r : IsFiniteSet(Exchanging(r)) /\ Cardinality(Exchanging(r)) \in Nat
<1>1. IsFiniteSet(Token)
  BY SizesAssumption, FS_Interval DEF Token
<1>2. \A r : IdleLive(r) \in SUBSET Token /\ Exchanging(r) \in SUBSET Tabs
  BY DEF IdleLive, Exchanging
<1> QED BY <1>1, <1>2, TabsAssumption, FS_Subset, FS_CardinalityType

LEMMA CountSetsFiniteNext ==
  /\ \A r : IsFiniteSet(IdleLive(r)') /\ Cardinality(IdleLive(r)') \in Nat
  /\ \A r : IsFiniteSet(Exchanging(r)') /\ Cardinality(Exchanging(r)') \in Nat
<1>1. IsFiniteSet(Token)
  BY SizesAssumption, FS_Interval DEF Token
<1>2. \A r : IdleLive(r)' \in SUBSET Token /\ Exchanging(r)' \in SUBSET Tabs
  BY DEF IdleLive, Exchanging
<1> QED BY <1>1, <1>2, TabsAssumption, FS_Subset, FS_CardinalityType

LEMMA SlotsTyped == TypeOK => \A r \in Token : Slots(r) \in Nat /\ races[r] \in Nat
BY DEF TypeOK, Slots

LEMMA CountInit == Init => RootsInv /\ FewTokens
<1> SUFFICES ASSUME Init PROVE RootsInv /\ FewTokens
  OBVIOUS
<1>1. \A r : IdleLive(r) = {} /\ Exchanging(r) = {}
  BY DEF Init, IdleLive, Exchanging, Renews, NoRow, NoCall
<1>2. RootsInv
  BY DEF Init, RootsInv, Renews, NoRow, NoCall
<1>3. \A r \in Token : Slots(r) = 1
  BY DEF Init, Slots
<1> QED BY <1>1, <1>2, <1>3, FS_EmptySet DEF FewTokens

(* A request that exchanges a token names a sign-in.                       *)
LEMMA RootsTyped ==
  ASSUME TypeOK
  PROVE  /\ \A t \in Tabs : call[t].pc = "rotate" =>
              call[t].token \in Token /\ rows[call[t].token].state # "unused" /\ call[t].kind = "refresh"
         /\ \A t \in Tabs : call[t].pc = "rotate" \/ Renews(t) => call[t].root \in Token
         /\ \A k \in Token : rows[k].state # "unused" => rows[k].root \in Token
         /\ out \subseteq Token
<1>1. \A t \in Tabs : call[t].pc = "rotate" \/ Renews(t) => call[t].root \in Token
  BY CallTyped DEF CallOK, Renews
<1>2. \A t \in Tabs : call[t].pc = "rotate" => call[t].token \in Token /\ call[t].kind = "refresh"
  BY CallTyped DEF CallOK
<1>3. 0 \notin Token
  BY DEF Token
<1> QED BY <1>1, <1>2, <1>3, CallTyped DEF TypeOK

(* Rows that are in use stay so, with their sign-in.                       *)
RowsStay == \A k \in Token : rows[k].state # "unused" => rows'[k].state # "unused" /\ rows'[k].root = rows[k].root

LEMMA RootsSteps ==
  ASSUME TypeOK, RootsInv, RowsStay,
         \A k \in Token : rows'[k].state # "unused" =>
           rows[k].state # "unused" \/ rows'[rows'[k].root].state # "unused",
         \A v \in Tabs : call'[v].pc = "rotate" =>
           \/ call[v].pc = "rotate" /\ call'[v].token = call[v].token /\ call'[v].root = call[v].root
           \/ /\ call'[v].token \in Token /\ rows[call'[v].token].state # "unused"
              /\ call'[v].root = rows[call'[v].token].root,
         \A v \in Tabs : Renews(v)' => (call[v].pc = "rotate" \/ Renews(v)) /\ call'[v].root = call[v].root,
         \A r \in out' : r \in out \/ (r \in Token /\ rows[r].state # "unused")
  PROVE  RootsInv'
<1>1. \A v \in Tabs : call'[v].pc = "rotate" => call'[v].root = rows'[call'[v].token].root
  BY RootsTyped DEF RootsInv, RowsStay
<1>2. \A k \in Token : rows'[k].state # "unused" => rows'[rows'[k].root].state # "unused"
  BY RootsTyped DEF RootsInv, RowsStay
<1>3. \A v \in Tabs : call'[v].pc = "rotate" \/ Renews(v)' => rows'[call'[v].root].state # "unused"
  BY RootsTyped DEF RootsInv, RowsStay
<1>4. \A r \in out' : rows'[r].state # "unused"
  BY RootsTyped DEF RootsInv, RowsStay
<1> QED BY <1>1, <1>2, <1>3, <1>4 DEF RootsInv

(* No request takes up or gives up a token, and no token is issued.        *)
Steady ==
  /\ \A v \in Tabs :
       /\ call'[v].pc = "rotate" <=> call[v].pc = "rotate"
       /\ call[v].pc = "rotate" => call'[v].token = call[v].token /\ call'[v].root = call[v].root
       /\ Renews(v)' => Renews(v) /\ call'[v].root = call[v].root
  /\ \A k \in Token :
       /\ rows'[k].root = rows[k].root
       /\ rows'[k].state = "live" => rows[k].state = "live"
       /\ rows'[k].state = "unused" <=> rows[k].state = "unused"

LEMMA SteadySets ==
  ASSUME Steady, NEW r
  PROVE  IdleLive(r)' \subseteq IdleLive(r) /\ Exchanging(r)' \subseteq Exchanging(r)
<1>1. \A k : ReadersOf(k)' = ReadersOf(k)
  BY DEF Steady, ReadersOf
<1>2. IdleLive(r)' \subseteq IdleLive(r)
  BY <1>1 DEF Steady, IdleLive
<1>3. Exchanging(r)' \subseteq Exchanging(r)
  BY DEF Steady, Exchanging
<1> QED BY <1>2, <1>3

LEMMA CountKeeps ==
  ASSUME TypeOK, FewTokens, NEW r \in Token, Slots(r) <= Slots(r)', Slots(r)' \in Nat,
         IdleLive(r)' \subseteq IdleLive(r), Exchanging(r)' \subseteq Exchanging(r)
  PROVE  Cardinality(IdleLive(r)') + Cardinality(Exchanging(r)') <= Slots(r)'
<1>1. /\ Cardinality(IdleLive(r)') <= Cardinality(IdleLive(r))
      /\ Cardinality(Exchanging(r)') <= Cardinality(Exchanging(r))
  BY CountSetsFinite, FS_Subset
<1>2. Cardinality(IdleLive(r)) + Cardinality(Exchanging(r)) <= Slots(r) /\ Slots(r) \in Nat
  BY SlotsTyped DEF FewTokens
<1> QED BY <1>1, <1>2, CountSetsFinite, CountSetsFiniteNext

CountInv == RootsInv /\ FewTokens

LEMMA CountSteps ==
  ASSUME TypeOK, CountInv, Steady, UNCHANGED << out, races >>
  PROVE  CountInv'
<1>1. RootsInv'
  <2>1. RowsStay
    BY DEF Steady, RowsStay
  <2> QED BY <2>1, RootsSteps DEF CountInv, Steady
<1>2. \A r \in Token : Slots(r)' = Slots(r) /\ Slots(r) \in Nat
  BY SlotsTyped DEF Slots
<1>3. FewTokens'
  BY <1>2, SteadySets, CountKeeps DEF FewTokens, CountInv
<1> QED BY <1>1, <1>3 DEF CountInv

(* A request that takes up no token.                                       *)
LEMMA SteadyStep ==
  ASSUME TypeOK, NEW t \in Tabs, NEW c, call' = [call EXCEPT ![t] = c], call[t].pc # "rotate",
         c.pc # "rotate", c.pc = "issue" => c.kind # "refresh",
         \A k \in Token :
           /\ rows'[k].root = rows[k].root
           /\ rows'[k].state = "live" => rows[k].state = "live"
           /\ rows'[k].state = "unused" <=> rows[k].state = "unused"
  PROVE  Steady
<1>1. call'[t] = c /\ \A v \in Tabs \ {t} : call'[v] = call[v]
  BY DEF TypeOK
<1> QED BY <1>1 DEF Steady, Renews

LEMMA SteadySweep ==
  ASSUME TypeOK, NEW t \in Tabs, NEW c, call' = [Overtaken(t) EXCEPT ![t] = c], call[t].pc # "rotate",
         c.pc # "rotate", c.pc = "issue" => c.kind # "refresh",
         NEW keep, rows' = Swept(keep), epoch' \in Nat, epoch <= epoch'
  PROVE  Steady
<1>1. call'[t] = c /\ \A v \in Tabs \ {t} : call'[v] = Overtaken(t)[v]
  BY OvertakenCalls
<1>2. \A v \in Tabs \ {t} :
        /\ call'[v].pc = call[v].pc /\ call'[v].kind = call[v].kind
        /\ call'[v].token = call[v].token /\ call'[v].root = call[v].root
  BY <1>1, OvertakenCalls
<1> QED BY <1>1, <1>2, SweptRows DEF Steady, Renews

LEMMA CountSends ==
  ASSUME TypeOK, CountInv, NEW t \in Tabs, Sends(t)
  PROVE  CountInv'
<1>1. ASSUME NEW c, Send(t, c), c.pc # "rotate", c.pc = "issue" => c.kind # "refresh",
             UNCHANGED << rows, out, races >>
      PROVE  CountInv'
  <2>1. call' = [call EXCEPT ![t] = c] /\ call[t].pc # "rotate"
    BY <1>1 DEF Send
  <2>2. Steady
    BY <1>1, <2>1, SteadyStep
  <2> QED BY <1>1, <2>2, CountSteps
<1>2. CASE Register(t)
  <2>1. [NoCall EXCEPT !.pc = "retire", !.kind = "register", !.epoch = epoch].pc = "retire"
    BY DEF NoCall
  <2> QED BY <1>1, <1>2, <2>1 DEF Register
<1>3. CASE Login(t)
  <2> DEFINE c == [NoCall EXCEPT !.pc = "issue", !.kind = "login", !.epoch = epoch]
  <2>1. c.pc = "issue" /\ c.kind = "login"
    BY DEF NoCall
  <2> QED BY <1>1, <1>3, <2>1 DEF Login
<1>4. CASE RefreshSends(t) \/ LogoutSends(t) \/ ChangePassword(t)
  <2>1. ASSUME NEW pc \in {"read", "signout", "write"}, NEW kind
        PROVE  [NoCall EXCEPT !.pc = pc, !.kind = kind, !.token = Jar(t).rt].pc \notin {"rotate", "issue"}
    BY DEF NoCall
  <2> QED BY <1>1, <1>4, <2>1 DEF RefreshSends, LogoutSends, ChangePassword
<1>5. CASE ForgotPassword(t) \/ ResendVerification(t)
  <2>1. ASSUME NEW kind PROVE [NoCall EXCEPT !.pc = "retire", !.kind = kind].pc = "retire"
    BY DEF NoCall
  <2> QED BY <1>1, <1>5, <2>1 DEF ForgotPassword, ResendVerification
<1>6. ASSUME NEW l \in Link, OpenLink(t, l) PROVE CountInv'
  <2>1. [NoCall EXCEPT !.pc = "commit", !.kind = links[l].for, !.link = l].pc = "commit"
    BY DEF NoCall
  <2> QED BY <1>1, <1>6, <2>1 DEF OpenLink
<1>7. CASE RevokeAllSessions(t)
  <2> DEFINE c == [NoCall EXCEPT !.pc = "answer", !.kind = "revoke"]
  <2>1. c.pc = "answer"
    BY DEF NoCall
  <2>2. /\ call' = [Overtaken(t) EXCEPT ![t] = c] /\ call[t].pc = "idle" /\ rows' = Swept(0)
        /\ epoch' \in Nat /\ epoch <= epoch' /\ UNCHANGED << out, races >>
    BY <1>7 DEF RevokeAllSessions, TypeOK
  <2> HIDE DEF c
  <2> QED BY <2>1, <2>2, SteadySweep, CountSteps
<1> QED BY <1>2, <1>3, <1>4, <1>5, <1>6, <1>7 DEF Sends

(* A request gives up its turn, and at most one token becomes idle.        *)
LEMMA CountSwaps ==
  ASSUME TypeOK, FewTokens, NEW r \in Token, Slots(r)' = Slots(r), NEW k, NEW t \in Exchanging(r),
         IdleLive(r)' \subseteq IdleLive(r) \cup {k}, Exchanging(r)' \subseteq Exchanging(r) \ {t}
  PROVE  Cardinality(IdleLive(r)') + Cardinality(Exchanging(r)') <= Slots(r)'
<1>1. /\ IsFiniteSet(IdleLive(r) \cup {k}) /\ Cardinality(IdleLive(r) \cup {k}) \in Nat
      /\ Cardinality(IdleLive(r) \cup {k}) <= Cardinality(IdleLive(r)) + 1
  <2>1. IsFiniteSet(IdleLive(r)) /\ Cardinality(IdleLive(r)) \in Nat
    BY CountSetsFinite
  <2>2. /\ IsFiniteSet(IdleLive(r) \cup {k})
        /\ Cardinality(IdleLive(r) \cup {k}) \in {Cardinality(IdleLive(r)), Cardinality(IdleLive(r)) + 1}
    BY <2>1, FS_AddElement
  <2> QED BY <2>1, <2>2
<1>2. /\ IsFiniteSet(Exchanging(r) \ {t})
      /\ Cardinality(Exchanging(r) \ {t}) = Cardinality(Exchanging(r)) - 1
  BY CountSetsFinite, FS_RemoveElement
<1>3. Cardinality(IdleLive(r)') <= Cardinality(IdleLive(r) \cup {k})
  BY <1>1, FS_Subset
<1>4. Cardinality(Exchanging(r)') <= Cardinality(Exchanging(r)) - 1
  BY <1>2, FS_Subset
<1>5. Cardinality(IdleLive(r)) + Cardinality(Exchanging(r)) <= Slots(r) /\ Slots(r) \in Nat
  BY SlotsTyped DEF FewTokens
<1> QED BY <1>1, <1>3, <1>4, <1>5, CountSetsFinite, CountSetsFiniteNext

LEMMA CountReads ==
  ASSUME TypeOK, CountInv, NEW t \in Tabs, RefreshReads(t)
  PROVE  CountInv'
<1>1. PICK k \in Token, r \in Token :
        /\ k = call[t].token /\ r = rows[k].root /\ rows[k].state = "live"
        /\ call'[t].pc = "rotate" /\ call'[t].token = k /\ call'[t].root = r
        /\ \A v \in Tabs \ {t} : call'[v] = call[v]
        /\ races' = [races EXCEPT ![r] = IF ReadersOf(k) = {} THEN races[r] ELSE races[r] + 1]
  <2>1. \A v \in Tabs \ {t} : call'[v] = call[v]
    BY DEF RefreshReads, TypeOK
  <2> QED BY <2>1, ReadEffect
<1>2. call[t].pc = "read" /\ UNCHANGED << rows, out >>
  BY DEF RefreshReads
<1>3. RootsInv'
  <2>1. RowsStay
    BY <1>2 DEF RowsStay
  <2> QED BY <1>1, <1>2, <2>1, RootsSteps DEF CountInv, Renews
<1>4. /\ ReadersOf(k)' = ReadersOf(k) \cup {t} /\ t \notin ReadersOf(k)
      /\ \A j \in Token \ {k} : ReadersOf(j)' = ReadersOf(j)
  BY <1>1, <1>2 DEF ReadersOf
<1>5. \A q \in Token : IdleLive(q)' = IdleLive(q) \ {k}
  BY <1>2, <1>4 DEF IdleLive
<1>6. Exchanging(r)' = Exchanging(r) \cup {t} /\ \A q \in Token \ {r} : Exchanging(q)' = Exchanging(q)
  BY <1>1, <1>2 DEF Exchanging, Renews
<1>7. /\ races[r] \in Nat /\ races'[r] = (IF ReadersOf(k) = {} THEN races[r] ELSE races[r] + 1)
      /\ \A q \in Token \ {r} : races'[q] = races[q]
  BY <1>1 DEF TypeOK
<1>8. /\ \A q \in Token \ {r} : Slots(q)' = Slots(q)
      /\ Slots(r)' = Slots(r) + (IF ReadersOf(k) = {} THEN 0 ELSE 1)
  BY <1>2, <1>7 DEF Slots
<1>9. ASSUME NEW q \in Token \ {r}
      PROVE  Cardinality(IdleLive(q)') + Cardinality(Exchanging(q)') <= Slots(q)'
  <2>1. Slots(q) \in Nat
    BY SlotsTyped
  <2> QED BY <1>5, <1>6, <1>8, <2>1, CountKeeps DEF CountInv
<1>10. Cardinality(IdleLive(r)') + Cardinality(Exchanging(r)') <= Slots(r)'
  <2>1. Cardinality(IdleLive(r)) + Cardinality(Exchanging(r)) <= Slots(r) /\ Slots(r) \in Nat
    BY SlotsTyped DEF CountInv, FewTokens
  <2>2. Cardinality(Exchanging(r)') <= Cardinality(Exchanging(r)) + 1
    <3>1. IsFiniteSet(Exchanging(r)) /\ Cardinality(Exchanging(r)) \in Nat
      BY CountSetsFinite
    <3>2. Cardinality(Exchanging(r)') \in {Cardinality(Exchanging(r)), Cardinality(Exchanging(r)) + 1}
      BY <1>6, <3>1, FS_AddElement
    <3> QED BY <3>1, <3>2
  <2>3. Cardinality(IdleLive(r)') = IF k \in IdleLive(r) THEN Cardinality(IdleLive(r)) - 1 ELSE Cardinality(IdleLive(r))
    BY <1>5, CountSetsFinite, FS_RemoveElement
  <2>4. CASE ReadersOf(k) = {}
    <3>1. k \in IdleLive(r)
      BY <1>1, <2>4 DEF IdleLive
    <3> QED BY <1>8, <2>1, <2>2, <2>3, <2>4, <3>1, CountSetsFinite, CountSetsFiniteNext
  <2>5. CASE ReadersOf(k) # {}
    <3>1. Cardinality(IdleLive(r)') <= Cardinality(IdleLive(r))
      BY <2>3, CountSetsFinite
    <3> QED BY <1>8, <2>1, <2>2, <2>5, <3>1, CountSetsFinite, CountSetsFiniteNext
  <2> QED BY <2>4, <2>5
<1>11. FewTokens'
  BY <1>9, <1>10 DEF FewTokens
<1> QED BY <1>3, <1>11 DEF CountInv

LEMMA CountIssues ==
  ASSUME TypeOK, CountInv, NEW t \in Tabs, IssueTokens(t)
  PROVE  CountInv'
<1>1. PICK k \in Token, r \in Token :
        /\ rows[k].state = "unused"
        /\ rows'[k].state = "live" /\ rows'[k].root = r
        /\ r = IF call[t].kind = "refresh" THEN call[t].root ELSE k
        /\ \A i \in Token \ {k} : rows'[i] = rows[i]
        /\ call' = [call EXCEPT ![t] = [call[t] EXCEPT !.pc = "answer", !.token = k]]
        /\ call[t].pc = "issue"
  BY IssueEffect, RootsTyped DEF Renews
<1>2. /\ call'[t].pc = "answer"
      /\ \A v \in Tabs \ {t} : call'[v] = call[v]
  BY <1>1 DEF TypeOK, Call
<1>3. UNCHANGED << out, races >>
  BY DEF IssueTokens
<1>4. RowsStay
  BY <1>1 DEF RowsStay
<1>5. RootsInv'
  <2>1. rows'[r].state # "unused"
    BY <1>1, <1>4 DEF CountInv, RootsInv, Renews, RowsStay
  <2>2. \A j \in Token : rows'[j].state # "unused" =>
          rows[j].state # "unused" \/ rows'[rows'[j].root].state # "unused"
    BY <1>1, <2>1
  <2> QED BY <1>2, <1>3, <1>4, <2>2, RootsSteps DEF CountInv, Renews
<1>6. \A j : ReadersOf(j)' = ReadersOf(j)
  BY <1>1, <1>2 DEF ReadersOf
<1>7. \A q \in Token : Exchanging(q)' = Exchanging(q) \ {t}
  BY <1>1, <1>2 DEF Exchanging, Renews
<1>8. \A q \in Token : Slots(q)' = Slots(q) /\ Slots(q) \in Nat
  BY <1>3, SlotsTyped DEF Slots
<1>9. \A q \in Token \ {r} : IdleLive(q)' \subseteq IdleLive(q)
  BY <1>1, <1>6 DEF IdleLive
<1>10. IdleLive(r)' \subseteq IdleLive(r) \cup {k}
  BY <1>1, <1>6 DEF IdleLive
<1>11. ASSUME NEW q \in Token \ {r}
       PROVE  Cardinality(IdleLive(q)') + Cardinality(Exchanging(q)') <= Slots(q)'
  <2>1. IdleLive(q)' \subseteq IdleLive(q) /\ Exchanging(q)' \subseteq Exchanging(q)
    BY <1>7, <1>9
  <2> QED BY <1>8, <2>1, CountKeeps DEF CountInv
<1>12. Cardinality(IdleLive(r)') + Cardinality(Exchanging(r)') <= Slots(r)'
  <2>1. CASE call[t].kind = "refresh"
    <3>1. t \in Exchanging(r)
      BY <1>1, <2>1 DEF Exchanging, Renews
    <3> QED BY <1>7, <1>8, <1>10, <3>1, CountSwaps DEF CountInv
  <2>2. CASE call[t].kind # "refresh"
    <3>1. rows[r].state = "unused"
      BY <1>1, <2>2
    <3>2. IdleLive(r) = {} /\ Exchanging(r) = {} /\ r \notin out
      BY <3>1 DEF IdleLive, Exchanging, CountInv, RootsInv
    <3>3. IdleLive(r)' \subseteq {k} /\ Exchanging(r)' = {}
      BY <1>7, <1>10, <3>2
    <3>4. Cardinality(IdleLive(r)') <= 1 /\ Cardinality(Exchanging(r)') = 0
      <4>1. IsFiniteSet({k}) /\ Cardinality({k}) = 1
        BY FS_Singleton
      <4>2. Cardinality(IdleLive(r)') <= Cardinality({k})
        BY <3>3, <4>1, FS_Subset
      <4> QED BY <3>3, <4>1, <4>2, FS_EmptySet
    <3>5. Slots(r)' >= 1
      BY <1>3, <3>2, SlotsTyped DEF Slots
    <3> QED BY <1>8, <3>4, <3>5, CountSetsFiniteNext
  <2> QED BY <2>1, <2>2
<1>13. FewTokens'
  BY <1>11, <1>12 DEF FewTokens
<1> QED BY <1>5, <1>13 DEF CountInv

LEMMA CountRotates ==
  ASSUME TypeOK, CountInv, NEW t \in Tabs, RefreshRotates(t)
  PROVE  CountInv'
<1>1. PICK k \in Token :
        /\ k = call[t].token /\ call[t].pc = "rotate" /\ call[t].kind = "refresh"
        /\ rows[k].state # "unused" /\ rows'[k].state = "revoked" /\ rows'[k].root = rows[k].root
        /\ \A i \in Token \ {k} : rows'[i] = rows[i]
        /\ call' = [call EXCEPT ![t] = [call[t] EXCEPT !.pc = "issue"]]
  BY RotateEffect, RootsTyped
<1>2. /\ call'[t].pc = "issue" /\ call'[t].kind = "refresh" /\ call'[t].root = call[t].root
      /\ \A v \in Tabs \ {t} : call'[v] = call[v]
  BY <1>1 DEF TypeOK, Call
<1>3. UNCHANGED << out, races >>
  BY DEF RefreshRotates
<1>4. RootsInv'
  <2>1. RowsStay /\ \A j \in Token : rows'[j].state # "unused" => rows[j].state # "unused"
    BY <1>1 DEF RowsStay
  <2> QED BY <1>1, <1>2, <1>3, <2>1, RootsSteps DEF CountInv, Renews
<1>5. \A j \in Token \ {k} : ReadersOf(j)' = ReadersOf(j)
  BY <1>1, <1>2 DEF ReadersOf
<1>6. \A q \in Token : IdleLive(q)' \subseteq IdleLive(q)
  BY <1>1, <1>5 DEF IdleLive
<1>7. \A q \in Token : Exchanging(q)' = Exchanging(q)
  BY <1>1, <1>2 DEF Exchanging, Renews
<1>8. \A q \in Token : Slots(q)' = Slots(q) /\ Slots(q) \in Nat
  BY <1>3, SlotsTyped DEF Slots
<1>9. FewTokens'
  BY <1>6, <1>7, <1>8, CountKeeps DEF CountInv, FewTokens
<1> QED BY <1>4, <1>9 DEF CountInv

LEMMA CountLogsOut ==
  ASSUME TypeOK, CountInv, NEW t \in Tabs, RevokeRefreshToken(t)
  PROVE  CountInv'
<1> DEFINE c == [call[t] EXCEPT !.pc = "answer"]
<1>1. call' = [call EXCEPT ![t] = c] /\ call[t].pc = "signout" /\ call[t] \in Call
  BY DEF RevokeRefreshToken, TypeOK
<1>2. c.pc = "answer"
  BY <1>1 DEF Call
<1> HIDE DEF c
<1>3. call'[t].pc = "answer" /\ \A v \in Tabs \ {t} : call'[v] = call[v]
  BY <1>1, <1>2 DEF TypeOK
<1>4. CASE UNCHANGED << rows, out, races >>
  BY <1>1, <1>2, <1>4, SteadyStep, CountSteps
<1>5. ASSUME NEW k \in Token, NEW r \in Token, k = call[t].token, r = rows[k].root, rows[k].state = "live",
             rows' = [rows EXCEPT ![k].state = "revoked"], out' = out \cup {r},
             races' = [races EXCEPT ![r] = IF ReadersOf(k) = {} THEN races[r] ELSE races[r] + 1]
      PROVE  CountInv'
  <2>1. /\ rows'[k].state = "revoked" /\ rows'[k].root = r
        /\ \A i \in Token \ {k} : rows'[i] = rows[i]
    BY <1>5 DEF TypeOK, Row
  <2>2. RootsInv'
    <3>1. RowsStay /\ \A j \in Token : rows'[j].state # "unused" => rows[j].state # "unused"
      BY <1>5, <2>1 DEF RowsStay
    <3>2. rows[r].state # "unused"
      BY <1>5 DEF CountInv, RootsInv
    <3>3. \A q \in out' : q \in out \/ (q \in Token /\ rows[q].state # "unused")
      BY <1>5, <3>2
    <3> QED BY <1>3, <3>1, <3>3, RootsSteps DEF CountInv, Renews
  <2>3. \A j : ReadersOf(j)' = ReadersOf(j)
    BY <1>1, <1>3 DEF ReadersOf
  <2>4. \A q \in Token : IdleLive(q)' = IdleLive(q) \ {k}
    BY <2>1, <2>3 DEF IdleLive
  <2>5. \A q \in Token : Exchanging(q)' = Exchanging(q)
    BY <1>1, <1>3 DEF Exchanging, Renews
  <2>6. /\ races[r] \in Nat /\ races'[r] = (IF ReadersOf(k) = {} THEN races[r] ELSE races[r] + 1)
        /\ \A q \in Token \ {r} : races'[q] = races[q]
    BY <1>5 DEF TypeOK
  <2>7. \A q \in Token \ {r} : Slots(q)' = Slots(q) /\ Slots(q) \in Nat
    BY <1>5, <2>6, SlotsTyped DEF Slots
  <2>8. Slots(r)' \in Nat /\ Slots(r)' + 1 >= Slots(r) + (IF ReadersOf(k) = {} THEN 0 ELSE 1)
    BY <1>5, <2>6 DEF Slots
  <2>9. ASSUME NEW q \in Token \ {r}
        PROVE  Cardinality(IdleLive(q)') + Cardinality(Exchanging(q)') <= Slots(q)'
    BY <2>4, <2>5, <2>7, CountKeeps DEF CountInv
  <2>10. Cardinality(IdleLive(r)') + Cardinality(Exchanging(r)') <= Slots(r)'
    <3>1. CASE ReadersOf(k) = {}
      <4>1. k \in IdleLive(r)
        BY <1>5, <3>1 DEF IdleLive
      <4>2. Cardinality(IdleLive(r)') = Cardinality(IdleLive(r)) - 1
        BY <2>4, <4>1, CountSetsFinite, FS_RemoveElement
      <4>3. Cardinality(IdleLive(r)) + Cardinality(Exchanging(r)) <= Slots(r) /\ Slots(r) \in Nat
        BY SlotsTyped DEF CountInv, FewTokens
      <4> QED BY <2>5, <2>8, <3>1, <4>2, <4>3, CountSetsFinite, CountSetsFiniteNext
    <3>2. CASE ReadersOf(k) # {}
      <4>1. Slots(r) <= Slots(r)'
        BY <2>8, <3>2, SlotsTyped
      <4> QED BY <2>4, <2>5, <2>8, <4>1, CountKeeps DEF CountInv
    <3> QED BY <3>1, <3>2
  <2>11. FewTokens'
    BY <2>9, <2>10 DEF FewTokens
  <2> QED BY <2>2, <2>11 DEF CountInv
<1>6. CASE /\ rows[call[t].token].state = "live"
           /\ rows' = [rows EXCEPT ![call[t].token].state = "revoked"]
           /\ out' = out \cup {rows[call[t].token].root}
           /\ races' = [races EXCEPT ![rows[call[t].token].root] =
                IF ReadersOf(call[t].token) = {} THEN @ ELSE @ + 1]
  <2>1. call[t].token \in Token
    BY <1>1, CallTyped DEF CallOK
  <2>2. rows[call[t].token].root \in Token
    BY <1>6, <2>1, RootsTyped
  <2> QED BY <1>5, <1>6, <2>1, <2>2
<1> QED BY <1>4, <1>6 DEF RevokeRefreshToken

LEMMA CountInterrupted ==
  ASSUME TypeOK, CountInv, NEW t \in Tabs, Interrupted(t)
  PROVE  CountInv'
<1>1. call' = [call EXCEPT ![t] = NoCall] /\ NoCall.pc = "idle" /\ UNCHANGED << rows, out, races >>
  BY DEF Interrupted, Finish, NoCall
<1>2. CASE call[t].pc # "rotate"
  BY <1>1, <1>2, SteadyStep, CountSteps
<1>3. CASE call[t].pc = "rotate"
  <2>1. PICK k \in Token, r \in Token : k = call[t].token /\ r = call[t].root /\ rows[k].root = r
    BY <1>3, RootsTyped DEF CountInv, RootsInv
  <2>2. call'[t].pc = "idle" /\ \A v \in Tabs \ {t} : call'[v] = call[v]
    BY <1>1 DEF TypeOK
  <2>3. RootsInv'
    <3>1. RowsStay
      BY <1>1 DEF RowsStay
    <3> QED BY <1>1, <2>2, <3>1, RootsSteps DEF CountInv, Renews
  <2>4. \A j \in Token \ {k} : ReadersOf(j)' = ReadersOf(j)
    BY <2>1, <2>2 DEF ReadersOf
  <2>5. \A q \in Token : Exchanging(q)' = Exchanging(q) \ {t}
    BY <1>3, <2>2 DEF Exchanging, Renews
  <2>6. \A q \in Token \ {r} : IdleLive(q)' \subseteq IdleLive(q)
    BY <1>1, <2>1, <2>4 DEF IdleLive
  <2>7. IdleLive(r)' \subseteq IdleLive(r) \cup {k}
    BY <1>1, <2>4 DEF IdleLive
  <2>8. \A q \in Token : Slots(q)' = Slots(q) /\ Slots(q) \in Nat
    BY <1>1, SlotsTyped DEF Slots
  <2>9. t \in Exchanging(r)
    BY <1>3, <2>1 DEF Exchanging
  <2>10. Cardinality(IdleLive(r)') + Cardinality(Exchanging(r)') <= Slots(r)'
    BY <2>5, <2>7, <2>8, <2>9, CountSwaps DEF CountInv
  <2>11. ASSUME NEW q \in Token \ {r}
         PROVE  Cardinality(IdleLive(q)') + Cardinality(Exchanging(q)') <= Slots(q)'
    <3>1. IdleLive(q)' \subseteq IdleLive(q) /\ Exchanging(q)' \subseteq Exchanging(q)
      BY <2>5, <2>6
    <3> QED BY <2>8, <3>1, CountKeeps DEF CountInv
  <2>12. FewTokens'
    BY <2>10, <2>11 DEF FewTokens
  <2> QED BY <2>3, <2>12 DEF CountInv
<1> QED BY <1>2, <1>3

LEMMA CountServes ==
  ASSUME TypeOK, CountInv, NEW t \in Tabs, Serves(t)
  PROVE  CountInv'
<1>0. /\ call[t] \in Call /\ NoCall.pc = "idle" /\ epoch \in Nat
  BY DEF TypeOK, NoCall
<1>1. ASSUME NEW c, call' = [call EXCEPT ![t] = c], call[t].pc # "rotate", c.pc # "rotate",
             c.pc = "issue" => c.kind # "refresh", UNCHANGED << out, races >>,
             \A k \in Token :
               /\ rows'[k].root = rows[k].root
               /\ rows'[k].state = "live" => rows[k].state = "live"
               /\ rows'[k].state = "unused" <=> rows[k].state = "unused"
      PROVE  CountInv'
  BY <1>1, SteadyStep, CountSteps
<1>2. CASE RefreshRejected(t)
  <2>1. /\ call[t].pc = "read" /\ call' = [call EXCEPT ![t] = NoCall] /\ UNCHANGED << out, races >>
        /\ rows' = [rows EXCEPT ![call[t].token].state = "revoked"]
    BY <1>2 DEF RefreshRejected, Finish
  <2>2. rows[call[t].token].state # "unused"
    BY <2>1, CallTyped DEF CallOK, Token
  <2>3. \A k \in Token :
          /\ rows'[k].root = rows[k].root
          /\ rows'[k].state = "live" => rows[k].state = "live"
          /\ rows'[k].state = "unused" <=> rows[k].state = "unused"
    BY <2>1, <2>2 DEF TypeOK, Row
  <2> QED BY <1>0, <1>1, <2>1, <2>3
<1>3. CASE ChangeWrites(t)
  <2> DEFINE c == [call[t] EXCEPT !.pc = "sweep"]
  <2>1. call' = [call EXCEPT ![t] = c] /\ UNCHANGED << rows, out, races >> /\ call[t].pc = "write"
    BY <1>3 DEF ChangeWrites
  <2>2. c.pc = "sweep"
    BY <1>0 DEF Call
  <2> HIDE DEF c
  <2> QED BY <1>1, <2>1, <2>2
<1>4. CASE ChangeSweeps(t)
  <2>1. /\ rows' = Swept(call[t].token) /\ epoch' \in Nat /\ epoch <= epoch' /\ call[t].pc = "sweep"
        /\ call' = [Overtaken(t) EXCEPT ![t] = NoCall] /\ UNCHANGED << out, races >>
    BY <1>0, <1>4 DEF ChangeSweeps
  <2> QED BY <1>0, <2>1, SteadySweep, CountSteps
<1>5. CASE ResetCommits(t)
  <2> DEFINE c == [Overtaken(t)[t] EXCEPT !.pc = "answer"]
  <2>1. /\ rows' = Swept(0) /\ epoch' \in Nat /\ epoch <= epoch' /\ call[t].pc = "commit"
        /\ call' = [Overtaken(t) EXCEPT ![t] = c] /\ UNCHANGED << out, races >>
    BY <1>0, <1>5 DEF ResetCommits
  <2>2. c.pc = "answer"
    BY OvertakenCalls DEF Call
  <2> HIDE DEF c
  <2> QED BY <2>1, <2>2, SteadySweep, CountSteps
<1>6. CASE RetireLinks(t) \/ CreateLink(t) \/ VerifyCommits(t) \/ Answer(t)
  <2>1. UNCHANGED << rows, out, races >> /\ call[t].pc \in {"retire", "create", "commit", "answer"}
    BY <1>6 DEF RetireLinks, CreateLink, VerifyCommits, Answer
  <2>2. CASE call' = [call EXCEPT ![t] = NoCall]
    BY <1>0, <1>1, <2>1, <2>2
  <2>3. ASSUME NEW pc \in {"create", "issue"}, call' = [call EXCEPT ![t].pc = pc],
               pc = "issue" => call[t].kind = "register"
        PROVE  CountInv'
    <3> DEFINE c == [call[t] EXCEPT !.pc = pc]
    <3>1. call' = [call EXCEPT ![t] = c] /\ c.kind = call[t].kind /\ c.pc = pc
      BY <1>0, <2>3 DEF Call
    <3> HIDE DEF c
    <3> QED BY <1>1, <2>1, <2>3, <3>1
  <2> QED BY <1>6, <2>2, <2>3 DEF RetireLinks, CreateLink, VerifyCommits, Answer, Finish
<1> QED BY <1>2, <1>3, <1>4, <1>5, <1>6, CountIssues, CountReads, CountRotates, CountLogsOut DEF Serves

LEMMA CountNext == TypeOK /\ CountInv /\ [Next]_vars => CountInv'
<1> SUFFICES ASSUME TypeOK, CountInv, [Next]_vars PROVE CountInv'
  OBVIOUS
<1>1. ASSUME UNCHANGED << call, out, races >>,
             \A k \in Token :
               /\ rows'[k].root = rows[k].root
               /\ rows'[k].state = "live" => rows[k].state = "live"
               /\ rows'[k].state = "unused" <=> rows[k].state = "unused"
      PROVE  CountInv'
  <2>1. Steady
    BY <1>1 DEF Steady, Renews
  <2> QED BY <1>1, <2>1, CountSteps
<1>2. ASSUME NEW b \in Browsers, AccessExpires(b) PROVE CountInv'
  BY <1>1, <1>2 DEF AccessExpires
<1>3. ASSUME NEW k \in Token, TokenExpires(k) PROVE CountInv'
  <2>1. \A i \in Token :
          /\ rows'[i].root = rows[i].root
          /\ rows'[i].state = "live" => rows[i].state = "live"
          /\ rows'[i].state = "unused" <=> rows[i].state = "unused"
    BY <1>3 DEF TokenExpires, TypeOK, Row
  <2> QED BY <1>1, <1>3, <2>1 DEF TokenExpires
<1>4. ASSUME NEW l \in Link, LinkExpires(l) PROVE CountInv'
  BY <1>1, <1>4 DEF LinkExpires
<1>5. CASE UNCHANGED vars
  BY <1>1, <1>5 DEF vars
<1> QED BY <1>2, <1>3, <1>4, <1>5, CountSends, CountServes, CountInterrupted DEF Next

(* Every live token that is being exchanged has a request of its own that  *)
(* exchanges it.                                                           *)
LEMMA CountBounds == TypeOK /\ CountInv => SessionsCounted
<1> SUFFICES ASSUME TypeOK, CountInv, NEW r \in Token
             PROVE  Cardinality(LiveOf(r)) + Cardinality(IssuingOf(r)) <= Slots(r)
  BY DEF SessionsCounted, Slots
<1> DEFINE Read    == LiveOf(r) \ IdleLive(r)
           Readers == { t \in Exchanging(r) : call[t].pc = "rotate" /\ call[t].token \in Read }
           Reads   == [t \in Readers |-> call[t].token]
<1>1. /\ IsFiniteSet(IdleLive(r)) /\ Cardinality(IdleLive(r)) \in Nat
      /\ IsFiniteSet(Exchanging(r)) /\ Cardinality(Exchanging(r)) \in Nat
  BY CountSetsFinite
<1>2. Readers \subseteq Exchanging(r) /\ IssuingOf(r) \subseteq Exchanging(r) /\ Readers \cap IssuingOf(r) = {}
  BY DEF IssuingOf, Exchanging, Renews
<1>3. IdleLive(r) \subseteq LiveOf(r) /\ LiveOf(r) = IdleLive(r) \cup Read /\ IdleLive(r) \cap Read = {}
  BY DEF IdleLive, LiveOf, Live
<1>4. Reads \in Surjection(Readers, Read)
  <2>1. ASSUME NEW k \in Read PROVE \E t \in Readers : call[t].token = k
    <3>1. k \in Token /\ rows[k].root = r /\ ReadersOf(k) # {}
      BY DEF LiveOf, Live, IdleLive
    <3>2. PICK t \in Tabs : call[t].pc = "rotate" /\ call[t].token = k
      BY <3>1 DEF ReadersOf
    <3>3. t \in Exchanging(r)
      BY <3>1, <3>2 DEF Exchanging, CountInv, RootsInv
    <3> QED BY <3>2, <3>3
  <2>2. Reads \in [Readers -> Read]
    OBVIOUS
  <2>3. \A k \in Read : \E t \in Readers : Reads[t] = k
    BY <2>1
  <2> HIDE DEF Reads, Readers, Read
  <2> QED BY <2>2, <2>3 DEF Surjection
<1> HIDE DEF Reads, Readers, Read
<1>5. IsFiniteSet(Readers) /\ IsFiniteSet(IssuingOf(r))
  BY <1>1, <1>2, FS_Subset
<1>6. IsFiniteSet(Read) /\ Cardinality(Read) <= Cardinality(Readers)
  BY <1>4, <1>5, FS_Surjection
<1>7. Cardinality(LiveOf(r)) = Cardinality(IdleLive(r)) + Cardinality(Read)
  <2>1. Cardinality(IdleLive(r) \cap Read) = 0
    BY <1>3, FS_EmptySet
  <2>2. /\ Cardinality(IdleLive(r) \cup Read) =
             Cardinality(IdleLive(r)) + Cardinality(Read) - Cardinality(IdleLive(r) \cap Read)
        /\ Cardinality(Read) \in Nat
    BY <1>1, <1>6, FS_Union, FS_CardinalityType
  <2> QED BY <1>1, <1>3, <2>1, <2>2
<1>8. Cardinality(Readers) + Cardinality(IssuingOf(r)) <= Cardinality(Exchanging(r))
  <2>1. Readers \cup IssuingOf(r) \subseteq Exchanging(r)
    BY <1>2
  <2>2. Cardinality(Readers \cup IssuingOf(r)) <= Cardinality(Exchanging(r))
    BY <1>1, <2>1, FS_Subset
  <2>3. Cardinality(Readers \cap IssuingOf(r)) = 0
    BY <1>2, FS_EmptySet
  <2>4. /\ Cardinality(Readers \cup IssuingOf(r)) =
             Cardinality(Readers) + Cardinality(IssuingOf(r)) - Cardinality(Readers \cap IssuingOf(r))
        /\ Cardinality(Readers) \in Nat /\ Cardinality(IssuingOf(r)) \in Nat
    BY <1>5, FS_Union, FS_CardinalityType
  <2> QED BY <1>1, <2>2, <2>3, <2>4
<1>9. Cardinality(IdleLive(r)) + Cardinality(Exchanging(r)) <= Slots(r) /\ Slots(r) \in Nat
  BY SlotsTyped DEF CountInv, FewTokens
<1>10. Cardinality(Read) \in Nat /\ Cardinality(Readers) \in Nat /\ Cardinality(IssuingOf(r)) \in Nat
  BY <1>5, <1>6, FS_CardinalityType
<1> QED BY <1>1, <1>6, <1>7, <1>8, <1>9, <1>10

(* A sign-in holds one usable token, none once signed out, and one more    *)
(* for each time two requests met, whatever the numbers of them all.       *)
THEOREM SessionsCorrect == Spec => []SessionsCounted
<1>1. Init => TypeOK /\ CountInv
  BY TypeInit, CountInit DEF CountInv
<1>2. TypeOK /\ CountInv /\ [Next]_vars => (TypeOK /\ CountInv)'
  BY TypeNext, CountNext
<1> QED BY <1>1, <1>2, CountBounds, PTL DEF Spec

=============================================================================
