------------------------------- MODULE Sessions -------------------------------
(***************************************************************************)
(* One account: its refresh tokens, its password, the one-time links of    *)
(* the password reset and of the email verification, and the browsers that *)
(* carry its cookies.  The tabs of a browser share a cookie jar and act at *)
(* the same time; every database call of a request is a step of its own.   *)
(***************************************************************************)
EXTENDS Integers, FiniteSets

CONSTANTS
  Browsers,     \* cookie jars
  Tabs,         \* pages that send requests, one at a time each
  BrowserOf,    \* the browser a tab belongs to
  MaxTokens,    \* bound on the RefreshToken rows
  MaxLinks,     \* bound on the PasswordResetToken and EmailVerificationToken rows
  MaxCalls,     \* bound on the requests
  MaxFaults     \* bound on the crashes, lost answers and failed writes

Token == 1..MaxTokens
Link  == 1..MaxLinks

ASSUME BrowserAssumption == BrowserOf \in [Tabs -> Browsers]
ASSUME TabsAssumption    == IsFiniteSet(Tabs)
ASSUME SizesAssumption   ==
  /\ MaxTokens \in Nat
  /\ MaxLinks \in Nat
  /\ MaxCalls \in Nat
  /\ MaxFaults \in Nat

VARIABLES
  user,    \* the account: absent, not verified, verified
  epoch,   \* how often the password changed or all sessions were revoked
  torn,    \* a password change stopped between its two writes
  rows,    \* the RefreshToken rows
  links,   \* the rows of the one-time links
  jar,     \* the cookies of a browser: access token there, refresh token or 0
  call,    \* the request of each tab
  out,     \* sign-ins, named by their first token, that were signed out
  races,   \* per sign-in, the requests that met on one of its tokens
  piled,   \* per purpose, the link requests that met
  missed,  \* browsers that missed the answer to a refresh
  used     \* how many requests and faults have happened

vars == << user, epoch, torn, rows, links, jar, call, out, races, piled, missed, used >>

-----------------------------------------------------------------------------
(* The data.                                                               *)

Kind    == {"register", "login", "refresh", "logout", "revoke", "change", "reset",
            "forgot", "resend", "verify"}
Step    == {"idle", "read", "rotate", "issue", "answer", "signout", "write", "sweep",
            "retire", "create", "commit"}
Purpose == {"reset", "verify"}

NoRow  == [state |-> "unused", root |-> 0, epoch |-> 0, late |-> FALSE, rotated |-> FALSE]
NoLink == [state |-> "unused", for |-> "reset", uses |-> 0, shared |-> 0]
NoCall == [pc |-> "idle", kind |-> "login", token |-> 0, root |-> 0, epoch |-> 0,
           late |-> FALSE, link |-> 0]
NoJar  == [at |-> FALSE, rt |-> 0]

Jar(t)    == jar[BrowserOf[t]]
Live      == { k \in Token : rows[k].state = "live" }
LiveOf(r) == { k \in Live : rows[k].root = r }

IssuingOf(r)   == { t \in Tabs : call[t].pc = "issue" /\ call[t].kind = "refresh" /\ call[t].root = r }
ReadersOf(k)   == { t \in Tabs : call[t].pc = "rotate" /\ call[t].token = k }
LiveLinks(p)   == { l \in Link : links[l].state = "live" /\ links[l].for = p }
PurposeOf(kind) == IF kind = "forgot" THEN "reset" ELSE "verify"
Creating(p)    == { t \in Tabs : call[t].pc = "create" /\ PurposeOf(call[t].kind) = p }
Spending(l)    == { t \in Tabs : call[t].pc = "commit" /\ call[t].link = l }

WillIssue(t) ==
  \/ call[t].pc \in {"rotate", "issue"}
  \/ call[t].pc \in {"retire", "create"} /\ call[t].kind = "register"

Sweeping == \E t \in Tabs : call[t].pc = "sweep"

Fault ==
  /\ used.faults < MaxFaults
  /\ used' = [used EXCEPT !.faults = @ + 1]

Finish(t) == call' = [call EXCEPT ![t] = NoCall]

(* A tab sends a request.                                                  *)
Send(t, fields) ==
  /\ call[t].pc = "idle"
  /\ used.calls < MaxCalls
  /\ used' = [used EXCEPT !.calls = @ + 1]
  /\ call' = [call EXCEPT ![t] = fields]

(* updateMany on the live tokens, but for one.  A request that has read a  *)
(* token, checked a password or registered by then issues its own later.   *)
Swept(keep) ==
  [k \in Token |-> IF rows[k].state # "live" THEN rows[k]
                   ELSE IF k = keep THEN [rows[k] EXCEPT !.epoch = epoch']
                   ELSE [rows[k] EXCEPT !.state = "revoked"]]
Overtaken(t) ==
  [v \in Tabs |-> IF v # t /\ WillIssue(v) THEN [call[v] EXCEPT !.late = TRUE] ELSE call[v]]

-----------------------------------------------------------------------------
(* Registration, sign-in and the tokens they end in.                       *)

Register(t) ==
  /\ user = "absent"
  /\ Send(t, [NoCall EXCEPT !.pc = "retire", !.kind = "register", !.epoch = epoch])
  /\ user' = "unverified"
  /\ UNCHANGED << epoch, torn, rows, links, jar, out, races, piled, missed >>

(* The password given is the current one; a wrong one changes nothing.     *)
Login(t) ==
  /\ user # "absent"
  /\ Send(t, [NoCall EXCEPT !.pc = "issue", !.kind = "login", !.epoch = epoch])
  /\ UNCHANGED << user, epoch, torn, rows, links, jar, out, races, piled, missed >>

IssueTokens(t) ==
  LET c == call[t]
  IN  /\ c.pc = "issue"
      /\ \E k \in Token :
           /\ rows[k].state = "unused"
           /\ \A i \in 1..(k-1) : rows[i].state # "unused"
           /\ rows' = [rows EXCEPT ![k] =
                [state |-> "live", root |-> IF c.kind = "refresh" THEN c.root ELSE k,
                 epoch |-> c.epoch, late |-> c.late, rotated |-> FALSE]]
           /\ call' = [call EXCEPT ![t].pc = "answer", ![t].token = k]
      /\ UNCHANGED << user, epoch, torn, links, jar, out, races, piled, missed, used >>

-----------------------------------------------------------------------------
(* refreshSession.  The client sends it when the access token has run out. *)

RefreshSends(t) ==
  /\ ~Jar(t).at
  /\ Jar(t).rt # 0
  /\ Send(t, [NoCall EXCEPT !.pc = "read", !.kind = "refresh", !.token = Jar(t).rt])
  /\ UNCHANGED << user, epoch, torn, rows, links, jar, out, races, piled, missed >>

(* Faulty variant: the new token is not tied to the session exchanged.     *)
RefreshForgetsSession(t) ==
  LET k == call[t].token
  IN  /\ call[t].pc = "read"
      /\ rows[k].state = "live"
      /\ call' = [call EXCEPT ![t].pc = "rotate", ![t].epoch = rows[k].epoch, ![t].late = rows[k].late]
      /\ races' = [races EXCEPT ![rows[k].root] = IF ReadersOf(k) = {} THEN @ ELSE @ + 1]
      /\ UNCHANGED << user, epoch, torn, rows, links, jar, out, piled, missed, used >>

RefreshReads(t) ==
  LET k == call[t].token
  IN  /\ call[t].pc = "read"
      /\ rows[k].state = "live"
      /\ call' = [call EXCEPT ![t].pc = "rotate", ![t].root = rows[k].root,
                              ![t].epoch = rows[k].epoch, ![t].late = rows[k].late]
      /\ races' = [races EXCEPT ![rows[k].root] = IF ReadersOf(k) = {} THEN @ ELSE @ + 1]
      /\ UNCHANGED << user, epoch, torn, rows, links, jar, out, piled, missed, used >>

(* A revoked or expired token ends in an error, which leaves the cookies.  *)
RefreshRejected(t) ==
  LET k == call[t].token
  IN  /\ call[t].pc = "read"
      /\ rows[k].state # "live"
      /\ rows' = [rows EXCEPT ![k].state = "revoked"]
      /\ Finish(t)
      /\ UNCHANGED << user, epoch, torn, links, jar, out, races, piled, missed, used >>

(* Faulty variant: the token that is exchanged stays usable.               *)
RefreshKeepsOld(t) ==
  /\ call[t].pc = "rotate"
  /\ call' = [call EXCEPT ![t].pc = "issue"]
  /\ UNCHANGED << user, epoch, torn, rows, links, jar, out, races, piled, missed, used >>

RefreshRotates(t) ==
  /\ call[t].pc = "rotate"
  /\ rows' = [rows EXCEPT ![call[t].token].state = "revoked", ![call[t].token].rotated = TRUE]
  /\ call' = [call EXCEPT ![t].pc = "issue"]
  /\ UNCHANGED << user, epoch, torn, links, jar, out, races, piled, missed, used >>

-----------------------------------------------------------------------------
(* Signing out, of one session and of all.                                 *)

LogoutSends(t) ==
  /\ Jar(t).rt # 0
  /\ Send(t, [NoCall EXCEPT !.pc = "signout", !.kind = "logout", !.token = Jar(t).rt])
  /\ UNCHANGED << user, epoch, torn, rows, links, jar, out, races, piled, missed >>

(* The token is revoked if it still is live; a write that fails is         *)
(* swallowed, and the cookies go all the same.                             *)
RevokeRefreshToken(t) ==
  LET k == call[t].token
      r == rows[k].root
  IN  /\ call[t].pc = "signout"
      /\ call' = [call EXCEPT ![t].pc = "answer"]
      /\ \/ /\ rows[k].state = "live"
            /\ rows' = [rows EXCEPT ![k].state = "revoked"]
            /\ out' = out \cup {r}
            /\ races' = [races EXCEPT ![r] = IF ReadersOf(k) = {} THEN @ ELSE @ + 1]
            /\ UNCHANGED used
         \/ rows[k].state # "live" /\ UNCHANGED << rows, out, races, used >>
         \/ Fault /\ UNCHANGED << rows, out, races >>
      /\ UNCHANGED << user, epoch, torn, links, jar, piled, missed >>

RevokeAllSessions(t) ==
  /\ Jar(t).at
  /\ call[t].pc = "idle"
  /\ used.calls < MaxCalls
  /\ used' = [used EXCEPT !.calls = @ + 1]
  /\ epoch' = epoch + 1
  /\ rows' = Swept(0)
  /\ call' = [Overtaken(t) EXCEPT ![t] = [NoCall EXCEPT !.pc = "answer", !.kind = "revoke"]]
  /\ torn' = FALSE
  /\ UNCHANGED << user, links, jar, out, races, piled, missed >>

-----------------------------------------------------------------------------
(* changePassword: the current password is checked against the row read    *)
(* first; the new one is written, then the other sessions are revoked.     *)

ChangePassword(t) ==
  /\ Jar(t).at
  /\ Send(t, [NoCall EXCEPT !.pc = "write", !.kind = "change", !.token = Jar(t).rt])
  /\ UNCHANGED << user, epoch, torn, rows, links, jar, out, races, piled, missed >>

ChangeWrites(t) ==
  /\ call[t].pc = "write"
  /\ epoch' = epoch + 1
  /\ call' = [call EXCEPT ![t].pc = "sweep"]
  /\ UNCHANGED << user, torn, rows, links, jar, out, races, piled, missed, used >>

ChangeSweeps(t) ==
  /\ call[t].pc = "sweep"
  /\ UNCHANGED epoch
  /\ rows' = Swept(call[t].token)
  /\ call' = [Overtaken(t) EXCEPT ![t] = NoCall]
  /\ torn' = FALSE
  /\ UNCHANGED << user, links, jar, out, races, piled, missed, used >>

-----------------------------------------------------------------------------
(* One-time links.  A request retires the outstanding links of its         *)
(* purpose and then creates one, which leaves by email.                    *)

ForgotPassword(t) ==
  /\ user # "absent"
  /\ Send(t, [NoCall EXCEPT !.pc = "retire", !.kind = "forgot"])
  /\ UNCHANGED << user, epoch, torn, rows, links, jar, out, races, piled, missed >>

ResendVerification(t) ==
  /\ Jar(t).at
  /\ user = "unverified"
  /\ Send(t, [NoCall EXCEPT !.pc = "retire", !.kind = "resend"])
  /\ UNCHANGED << user, epoch, torn, rows, links, jar, out, races, piled, missed >>

RetireLinks(t) ==
  LET p == PurposeOf(call[t].kind)
  IN  /\ call[t].pc = "retire"
      /\ call' = [call EXCEPT ![t].pc = "create"]
      /\ links' = [l \in Link |-> IF links[l].for = p /\ links[l].state \in {"live", "expired"}
                                  THEN [links[l] EXCEPT !.state = "used"] ELSE links[l]]
      /\ piled' = [piled EXCEPT ![p] = @ + Cardinality(Creating(p))]
      /\ UNCHANGED << user, epoch, torn, rows, jar, out, races, missed, used >>

NewLink(p) == [state |-> "live", for |-> p, uses |-> 0, shared |-> 0]

CreateLink(t) ==
  /\ call[t].pc = "create"
  /\ \E l \in Link :
       /\ links[l].state = "unused"
       /\ \A i \in 1..(l-1) : links[i].state # "unused"
       /\ links' = [links EXCEPT ![l] = NewLink(PurposeOf(call[t].kind))]
  /\ IF call[t].kind = "register"
     THEN call' = [call EXCEPT ![t].pc = "issue"]
     ELSE Finish(t)
  /\ UNCHANGED << user, epoch, torn, rows, jar, out, races, piled, missed, used >>

(* The link opened is read first: resetPassword and verifyEmail return for *)
(* one that is unknown, used or expired.                                   *)
OpenLink(t, l) ==
  /\ links[l].state = "live"
  /\ Send(t, [NoCall EXCEPT !.pc = "commit", !.kind = links[l].for, !.link = l])
  /\ links' = [links EXCEPT ![l].shared = IF Spending(l) = {} THEN @ ELSE @ + 1]
  /\ UNCHANGED << user, epoch, torn, rows, jar, out, races, piled, missed >>

Spent(l) == [links EXCEPT ![l].state = "used", ![l].uses = @ + 1]

(* Faulty variant: the caller's session is kept, as a change keeps it.     *)
ResetKeepsCaller(t) ==
  /\ call[t].pc = "commit"
  /\ call[t].kind = "reset"
  /\ links' = Spent(call[t].link)
  /\ epoch' = epoch + 1
  /\ rows' = [k \in Token |-> IF k = Jar(t).rt THEN rows[k] ELSE Swept(0)[k]]
  /\ call' = [Overtaken(t) EXCEPT ![t].pc = "answer"]
  /\ torn' = FALSE
  /\ UNCHANGED << user, jar, out, races, piled, missed, used >>

(* The transaction of resetPassword.                                       *)
ResetCommits(t) ==
  /\ call[t].pc = "commit"
  /\ call[t].kind = "reset"
  /\ links' = Spent(call[t].link)
  /\ epoch' = epoch + 1
  /\ rows' = Swept(0)
  /\ call' = [Overtaken(t) EXCEPT ![t].pc = "answer"]
  /\ torn' = FALSE
  /\ UNCHANGED << user, jar, out, races, piled, missed, used >>

(* Faulty variant: the link is not marked used.                            *)
VerifyLeavesLink(t) ==
  /\ call[t].pc = "commit"
  /\ call[t].kind = "verify"
  /\ links' = [links EXCEPT ![call[t].link].uses = @ + 1]
  /\ user' = "verified"
  /\ Finish(t)
  /\ UNCHANGED << epoch, torn, rows, jar, out, races, piled, missed, used >>

(* The transaction of verifyEmail.                                         *)
VerifyCommits(t) ==
  /\ call[t].pc = "commit"
  /\ call[t].kind = "verify"
  /\ links' = Spent(call[t].link)
  /\ user' = "verified"
  /\ Finish(t)
  /\ UNCHANGED << epoch, torn, rows, jar, out, races, piled, missed, used >>

-----------------------------------------------------------------------------
(* The answer reaches the browser, and what else may happen.               *)

(* Faulty variant: a refresh sets the access cookie only.                  *)
AnswerAccessOnly(t) ==
  /\ call[t].pc = "answer"
  /\ jar' = [jar EXCEPT ![BrowserOf[t]] =
       IF call[t].kind = "refresh" THEN [@ EXCEPT !.at = TRUE]
       ELSE IF call[t].kind \in {"register", "login"}
       THEN [at |-> TRUE, rt |-> call[t].token] ELSE NoJar]
  /\ missed' = missed \ {BrowserOf[t]}
  /\ Finish(t)
  /\ UNCHANGED << user, epoch, torn, rows, links, out, races, piled, used >>

Answer(t) ==
  /\ call[t].pc = "answer"
  /\ jar' = [jar EXCEPT ![BrowserOf[t]] =
       IF call[t].kind \in {"register", "login", "refresh"}
       THEN [at |-> TRUE, rt |-> call[t].token] ELSE NoJar]
  /\ missed' = missed \ {BrowserOf[t]}
  /\ Finish(t)
  /\ UNCHANGED << user, epoch, torn, rows, links, out, races, piled, used >>

(* The server fails in the middle of a request, or its answer is lost.     *)
Interrupted(t) ==
  /\ call[t].pc # "idle"
  /\ Fault
  /\ torn' = (torn \/ call[t].pc = "sweep")
  /\ missed' = IF call[t].kind = "refresh" THEN missed \cup {BrowserOf[t]} ELSE missed
  /\ Finish(t)
  /\ UNCHANGED << user, epoch, rows, links, jar, out, races, piled >>

AccessExpires(b) ==
  /\ jar[b].at
  /\ jar' = [jar EXCEPT ![b].at = FALSE]
  /\ UNCHANGED << user, epoch, torn, rows, links, call, out, races, piled, missed, used >>

(* The row and the cookie are given the same lifetime.                     *)
TokenExpires(k) ==
  /\ rows[k].state = "live"
  /\ rows' = [rows EXCEPT ![k].state = "expired"]
  /\ jar' = [b \in Browsers |-> IF jar[b].rt = k THEN [jar[b] EXCEPT !.rt = 0] ELSE jar[b]]
  /\ UNCHANGED << user, epoch, torn, links, call, out, races, piled, missed, used >>

LinkExpires(l) ==
  /\ links[l].state = "live"
  /\ links' = [links EXCEPT ![l].state = "expired"]
  /\ UNCHANGED << user, epoch, torn, rows, jar, call, out, races, piled, missed, used >>

-----------------------------------------------------------------------------
Init ==
  /\ user = "absent"
  /\ epoch = 0
  /\ torn = FALSE
  /\ rows = [k \in Token |-> NoRow]
  /\ links = [l \in Link |-> NoLink]
  /\ jar = [b \in Browsers |-> NoJar]
  /\ call = [t \in Tabs |-> NoCall]
  /\ out = {}
  /\ races = [k \in Token |-> 0]
  /\ piled = [p \in Purpose |-> 0]
  /\ missed = {}
  /\ used = [calls |-> 0, faults |-> 0]

Sends(t) ==
  \/ Register(t) \/ Login(t) \/ RefreshSends(t) \/ LogoutSends(t) \/ RevokeAllSessions(t)
  \/ ChangePassword(t) \/ ForgotPassword(t) \/ ResendVerification(t)
  \/ \E l \in Link : OpenLink(t, l)

Serves(t) ==
  \/ IssueTokens(t) \/ RefreshReads(t) \/ RefreshRejected(t) \/ RefreshRotates(t)
  \/ RevokeRefreshToken(t) \/ ChangeWrites(t) \/ ChangeSweeps(t)
  \/ RetireLinks(t) \/ CreateLink(t) \/ ResetCommits(t) \/ VerifyCommits(t)
  \/ Answer(t)

Next ==
  \/ \E t \in Tabs : Sends(t) \/ Serves(t) \/ Interrupted(t)
  \/ \E b \in Browsers : AccessExpires(b)
  \/ \E k \in Token : TokenExpires(k)
  \/ \E l \in Link : LinkExpires(l)

Spec == Init /\ [][Next]_vars

-----------------------------------------------------------------------------
(* Properties.                                                             *)

Row == [state : {"unused", "live", "revoked", "expired"}, root : 0..MaxTokens, epoch : Nat,
        late : BOOLEAN, rotated : BOOLEAN]
LinkRow == [state : {"unused", "live", "used", "expired"}, for : Purpose, uses : Nat, shared : Nat]
Call == [pc : Step, kind : Kind, token : 0..MaxTokens, root : 0..MaxTokens, epoch : Nat,
         late : BOOLEAN, link : 0..MaxLinks]

(* Every value the program handles has its type; a request that is about   *)
(* to read, exchange or spend a row names one, and no row claims to have   *)
(* been issued after the last change of the password.                      *)
TypeOK ==
  /\ user \in {"absent", "unverified", "verified"}
  /\ epoch \in Nat
  /\ torn \in BOOLEAN
  /\ rows \in [Token -> Row]
  /\ links \in [Link -> LinkRow]
  /\ jar \in [Browsers -> [at : BOOLEAN, rt : 0..MaxTokens]]
  /\ call \in [Tabs -> Call]
  /\ out \subseteq Token
  /\ races \in [Token -> Nat]
  /\ piled \in [Purpose -> Nat]
  /\ missed \subseteq Browsers
  /\ used \in [calls : Nat, faults : Nat]
  /\ \A t \in Tabs :
       /\ call[t].pc \in {"read", "rotate"} => call[t].token \in Token /\ call[t].kind = "refresh"
       /\ call[t].pc = "signout" => call[t].token \in Token /\ call[t].kind = "logout"
       /\ call[t].pc = "rotate" => call[t].root \in Token
       /\ call[t].pc = "issue" /\ call[t].kind = "refresh" => call[t].root \in Token
       /\ call[t].pc = "answer" /\ call[t].kind \in {"register", "login", "refresh"} => call[t].token \in Token
       /\ call[t].token # 0 => rows[call[t].token].state # "unused"
       /\ call[t].pc = "commit" => call[t].link \in Link /\ links[call[t].link].state # "unused"
       /\ call[t].epoch <= epoch
  /\ \A k \in Token :
       /\ rows[k].state # "unused" => rows[k].root \in Token
       /\ rows[k].epoch <= epoch
  /\ \A b \in Browsers : jar[b].rt # 0 => rows[jar[b].rt].state # "unused"

(* A password change, a reset and "sign out everywhere" end every session  *)
(* begun before, rotated ones included.  The only ones that survive are    *)
(* those of a refresh or sign-in that had passed its check when the        *)
(* sessions were revoked, and all of them while a password change is       *)
(* between its two writes, or stopped there and no revocation came since.  *)
StaleSessionsEnd ==
  \A k \in Live : rows[k].epoch < epoch => rows[k].late \/ Sweeping \/ torn

(* A sign-in never holds more than one usable refresh token, and none once *)
(* signed out, but for one more for each time two requests met on the same *)
(* token: rotation neither loses nor multiplies sessions otherwise.        *)
SessionsCounted ==
  \A r \in Token :
    Cardinality(LiveOf(r)) + Cardinality(IssuingOf(r))
      <= (IF r \in out THEN 0 ELSE 1) + races[r]

(* A browser left with a token that was exchanged is about to get the      *)
(* answer with the new one, unless that answer was lost: tabs that refresh *)
(* at the same time do not sign each other out.                            *)
RotationArrives ==
  \A b \in Browsers :
    jar[b].rt # 0 /\ rows[jar[b].rt].state = "revoked" /\ rows[jar[b].rt].rotated =>
      \/ b \in missed
      \/ \E t \in Tabs : BrowserOf[t] = b /\ call[t].kind = "refresh" /\ call[t].pc \in {"issue", "answer"}

(* One link of a purpose is usable at a time, and is spent once, but for   *)
(* requests that met between the check and the write.                      *)
LinksCounted ==
  /\ \A p \in Purpose : Cardinality(LiveLinks(p)) + Cardinality(Creating(p)) <= 1 + piled[p]
  /\ \A l \in Link : links[l].uses + Cardinality(Spending(l)) <= 1 + links[l].shared
=============================================================================
