------------------------------ MODULE Sessions ------------------------------
(***************************************************************************)
(* Refresh-token sessions of the auth service (services/auth/internal/     *)
(* auth: http_handler.go, service.go, repository.go): login, refresh with  *)
(* rotation, and logout, as concurrent requests of one browser that share  *)
(* its cookie jar, each a sequence of single Redis commands.  Tokens are   *)
(* random and never shared between browsers, so one browser is enough.     *)
(*                                                                         *)
(* Abstracted: the user id stored with a token (copied along unchanged),   *)
(* the access token (stateless), the credentials (accepted or not).        *)
(* MaxFaults bounds the disturbances: a failing Redis command, one whose   *)
(* answer is lost, an expired key, requests that die with their connection *)
(* or with the process.                                                    *)
(***************************************************************************)
EXTENDS Naturals

CONSTANTS
  Tokens,    \* the refresh tokens uuid.NewString will return, in any order
  Requests,  \* requests the browser can have open at once
  MaxFaults, \* bound on disturbances in a behaviour
  None

ASSUME FaultsAssumption == MaxFaults \in Nat
ASSUME NoneAssumption == None \notin Tokens

VARIABLES
  live,      \* keys in Redis
  used,      \* tokens generated so far
  parent,    \* the token each one was exchanged for, None after a login (history)
  ended,     \* tokens a logout ended with no refresh of them under way (history)
  jar,       \* the browser's refresh_token cookie
  pc,        \* how far each request is
  sent,      \* the cookie it carries
  fresh,     \* the value its answer sets the cookie to, None to clear it
  faults

redis == <<live, used, parent, ended>>
request == <<pc, sent, fresh>>
vars == <<redis, jar, request, faults>>

Cookie == Tokens \cup {None}

TypeOK ==
  /\ live \subseteq used /\ used \subseteq Tokens /\ ended \subseteq used
  /\ parent \in [Tokens -> Cookie]
  /\ jar \in Cookie
  /\ pc \in [Requests -> {"idle", "credentials", "userID", "rotate", "issue", "logout",
                          "set", "keep"}]
  /\ sent \in [Requests -> Cookie]
  /\ fresh \in [Requests -> Cookie]
  /\ faults \in 0..MaxFaults
  /\ \A r \in Requests : pc[r] \in {"userID", "rotate", "logout"} => sent[r] \in Tokens

Init ==
  /\ live = {} /\ used = {} /\ ended = {}
  /\ parent = [t \in Tokens |-> None]
  /\ jar = None
  /\ pc = [r \in Requests |-> "idle"]
  /\ sent = [r \in Requests |-> None]
  /\ fresh = [r \in Requests |-> None]
  /\ faults = 0

-----------------------------------------------------------------------------

SpendFault == faults < MaxFaults /\ faults' = faults + 1

Goto(r, label) == pc' = [pc EXCEPT ![r] = label]

\* These requests are over.
Over(R) ==
  /\ pc' = [r \in Requests |-> IF r \in R THEN "idle" ELSE pc[r]]
  /\ sent' = [r \in Requests |-> IF r \in R THEN None ELSE sent[r]]
  /\ fresh' = [r \in Requests |-> IF r \in R THEN None ELSE fresh[r]]

\* The request leaves with the cookie of that moment.
Send(r, label) ==
  /\ pc[r] = "idle"
  /\ Goto(r, label)
  /\ sent' = [sent EXCEPT ![r] = jar]
  /\ UNCHANGED <<redis, jar, fresh, faults>>

\* Login: the cookie is not looked at, so none is carried on.
SendLogin(r) ==
  /\ pc[r] = "idle"
  /\ Goto(r, "credentials")
  /\ UNCHANGED <<redis, jar, sent, fresh, faults>>

\* Refresh answers 401 without a cookie.
SendRefresh(r) == Send(r, IF jar = None THEN "keep" ELSE "userID")

\* Plausible bug: the missing cookie is taken for a token like any other.
SendLogoutUnchecked(r) == Send(r, "logout")

\* Logout without a cookie only clears it.
SendLogout(r) == Send(r, IF jar = None THEN "set" ELSE "logout")

\* GetByEmail and bcrypt: any error there is answered 401.
Credentials(r) ==
  /\ pc[r] = "credentials"
  /\ \E label \in {"issue", "keep"} : Goto(r, label)
  /\ UNCHANGED <<redis, jar, sent, fresh, faults>>

\* GET refresh:<token>: a miss is 401, a failure 500; the cookie stays.
UserID(r) ==
  /\ pc[r] = "userID"
  /\ \/ Goto(r, IF sent[r] \in live THEN "rotate" ELSE "keep") /\ UNCHANGED faults
     \/ Goto(r, "keep") /\ SpendFault
  /\ UNCHANGED <<redis, jar, sent, fresh>>

\* A DEL of the request's token that failed, having worked or not.
DelFails(r) == SpendFault /\ live' \in {live, live \ {sent[r]}}

\* Plausible bug: the outcome of the deletion is ignored.
RotateRegardless(r) ==
  /\ pc[r] = "rotate"
  /\ \/ live' = live \ {sent[r]} /\ UNCHANGED faults
     \/ DelFails(r)
  /\ Goto(r, "issue")
  /\ UNCHANGED <<used, parent, ended, jar, sent, fresh>>

\* DEL of the old token; unless it succeeded no new pair is issued.
Rotate(r) ==
  /\ pc[r] = "rotate"
  /\ \/ live' = live \ {sent[r]} /\ Goto(r, "issue") /\ UNCHANGED faults
     \/ DelFails(r) /\ Goto(r, "keep")
  /\ UNCHANGED <<used, parent, ended, jar, sent, fresh>>

\* issueTokenPair: a new token and its SET with the expiry; when that fails, having
\* worked or not, the request is answered 500 and the token is never seen again.
Issue(r) ==
  /\ pc[r] = "issue"
  /\ \E t \in Tokens \ used :
       /\ used' = used \cup {t}
       /\ parent' = [parent EXCEPT ![t] = sent[r]]
       /\ \/ /\ live' = live \cup {t} /\ Goto(r, "set")
             /\ fresh' = [fresh EXCEPT ![r] = t] /\ UNCHANGED faults
          \/ /\ SpendFault /\ live' \in {live, live \cup {t}}
             /\ Goto(r, "keep") /\ UNCHANGED fresh
  /\ UNCHANGED <<ended, jar, sent>>

\* The deletion ends the session, unless a refresh has read the token already and
\* will go on to exchange it.
Ends(r) == sent[r] \in live /\ \A q \in Requests : pc[q] = "rotate" => sent[q] # sent[r]

\* Plausible bug: a logout only clears the cookie.
LogoutForgetting(r) ==
  /\ pc[r] = "logout" /\ Goto(r, "set")
  /\ ended' = IF Ends(r) THEN ended \cup {sent[r]} ELSE ended
  /\ UNCHANGED <<live, used, parent, jar, sent, fresh, faults>>

\* DEL whose error is discarded; the answer clears the cookie either way.
Logout(r) ==
  /\ pc[r] = "logout"
  /\ \/ /\ live' = live \ {sent[r]} /\ UNCHANGED faults
        /\ ended' = IF Ends(r) THEN ended \cup {sent[r]} ELSE ended
     \/ DelFails(r) /\ UNCHANGED ended
  /\ Goto(r, "set")
  /\ UNCHANGED <<used, parent, jar, sent, fresh>>

\* Plausible bug: a value is set but never cleared.
DeliverNeverClearing(r) ==
  /\ pc[r] \in {"set", "keep"}
  /\ Over({r})
  /\ jar' = IF pc[r] = "set" /\ fresh[r] # None THEN fresh[r] ELSE jar
  /\ UNCHANGED <<redis, faults>>

\* The answer reaches the browser, which applies Set-Cookie if there is one.
Deliver(r) ==
  /\ pc[r] \in {"set", "keep"}
  /\ Over({r})
  /\ jar' = IF pc[r] = "set" THEN fresh[r] ELSE jar
  /\ UNCHANGED <<redis, faults>>

\* Requests die on the way: their connection times out, the process crashes or exits
\* with its 15 seconds of draining over.
Drop(R) ==
  /\ SpendFault
  /\ \A r \in R : pc[r] # "idle"
  /\ Over(R)
  /\ UNCHANGED <<redis, jar>>

\* The key's TTL runs out (or Redis evicts it).
Expire(t) ==
  /\ t \in live /\ SpendFault
  /\ live' = live \ {t}
  /\ UNCHANGED <<used, parent, ended, jar, request>>

Next ==
  \/ \E r \in Requests :
       \/ SendLogin(r) \/ SendRefresh(r) \/ SendLogout(r)
       \/ Credentials(r) \/ UserID(r) \/ Rotate(r) \/ Issue(r) \/ Logout(r) \/ Deliver(r)
  \/ \E R \in SUBSET Requests \ {{}} : Drop(R)
  \/ \E t \in Tokens : Expire(t)

Spec == Init /\ [][Next]_vars

-----------------------------------------------------------------------------
(* Properties.                                                             *)

\* auth.md: "There is no window where both the old and new tokens are
\* simultaneously valid", whatever overlaps and whatever Redis command fails.
NoOverlap == \A t \in live : parent[t] \notin live

\* A token that left Redis (rotated away, logged out, expired) never works again.
DeadStaysDead == [][\A t \in used : t \notin live => t \notin live']_vars

\* auth.md: "immediate revocation via logout".  A token a logout deleted is never valid
\* again and no token is ever issued in exchange for it, to no tab of the browser,
\* unless a refresh had read it from Redis before the deletion.
LogoutEnds == \A t \in ended : t \notin live /\ \A u \in Tokens : parent[u] # t

\* As long as nothing fails, a browser with no request open never keeps a cookie
\* that does not work, however its requests overlapped and in whatever order the
\* answers came.
JarIsLive ==
  faults = 0 /\ jar # None /\ (\A r \in Requests : pc[r] = "idle") => jar \in live

\* auth.md: a refresh token "can only be used once": no two new tokens are issued
\* in exchange for the same old one.
SingleUse ==
  \A t, u \in Tokens : t # u /\ parent[t] # None => parent[t] # parent[u]
=============================================================================
