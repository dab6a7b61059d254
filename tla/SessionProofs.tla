---------------------------- MODULE SessionProofs ---------------------------
(***************************************************************************)
(* Proofs about Sessions for any tokens, any number of requests and any    *)
(* number of disturbances.                                                 *)
(***************************************************************************)
EXTENDS Sessions, TLAPS

\* What was exchanged is dead, and only generated tokens were got in exchange.
Lineage ==
  \A t \in Tokens :
    parent[t] # None => t \in used /\ parent[t] \in used /\ parent[t] \notin live

\* What the jar and the requests carry has been generated; between the deletion and
\* the issue the request's token is dead.
Carried ==
  /\ jar \in used \cup {None}
  /\ \A r \in Requests :
       /\ sent[r] \in used \cup {None} /\ fresh[r] \in used \cup {None}
       /\ pc[r] \in {"idle", "credentials"} => sent[r] = None
       /\ pc[r] = "issue" => sent[r] \notin live
       /\ pc[r] \in {"userID", "rotate", "logout"} => sent[r] # None

\* A token on its way to the browser is known to nobody else.
Undelivered ==
  \A r \in Requests : fresh[r] # None =>
    /\ pc[r] = "set" /\ fresh[r] # jar
    /\ \A q \in Requests : sent[q] # fresh[r] /\ (q # r => fresh[q] # fresh[r])

\* Without failures it is live, and a dead cookie in the jar is about to be replaced
\* or cleared by the request that killed it.
Calm ==
  faults = 0 =>
    /\ \A r \in Requests : fresh[r] # None => fresh[r] \in live
    /\ jar # None /\ jar \notin live =>
         \E r \in Requests : pc[r] \in {"issue", "set"} /\ sent[r] = jar

\* No request is past reading a token that was ended.
Ended ==
  LogoutEnds /\ \A r \in Requests : pc[r] \in {"rotate", "issue"} => sent[r] \notin ended

Safe == TypeOK /\ Lineage /\ Carried /\ Ended

Whole == Safe /\ Undelivered /\ Calm

\* The initial state.
LEMMA Initially == Init => Whole
BY FaultsAssumption, NoneAssumption
DEF Init, Whole, Safe, TypeOK, Lineage, Carried, Undelivered, Calm, Ended, LogoutEnds, Cookie

\* Every action keeps the types and the lineage of tokens.
LEMMA SafeKept == Whole /\ [Next]_vars => Safe'
<1> SUFFICES ASSUME Whole, [Next]_vars PROVE Safe'
  OBVIOUS
<1> USE NoneAssumption DEF Whole, Safe, TypeOK, Cookie, Carried, redis, request, Goto, SpendFault, Lineage, Ended, LogoutEnds
<1>1. ASSUME NEW r \in Requests, SendLogin(r) PROVE Safe'
  BY <1>1, FaultsAssumption DEF SendLogin
<1>2. ASSUME NEW r \in Requests, SendRefresh(r) PROVE Safe'
  BY <1>2, FaultsAssumption DEF SendRefresh, Send
<1>3. ASSUME NEW r \in Requests, SendLogout(r) PROVE Safe'
  BY <1>3, FaultsAssumption DEF SendLogout, Send
<1>4. ASSUME NEW r \in Requests, Credentials(r) PROVE Safe'
  BY <1>4, FaultsAssumption DEF Credentials
<1>5. ASSUME NEW r \in Requests, UserID(r) PROVE Safe'
  BY <1>5, FaultsAssumption DEF UserID
<1>6. ASSUME NEW r \in Requests, Rotate(r) PROVE Safe'
  BY <1>6, FaultsAssumption DEF Rotate, DelFails
<1>7. ASSUME NEW r \in Requests, Issue(r) PROVE Safe'
  BY <1>7, FaultsAssumption DEF Issue
<1>8. ASSUME NEW r \in Requests, Logout(r) PROVE Safe'
  BY <1>8, FaultsAssumption DEF Logout, DelFails, Ends
<1>9. ASSUME NEW r \in Requests, Deliver(r) PROVE Safe'
  BY <1>9, FaultsAssumption DEF Deliver, Over
<1>10. ASSUME NEW R \in SUBSET Requests, Drop(R) PROVE Safe'
  BY <1>10, FaultsAssumption DEF Drop, Over
<1>11. ASSUME NEW t \in Tokens, Expire(t) PROVE Safe'
  BY <1>11, FaultsAssumption DEF Expire
<1>12. CASE UNCHANGED vars
  BY <1>12 DEF vars
<1>13. QED
  BY <1>1, <1>2, <1>3, <1>4, <1>5, <1>6, <1>7, <1>8, <1>9, <1>10, <1>11, <1>12 DEF Next

\* Every action keeps undelivered tokens private.
LEMMA UndeliveredKept == Whole /\ [Next]_vars => Undelivered'
<1> SUFFICES ASSUME Whole, [Next]_vars PROVE Undelivered'
  OBVIOUS
<1> USE NoneAssumption DEF Whole, Safe, TypeOK, Cookie, Carried, redis, request, Goto, SpendFault, Undelivered
<1>1. ASSUME NEW r \in Requests, SendLogin(r) PROVE Undelivered'
  BY <1>1, FaultsAssumption DEF SendLogin
<1>2. ASSUME NEW r \in Requests, SendRefresh(r) PROVE Undelivered'
  BY <1>2, FaultsAssumption DEF SendRefresh, Send
<1>3. ASSUME NEW r \in Requests, SendLogout(r) PROVE Undelivered'
  BY <1>3, FaultsAssumption DEF SendLogout, Send
<1>4. ASSUME NEW r \in Requests, Credentials(r) PROVE Undelivered'
  BY <1>4, FaultsAssumption DEF Credentials
<1>5. ASSUME NEW r \in Requests, UserID(r) PROVE Undelivered'
  BY <1>5, FaultsAssumption DEF UserID
<1>6. ASSUME NEW r \in Requests, Rotate(r) PROVE Undelivered'
  BY <1>6, FaultsAssumption DEF Rotate, DelFails
<1>7. ASSUME NEW r \in Requests, Issue(r) PROVE Undelivered'
  BY <1>7, FaultsAssumption DEF Issue
<1>8. ASSUME NEW r \in Requests, Logout(r) PROVE Undelivered'
  BY <1>8, FaultsAssumption DEF Logout, DelFails, Ends
<1>9. ASSUME NEW r \in Requests, Deliver(r) PROVE Undelivered'
  BY <1>9, FaultsAssumption DEF Deliver, Over
<1>10. ASSUME NEW R \in SUBSET Requests, Drop(R) PROVE Undelivered'
  BY <1>10, FaultsAssumption DEF Drop, Over
<1>11. ASSUME NEW t \in Tokens, Expire(t) PROVE Undelivered'
  BY <1>11, FaultsAssumption DEF Expire
<1>12. CASE UNCHANGED vars
  BY <1>12 DEF vars
<1>13. QED
  BY <1>1, <1>2, <1>3, <1>4, <1>5, <1>6, <1>7, <1>8, <1>9, <1>10, <1>11, <1>12 DEF Next

\* Every action keeps the jar alive as long as nothing fails.
LEMMA CalmKept == Whole /\ [Next]_vars => Calm'
<1> SUFFICES ASSUME Whole, [Next]_vars PROVE Calm'
  OBVIOUS
<1> USE NoneAssumption DEF Whole, Safe, TypeOK, Cookie, Carried, redis, request, Goto, SpendFault, Undelivered, Calm
<1>1. ASSUME NEW r \in Requests, SendLogin(r) PROVE Calm'
  BY <1>1, FaultsAssumption DEF SendLogin
<1>2. ASSUME NEW r \in Requests, SendRefresh(r) PROVE Calm'
  BY <1>2, FaultsAssumption DEF SendRefresh, Send
<1>3. ASSUME NEW r \in Requests, SendLogout(r) PROVE Calm'
  BY <1>3, FaultsAssumption DEF SendLogout, Send
<1>4. ASSUME NEW r \in Requests, Credentials(r) PROVE Calm'
  BY <1>4, FaultsAssumption DEF Credentials
<1>5. ASSUME NEW r \in Requests, UserID(r) PROVE Calm'
  BY <1>5, FaultsAssumption DEF UserID
<1>6. ASSUME NEW r \in Requests, Rotate(r) PROVE Calm'
  BY <1>6, FaultsAssumption DEF Rotate, DelFails
<1>7. ASSUME NEW r \in Requests, Issue(r) PROVE Calm'
  BY <1>7, FaultsAssumption DEF Issue
<1>8. ASSUME NEW r \in Requests, Logout(r) PROVE Calm'
  BY <1>8, FaultsAssumption DEF Logout, DelFails, Ends
<1>9. ASSUME NEW r \in Requests, Deliver(r) PROVE Calm'
  BY <1>9, FaultsAssumption DEF Deliver, Over
<1>10. ASSUME NEW R \in SUBSET Requests, Drop(R) PROVE Calm'
  BY <1>10, FaultsAssumption DEF Drop, Over
<1>11. ASSUME NEW t \in Tokens, Expire(t) PROVE Calm'
  BY <1>11, FaultsAssumption DEF Expire
<1>12. CASE UNCHANGED vars
  BY <1>12 DEF vars
<1>13. QED
  BY <1>1, <1>2, <1>3, <1>4, <1>5, <1>6, <1>7, <1>8, <1>9, <1>10, <1>11, <1>12 DEF Next
\* The inductive invariant holds.
LEMMA Inductive == Spec => []Whole
<1>1. Whole /\ [Next]_vars => Whole'
  BY SafeKept, UndeliveredKept, CalmKept DEF Whole
<1>2. QED
  BY Initially, <1>1, PTL DEF Spec

-----------------------------------------------------------------------------

\* The type invariant, for any tokens and any number of overlapping requests.
THEOREM SessionTypes == Spec => []TypeOK
<1>1. Whole => TypeOK
  BY DEF Whole, Safe
<1>2. QED
  BY Inductive, <1>1, PTL

\* Rotation never leaves an old token and its replacement valid together.
THEOREM RotationReplaces == Spec => []NoOverlap
<1>1. Whole => NoOverlap
  BY NoneAssumption DEF Whole, Safe, TypeOK, Lineage, NoOverlap
<1>2. QED
  BY Inductive, <1>1, PTL

\* A logout no refresh overlaps ends its session for good.
THEOREM LogoutIsFinal == Spec => []LogoutEnds
<1>1. Whole => LogoutEnds
  BY DEF Whole, Safe, Ended
<1>2. QED
  BY Inductive, <1>1, PTL

\* Without failures no interleaving of requests and answers leaves the browser with
\* a cookie that does not work.
THEOREM CookieWorks == Spec => []JarIsLive
<1>1. Whole => JarIsLive
  BY DEF Whole, Calm, JarIsLive
<1>2. QED
  BY Inductive, <1>1, PTL

\* Redis never gets a dead token back: a step only adds a token it has just made.
THEOREM NoResurrection == Spec => DeadStaysDead
<1> DEFINE Stays == \A t \in used : t \notin live => t \notin live'
<1>1. ASSUME TypeOK, [Next]_vars PROVE Stays
  <2> USE DEF redis, request
  <2>1. ASSUME NEW r \in Requests, Issue(r) PROVE Stays
    BY <2>1 DEF Issue
  <2>2. ASSUME NEW r \in Requests,
               Rotate(r) \/ Logout(r)
        PROVE  Stays
    BY <2>2 DEF Rotate, Logout, DelFails
  <2>3. ASSUME NEW t \in Tokens, Expire(t) PROVE Stays
    BY <2>3 DEF Expire
  <2>4. ASSUME NEW r \in Requests,
               \/ SendLogin(r) \/ SendRefresh(r) \/ SendLogout(r)
               \/ Credentials(r) \/ UserID(r) \/ Deliver(r)
        PROVE  Stays
    BY <2>4 DEF SendLogin, SendRefresh, SendLogout, Send, Credentials, UserID, Deliver
  <2>5. ASSUME NEW R \in SUBSET Requests, Drop(R) PROVE Stays
    BY <2>5 DEF Drop
  <2>6. CASE UNCHANGED vars
    BY <2>6 DEF vars
  <2>7. QED
    BY <1>1, <2>1, <2>2, <2>3, <2>4, <2>5, <2>6 DEF Next
<1>2. TypeOK /\ [Next]_vars => [Stays]_vars
  BY <1>1
<1>3. QED
  BY SessionTypes, <1>2, PTL DEF Spec, DeadStaysDead
=============================================================================
