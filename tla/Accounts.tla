------------------------------ MODULE Accounts ------------------------------
(***************************************************************************)
(* What the user service promises of its requests, with statements,        *)
(* transactions, connections and restarts forgotten: every request is one  *)
(* atomic operation on a set of accounts.  It takes effect at one moment   *)
(* or not at all; a refusal is true at the moment it is given; an id is    *)
(* never given out twice, so a removed account is never seen again; and an *)
(* account is announced once at most, between its creation and the answer  *)
(* to whoever created it.  Only a request answered "internal" may have     *)
(* taken effect or not.                                                    *)
(***************************************************************************)
EXTENDS Naturals

CONSTANTS Requests, Ids, None

VARIABLES
  accounts,   \* the account of each id, None where there is none
  given,      \* ids given out so far
  announced,  \* announcements of each id
  op, body,   \* what each request does, and the name and e-mail it carries
  target,     \* the id it is about; for a creation, the one it was given
  effective,  \* it took effect
  answer

book == <<accounts, given, announced, op, body, target, effective, answer>>

Init ==
  /\ accounts = [i \in Ids |-> None]
  /\ given = {}
  /\ announced = [i \in Ids |-> 0]
  /\ effective = [r \in Requests |-> FALSE]
  /\ answer = [r \in Requests |-> "none"]

-----------------------------------------------------------------------------

Creation(r) == op[r] \in {"create", "register"}

\* Some account, or some account other than i's, has this e-mail.
Held(email) == \E i \in Ids : accounts[i] # None /\ accounts[i].email = email
HeldBeside(i, email) == \E j \in Ids \ {i} : accounts[j] # None /\ accounts[j].email = email

Open(r) == answer[r] = "none" /\ ~effective[r]

\* r takes effect, by giving the id i the account u.
Effect(r, i, u) ==
  /\ Open(r)
  /\ accounts' = [accounts EXCEPT ![i] = u]
  /\ effective' = [effective EXCEPT ![r] = TRUE]
  /\ UNCHANGED <<announced, op, body>>

Reply(r, outcome) == answer' = [answer EXCEPT ![r] = outcome]

Create(r) ==
  /\ Creation(r) /\ ~Held(body[r].email)
  /\ \E i \in Ids \ given :
       /\ Effect(r, i, body[r])
       /\ given' = given \cup {i}
       /\ target' = [target EXCEPT ![r] = i]
  /\ UNCHANGED answer \/ Reply(r, "internal")

\* The creation is announced, unless that fails, and answered.
Confirm(r) ==
  /\ Creation(r) /\ effective[r] /\ answer[r] = "none"
  /\ announced[target[r]] = 0
  /\ UNCHANGED announced \/ announced' = [announced EXCEPT ![target[r]] = 1]
  /\ Reply(r, "ok")
  /\ UNCHANGED <<accounts, given, op, body, target, effective>>

Change(r) ==
  /\ op[r] = "update"
  /\ accounts[target[r]] # None /\ ~HeldBeside(target[r], body[r].email)
  /\ Effect(r, target[r], body[r])
  /\ Reply(r, "ok") \/ Reply(r, "internal")
  /\ UNCHANGED <<given, target>>

Remove(r) ==
  /\ op[r] = "delete"
  /\ accounts[target[r]] # None
  /\ Effect(r, target[r], None)
  /\ Reply(r, "ok") \/ Reply(r, "internal")
  /\ UNCHANGED <<given, target>>

\* A refusal, for a reason that holds now.
Refuse(r) ==
  /\ Open(r)
  /\ \/ op[r] # "delete" /\ Held(body[r].email) /\ Reply(r, "conflict")
     \/ ~Creation(r) /\ accounts[target[r]] = None /\ Reply(r, "notfound")
  /\ UNCHANGED <<accounts, given, announced, op, body, target, effective>>

\* The requests of R are given up, wherever they are.
GiveUp(R) ==
  /\ \A r \in R : answer[r] = "none"
  /\ answer' = [r \in Requests |-> IF r \in R THEN "internal" ELSE answer[r]]
  /\ UNCHANGED <<accounts, given, announced, op, body, target, effective>>

Next ==
  \/ \E r \in Requests : Create(r) \/ Confirm(r) \/ Change(r) \/ Remove(r) \/ Refuse(r)
  \/ \E R \in SUBSET Requests : GiveUp(R)

Spec == Init /\ [][Next]_book
=============================================================================
