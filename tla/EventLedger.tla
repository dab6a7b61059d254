---------------------------- MODULE EventLedger -----------------------------
(***************************************************************************)
(* What the notification consumer promises about an event, with queues,    *)
(* retries, replicas and failures forgotten: an event is open from its     *)
(* publication until it is closed, it is closed only when a verdict, a DLQ *)
(* copy or an undecodable body accounts for it, its verdict is written at  *)
(* most once, and nothing is parked after it was closed.                   *)
(***************************************************************************)
EXTENDS Naturals

CONSTANTS Events, Undecodable

VARIABLES
  state,    \* "unpublished", "open" or "closed"
  verdict,  \* "none", "sent" or "failed"
  parked    \* copies in the dead-letter queue

ledger == <<state, verdict, parked>>

Init ==
  /\ state = [e \in Events |-> "unpublished"]
  /\ verdict = [e \in Events |-> "none"]
  /\ parked = [e \in Events |-> 0]

Open(e) ==
  /\ state[e] = "unpublished"
  /\ state' = [state EXCEPT ![e] = "open"]
  /\ UNCHANGED <<verdict, parked>>

\* A handler cut off from the broker may still give the verdict of an event
\* that was closed on the strength of its DLQ copy.
Judge(e) ==
  /\ state[e] # "unpublished" /\ verdict[e] = "none"
  /\ \E v \in {"sent", "failed"} : verdict' = [verdict EXCEPT ![e] = v]
  /\ UNCHANGED <<state, parked>>

SetAside(e) ==
  /\ state[e] = "open"
  /\ parked' = [parked EXCEPT ![e] = @ + 1]
  /\ UNCHANGED <<state, verdict>>

Close(e) ==
  /\ state[e] = "open"
  /\ verdict[e] # "none" \/ parked[e] > 0 \/ e \in Undecodable
  /\ state' = [state EXCEPT ![e] = "closed"]
  /\ UNCHANGED <<verdict, parked>>

Next == \E e \in Events : Open(e) \/ Judge(e) \/ SetAside(e) \/ Close(e)

Spec == Init /\ [][Next]_ledger
=============================================================================
