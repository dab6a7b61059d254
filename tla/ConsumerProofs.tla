--------------------------- MODULE ConsumerProofs ---------------------------
(***************************************************************************)
(* Theorems about Consumer, for any events, replicas, retry limit,         *)
(* prefetch and number of disturbances.                                    *)
(***************************************************************************)
EXTENDS Consumer, FiniteSetTheorems, TLAPS

USE BodiesAssumption, BoundsAssumption, NoneAssumption

(***************************************************************************)
(* Type correctness.                                                       *)
(***************************************************************************)

LEMMA TypeInit == Init => TypeOK
BY DEF Init, TypeOK, PCs, Handling

\* Every action of the broker, of the handler and of the process keeps the types.
LEMMA TypeNext == TypeOK /\ [Next]_vars => TypeOK'
<1> SUFFICES ASSUME TypeOK, [Next]_vars PROVE TypeOK'
  OBVIOUS
<1> USE DEF TypeOK, PCs, Handling, Delivery, broker, effects, process, budget, Goto,
            Ev, SpendFault, CallFails
<1>1. ASSUME NEW e \in Events, Publish(e) PROVE TypeOK'
  BY <1>1 DEF Publish
<1>2. ASSUME NEW e \in Events, Expire(e) PROVE TypeOK'
  BY <1>2 DEF Expire
<1>3. ASSUME NEW c \in Consumers, NEW e \in Events, Deliver(c, e) PROVE TypeOK'
  BY <1>3 DEF Deliver
<1>4. ASSUME NEW c \in Consumers, Take(c) PROVE TypeOK'
  BY <1>4 DEF Take, HandleUserCreated
<1>5. ASSUME NEW c \in Consumers, Check(c) PROVE TypeOK'
  BY <1>5 DEF Check
<1>6. ASSUME NEW c \in Consumers, Dial(c) PROVE TypeOK'
  BY <1>6 DEF Dial
<1>7. ASSUME NEW c \in Consumers, Submit(c) PROVE TypeOK'
  BY <1>7 DEF Submit
<1>8. ASSUME NEW c \in Consumers, RecordSent(c) PROVE TypeOK'
  BY <1>8 DEF RecordSent, Insert
<1>9. ASSUME NEW c \in Consumers, Nack(c) PROVE TypeOK'
  BY <1>9 DEF Nack, Answer
<1>10. ASSUME NEW c \in Consumers, RecordFailure(c) PROVE TypeOK'
  BY <1>10 DEF RecordFailure, Insert
<1>11. ASSUME NEW c \in Consumers, Park(c) PROVE TypeOK'
  BY <1>11 DEF Park, Answer
<1>12. ASSUME NEW c \in Consumers, Ack(c) PROVE TypeOK'
  BY <1>12 DEF Ack, Answer
<1>13. ASSUME NEW c \in Consumers, Return(c) PROVE TypeOK'
  BY <1>13 DEF Return
<1>14. ASSUME NEW c \in Consumers, Start(c) PROVE TypeOK'
  BY <1>14 DEF Start
<1>15. ASSUME NEW c \in Consumers, Signal(c) PROVE TypeOK'
  BY <1>15 DEF Signal
<1>16. ASSUME NEW c \in Consumers, LoseChannel(c) PROVE TypeOK'
  BY <1>16 DEF LoseChannel, Requeue
<1>17. ASSUME NEW c \in Consumers, End(c) PROVE TypeOK'
  BY <1>17 DEF End, Requeue
<1>18. CASE UNCHANGED vars
  BY <1>18 DEF vars
<1>19. QED
  BY <1>1, <1>2, <1>3, <1>4, <1>5, <1>6, <1>7, <1>8, <1>9, <1>10, <1>11,
     <1>12, <1>13, <1>14, <1>15, <1>16, <1>17, <1>18 DEF Next, Loop

\* The state of the broker, the table and every process is always well formed.
THEOREM TypeCorrect == Spec => []TypeOK
<1>1. QED
  BY TypeInit, TypeNext, PTL DEF Spec

(***************************************************************************)
(* Custody of the messages.                                                *)
(***************************************************************************)

LEMMA CustodyInit == Init => Custody
BY DEF Init, Custody, InHand, Handling

\* Answering ends the custody of one message and of no other: what else the
\* process has from its open channel is for other events.
LEMMA AnswerKeepsCustody ==
  ASSUME TypeOK, Custody, NEW c \in Consumers, pc[c] \in Handling,
         NEW place \in {"main", "retry", "settled"}, Answer(c, place),
         Goto(c, "idle"), cur' = [cur EXCEPT ![c] = None],
         UNCHANGED <<deaths, inbox, chan, ctxDone>>
  PROVE  Custody'
<1> USE DEF TypeOK, Custody, InHand, PCs, Handling, Delivery, Goto, Ev
<1>1. cur[c] \in Delivery /\ Ev(c) \in Events
  OBVIOUS
<1>2. CASE ~chan[c]
  BY <1>1, <1>2 DEF Answer
<1>3. CASE chan[c]
  <2>1. holder[Ev(c)] = c
    BY <1>1, <1>3
  <2>2. \A d \in inbox[c] : d.event # Ev(c)
    <3>1. SUFFICES ASSUME NEW d \in inbox[c], d.event = Ev(c) PROVE FALSE
      OBVIOUS
    <3>2. d \in Delivery /\ d.deaths = cur[c].deaths
      BY <1>1, <1>3, <3>1
    <3>3. d = cur[c]
      BY <1>1, <3>1, <3>2
    <3>4. QED
      BY <1>3, <3>3
  <2>3. \A c2 \in Consumers \ {c} : chan[c2] =>
          \A d \in InHand(c2) : d.event # Ev(c)
    BY <2>1
  <2>4. /\ loc' = [loc EXCEPT ![Ev(c)] = place]
        /\ holder' = [holder EXCEPT ![Ev(c)] = None]
    BY <1>3 DEF Answer
  <2>5. ASSUME NEW e \in Events
        PROVE  /\ (loc[e] = "unacked" <=> holder[e] # None)'
               /\ (holder[e] # None => chan[holder[e]])'
    BY <2>4
  <2>6. ASSUME NEW k \in Consumers
        PROVE  /\ (pc[k] \in Handling <=> cur[k] # None)'
               /\ (pc[k] = "down" => ~chan[k] /\ inbox[k] = {})'
    OBVIOUS
  <2>7. ASSUME NEW k \in Consumers, NEW d \in InHand(k)'
        PROVE  (d.deaths <= deaths[d.event] /\ loc[d.event] # "unpublished")'
    <3>1. d \in InHand(k)
      OBVIOUS
    <3>2. d.event \in Events /\ d.deaths <= deaths[d.event] /\ loc[d.event] # "unpublished"
      BY <3>1
    <3>3. QED
      BY <3>2, <2>4
  <2>8. ASSUME NEW k \in Consumers, chan[k]'
        PROVE  /\ (cur[k] \notin inbox[k])'
               /\ (\A d \in InHand(k) : holder[d.event] = k /\ d.deaths = deaths[d.event])'
    BY <2>2, <2>3, <2>4, <2>8
  <2>9. QED
    BY <2>5, <2>6, <2>7, <2>8
<1>4. QED
  BY <1>2, <1>3

LEMMA CustodyNext == TypeOK /\ Custody /\ [Next]_vars => Custody'
<1> SUFFICES ASSUME TypeOK, Custody, [Next]_vars PROVE Custody'
  OBVIOUS
<1> USE DEF TypeOK, Custody, InHand, PCs, Handling, Delivery, broker, effects,
            process, Goto, Ev
<1>1. ASSUME NEW e \in Events, Publish(e) PROVE Custody'
  BY <1>1 DEF Publish
<1>2. ASSUME NEW e \in Events, Expire(e) PROVE Custody'
  BY <1>2 DEF Expire
<1>3. ASSUME NEW c \in Consumers, NEW e \in Events, Deliver(c, e) PROVE Custody'
  BY <1>3 DEF Deliver
<1>4. ASSUME NEW c \in Consumers, Take(c) PROVE Custody'
  BY <1>4 DEF Take, HandleUserCreated
<1>5. ASSUME NEW c \in Consumers, Check(c) PROVE Custody'
  BY <1>5 DEF Check
<1>6. ASSUME NEW c \in Consumers, Dial(c) PROVE Custody'
  BY <1>6 DEF Dial
<1>7. ASSUME NEW c \in Consumers, Submit(c) PROVE Custody'
  BY <1>7 DEF Submit
<1>8. ASSUME NEW c \in Consumers, RecordSent(c) PROVE Custody'
  BY <1>8 DEF RecordSent, Insert
<1>9. ASSUME NEW c \in Consumers, Nack(c) PROVE Custody'
  BY <1>9, AnswerKeepsCustody DEF Nack
<1>10. ASSUME NEW c \in Consumers, RecordFailure(c) PROVE Custody'
  BY <1>10 DEF RecordFailure, Insert
<1>11. ASSUME NEW c \in Consumers, Park(c) PROVE Custody'
  BY <1>11, AnswerKeepsCustody DEF Park
<1>12. ASSUME NEW c \in Consumers, Ack(c) PROVE Custody'
  BY <1>12, AnswerKeepsCustody DEF Ack
<1>13. ASSUME NEW c \in Consumers, Return(c) PROVE Custody'
  BY <1>13 DEF Return
<1>14. ASSUME NEW c \in Consumers, Start(c) PROVE Custody'
  BY <1>14 DEF Start
<1>15. ASSUME NEW c \in Consumers, Signal(c) PROVE Custody'
  BY <1>15 DEF Signal
<1>16. ASSUME NEW c \in Consumers, LoseChannel(c) PROVE Custody'
  BY <1>16 DEF LoseChannel, Requeue
<1>17. ASSUME NEW c \in Consumers, End(c) PROVE Custody'
  BY <1>17 DEF End, Requeue
<1>18. CASE UNCHANGED vars
  BY <1>18 DEF vars
<1>19. QED
  BY <1>1, <1>2, <1>3, <1>4, <1>5, <1>6, <1>7, <1>8, <1>9, <1>10, <1>11, <1>12, <1>13, <1>14, <1>15, <1>16, <1>17, <1>18 DEF Next, Loop

\* A message is unacknowledged exactly while an open channel holds it, and what
\* a process with an open channel has is its own and carries the broker's count.
THEOREM CustodyHolds == Spec => []Custody
<1>1. QED
  BY TypeCorrect, CustodyInit, CustodyNext, PTL DEF Spec

(***************************************************************************)
(* What is held is worked on.                                              *)
(***************************************************************************)

\* Whatever a process holds it has in its handler or its buffer, unless its loop
\* returned at a shutdown.
Attended ==
  \A e \in Events, c \in Consumers : holder[e] = c =>
    \/ cur[c] # None /\ cur[c].event = e
    \/ \E d \in inbox[c] : d.event = e
    \/ pc[c] = "stopped" /\ ctxDone[c]

LEMMA AttendedInit == Init => Attended
BY DEF Init, Attended

\* An answer gives up the message it is about and turns to no other.
LEMMA AnswerKeepsAttended ==
  ASSUME TypeOK, Custody, Attended, NEW c \in Consumers, pc[c] \in Handling,
         NEW place, Answer(c, place), Goto(c, "idle"), cur' = [cur EXCEPT ![c] = None],
         UNCHANGED <<inbox, chan, ctxDone>>
  PROVE  Attended'
<1> USE DEF TypeOK, Custody, InHand, PCs, Handling, Delivery, Goto, Ev
<1>1. cur[c] \in Delivery /\ Ev(c) \in Events /\ pc[c] # "stopped"
  OBVIOUS
<1>2. ASSUME NEW e \in Events, holder'[e] = c PROVE e # Ev(c) /\ holder[e] = c
  <2>1. CASE chan[c]
    BY <1>1, <1>2, <2>1 DEF Answer
  <2>2. CASE ~chan[c]
    <3>1. holder' = holder
      BY <2>2 DEF Answer
    <3>2. QED
      BY <1>2, <2>2, <3>1
  <2>3. QED
    BY <2>1, <2>2
<1>3. ASSUME NEW e \in Events, NEW k \in Consumers, k # c, holder'[e] = k
      PROVE  holder[e] = k /\ cur'[k] = cur[k] /\ pc'[k] = pc[k]
  BY <1>1, <1>3 DEF Answer
<1>4. ASSUME NEW e \in Events, holder'[e] = c PROVE \E d \in inbox'[c] : d.event = e
  BY <1>1, <1>2, <1>4 DEF Attended
<1>5. QED
  BY <1>3, <1>4 DEF Attended

LEMMA AttendedNext == TypeOK /\ Custody /\ Attended /\ [Next]_vars => Attended'
<1> SUFFICES ASSUME TypeOK, Custody, Attended, [Next]_vars PROVE Attended'
  OBVIOUS
<1> USE DEF TypeOK, Custody, InHand, PCs, Handling, Delivery, broker, effects, process, Goto,
            Ev, Attended
<1>1. ASSUME NEW e \in Events, Publish(e) PROVE Attended'
  BY <1>1 DEF Publish
<1>2. ASSUME NEW e \in Events, Expire(e) PROVE Attended'
  BY <1>2 DEF Expire
<1>3. ASSUME NEW c \in Consumers, NEW e \in Events, Deliver(c, e) PROVE Attended'
  <2> DEFINE d == [event |-> e, deaths |-> deaths[e]]
  <2>1. d \in inbox'[c] /\ d.event = e
    BY <1>3 DEF Deliver
  <2>2. \A k \in Consumers : inbox[k] \subseteq inbox'[k]
    BY <1>3 DEF Deliver
  <2>3. \A x \in Events : holder'[x] = IF x = e THEN c ELSE holder[x]
    BY <1>3 DEF Deliver
  <2>4. UNCHANGED <<cur, pc, ctxDone>>
    BY <1>3 DEF Deliver
  <2>5. ASSUME NEW x \in Events, NEW k \in Consumers, holder'[x] = k
        PROVE  \/ cur'[k] # None /\ cur'[k].event = x
               \/ \E b \in inbox'[k] : b.event = x
               \/ pc'[k] = "stopped" /\ ctxDone'[k]
    <3>1. CASE x = e
      <4>1. k = c
        BY <2>3, <2>5, <3>1
      <4>2. QED
        BY <2>1, <3>1, <4>1
    <3>2. CASE x # e
      <4>1. holder[x] = k
        BY <2>3, <2>5, <3>2
      <4>2. QED
        BY <2>2, <2>4, <4>1
    <3>3. QED
      BY <3>1, <3>2
  <2> HIDE DEF d, TypeOK, Custody
  <2>6. QED
    BY <2>5
<1>4. ASSUME NEW c \in Consumers, Take(c) PROVE Attended'
  <2>1. PICK d \in inbox[c] : /\ cur' = [cur EXCEPT ![c] = d]
                              /\ inbox' = [inbox EXCEPT ![c] = @ \ {d}]
    BY <1>4 DEF Take
  <2>2. cur[c] = None /\ cur'[c] = d /\ d # None /\ pc[c] # "stopped"
    BY <1>4, <2>1 DEF Take
  <2>3. ASSUME NEW x \in Events, holder'[x] = c
        PROVE  (cur'[c] # None /\ cur'[c].event = x) \/ \E b \in inbox'[c] : b.event = x
    <3>1. PICK b \in inbox[c] : b.event = x
      BY <1>4, <2>2, <2>3 DEF Take
    <3>2. inbox'[c] = inbox[c] \ {d}
      BY <2>1
    <3>3. CASE b = d
      BY <2>2, <3>1, <3>3
    <3>4. CASE b # d
      BY <3>1, <3>2, <3>4
    <3>5. QED
      BY <3>3, <3>4
  <2>4. ASSUME NEW x \in Events, NEW k \in Consumers, k # c, holder'[x] = k
        PROVE  /\ holder[x] = k /\ cur'[k] = cur[k] /\ inbox'[k] = inbox[k]
               /\ pc'[k] = pc[k] /\ ctxDone' = ctxDone
    BY <1>4, <2>1, <2>4 DEF Take
  <2>5. QED
    BY <2>3, <2>4
<1>5. ASSUME NEW c \in Consumers, Check(c) PROVE Attended'
  BY <1>5 DEF Check
<1>6. ASSUME NEW c \in Consumers, Dial(c) PROVE Attended'
  BY <1>6 DEF Dial
<1>7. ASSUME NEW c \in Consumers, Submit(c) PROVE Attended'
  BY <1>7 DEF Submit
<1>8. ASSUME NEW c \in Consumers, RecordSent(c) PROVE Attended'
  BY <1>8 DEF RecordSent
<1>9. ASSUME NEW c \in Consumers, Nack(c) PROVE Attended'
  BY <1>9, AnswerKeepsAttended DEF Nack
<1>10. ASSUME NEW c \in Consumers, RecordFailure(c) PROVE Attended'
  BY <1>10 DEF RecordFailure
<1>11. ASSUME NEW c \in Consumers, Park(c) PROVE Attended'
  <2>1. CASE Goto(c, "ack") /\ UNCHANGED <<holder, cur>>
    BY <1>11, <2>1 DEF Park
  <2>2. CASE Answer(c, "main") /\ Goto(c, "idle") /\ cur' = [cur EXCEPT ![c] = None]
    BY <1>11, <2>2, AnswerKeepsAttended DEF Park
  <2>3. QED
    BY <1>11, <2>1, <2>2 DEF Park
<1>12. ASSUME NEW c \in Consumers, Ack(c) PROVE Attended'
  BY <1>12, AnswerKeepsAttended DEF Ack
<1>13. ASSUME NEW c \in Consumers, Return(c) PROVE Attended'
  BY <1>13 DEF Return
<1>14. ASSUME NEW c \in Consumers, Start(c) PROVE Attended'
  BY <1>14 DEF Start
<1>15. ASSUME NEW c \in Consumers, Signal(c) PROVE Attended'
  BY <1>15 DEF Signal
<1>16. ASSUME NEW c \in Consumers, LoseChannel(c) PROVE Attended'
  BY <1>16 DEF LoseChannel, Requeue
<1>17. ASSUME NEW c \in Consumers, End(c) PROVE Attended'
  BY <1>17 DEF End, Requeue
<1>18. CASE UNCHANGED vars
  BY <1>18 DEF vars
<1>19. QED
  BY <1>1, <1>2, <1>3, <1>4, <1>5, <1>6, <1>7, <1>8, <1>9, <1>10, <1>11,
     <1>12, <1>13, <1>14, <1>15, <1>16, <1>17, <1>18 DEF Next, Loop

\* A message the broker counts as being worked on is before a process that is up: the
\* loop forgets none.
THEOREM NothingForgotten == Spec => []HeldIsWorkedOn
<1>1. TypeOK /\ Custody /\ Attended => HeldIsWorkedOn
  <2> SUFFICES ASSUME TypeOK, Custody, Attended, NEW e \in Events, loc[e] = "unacked"
               PROVE  \E c \in Consumers :
                        /\ holder[e] = c /\ chan[c]
                        /\ \/ cur[c] # None /\ Ev(c) = e
                           \/ \E d \in inbox[c] : d.event = e
                           \/ pc[c] = "stopped" /\ ctxDone[c]
    BY DEF HeldIsWorkedOn
  <2>1. holder[e] \in Consumers /\ chan[holder[e]]
    BY DEF TypeOK, Custody
  <2>2. QED
    BY <2>1 DEF Attended, Ev
<1>2. QED
  BY <1>1, TypeCorrect, CustodyHolds, AttendedInit, AttendedNext, PTL DEF Spec

(***************************************************************************)
(* Accounting: what is settled is on record, parked or undecodable.        *)
(***************************************************************************)

\* Each handler reaches its late steps only with what justifies them.
StepsJustified ==
  \A c \in Consumers :
    /\ pc[c] = "record" => mails[Ev(c)] > 0
    /\ pc[c] = "park" => Exhausted(c)
    /\ pc[c] = "ack" =>
         row[Ev(c)] # "none" \/ dlq[Ev(c)] > 0 \/ Ev(c) \in Undecodable

Accounting == StepsJustified /\ SettledAccounted /\ SentWasMailed

LEMMA AccountingInit == Init => Accounting
BY DEF Init, Accounting, StepsJustified, SettledAccounted, SentWasMailed

LEMMA AccountingNext ==
  TypeOK /\ Custody /\ Accounting /\ [Next]_vars => Accounting'
<1> SUFFICES ASSUME TypeOK, Custody, Accounting, [Next]_vars PROVE Accounting'
  OBVIOUS
<1> USE DEF TypeOK, Custody, InHand, Accounting, StepsJustified, SettledAccounted,
            SentWasMailed, PCs, Handling, Delivery, broker, effects, process, Goto,
            Ev, Exhausted
<1>1. ASSUME NEW e \in Events, Publish(e) PROVE Accounting'
  BY <1>1 DEF Publish
<1>2. ASSUME NEW e \in Events, Expire(e) PROVE Accounting'
  BY <1>2 DEF Expire
<1>3. ASSUME NEW c \in Consumers, NEW e \in Events, Deliver(c, e) PROVE Accounting'
  BY <1>3 DEF Deliver
<1>4. ASSUME NEW c \in Consumers, Take(c) PROVE Accounting'
  BY <1>4 DEF Take, HandleUserCreated
<1>5. ASSUME NEW c \in Consumers, Check(c) PROVE Accounting'
  BY <1>5 DEF Check
<1>6. ASSUME NEW c \in Consumers, Dial(c) PROVE Accounting'
  BY <1>6 DEF Dial
<1>7. ASSUME NEW c \in Consumers, Submit(c) PROVE Accounting'
  BY <1>7 DEF Submit
<1>8. ASSUME NEW c \in Consumers, RecordSent(c) PROVE Accounting'
  BY <1>8 DEF RecordSent, Insert
<1>9. ASSUME NEW c \in Consumers, Nack(c) PROVE Accounting'
  BY <1>9 DEF Nack, Answer
<1>10. ASSUME NEW c \in Consumers, RecordFailure(c) PROVE Accounting'
  BY <1>10 DEF RecordFailure, Insert
<1>11. ASSUME NEW c \in Consumers, Park(c) PROVE Accounting'
  <2>1. /\ UNCHANGED <<row, mails, deaths>>
        /\ \A e \in Events : dlq[e] > 0 => dlq'[e] > 0
    BY <1>11 DEF Park
  <2>2. \A e \in Events : loc'[e] = "settled" => loc[e] = "settled"
    BY <1>11 DEF Park, Answer
  <2>3. SettledAccounted'
    BY <2>1, <2>2
  <2>4. \A k \in Consumers \ {c} : pc'[k] = pc[k] /\ cur'[k] = cur[k]
    BY <1>11 DEF Park
  <2>5. pc'[c] = "idle" \/ (pc'[c] = "ack" /\ dlq'[Ev(c)] > 0 /\ cur' = cur)
    BY <1>11 DEF Park
  <2>6. StepsJustified'
    <3> SUFFICES ASSUME NEW k \in Consumers
                 PROVE  /\ pc'[k] = "record" => mails'[cur'[k].event] > 0
                        /\ pc'[k] = "park" => cur'[k].deaths >= MaxRetries
                        /\ pc'[k] = "ack" => \/ row'[cur'[k].event] # "none"
                                            \/ dlq'[cur'[k].event] > 0
                                            \/ cur'[k].event \in Undecodable
      OBVIOUS
    <3>1. CASE k = c
      BY <3>1, <2>5
    <3>2. CASE k # c
      BY <3>2, <2>1, <2>4
    <3>3. QED
      BY <3>1, <3>2
  <2>7. QED
    BY <2>1, <2>3, <2>6
<1>12. ASSUME NEW c \in Consumers, Ack(c) PROVE Accounting'
  BY <1>12 DEF Ack, Answer
<1>13. ASSUME NEW c \in Consumers, Return(c) PROVE Accounting'
  BY <1>13 DEF Return
<1>14. ASSUME NEW c \in Consumers, Start(c) PROVE Accounting'
  BY <1>14 DEF Start
<1>15. ASSUME NEW c \in Consumers, Signal(c) PROVE Accounting'
  BY <1>15 DEF Signal
<1>16. ASSUME NEW c \in Consumers, LoseChannel(c) PROVE Accounting'
  BY <1>16 DEF LoseChannel, Requeue
<1>17. ASSUME NEW c \in Consumers, End(c) PROVE Accounting'
  BY <1>17 DEF End, Requeue
<1>18. CASE UNCHANGED vars
  BY <1>18 DEF vars
<1>19. QED
  BY <1>1, <1>2, <1>3, <1>4, <1>5, <1>6, <1>7, <1>8, <1>9, <1>10, <1>11, <1>12, <1>13, <1>14, <1>15, <1>16, <1>17, <1>18 DEF Next, Loop

LEMMA AccountingHolds == Spec => []Accounting
<1>1. QED
  BY TypeCorrect, CustodyHolds, AccountingInit, AccountingNext, PTL DEF Spec

\* No event leaves the broker without a row, a DLQ copy or an undecodable body.
THEOREM NothingUnaccounted == Spec => []SettledAccounted
<1>1. Accounting => SettledAccounted
  BY DEF Accounting
<1>2. QED
  BY <1>1, AccountingHolds, PTL

\* A "sent" row stands for at least one accepted e-mail.
THEOREM SentRowsAreTrue == Spec => []SentWasMailed
<1>1. Accounting => SentWasMailed
  BY DEF Accounting
<1>2. QED
  BY <1>1, AccountingHolds, PTL

(***************************************************************************)
(* The retry budget.                                                       *)
(***************************************************************************)

LEMMA BudgetInit == Init => RetryBudget
BY DEF Init, RetryBudget

LEMMA BudgetNext ==
  TypeOK /\ Custody /\ Accounting /\ RetryBudget /\ [Next]_vars => RetryBudget'
<1> SUFFICES ASSUME TypeOK, Custody, Accounting, RetryBudget, [Next]_vars
             PROVE  RetryBudget'
  OBVIOUS
<1> USE DEF TypeOK, Custody, InHand, Accounting, StepsJustified, RetryBudget,
            PCs, Handling, Delivery, broker, effects, process, Goto, Ev, Exhausted
<1>1. ASSUME NEW e \in Events, Publish(e) PROVE RetryBudget'
  BY <1>1 DEF Publish
<1>2. ASSUME NEW e \in Events, Expire(e) PROVE RetryBudget'
  BY <1>2 DEF Expire
<1>3. ASSUME NEW c \in Consumers, NEW e \in Events, Deliver(c, e) PROVE RetryBudget'
  BY <1>3 DEF Deliver
<1>4. ASSUME NEW c \in Consumers, Take(c) PROVE RetryBudget'
  BY <1>4 DEF Take, HandleUserCreated
<1>5. ASSUME NEW c \in Consumers, Check(c) PROVE RetryBudget'
  BY <1>5 DEF Check
<1>6. ASSUME NEW c \in Consumers, Dial(c) PROVE RetryBudget'
  BY <1>6 DEF Dial
<1>7. ASSUME NEW c \in Consumers, Submit(c) PROVE RetryBudget'
  BY <1>7 DEF Submit
<1>8. ASSUME NEW c \in Consumers, RecordSent(c) PROVE RetryBudget'
  BY <1>8 DEF RecordSent, Insert
<1>9. ASSUME NEW c \in Consumers, Nack(c) PROVE RetryBudget'
  BY <1>9 DEF Nack, Answer
<1>10. ASSUME NEW c \in Consumers, RecordFailure(c) PROVE RetryBudget'
  <2>1. cur[c] \in Delivery /\ Ev(c) \in Events
    BY <1>10 DEF RecordFailure
  \* A stale count can only be behind the broker's, which is within budget.
  <2>2. deaths[Ev(c)] = MaxRetries
    <3>1. cur[c].deaths <= deaths[Ev(c)] /\ cur[c].deaths >= MaxRetries
      BY <1>10, <2>1 DEF RecordFailure
    <3>2. deaths[Ev(c)] <= MaxRetries
      BY <2>1
    <3>3. deaths[Ev(c)] \in Nat /\ cur[c].deaths \in Nat /\ MaxRetries \in Nat
      BY <2>1
    <3>4. QED
      BY ONLY <3>1, <3>2, <3>3
  <2>3. UNCHANGED <<loc, deaths, dlq>>
    BY <1>10 DEF RecordFailure
  <2>4. \A e \in Events : e # Ev(c) => row'[e] = row[e]
    BY <1>10, <2>1 DEF RecordFailure, Insert
  <2>5. ASSUME NEW e \in Events
        PROVE  /\ (deaths[e] <= MaxRetries)'
               /\ (loc[e] = "retry" => deaths[e] < MaxRetries)'
               /\ (dlq[e] > 0 \/ row[e] = "failed" => deaths[e] = MaxRetries)'
    <3>1. CASE e = Ev(c)
      BY <2>2, <2>3, <3>1
    <3>2. CASE e # Ev(c)
      BY <2>3, <2>4, <3>2
    <3>3. QED
      BY <3>1, <3>2
  <2>6. QED
    BY <2>5 DEF RetryBudget
<1>11. ASSUME NEW c \in Consumers, Park(c) PROVE RetryBudget'
  BY <1>11 DEF Park, Answer
<1>12. ASSUME NEW c \in Consumers, Ack(c) PROVE RetryBudget'
  BY <1>12 DEF Ack, Answer
<1>13. ASSUME NEW c \in Consumers, Return(c) PROVE RetryBudget'
  BY <1>13 DEF Return
<1>14. ASSUME NEW c \in Consumers, Start(c) PROVE RetryBudget'
  BY <1>14 DEF Start
<1>15. ASSUME NEW c \in Consumers, Signal(c) PROVE RetryBudget'
  BY <1>15 DEF Signal
<1>16. ASSUME NEW c \in Consumers, LoseChannel(c) PROVE RetryBudget'
  BY <1>16 DEF LoseChannel, Requeue
<1>17. ASSUME NEW c \in Consumers, End(c) PROVE RetryBudget'
  BY <1>17 DEF End, Requeue
<1>18. CASE UNCHANGED vars
  BY <1>18 DEF vars
<1>19. QED
  BY <1>1, <1>2, <1>3, <1>4, <1>5, <1>6, <1>7, <1>8, <1>9, <1>10, <1>11, <1>12, <1>13, <1>14, <1>15, <1>16, <1>17, <1>18 DEF Next, Loop

\* No event is given up before, or retried after, MaxRetries trips through the
\* retry queue.
THEOREM BudgetKept == Spec => []RetryBudget
<1>1. QED
  BY TypeCorrect, CustodyHolds, AccountingHolds, BudgetInit, BudgetNext, PTL DEF Spec

(***************************************************************************)
(* The audit trail.                                                        *)
(***************************************************************************)

LEMMA VerdictStep ==
  TypeOK /\ [Next]_vars => \A e \in Events : row[e] # "none" => row'[e] = row[e]
<1> SUFFICES ASSUME TypeOK, [Next]_vars, NEW k \in Events, row[k] # "none"
             PROVE  row'[k] = row[k]
  OBVIOUS
<1> USE DEF TypeOK, broker, effects
<1>1. ASSUME NEW e \in Events, Publish(e) PROVE row'[k] = row[k]
  BY <1>1 DEF Publish
<1>2. ASSUME NEW e \in Events, Expire(e) PROVE row'[k] = row[k]
  BY <1>2 DEF Expire
<1>3. ASSUME NEW c \in Consumers, NEW e \in Events, Deliver(c, e) PROVE row'[k] = row[k]
  BY <1>3 DEF Deliver
<1>4. ASSUME NEW c \in Consumers, Take(c) PROVE row'[k] = row[k]
  BY <1>4 DEF Take, HandleUserCreated
<1>5. ASSUME NEW c \in Consumers, Check(c) PROVE row'[k] = row[k]
  BY <1>5 DEF Check
<1>6. ASSUME NEW c \in Consumers, Dial(c) PROVE row'[k] = row[k]
  BY <1>6 DEF Dial
<1>7. ASSUME NEW c \in Consumers, Submit(c) PROVE row'[k] = row[k]
  BY <1>7 DEF Submit
<1>8. ASSUME NEW c \in Consumers, RecordSent(c) PROVE row'[k] = row[k]
  BY <1>8 DEF RecordSent, Insert
<1>9. ASSUME NEW c \in Consumers, Nack(c) PROVE row'[k] = row[k]
  BY <1>9 DEF Nack
<1>10. ASSUME NEW c \in Consumers, RecordFailure(c) PROVE row'[k] = row[k]
  BY <1>10 DEF RecordFailure, Insert
<1>11. ASSUME NEW c \in Consumers, Park(c) PROVE row'[k] = row[k]
  BY <1>11 DEF Park
<1>12. ASSUME NEW c \in Consumers, Ack(c) PROVE row'[k] = row[k]
  BY <1>12 DEF Ack
<1>13. ASSUME NEW c \in Consumers, Return(c) PROVE row'[k] = row[k]
  BY <1>13 DEF Return
<1>14. ASSUME NEW c \in Consumers, Start(c) PROVE row'[k] = row[k]
  BY <1>14 DEF Start
<1>15. ASSUME NEW c \in Consumers, Signal(c) PROVE row'[k] = row[k]
  BY <1>15 DEF Signal
<1>16. ASSUME NEW c \in Consumers, LoseChannel(c) PROVE row'[k] = row[k]
  BY <1>16 DEF LoseChannel
<1>17. ASSUME NEW c \in Consumers, End(c) PROVE row'[k] = row[k]
  BY <1>17 DEF End
<1>18. CASE UNCHANGED vars
  BY <1>18 DEF vars
<1>19. QED
  BY <1>1, <1>2, <1>3, <1>4, <1>5, <1>6, <1>7, <1>8, <1>9, <1>10, <1>11, <1>12, <1>13, <1>14, <1>15, <1>16, <1>17, <1>18 DEF Next, Loop

\* The first verdict on an event is final, whatever replica handles it later.
THEOREM VerdictsAreFinal == Spec => VerdictIsFinal
<1>1. QED
  BY TypeCorrect, VerdictStep, PTL DEF Spec, VerdictIsFinal

(***************************************************************************)
(* What duplicates cost.                                                   *)
(***************************************************************************)

\* A process never has an event twice.
Alone ==
  \A c \in Consumers :
    /\ cur[c] \notin inbox[c]
    /\ \A d, f \in InHand(c) : d.event = f.event => d = f

\* Nobody has anything at first.
LEMMA AloneInit == Init => Alone
BY DEF Init, Alone, InHand

\* The broker gives nobody what somebody over an open channel has.
LEMMA AloneNext == TypeOK /\ Custody /\ Alone /\ [Next]_vars => Alone'
<1> SUFFICES ASSUME TypeOK, Custody, Alone, [Next]_vars PROVE Alone'
  OBVIOUS
\* What a process has only ever gets less, but for a delivery.
<1>1. ASSUME NEW c \in Consumers,
             \A k \in Consumers \ {c} : cur'[k] = cur[k] /\ inbox'[k] = inbox[k],
             inbox'[c] \subseteq inbox[c],
             cur'[c] \in {cur[c], None} \cup (inbox[c] \ inbox'[c])
      PROVE  Alone'
  <2>1. None \notin inbox[c]
    BY NoneAssumption DEF TypeOK, Delivery
  <2>2. (cur[c] \notin inbox[c])' /\ InHand(c)' \subseteq InHand(c)
    BY <1>1, <2>1 DEF Alone, InHand
  <2>3. \A k \in Consumers \ {c} : (cur[k] \notin inbox[k])' /\ InHand(k)' = InHand(k)
    BY <1>1 DEF Alone, InHand
  <2>4. QED
    BY <2>2, <2>3 DEF Alone
<1>2. ASSUME UNCHANGED <<cur, inbox>> PROVE Alone'
  BY <1>2 DEF Alone, InHand
<1>3. ASSUME NEW c \in Consumers, NEW e \in Events, Deliver(c, e) PROVE Alone'
  <2>1. /\ loc[e] = "main" /\ chan[c] /\ cur' = cur
        /\ inbox' = [inbox EXCEPT ![c] = @ \cup {[event |-> e, deaths |-> deaths[e]]}]
    BY <1>3 DEF Deliver
  <2>2. \A d \in InHand(c) : d.event # e
    BY <2>1, NoneAssumption DEF Custody, TypeOK
  <2>3. \A k \in Consumers \ {c} : inbox'[k] = inbox[k]
    BY <2>1 DEF TypeOK
  <2>4. inbox'[c] = inbox[c] \cup {[event |-> e, deaths |-> deaths[e]]}
    BY <2>1 DEF TypeOK
  <2>5. cur[c] # [event |-> e, deaths |-> deaths[e]]
    <3>1. [event |-> e, deaths |-> deaths[e]] \in [event : Events, deaths : Nat]
      BY DEF TypeOK
    <3>2. cur[c] # None => cur[c] \in InHand(c)
      BY DEF InHand
    <3>3. QED
      BY <2>2, <3>1, <3>2, NoneAssumption
  <2>6. InHand(c)' = InHand(c) \cup {[event |-> e, deaths |-> deaths[e]]}
    BY <2>1, <2>4 DEF InHand
  <2>7. QED
    BY <2>1, <2>2, <2>3, <2>4, <2>5, <2>6 DEF Alone, InHand
<1> USE DEF Alone, TypeOK
<1>4. ASSUME NEW c \in Consumers, Take(c) PROVE Alone'
  BY <1>1, <1>4 DEF Take
<1>5. ASSUME NEW c \in Consumers, Nack(c) \/ Park(c) \/ Ack(c) PROVE Alone'
  BY <1>1, <1>2, <1>5 DEF Nack, Park, Ack
<1>6. ASSUME NEW c \in Consumers, Return(c) PROVE Alone'
  BY <1>1, <1>6 DEF Return
<1>7. ASSUME NEW c \in Consumers, End(c) PROVE Alone'
  BY <1>1, <1>7 DEF End
<1>8. ASSUME NEW e \in Events, Publish(e) \/ Expire(e) PROVE Alone'
  BY <1>2, <1>8 DEF Publish, Expire, process
<1>9. ASSUME NEW c \in Consumers,
             Check(c) \/ Dial(c) \/ Submit(c) \/ RecordSent(c) \/ RecordFailure(c)
      PROVE  Alone'
  BY <1>2, <1>9 DEF Check, Dial, Submit, RecordSent, RecordFailure
<1>10. ASSUME NEW c \in Consumers, Start(c) \/ Signal(c) \/ LoseChannel(c) PROVE Alone'
  BY <1>2, <1>10 DEF Start, Signal, LoseChannel
<1>11. CASE UNCHANGED vars
  BY <1>2, <1>11 DEF vars, process
<1>12. QED
  BY <1>3, <1>4, <1>5, <1>6, <1>7, <1>8, <1>9, <1>10, <1>11 DEF Next, Loop

\* The handler of c is at one of these steps with e.
At(c, e, labels) == pc[c] \in labels /\ Ev(c) = e

Queued(c, e) == \E d \in inbox[c] : d.event = e

\* Process c may still send an e-mail that a disturbance of its own has paid for: its channel is
\* gone, or it was told to stop and already is in the SMTP dialogue.
Cut(c, e) ==
  IF ctxDone[c] THEN At(c, e, {"submit"})
  ELSE ~chan[c] /\ (Queued(c, e) \/ At(c, e, {"check", "dial", "submit"}))

\* It has sent one that only a disturbance can keep from becoming a row, or a conflict.
Recording(c, e) == chan[c] /\ ~ctxDone[c] /\ At(c, e, {"record"})

\* It still sends one when there is a row already.
Send(c, e) == At(c, e, {"submit"}) \/ (~ctxDone[c] /\ At(c, e, {"dial"}))

CutOff(e) == {c \in Consumers : Cut(c, e)}
Sending(e) == {c \in Consumers : Send(c, e)}

One(b) == IF b THEN 1 ELSE 0

\* The account of an event's e-mails: each but one is paid for by a disturbance that struck before
\* the row, and so is each that may still be sent; while one waits to be recorded, one more is out.
Paid(e) ==
  /\ row[e] = "none" =>
       /\ IsFiniteSet(CutOff(e))
       /\ mails[e] + Cardinality(CutOff(e))
            <= early[e] + One(\E c \in Consumers : Recording(c, e))
  /\ row[e] # "none" =>
       /\ IsFiniteSet(Sending(e))
       /\ mails[e] + Cardinality(Sending(e)) <= early[e] + 1

\* A set that changes by one element at most.
LEMMA Count ==
  ASSUME NEW S, NEW T, NEW c, IsFiniteSet(S), T \subseteq S \cup {c}, S \subseteq T \cup {c}
  PROVE  /\ IsFiniteSet(T) /\ Cardinality(S) \in Nat /\ Cardinality(T) \in Nat
         /\ Cardinality(T) + One(c \in S) = Cardinality(S) + One(c \in T)
<1>1. /\ IsFiniteSet(S \cup {c})
      /\ Cardinality(S \cup {c}) = IF c \in S THEN Cardinality(S) ELSE Cardinality(S) + 1
  BY FS_AddElement
<1>2. IsFiniteSet(T)
  BY <1>1, FS_Subset
<1>3. Cardinality(T \cup {c}) = IF c \in T THEN Cardinality(T) ELSE Cardinality(T) + 1
  BY <1>2, FS_AddElement
<1>4. S \cup {c} = T \cup {c}
  OBVIOUS
<1>5. Cardinality(S) \in Nat /\ Cardinality(T) \in Nat
  BY <1>2, FS_CardinalityType
<1>6. QED
  BY <1>1, <1>2, <1>3, <1>4, <1>5 DEF One

\* Only one process over an open channel has an event.
LEMMA OneHolder ==
  ASSUME Custody, NEW c \in Consumers, NEW k \in Consumers, chan[c], chan[k],
         NEW d \in InHand(c), NEW f \in InHand(k), d.event = f.event
  PROVE  c = k
BY DEF Custody

\* When the first row appears, one process more may be sending: the one that holds the event.
LEMMA Late ==
  ASSUME TypeOK, Custody, NEW e \in Events, Paid(e), row[e] = "none"
  PROVE  IsFiniteSet(Sending(e)) /\ mails[e] + Cardinality(Sending(e)) <= early[e] + 1
<1> DEFINE S == CutOff(e)
           T == S \cup {holder[e]}
<1>1. IsFiniteSet(S) /\ Cardinality(S) \in Nat
      /\ mails[e] + Cardinality(S) <= early[e] + One(\E c \in Consumers : Recording(c, e))
  BY FS_CardinalityType DEF Paid
<1>2. mails[e] \in Nat /\ early[e] \in Nat
  BY DEF TypeOK
<1>3. ASSUME NEW c \in Sending(e), c \notin S PROVE holder[e] = c /\ ~At(c, e, {"record"})
  <2>1. chan[c] /\ ~ctxDone[c] /\ At(c, e, {"dial", "submit"})
    BY <1>3 DEF Sending, Send, CutOff, Cut, At
  <2>2. cur[c] \in InHand(c) /\ c \in Consumers
    BY <2>1 DEF At, Custody, Handling, InHand, Sending
  <2>3. QED
    BY <2>1, <2>2 DEF Custody, At, Ev
<1>4. CASE \E c \in Consumers : Recording(c, e)
  <2>1. PICK k \in Consumers : Recording(k, e)
    BY <1>4
  <2>2. holder[e] = k
    BY <2>1 DEF Recording, At, Ev, Custody, Handling, InHand
  <2>3. Sending(e) \subseteq S
    BY <1>3, <2>1, <2>2 DEF Recording
  <2>4. IsFiniteSet(Sending(e)) /\ Cardinality(Sending(e)) <= Cardinality(S)
        /\ Cardinality(Sending(e)) \in Nat
    BY <1>1, <2>3, FS_Subset, FS_CardinalityType
  <2>5. QED
    BY <1>1, <1>2, <1>4, <2>4 DEF One
<1>5. CASE ~\E c \in Consumers : Recording(c, e)
  <2>1. /\ IsFiniteSet(T) /\ Cardinality(T) <= Cardinality(S) + 1 /\ Cardinality(T) \in Nat
    <3>1. IsFiniteSet(T)
          /\ Cardinality(T) = IF holder[e] \in S THEN Cardinality(S) ELSE Cardinality(S) + 1
      BY <1>1, FS_AddElement
    <3>2. QED
      BY <1>1, <3>1
  <2>2. Sending(e) \subseteq T
    BY <1>3
  <2>3. IsFiniteSet(Sending(e)) /\ Cardinality(Sending(e)) <= Cardinality(T)
        /\ Cardinality(Sending(e)) \in Nat
    BY <2>1, <2>2, FS_Subset, FS_CardinalityType
  <2>4. mails[e] + Cardinality(S) <= early[e]
    BY <1>1, <1>2, <1>5 DEF One
  <2>5. QED
    BY <1>1, <1>2, <2>1, <2>3, <2>4
<1>6. QED
  BY <1>4, <1>5

\* A step of c before the row: what it sends, and what it is cut off from sending, is paid for.
LEMMA Balance ==
  ASSUME TypeOK, TypeOK', Custody, NEW c \in Consumers, NEW e \in Events, Paid(e),
         row[e] = "none", row'[e] = "none",
         \A k \in Consumers \ {c} : (Cut(k, e)' <=> Cut(k, e))
                                    /\ (Recording(k, e)' <=> Recording(k, e)),
         Recording(c, e)' => Recording(c, e) \/ (chan[c] /\ cur[c] \in InHand(c) /\ Ev(c) = e),
         mails'[e] + One(Cut(c, e)') + early[e] + One(Recording(c, e))
           <= mails[e] + One(Cut(c, e)) + early'[e] + One(Recording(c, e)')
  PROVE  Paid(e)'
<1> DEFINE S == CutOff(e)
           T == CutOff(e)'
           R == \E k \in Consumers : Recording(k, e)
           Q == \E k \in Consumers : Recording(k, e)'
<1>1. S \subseteq Consumers /\ T \subseteq Consumers
  BY DEF CutOff
<1>2. /\ T \subseteq S \cup {c} /\ S \subseteq T \cup {c}
      /\ (c \in S <=> Cut(c, e)) /\ (c \in T <=> Cut(c, e)')
  BY DEF CutOff
<1>3. IsFiniteSet(S) /\ mails[e] + Cardinality(S) <= early[e] + One(R)
  BY DEF Paid
<1> HIDE DEF S, T
<1>4. /\ IsFiniteSet(T) /\ Cardinality(S) \in Nat /\ Cardinality(T) \in Nat
      /\ Cardinality(T) + One(c \in S) = Cardinality(S) + One(c \in T)
  BY <1>2, <1>3, Count
<1>5. ASSUME Recording(c, e) \/ Recording(c, e)', NEW k \in Consumers \ {c} PROVE ~Recording(k, e)
  <2>1. chan[c] /\ cur[c] \in InHand(c) /\ Ev(c) = e
    BY <1>5 DEF Recording, At, InHand, Custody, Handling
  <2>2. SUFFICES ASSUME Recording(k, e) PROVE FALSE
    OBVIOUS
  <2>3. chan[k] /\ cur[k] \in InHand(k) /\ Ev(k) = e
    BY <2>2 DEF Recording, At, InHand, Custody, Handling
  <2>4. QED
    BY <2>1, <2>3, OneHolder DEF Ev
<1>6. One(Q) + One(Recording(c, e)) = One(R) + One(Recording(c, e)')
  <2>1. CASE Recording(c, e) \/ Recording(c, e)'
    BY <1>5, <2>1 DEF One
  <2>2. CASE ~(Recording(c, e) \/ Recording(c, e)')
    <3>1. Q <=> R
      BY <2>2
    <3>2. QED
      BY <2>2, <3>1 DEF One
  <2>3. QED
    BY <2>1, <2>2
<1>7. \A b : One(b) \in Nat
  BY DEF One
<1>8. mails[e] \in Nat /\ mails'[e] \in Nat /\ early[e] \in Nat /\ early'[e] \in Nat
  BY DEF TypeOK
<1>9. mails'[e] + Cardinality(T) <= early'[e] + One(Q)
  <2> DEFINE a == One(c \in S)
             b == One(c \in T)
             r == One(R)
             q == One(Q)
             u == One(Recording(c, e))
             v == One(Recording(c, e)')
  <2>1. a \in Nat /\ b \in Nat /\ r \in Nat /\ q \in Nat /\ u \in Nat /\ v \in Nat
    BY <1>7
  <2>2. mails'[e] + b + early[e] + u <= mails[e] + a + early'[e] + v
    BY <1>2 DEF One
  <2>3. Cardinality(T) + a = Cardinality(S) + b /\ q + u = r + v
    BY <1>4, <1>6
  <2>4. mails[e] + Cardinality(S) <= early[e] + r
    BY <1>3
  <2> HIDE DEF a, b, r, q, u, v
  <2>5. mails'[e] + Cardinality(T) <= early'[e] + q
    BY <1>4, <1>8, <2>1, <2>2, <2>3, <2>4
  <2>6. QED
    BY <2>5 DEF q
<1>10. QED
  BY <1>4, <1>9 DEF Paid, S, T

\* A step of c once there is a row: only who is sending already can still send.
LEMMA Leftover ==
  ASSUME TypeOK, TypeOK', Custody, NEW c \in Consumers, NEW e \in Events, Paid(e),
         row'[e] # "none", early[e] <= early'[e],
         \A k \in Consumers \ {c} : Send(k, e)' => Send(k, e),
         \/ mails'[e] = mails[e] /\ (Send(c, e)' => Send(c, e))
         \/ mails'[e] = mails[e] + 1 /\ Send(c, e) /\ ~Send(c, e)'
  PROVE  Paid(e)'
<1> DEFINE S == Sending(e)
           T == Sending(e)'
<1>1. IsFiniteSet(S) /\ mails[e] + Cardinality(S) <= early[e] + 1 /\ Cardinality(S) \in Nat
  BY Late, FS_CardinalityType DEF Paid
<1>2. T \subseteq S /\ (c \in S <=> Send(c, e)) /\ (c \in T <=> Send(c, e)')
  BY DEF Sending
<1> HIDE DEF S, T
<1>3. IsFiniteSet(T) /\ Cardinality(T) \in Nat /\ Cardinality(T) <= Cardinality(S)
  BY <1>1, <1>2, FS_Subset, FS_CardinalityType
<1>4. c \in S /\ c \notin T => Cardinality(T) + 1 <= Cardinality(S)
  <2>1. SUFFICES ASSUME c \in S, c \notin T PROVE Cardinality(T) + 1 <= Cardinality(S)
    OBVIOUS
  <2>2. IsFiniteSet(S \ {c}) /\ Cardinality(S \ {c}) = Cardinality(S) - 1
    BY <1>1, <2>1, FS_RemoveElement
  <2>3. T \subseteq S \ {c}
    BY <1>2, <2>1
  <2>4. Cardinality(T) <= Cardinality(S \ {c})
    BY <2>2, <2>3, FS_Subset
  <2>5. QED
    BY <1>1, <1>3, <2>2, <2>4
<1>5. mails[e] \in Nat /\ early[e] \in Nat /\ early'[e] \in Nat /\ mails'[e] \in Nat
  BY DEF TypeOK
<1>6. mails'[e] + Cardinality(T) <= early'[e] + 1
  BY <1>1, <1>2, <1>3, <1>4, <1>5
<1>7. QED
  BY <1>3, <1>6 DEF Paid, T

\* What disturbances cost, before and after.
LEMMA Spent ==
  ASSUME TypeOK, SpendFault \/ UNCHANGED budget, NEW e \in Events
  PROVE  /\ early[e] <= early'[e] /\ early[e] \in Nat
         /\ SpendFault /\ row[e] = "none" => early'[e] = early[e] + 1
         /\ UNCHANGED budget => early'[e] = early[e]
BY DEF TypeOK, SpendFault, budget

\* A step of c keeps the account, if it keeps c's part of it.
LEMMA PaidStep ==
  ASSUME TypeOK, TypeOK', Custody, NEW c \in Consumers, NEW e \in Events, Paid(e),
         \A k \in Consumers \ {c} :
           /\ pc'[k] = pc[k] /\ cur'[k] = cur[k] /\ inbox'[k] = inbox[k]
           /\ chan'[k] = chan[k] /\ ctxDone'[k] = ctxDone[k],
         row[e] = "none" \/ row'[e] # "none", early[e] <= early'[e],
         row'[e] = "none" =>
           /\ Recording(c, e)' => Recording(c, e) \/ (chan[c] /\ cur[c] \in InHand(c) /\ Ev(c) = e)
           /\ mails'[e] + One(Cut(c, e)') + early[e] + One(Recording(c, e))
                <= mails[e] + One(Cut(c, e)) + early'[e] + One(Recording(c, e)'),
         row'[e] # "none" =>
           \/ mails'[e] = mails[e] /\ (Send(c, e)' => Send(c, e))
           \/ mails'[e] = mails[e] + 1 /\ Send(c, e) /\ ~Send(c, e)'
  PROVE  Paid(e)'
<1>1. \A k \in Consumers \ {c} : /\ Cut(k, e)' <=> Cut(k, e)
                                 /\ Recording(k, e)' <=> Recording(k, e)
                                 /\ Send(k, e)' <=> Send(k, e)
  BY DEF Cut, Recording, Send, At, Queued, Ev
<1>2. CASE row'[e] = "none"
  BY <1>1, <1>2, Balance
<1>3. CASE row'[e] # "none"
  BY <1>1, <1>3, Leftover
<1>4. QED
  BY <1>2, <1>3

\* No e-mails, no debts.
LEMMA PaidInit == ASSUME Init, NEW e \in Events PROVE Paid(e)
<1>1. CutOff(e) = {} /\ row[e] = "none" /\ mails[e] = 0 /\ early[e] = 0
  BY DEF Init, CutOff, Cut, At, Queued
<1>2. IsFiniteSet({}) /\ Cardinality({}) = 0
  BY FS_EmptySet
<1>3. QED
  BY <1>1, <1>2 DEF Paid, One

\* Every step of the broker, of a handler and of a process keeps the account of e-mails.
LEMMA PaidNext ==
  ASSUME TypeOK, TypeOK', Custody, Alone, [Next]_vars, NEW e \in Events, Paid(e)
  PROVE  Paid(e)'
<1>1. ASSUME UNCHANGED <<pc, cur, inbox, chan, ctxDone, row, mails, early>> PROVE Paid(e)'
  BY <1>1 DEF Paid, CutOff, Sending, Cut, Recording, Send, At, Queued, Ev
<1>2. ASSUME NEW d \in Events, Publish(d) \/ Expire(d) PROVE Paid(e)'
  BY <1>1, <1>2 DEF Publish, Expire, process, effects, budget
<1>3. ASSUME NEW c \in Consumers, NEW d \in Events, Deliver(c, d) PROVE Paid(e)'
  <2>1. chan[c] /\ UNCHANGED <<pc, cur, chan, ctxDone, row, mails, early>>
        /\ \A k \in Consumers \ {c} : inbox'[k] = inbox[k]
    BY <1>3 DEF Deliver, effects, budget, TypeOK
  <2>2. \A k \in Consumers : /\ Cut(k, e)' <=> Cut(k, e)
                             /\ Recording(k, e)' <=> Recording(k, e)
                             /\ Send(k, e)' <=> Send(k, e)
    BY <2>1 DEF Cut, Recording, Send, At, Queued, Ev
  <2>3. CutOff(e)' = CutOff(e) /\ Sending(e)' = Sending(e)
    BY <2>2 DEF CutOff, Sending
  <2>4. QED
    BY <2>1, <2>2, <2>3 DEF Paid
<1> USE DEF Goto, Cut, Recording, Send, At, Queued, Ev, One, broker, effects, process
<1>4. ASSUME NEW c \in Consumers, Take(c) PROVE Paid(e)'
  BY <1>4, PaidStep, Spent DEF Take, HandleUserCreated, TypeOK
<1>5. ASSUME NEW c \in Consumers, Check(c) PROVE Paid(e)'
  BY <1>5, PaidStep, Spent DEF Check, CallFails, TypeOK
<1>6. ASSUME NEW c \in Consumers, Dial(c) PROVE Paid(e)'
  BY <1>6, PaidStep, Spent DEF Dial, TypeOK
<1>7. ASSUME NEW c \in Consumers, Submit(c) PROVE Paid(e)'
  <2>1. /\ pc[c] = "submit" /\ pc'[c] \in {"record", "failed"}
        /\ \A k \in Consumers \ {c} : pc'[k] = pc[k]
        /\ UNCHANGED <<row, cur, inbox, chan, ctxDone>>
    BY <1>7 DEF Submit, TypeOK
  <2>2. SpendFault \/ UNCHANGED budget
    BY <1>7 DEF Submit
  <2>3. /\ early[e] <= early'[e] /\ early[e] \in Nat /\ early'[e] \in Nat /\ mails[e] \in Nat
        /\ SpendFault /\ row[e] = "none" => early'[e] = early[e] + 1
        /\ UNCHANGED budget => early'[e] = early[e]
    BY <2>2, Spent DEF TypeOK
  <2>4. CASE Ev(c) # e
    <3>1. mails'[e] = mails[e]
      BY <1>7, <2>4 DEF Submit, TypeOK
    <3>2. (Cut(c, e)' <=> Cut(c, e)) /\ ~Recording(c, e) /\ ~Recording(c, e)'
          /\ ~Send(c, e) /\ ~Send(c, e)'
      BY <2>1, <2>4
    <3>3. QED
      <4> HIDE DEF Cut, Recording, Send, Queued, At, Ev
      <4> QED
        BY <2>1, <2>3, <3>1, <3>2, PaidStep
  <2>5. CASE Ev(c) = e
    <3>1. cur[c] \in InHand(c)
      BY <2>1 DEF Custody, Handling, InHand
    <3>2. ~Queued(c, e)
      BY <2>5, <3>1 DEF Alone, InHand
    <3>3. ~Cut(c, e)' /\ Send(c, e) /\ ~Send(c, e)' /\ ~Recording(c, e)
      BY <2>1, <2>5, <3>2
    <3>4. Cut(c, e) \/ (chan[c] /\ ~ctxDone[c])
      BY <2>1, <2>5
    <3>5. chan[c] /\ ~ctxDone[c] /\ pc'[c] = "record" => Recording(c, e)'
      BY <2>1, <2>5
    <3>6. \/ mails'[e] = mails[e]
          \/ mails'[e] = mails[e] + 1 /\ (pc'[c] = "record" \/ SpendFault)
      BY <1>7, <2>5 DEF Submit, TypeOK
    <3>7. row[e] = "none" => mails'[e] + One(Cut(c, e)') + early[e] + One(Recording(c, e))
                <= mails[e] + One(Cut(c, e)) + early'[e] + One(Recording(c, e)')
      <4> HIDE DEF Cut, Recording, Send, Queued, At, Ev, SpendFault
      <4> QED
        BY <2>3, <3>3, <3>4, <3>5, <3>6
    <3>8. Recording(c, e)' => chan[c]
      BY <2>1
    <3>9. QED
      <4> HIDE DEF Cut, Recording, Send, Queued, At, One
      <4> QED
        BY <2>1, <2>3, <2>5, <3>1, <3>3, <3>6, <3>7, <3>8, PaidStep
  <2>6. QED
    BY <2>4, <2>5
<1>8. ASSUME NEW c \in Consumers, RecordSent(c) PROVE Paid(e)'
  BY SMTT(30), <1>8, PaidStep, Spent DEF RecordSent, Insert, CallFails, TypeOK
<1>9. ASSUME NEW c \in Consumers, Nack(c) \/ Ack(c) PROVE Paid(e)'
  <2>1. /\ pc[c] \in {"failed", "ack"} /\ pc'[c] = "idle"
        /\ \A k \in Consumers \ {c} : pc'[k] = pc[k] /\ cur'[k] = cur[k]
        /\ UNCHANGED <<row, mails, inbox, chan, ctxDone, early>>
    BY <1>9 DEF Nack, Ack, TypeOK, budget
  <2>2. /\ ~Recording(c, e) /\ ~Recording(c, e)' /\ (Cut(c, e)' <=> Cut(c, e))
        /\ ~Send(c, e) /\ ~Send(c, e)'
    BY <2>1
  <2>3. early[e] \in Nat /\ mails[e] \in Nat
    BY DEF TypeOK
  <2>4. QED
    <3> HIDE DEF Cut, Recording, Send, Queued, At, Ev
    <3> QED
      BY <2>1, <2>2, <2>3, PaidStep
<1>10. ASSUME NEW c \in Consumers, RecordFailure(c) PROVE Paid(e)'
  BY <1>10, PaidStep, Spent DEF RecordFailure, Insert, CallFails, TypeOK
<1>11. ASSUME NEW c \in Consumers, Park(c) PROVE Paid(e)'
  BY <1>11, PaidStep, Spent DEF Park, TypeOK
<1>13. ASSUME NEW c \in Consumers, Return(c) PROVE Paid(e)'
  BY <1>13, PaidStep, Spent DEF Return, TypeOK
<1>14. ASSUME NEW c \in Consumers, Start(c) PROVE Paid(e)'
  <2>1. /\ pc[c] = "down" /\ pc'[c] = "idle" /\ chan'[c] /\ ~ctxDone'[c] /\ inbox[c] = {}
        /\ \A k \in Consumers \ {c} :
             pc'[k] = pc[k] /\ chan'[k] = chan[k] /\ ctxDone'[k] = ctxDone[k]
        /\ UNCHANGED <<row, mails, cur, inbox, early>>
    BY <1>14 DEF Start, TypeOK, Custody, budget
  <2>2. /\ ~Recording(c, e) /\ ~Recording(c, e)' /\ ~Cut(c, e) /\ ~Cut(c, e)'
        /\ ~Send(c, e) /\ ~Send(c, e)'
    BY <2>1
  <2>3. early[e] \in Nat /\ mails[e] \in Nat
    BY DEF TypeOK
  <2>4. QED
    <3> HIDE DEF Cut, Recording, Send, Queued, At, Ev
    <3> QED
      BY <2>1, <2>2, <2>3, PaidStep
<1>15. ASSUME NEW c \in Consumers, Signal(c) PROVE Paid(e)'
  <2>1. /\ ~ctxDone[c] /\ ctxDone'[c] /\ SpendFault
        /\ \A k \in Consumers \ {c} : ctxDone'[k] = ctxDone[k]
        /\ UNCHANGED <<row, mails, pc, cur, inbox, chan>>
    BY <1>15 DEF Signal, TypeOK
  <2>2. /\ early[e] <= early'[e] /\ early[e] \in Nat /\ mails[e] \in Nat
        /\ row[e] = "none" => early'[e] = early[e] + 1
    BY <2>1, Spent DEF TypeOK
  <2>3. /\ ~Recording(c, e)' /\ (Recording(c, e) => ~Cut(c, e)')
        /\ (Send(c, e)' => Send(c, e))
    BY <2>1
  <2>4. QED
    BY <2>1, <2>2, <2>3, PaidStep
<1>16. ASSUME NEW c \in Consumers, LoseChannel(c) PROVE Paid(e)'
  <2>1. /\ chan[c] /\ ~chan'[c]
        /\ \A k \in Consumers \ {c} : chan'[k] = chan[k]
        /\ UNCHANGED <<row, mails, pc, cur, inbox, ctxDone>>
        /\ IF ctxDone[c] THEN UNCHANGED budget ELSE SpendFault
    BY <1>16 DEF LoseChannel, TypeOK
  <2>2. /\ early[e] <= early'[e] /\ early[e] \in Nat /\ mails[e] \in Nat
        /\ row[e] = "none" => IF ctxDone[c] THEN early'[e] = early[e] ELSE early'[e] = early[e] + 1
    BY <2>1, Spent DEF TypeOK
  <2>3. Recording(c, e) => ~Cut(c, e)'
    <3>1. SUFFICES ASSUME Recording(c, e) PROVE ~Cut(c, e)'
      OBVIOUS
    <3>2. cur[c] \in InHand(c)
      BY <3>1 DEF Custody, Handling, InHand
    <3>3. ~Queued(c, e)
      BY <3>1, <3>2 DEF Alone, InHand
    <3>4. QED
      BY <2>1, <3>1, <3>3
  <2>4. /\ ~Recording(c, e)' /\ (Send(c, e)' <=> Send(c, e))
        /\ ctxDone[c] => (Cut(c, e)' <=> Cut(c, e)) /\ ~Recording(c, e)
    BY <2>1
  <2>5. QED
    <3> HIDE DEF Cut, Recording, Send, Queued, At, Ev
    <3> QED
      BY <2>1, <2>2, <2>3, <2>4, PaidStep
<1>17. ASSUME NEW c \in Consumers, End(c) PROVE Paid(e)'
  <2>1. /\ pc'[c] = "down" /\ ~chan'[c] /\ ~ctxDone'[c] /\ inbox'[c] = {}
        /\ \A k \in Consumers \ {c} :
             /\ pc'[k] = pc[k] /\ cur'[k] = cur[k] /\ inbox'[k] = inbox[k]
             /\ chan'[k] = chan[k] /\ ctxDone'[k] = ctxDone[k]
        /\ UNCHANGED <<row, mails>>
        /\ IF ctxDone[c] /\ ~chan[c] THEN UNCHANGED budget ELSE SpendFault
    BY <1>17 DEF End, TypeOK
  <2>2. /\ early[e] <= early'[e] /\ early[e] \in Nat /\ mails[e] \in Nat
        /\ row[e] = "none" => IF ctxDone[c] /\ ~chan[c] THEN early'[e] = early[e]
                              ELSE early'[e] = early[e] + 1
    BY <2>1, Spent DEF TypeOK
  <2>3. /\ ~Recording(c, e)' /\ ~Cut(c, e)' /\ ~Send(c, e)'
        /\ ctxDone[c] /\ ~chan[c] => ~Recording(c, e)
    BY <2>1
  <2>4. QED
    <3> HIDE DEF Cut, Recording, Send, Queued, At, Ev
    <3> QED
      BY <2>1, <2>2, <2>3, PaidStep
<1>18. CASE UNCHANGED vars
  BY <1>1, <1>18 DEF vars, process, effects, budget
<1>19. QED
  BY <1>2, <1>3, <1>4, <1>5, <1>6, <1>7, <1>8, <1>9, <1>10, <1>11, <1>13, <1>14, <1>15,
     <1>16, <1>17, <1>18 DEF Next, Loop

(***************************************************************************)
(* Copies in the dead-letter queue.                                        *)
(***************************************************************************)

\* Those who were told to stop and will give back what they hold for nothing.
Leaving == {c \in Consumers : ctxDone[c] /\ chan[c]}

\* The event is settled, or about to be by the process that holds it.
Done(e) == loc[e] = "settled" \/ \E c \in Consumers : holder[e] = c /\ At(c, e, {"ack"})

\* A copy that is not the last of its event was a disturbance's doing.
Dead ==
  /\ IsFiniteSet(Leaving)
  /\ \A e \in Events : dlq[e] + Cardinality(Leaving) <= faults + One(Done(e))

\* No copies at first.
LEMMA DeadInit == Init => Dead
<1> SUFFICES ASSUME Init PROVE Dead
  OBVIOUS
<1>1. Leaving = {} /\ faults = 0 /\ \A e \in Events : dlq[e] = 0
  BY DEF Init, Leaving
<1>2. IsFiniteSet({}) /\ Cardinality({}) = 0
  BY FS_EmptySet
<1>3. QED
  BY <1>1, <1>2 DEF Dead, One

\* What a step of c does to the account.
LEMMA DeadStep ==
  ASSUME TypeOK, TypeOK', Dead, NEW c \in Consumers,
         \A k \in Consumers \ {c} : chan'[k] = chan[k] /\ ctxDone'[k] = ctxDone[k],
         \A e \in Events :
           dlq'[e] + One(c \in Leaving') + faults + One(Done(e))
             <= dlq[e] + One(c \in Leaving) + faults' + One(Done(e)')
  PROVE  Dead'
<1>1. Leaving' \subseteq Leaving \cup {c} /\ Leaving \subseteq Leaving' \cup {c}
  BY DEF Leaving
<1>2. /\ IsFiniteSet(Leaving') /\ Cardinality(Leaving) \in Nat /\ Cardinality(Leaving') \in Nat
      /\ Cardinality(Leaving') + One(c \in Leaving) = Cardinality(Leaving) + One(c \in Leaving')
  BY <1>1, Count DEF Dead
<1>3. \A b : One(b) \in Nat
  BY DEF One
<1>4. ASSUME NEW e \in Events
      PROVE  dlq'[e] + Cardinality(Leaving') <= faults' + One(Done(e)')
  <2> DEFINE a == One(c \in Leaving)
             b == One(c \in Leaving')
             u == One(Done(e))
             v == One(Done(e)')
             m == Cardinality(Leaving)
             n == Cardinality(Leaving')
  <2>1. /\ a \in Nat /\ b \in Nat /\ u \in Nat /\ v \in Nat /\ m \in Nat /\ n \in Nat
        /\ dlq[e] \in Nat /\ dlq'[e] \in Nat /\ faults \in Nat /\ faults' \in Nat
    BY <1>2, <1>3 DEF TypeOK
  <2>2. n + a = m + b /\ dlq[e] + m <= faults + u
    BY <1>2 DEF Dead
  <2>3. dlq'[e] + b + faults + u <= dlq[e] + a + faults' + v
    OBVIOUS
  <2> HIDE DEF a, b, u, v, m, n
  <2>4. dlq'[e] + n <= faults' + v
    BY <2>1, <2>2, <2>3
  <2>5. QED
    BY <2>4 DEF n, v
<1>5. QED
  BY <1>2, <1>4 DEF Dead

\* Every step keeps the account of the copies.
LEMMA DeadNext == ASSUME TypeOK, TypeOK', Custody, [Next]_vars, Dead PROVE Dead'
<1> USE DEF At, Ev
<1>1. /\ faults \in Nat /\ faults' \in Nat
      /\ \A e \in Events : dlq[e] \in Nat /\ dlq'[e] \in Nat
      /\ (UNCHANGED budget => faults' = faults) /\ (SpendFault => faults' = faults + 1)
  BY DEF TypeOK, budget, SpendFault
\* Steps that leave the dead letters and the processes' ends alone, and settle nothing undone.
<1>2. ASSUME UNCHANGED <<dlq, chan, ctxDone>>, UNCHANGED budget \/ SpendFault,
             \A e \in Events : Done(e) => Done(e)'
      PROVE  Dead'
  <2>1. Leaving' = Leaving /\ faults <= faults'
    BY <1>1, <1>2 DEF Leaving
  <2>2. IsFiniteSet(Leaving) /\ Cardinality(Leaving) \in Nat
    BY FS_CardinalityType DEF Dead
  <2>3. ASSUME NEW e \in Events
        PROVE  dlq'[e] + Cardinality(Leaving) <= faults' + One(Done(e)')
    <3>1. dlq[e] + Cardinality(Leaving) <= faults + One(Done(e)) /\ dlq'[e] = dlq[e]
      BY <1>2 DEF Dead
    <3>2. One(Done(e)) <= One(Done(e)') /\ One(Done(e)) \in Nat /\ One(Done(e)') \in Nat
      BY <1>2 DEF One
    <3>3. QED
      BY <1>1, <2>1, <2>2, <3>1, <3>2
  <2>4. QED
    BY <2>1, <2>2, <2>3 DEF Dead
<1>3. ASSUME UNCHANGED <<loc, holder, pc, cur>> PROVE \A e \in Events : Done(e) => Done(e)'
  BY <1>3 DEF Done
<1>4. ASSUME NEW e \in Events, Publish(e) \/ Expire(e) PROVE Dead'
  <2>1. \A d \in Events : Done(d) => Done(d)'
    BY <1>4 DEF Done, Publish, Expire, process, TypeOK
  <2>2. QED
    BY <1>2, <1>4, <2>1 DEF Publish, Expire, process
<1>5. ASSUME NEW c \in Consumers, NEW e \in Events, Deliver(c, e) PROVE Dead'
  <2>1. \A d \in Events : Done(d) => Done(d)'
    BY <1>5 DEF Done, Deliver, TypeOK, Custody
  <2>2. QED
    BY <1>2, <1>5, <2>1 DEF Deliver
<1>6. ASSUME NEW c \in Consumers,
             Take(c) \/ Check(c) \/ Dial(c) \/ Submit(c) \/ RecordSent(c) \/ RecordFailure(c)
      PROVE  Dead'
  <2>1. /\ pc[c] # "ack" /\ UNCHANGED <<loc, holder, dlq, chan, ctxDone>>
        /\ \A k \in Consumers \ {c} : pc'[k] = pc[k] /\ cur'[k] = cur[k]
        /\ UNCHANGED budget \/ SpendFault
    BY <1>6 DEF Take, Check, Dial, Submit, RecordSent, RecordFailure, CallFails, Goto, broker,
                TypeOK
  <2>2. \A d \in Events : Done(d) => Done(d)'
    BY <2>1 DEF Done
  <2>3. QED
    BY <1>2, <2>1, <2>2
\* Who answers for good is done with its event and no other; who gives it back was not done with it.
<1>7. ASSUME NEW c \in Consumers, pc[c] \in Handling, NEW place \in {"main", "retry", "settled"},
             Answer(c, place), pc[c] = "ack" <=> place = "settled",
             \A k \in Consumers \ {c} : pc'[k] = pc[k] /\ cur'[k] = cur[k]
      PROVE  \A d \in Events : Done(d) => Done(d)'
  <2>1. Ev(c) \in Events /\ cur[c] \in InHand(c)
    BY <1>7 DEF Custody, TypeOK, InHand, Delivery
  <2>2. CASE ~chan[c]
    <3>1. \A d \in Events : holder[d] # c
      BY <2>2 DEF Custody, TypeOK
    <3>2. QED
      BY <1>7, <2>2, <3>1 DEF Done, Answer
  <2>3. CASE chan[c]
    <3>1. holder[Ev(c)] = c /\ loc[Ev(c)] # "settled"
      BY <2>1, <2>3 DEF Custody
    <3>2. /\ loc' = [loc EXCEPT ![Ev(c)] = place]
          /\ holder' = [holder EXCEPT ![Ev(c)] = None]
      BY <1>7, <2>3 DEF Answer
    <3>3. ASSUME NEW d \in Events, Done(d), d # Ev(c) PROVE Done(d)'
      BY <1>7, <3>2, <3>3 DEF Done, TypeOK
    <3>4. ASSUME NEW d \in Events, Done(d), d = Ev(c) PROVE Done(d)'
      <4>1. place = "settled"
        BY <1>7, <3>1, <3>4 DEF Done
      <4>2. loc'[d] = "settled"
        BY <3>2, <3>4, <4>1 DEF TypeOK
      <4>3. QED
        BY <4>2 DEF Done
    <3>5. QED
      BY <3>3, <3>4
  <2>4. QED
    BY <2>2, <2>3
<1>8. ASSUME NEW c \in Consumers, Nack(c) \/ Ack(c) PROVE Dead'
  <2>1. /\ UNCHANGED <<dlq, chan, ctxDone, budget>> /\ pc[c] \in Handling
        /\ \A k \in Consumers \ {c} : pc'[k] = pc[k] /\ cur'[k] = cur[k]
        /\ \E place \in {"main", "retry", "settled"} :
             Answer(c, place) /\ (pc[c] = "ack" <=> place = "settled")
    BY <1>8 DEF Nack, Ack, Goto, TypeOK, Handling
  <2>2. QED
    BY <1>2, <1>7, <2>1
<1>9. ASSUME NEW c \in Consumers, Park(c) PROVE Dead'
  <2>1. /\ pc[c] = "park" /\ pc[c] \in Handling /\ UNCHANGED <<chan, ctxDone>>
        /\ \A k \in Consumers \ {c} : pc'[k] = pc[k] /\ cur'[k] = cur[k]
    BY <1>9 DEF Park, Goto, TypeOK, Handling
  <2>2. CASE UNCHANGED dlq /\ Answer(c, "main") /\ (UNCHANGED budget \/ SpendFault)
    BY <1>2, <1>7, <2>1, <2>2
  <2>3. CASE /\ chan[c] /\ dlq' = [dlq EXCEPT ![Ev(c)] = @ + 1] /\ pc' = [pc EXCEPT ![c] = "ack"]
             /\ UNCHANGED <<loc, holder, cur, budget>>
    <3>1. Ev(c) \in Events /\ holder[Ev(c)] = c /\ loc[Ev(c)] # "settled"
      BY <2>1, <2>3 DEF Custody, TypeOK, InHand, Delivery
    <3>2. ~Done(Ev(c))
      BY <2>1, <3>1 DEF Done
    <3>3. ASSUME NEW d \in Events, d = Ev(c) PROVE Done(d)'
      BY <2>3, <3>1, <3>3 DEF Done, TypeOK
    <3>4. ASSUME NEW d \in Events, d # Ev(c) PROVE dlq'[d] = dlq[d] /\ (Done(d) => Done(d)')
      BY <2>1, <2>3, <3>4 DEF Done, TypeOK
    <3>5. dlq'[Ev(c)] = dlq[Ev(c)] + 1
      BY <2>3, <3>1 DEF TypeOK
    <3>6. c \in Leaving' <=> c \in Leaving
      BY <2>1 DEF Leaving
    <3>7. ASSUME NEW d \in Events
          PROVE  dlq'[d] + One(c \in Leaving') + faults + One(Done(d))
                   <= dlq[d] + One(c \in Leaving) + faults' + One(Done(d)')
      <4>1. One(c \in Leaving') = One(c \in Leaving) /\ One(c \in Leaving) \in Nat
        BY <3>6 DEF One
      <4>2. faults' = faults
        BY <1>1, <2>3
      <4>3. dlq'[d] + One(Done(d)) <= dlq[d] + One(Done(d)')
        <5>1. CASE d = Ev(c)
          <6>1. One(Done(d)) = 0 /\ One(Done(d)') = 1 /\ dlq'[d] = dlq[d] + 1
            BY <3>2, <3>3, <3>5, <5>1 DEF One
          <6>2. QED
            BY <1>1, <6>1
        <5>2. CASE d # Ev(c)
          <6>1. One(Done(d)) <= One(Done(d)') /\ dlq'[d] = dlq[d]
            BY <3>4, <5>2 DEF One
          <6>2. QED
            BY <1>1, <6>1 DEF One
        <5>3. QED
          BY <5>1, <5>2
      <4> DEFINE a == One(c \in Leaving)
                 u == One(Done(d))
                 v == One(Done(d)')
      <4>4. a \in Nat /\ u \in Nat /\ v \in Nat
        BY DEF One
      <4>5. dlq'[d] + u <= dlq[d] + v
        BY <4>3
      <4>6. One(c \in Leaving') = a
        BY <4>1
      <4> HIDE DEF a, u, v
      <4>7. dlq'[d] + a + faults + u <= dlq[d] + a + faults + v
        BY <1>1, <4>4, <4>5
      <4>8. QED
        BY <4>2, <4>6, <4>7 DEF a, u, v
    <3>8. QED
      BY <2>1, <3>7, DeadStep
  <2>4. QED
    BY <1>9, <2>2, <2>3 DEF Park, Goto
<1>10. ASSUME NEW c \in Consumers, Return(c) PROVE Dead'
  <2>1. /\ pc[c] = "idle" /\ \A k \in Consumers \ {c} : pc'[k] = pc[k]
        /\ UNCHANGED <<loc, holder, dlq, cur, chan, ctxDone, budget>>
    BY <1>10 DEF Return, Goto, TypeOK, broker
  <2>2. \A d \in Events : Done(d) => Done(d)'
    BY <2>1 DEF Done
  <2>3. QED
    BY <1>2, <2>1, <2>2
<1>11. ASSUME NEW c \in Consumers, Start(c) \/ Signal(c) PROVE Dead'
  <2>1. /\ pc[c] # "ack" \/ pc'[c] = pc[c]
        /\ \A k \in Consumers \ {c} :
             pc'[k] = pc[k] /\ chan'[k] = chan[k] /\ ctxDone'[k] = ctxDone[k]
        /\ UNCHANGED <<loc, holder, dlq, cur>>
    BY <1>11 DEF Start, Signal, Goto, TypeOK, broker
  <2>2. /\ c \notin Leaving
        /\ SpendFault \/ (UNCHANGED budget /\ c \notin Leaving')
    BY <1>11 DEF Start, Signal, Custody, Leaving, TypeOK
  <2>3. ASSUME NEW d \in Events
        PROVE  dlq'[d] + One(c \in Leaving') + faults + One(Done(d))
                 <= dlq[d] + One(c \in Leaving) + faults' + One(Done(d)')
    <3>1. Done(d) => Done(d)'
      BY <2>1 DEF Done
    <3>2. One(Done(d)) <= One(Done(d)') /\ One(Done(d)) \in Nat /\ One(Done(d)') \in Nat
      BY <3>1 DEF One
    <3>3. /\ One(c \in Leaving) = 0 /\ One(c \in Leaving') \in {0, 1}
          /\ c \notin Leaving' => One(c \in Leaving') = 0
      BY <2>2 DEF One
    <3>4. QED
      BY <1>1, <2>1, <2>2, <3>2, <3>3
  <2>4. QED
    BY <2>1, <2>3, DeadStep
\* Whoever loses what it holds was told to stop, or is disturbed now.
<1>12. ASSUME NEW c \in Consumers, LoseChannel(c) \/ End(c) PROVE Dead'
  <2>1. /\ \A k \in Consumers \ {c} :
             pc'[k] = pc[k] /\ cur'[k] = cur[k] /\ chan'[k] = chan[k] /\ ctxDone'[k] = ctxDone[k]
        /\ UNCHANGED dlq /\ Requeue(c) /\ ~chan'[c]
        /\ UNCHANGED budget => ctxDone[c] /\ (c \notin Leaving => ~chan[c])
        /\ SpendFault \/ UNCHANGED budget
    BY <1>12, <1>1 DEF LoseChannel, End, Goto, TypeOK, Leaving
  <2>2. ASSUME NEW d \in Events, holder[d] # c PROVE Done(d) => Done(d)'
    BY <2>1, <2>2 DEF Done, Requeue, TypeOK
  <2>3. c \notin Leaving' /\ (~chan[c] => \A d \in Events : holder[d] # c)
    BY <2>1 DEF Leaving, Custody, TypeOK
  <2>4. ASSUME NEW d \in Events
        PROVE  dlq'[d] + One(c \in Leaving') + faults + One(Done(d))
                 <= dlq[d] + One(c \in Leaving) + faults' + One(Done(d)')
    <3>1. /\ One(Done(d)) \in {0, 1} /\ One(Done(d)') \in {0, 1}
          /\ holder[d] # c => One(Done(d)) <= One(Done(d)')
      BY <2>2 DEF One
    <3>2. /\ One(c \in Leaving') = 0 /\ One(c \in Leaving) \in Nat
          /\ c \in Leaving => One(c \in Leaving) = 1
      BY <2>3 DEF One
    <3>3. QED
      BY <1>1, <2>1, <2>3, <3>1, <3>2
  <2>5. QED
    BY <2>1, <2>4, DeadStep
<1>13. CASE UNCHANGED vars
  BY <1>2, <1>3, <1>13 DEF vars, broker, process, budget
<1>14. QED
  BY <1>4, <1>5, <1>6, <1>8, <1>9, <1>10, <1>11, <1>12, <1>13 DEF Next, Loop

\* A duplicate e-mail costs a disturbance of its own that struck before the row was written, a
\* duplicate DLQ copy any disturbance, for any replicas, prefetch window and retry limit.
THEOREM DuplicatesArePaid == Spec => []DuplicatesCostFaults
<1> DEFINE Account == Alone /\ Dead /\ \A e \in Events : Paid(e)
<1>1. Init => Account
  BY AloneInit, DeadInit, PaidInit
<1>2. TypeOK /\ TypeOK' /\ Custody /\ Account /\ [Next]_vars => Account'
  BY AloneNext, DeadNext, PaidNext
<1>3. TypeOK /\ Account => DuplicatesCostFaults
  <2>1. SUFFICES ASSUME TypeOK, Account, NEW e \in Events
                 PROVE  mails[e] <= 1 + early[e] /\ dlq[e] <= 1 + faults
    BY DEF DuplicatesCostFaults
  <2>2. mails[e] \in Nat /\ early[e] \in Nat /\ dlq[e] \in Nat /\ faults \in Nat
    BY <2>1 DEF TypeOK
  <2>3. One(Done(e)) \in {0, 1} /\ One(\E c \in Consumers : Recording(c, e)) \in {0, 1}
    BY DEF One
  <2>4. mails[e] <= 1 + early[e]
    <3>1. CASE row[e] = "none"
      <4>1. Cardinality(CutOff(e)) \in Nat
        BY <3>1, <2>1, FS_CardinalityType DEF Paid
      <4>2. mails[e] + Cardinality(CutOff(e))
              <= early[e] + One(\E c \in Consumers : Recording(c, e))
        BY <2>1, <3>1 DEF Paid
      <4> DEFINE n == Cardinality(CutOff(e))
                 r == One(\E c \in Consumers : Recording(c, e))
      <4>3. n \in Nat /\ r \in {0, 1} /\ mails[e] + n <= early[e] + r
        BY <2>3, <4>1, <4>2
      <4> HIDE DEF n, r
      <4>4. QED
        BY <2>2, <4>3
    <3>2. CASE row[e] # "none"
      <4>1. Cardinality(Sending(e)) \in Nat
        BY <3>2, <2>1, FS_CardinalityType DEF Paid
      <4>2. mails[e] + Cardinality(Sending(e)) <= early[e] + 1
        BY <2>1, <3>2 DEF Paid
      <4>3. QED
        BY <2>2, <4>1, <4>2
    <3>3. QED
      BY <3>1, <3>2
  <2>5. dlq[e] <= 1 + faults
    <3>1. Cardinality(Leaving) \in Nat
      BY <2>1, FS_CardinalityType DEF Dead
    <3>2. dlq[e] + Cardinality(Leaving) <= faults + One(Done(e))
      BY <2>1 DEF Dead
    <3>3. QED
      BY <2>2, <2>3, <3>1, <3>2
  <2>6. QED
    BY <2>4, <2>5
<1>4. QED
  <2> HIDE DEF Account
  <2> QED
    BY <1>1, <1>2, <1>3, TypeCorrect, CustodyHolds, PTL DEF Spec

(***************************************************************************)
(* The consumer implements the ledger.                                     *)
(***************************************************************************)

\* Updating the place of one message updates what the ledger sees of that one.
LEMMA SeenUpdate ==
  ASSUME NEW f, NEW g, NEW e \in Events, NEW v,
         f = [k \in Events |-> f[k]], g = [k \in Events |-> g[k]],
         \A k \in Events : g[k] = IF k = e THEN v ELSE f[k]
  PROVE  g = [f EXCEPT ![e] = v]
OBVIOUS

LEMMA LedgerInit == Init => Ledger!Init
BY DEF Init, Ledger!Init

LEMMA LedgerNext ==
  TypeOK /\ Custody /\ Accounting /\ [Next]_vars => [Ledger!Next]_(Ledger!ledger)
<1> SUFFICES ASSUME TypeOK, Custody, Accounting, [Next]_vars
             PROVE  [Ledger!Next]_(Ledger!ledger)
  OBVIOUS
<1> USE DEF TypeOK, Custody, InHand, PCs, Handling, Delivery, broker, effects, process,
            Goto, Ev, Ledger!ledger
<1>1. ASSUME NEW e \in Events, Publish(e) PROVE Ledger!Next
  <2>1. loc[e] = "unpublished" /\ loc' = [loc EXCEPT ![e] = "main"]
    BY <1>1 DEF Publish
  <2> DEFINE f == [k \in Events |->
                    IF loc[k] = "unpublished" THEN "unpublished"
                    ELSE IF loc[k] = "settled" THEN "closed" ELSE "open"]
             g == [k \in Events |->
                    IF loc'[k] = "unpublished" THEN "unpublished"
                    ELSE IF loc'[k] = "settled" THEN "closed" ELSE "open"]
  <2>2. \A k \in Events : g[k] = IF k = e THEN "open" ELSE f[k]
    BY <2>1
  <2>3. g = [f EXCEPT ![e] = "open"]
    <3>1. f = [k \in Events |-> f[k]] /\ g = [k \in Events |-> g[k]]
      OBVIOUS
    <3> HIDE DEF f, g, TypeOK, Custody
    <3>2. QED
      BY <2>2, <3>1, SeenUpdate
  <2>4. f[e] = "unpublished" /\ UNCHANGED <<row, dlq>>
    BY <1>1, <2>1 DEF Publish
  <2>5. Ledger!Open(e)
    BY <2>3, <2>4 DEF Ledger!Open
  <2>6. QED
    BY <2>5 DEF Ledger!Next
<1>2. ASSUME NEW e \in Events, Expire(e) PROVE UNCHANGED Ledger!ledger
  BY <1>2 DEF Expire
<1>3. ASSUME NEW c \in Consumers, NEW e \in Events, Deliver(c, e)
      PROVE  UNCHANGED Ledger!ledger
  BY <1>3 DEF Deliver
<1>4. ASSUME NEW c \in Consumers, Take(c) PROVE UNCHANGED Ledger!ledger
  BY <1>4 DEF Take, HandleUserCreated
<1>5. ASSUME NEW c \in Consumers, Check(c) PROVE UNCHANGED Ledger!ledger
  BY <1>5 DEF Check
<1>6. ASSUME NEW c \in Consumers, Dial(c) PROVE UNCHANGED Ledger!ledger
  BY <1>6 DEF Dial
<1>7. ASSUME NEW c \in Consumers, Submit(c) PROVE UNCHANGED Ledger!ledger
  BY <1>7 DEF Submit
<1>8. ASSUME NEW c \in Consumers, RecordSent(c) PROVE [Ledger!Next]_(Ledger!ledger)
  <2>1. Ev(c) \in Events
    BY <1>8 DEF RecordSent
  <2>2. Ledger!Judge(Ev(c)) \/ UNCHANGED Ledger!ledger
    BY <1>8, <2>1 DEF RecordSent, Insert, Ledger!Judge
  <2>3. QED
    BY <2>1, <2>2 DEF Ledger!Next
<1>9. ASSUME NEW c \in Consumers, Nack(c) PROVE UNCHANGED Ledger!ledger
  BY <1>9 DEF Nack, Answer
<1>10. ASSUME NEW c \in Consumers, RecordFailure(c) PROVE [Ledger!Next]_(Ledger!ledger)
  <2>1. Ev(c) \in Events
    BY <1>10 DEF RecordFailure
  <2>2. Ledger!Judge(Ev(c)) \/ UNCHANGED Ledger!ledger
    BY <1>10, <2>1 DEF RecordFailure, Insert, Ledger!Judge
  <2>3. QED
    BY <2>1, <2>2 DEF Ledger!Next
<1>11. ASSUME NEW c \in Consumers, Park(c) PROVE [Ledger!Next]_(Ledger!ledger)
  <2>1. Ev(c) \in Events
    BY <1>11 DEF Park
  <2>2. Ledger!SetAside(Ev(c)) \/ UNCHANGED Ledger!ledger
    BY <1>11, <2>1 DEF Park, Answer, Ledger!SetAside
  <2>3. QED
    BY <2>1, <2>2 DEF Ledger!Next
<1>12. ASSUME NEW c \in Consumers, Ack(c) PROVE [Ledger!Next]_(Ledger!ledger)
  <2>1. Ev(c) \in Events
    BY <1>12 DEF Ack
  <2>2. ASSUME ~chan[c] PROVE UNCHANGED Ledger!ledger
    BY <1>12, <2>2 DEF Ack, Answer
  <2>3. ASSUME chan[c] PROVE Ledger!Close(Ev(c))
    <3>1. loc' = [loc EXCEPT ![Ev(c)] = "settled"] /\ UNCHANGED <<row, dlq>>
      BY <1>12, <2>3 DEF Ack, Answer
    <3> DEFINE f == [k \in Events |->
                      IF loc[k] = "unpublished" THEN "unpublished"
                      ELSE IF loc[k] = "settled" THEN "closed" ELSE "open"]
               g == [k \in Events |->
                      IF loc'[k] = "unpublished" THEN "unpublished"
                      ELSE IF loc'[k] = "settled" THEN "closed" ELSE "open"]
    <3>2. \A k \in Events : g[k] = IF k = Ev(c) THEN "closed" ELSE f[k]
      BY <2>1, <3>1
    <3>3. g = [f EXCEPT ![Ev(c)] = "closed"]
      <4>1. f = [k \in Events |-> f[k]] /\ g = [k \in Events |-> g[k]]
        OBVIOUS
      <4> HIDE DEF f, g, TypeOK, Custody
      <4>2. QED
        BY <2>1, <3>2, <4>1, SeenUpdate
    <3>4. f[Ev(c)] = "open"
      BY <1>12, <2>1, <2>3 DEF Ack
    <3>5. row[Ev(c)] # "none" \/ dlq[Ev(c)] > 0 \/ Ev(c) \in Undecodable
      BY <1>12 DEF Ack, Accounting, StepsJustified
    <3>6. Ledger!Close(Ev(c))
      BY <3>1, <3>3, <3>4, <3>5 DEF Ledger!Close
    <3>7. QED
      BY <3>6
  <2>4. Ledger!Close(Ev(c)) \/ UNCHANGED Ledger!ledger
    BY <2>2, <2>3
  <2>5. Ledger!Close(Ev(c)) => Ledger!Next
    <3> SUFFICES ASSUME Ledger!Close(Ev(c)) PROVE Ledger!Next
      OBVIOUS
    <3>1. PICK k \in Events : k = Ev(c)
      BY <2>1
    <3>2. Ledger!Close(k)
      BY <3>1 DEF Ledger!Close
    <3>3. QED
      BY <3>2 DEF Ledger!Next
  <2>6. QED
    BY <2>4, <2>5
<1>13. ASSUME NEW c \in Consumers, Return(c) PROVE UNCHANGED Ledger!ledger
  BY <1>13 DEF Return
<1>14. ASSUME NEW c \in Consumers, Start(c) PROVE UNCHANGED Ledger!ledger
  BY <1>14 DEF Start
<1>15. ASSUME NEW c \in Consumers, Signal(c) PROVE UNCHANGED Ledger!ledger
  BY <1>15 DEF Signal
<1>16. ASSUME NEW c \in Consumers, LoseChannel(c) PROVE UNCHANGED Ledger!ledger
  BY <1>16 DEF LoseChannel, Requeue
<1>17. ASSUME NEW c \in Consumers, End(c) PROVE UNCHANGED Ledger!ledger
  BY <1>17 DEF End, Requeue
<1>18. CASE UNCHANGED vars
  BY <1>18 DEF vars
<1>19. QED
  BY <1>1, <1>2, <1>3, <1>4, <1>5, <1>6, <1>7, <1>8, <1>9, <1>10, <1>11, <1>12, <1>13, <1>14, <1>15, <1>16, <1>17, <1>18
     DEF Next, Loop

\* Every behaviour of the consumer is one the ledger allows.
THEOREM LedgerImplemented == Spec => ImplementsLedger
<1>1. QED
  BY TypeCorrect, CustodyHolds, AccountingHolds, LedgerInit, LedgerNext, PTL
  DEF Spec, ImplementsLedger, Ledger!Spec
=============================================================================
