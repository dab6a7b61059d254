------------------------------ MODULE Delivery ------------------------------
(***************************************************************************)
(* Registration and what comes of it: the auth and the user service of     *)
(* module Registration, and behind them the notification service as        *)
(* EventLedger promises it (module Consumer implements that).  The event   *)
(* of a user goes by the user's id; taking it is the step in which the     *)
(* broker takes it from Users and the one in which the ledger opens it, or *)
(* in which it is lost because no notification service ever started.       *)
(***************************************************************************)
EXTENDS Registration

CONSTANT MaxCopies   \* bound on the copies of an event in the dead-letter queue

VARIABLES
  state, verdict, parked,   \* the ledger
  consumer,   \* the notification service: "never" started, "working" or "away"
  lost        \* events the broker took and discarded

Ledger == INSTANCE EventLedger WITH Events <- User!Ids, Undecodable <- {}

ledger == <<state, verdict, parked>>
notification == <<ledger, consumer, lost>>

\* The envelope PublishUserCreated builds is decodable.  It reaches the queue once a
\* notification service has declared and bound that; before, the broker discards it.
Announce ==
  IF events' = events THEN UNCHANGED <<ledger, lost>>
  ELSE \E e \in User!Ids :
         /\ events'[e] > events[e]
         /\ IF consumer = "never" THEN lost' = lost \cup {e} /\ UNCHANGED ledger
            ELSE Ledger!Open(e) /\ UNCHANGED lost

\* A notification service starts, declares the queue and consumes.
Attend ==
  /\ consumer # "working" /\ consumer' = "working"
  /\ UNCHANGED <<vars, ledger, lost>>

\* Every replica is down, has lost its channel, or hangs in a handler.
Abandon ==
  /\ consumer = "working" /\ consumer' = "away"
  /\ UNCHANGED <<vars, ledger, lost>>

\* The notification service.  A handler cut off from the broker may still judge.
Settle(e) ==
  /\ \/ Ledger!Judge(e)
     \/ consumer = "working" /\ parked[e] < MaxCopies /\ Ledger!SetAside(e)
     \/ consumer = "working" /\ Ledger!Close(e)
  /\ UNCHANGED <<vars, consumer, lost>>

DeliveryInit == Init /\ Ledger!Init /\ consumer = "never" /\ lost = {}

DeliveryNext ==
  \/ Next /\ Announce /\ UNCHANGED consumer
  \/ \E e \in User!Ids : Settle(e)
  \/ Attend \/ Abandon

\* EventuallySettled of module Consumer, premises included: a notification service that
\* keeps working does not leave an event open.  Nothing makes it start or stay.
DeliverySpec ==
  /\ DeliveryInit /\ [][DeliveryNext]_<<vars, notification>>
  /\ Fairness
  /\ \A e \in User!Ids : WF_ledger(consumer = "working" /\ Settle(e))

-----------------------------------------------------------------------------
(* Properties.                                                             *)

\* If the notification service works from some moment on, whoever is told 201 is dealt
\* with by it, by an e-mail, a failed row or a dead letter, unless something failed or
\* the event was published before the service ever ran; a deadline never silences the
\* event of a registration reported as done.
RegisteredIsSettled ==
  <>[](consumer = "working") =>
    \A r \in Requests :
      reply[r] = 201 ~> faults > 0 \/ id[r] \in lost \/ state[id[r]] = "closed"
=============================================================================
