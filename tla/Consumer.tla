------------------------------ MODULE Consumer ------------------------------
(***************************************************************************)
(* The notification service's consumer of user.created: the delivery loop  *)
(* and its retry/DLQ decisions (pkg/messaging/rabbitmq/consumer.go), the   *)
(* handler it runs (services/notification/internal/notification/service.go *)
(* over repository.go and pkg/mailer/smtp.go), the queues the topology     *)
(* declares (topology.go) and the process around them                      *)
(* (services/notification/cmd/api/main.go), with several replicas.         *)
(*                                                                         *)
(* Abstracted: message bodies to which of the two decodings fails, ids to  *)
(* the event, the RabbitMQ channel of a process to open or closed, SMTP to *)
(* "dial" and "submit".  Disturbances of the environment (a database       *)
(* error, a lost acknowledgement of a committed write, a broken channel, a *)
(* signal, a crash) spend from a budget of MaxFaults; an SMTP refusal, and *)
(* every failure a cancelled context causes, is free.                      *)
(***************************************************************************)
EXTENDS Naturals, FiniteSets

CONSTANTS
  Events,       \* the envelopes published in a behaviour
  Undecodable,  \* those whose body is not an Envelope
  BadPayload,   \* those whose payload is not a UserCreatedPayload
  Consumers,    \* notification processes (one channel, one loop each)
  MaxRetries,   \* NOTIFICATION_CONSUMER_MAX_RETRIES
  Prefetch,     \* the channel's Qos
  MaxFaults,    \* bound on disturbances in a behaviour
  None

ASSUME BodiesAssumption == Undecodable \subseteq Events /\ BadPayload \subseteq Events
ASSUME BoundsAssumption == MaxRetries \in Nat /\ Prefetch \in Nat \ {0} /\ MaxFaults \in Nat
ASSUME NoneAssumption ==
  None \notin Events \cup Consumers \cup [event : Events, deaths : Nat]

VARIABLES
  loc,      \* where the broker keeps the event's message
  holder,   \* the process whose channel holds it unacknowledged
  deaths,   \* x-death count of the retry queue carried by the message
  dlq,      \* copies in the dead-letter queue
  row,      \* the event's row of the notifications table (event_id UNIQUE)
  mails,    \* e-mails the SMTP server accepted for the event
  pc,       \* where each process is in Consume / handle
  cur,      \* the delivery its handler works on
  inbox,    \* deliveries buffered in its deliveries channel
  chan,     \* its AMQP channel is open
  ctxDone,  \* its consumer context is cancelled
  faults,   \* disturbances so far
  early     \* how many of them struck before the event had a row (history)

broker == <<loc, holder, deaths, dlq>>
effects == <<row, mails>>
process == <<pc, cur, inbox, chan, ctxDone>>
budget == <<faults, early>>
vars == <<broker, effects, process, budget>>

Delivery == [event : Events, deaths : Nat]
Handling == {"check", "dial", "submit", "record", "failed", "park", "ack"}
PCs == {"down", "idle", "stopped"} \cup Handling

TypeOK ==
  /\ loc \in [Events -> {"unpublished", "main", "unacked", "retry", "settled"}]
  /\ holder \in [Events -> Consumers \cup {None}]
  /\ deaths \in [Events -> Nat]
  /\ dlq \in [Events -> Nat]
  /\ row \in [Events -> {"none", "sent", "failed"}]
  /\ mails \in [Events -> Nat]
  /\ pc \in [Consumers -> PCs]
  /\ cur \in [Consumers -> Delivery \cup {None}]
  /\ inbox \in [Consumers -> SUBSET Delivery]
  /\ chan \in [Consumers -> BOOLEAN]
  /\ ctxDone \in [Consumers -> BOOLEAN]
  /\ faults \in 0..MaxFaults
  /\ early \in [Events -> Nat]

Init ==
  /\ loc = [e \in Events |-> "unpublished"]
  /\ holder = [e \in Events |-> None]
  /\ deaths = [e \in Events |-> 0]
  /\ dlq = [e \in Events |-> 0]
  /\ row = [e \in Events |-> "none"]
  /\ mails = [e \in Events |-> 0]
  /\ pc = [c \in Consumers |-> "down"]
  /\ cur = [c \in Consumers |-> None]
  /\ inbox = [c \in Consumers |-> {}]
  /\ chan = [c \in Consumers |-> FALSE]
  /\ ctxDone = [c \in Consumers |-> FALSE]
  /\ faults = 0
  /\ early = [e \in Events |-> 0]

-----------------------------------------------------------------------------
(* Disturbances and the ways a call of a handler can fail.                 *)

SpendFault ==
  /\ faults < MaxFaults /\ faults' = faults + 1
  /\ early' = [e \in Events |-> IF row[e] = "none" THEN early[e] + 1 ELSE early[e]]

\* A call that takes ctx fails at once when ctx is cancelled; otherwise its
\* failure is a disturbance.
CallFails(c) ==
  \/ ctxDone[c] /\ UNCHANGED budget
  \/ ~ctxDone[c] /\ SpendFault

Ev(c) == cur[c].event

\* Plausible bug: one retry too many.
ExhaustedLate(c) == cur[c].deaths > MaxRetries

Exhausted(c) == cur[c].deaths >= MaxRetries

Goto(c, label) == pc' = [pc EXCEPT ![c] = label]

-----------------------------------------------------------------------------
(* The broker.                                                             *)

\* A confirmed publish by the user service reaches the bound main queue.
Publish(e) ==
  /\ loc[e] = "unpublished"
  /\ loc' = [loc EXCEPT ![e] = "main"]
  /\ UNCHANGED <<holder, deaths, dlq, effects, process, budget>>

Held(c) == {e \in Events : holder[e] = c}

\* The broker pushes up to Prefetch messages down a channel; the headers the
\* process will read are those of this moment.
Deliver(c, e) ==
  /\ loc[e] = "main" /\ chan[c] /\ Cardinality(Held(c)) < Prefetch
  /\ loc' = [loc EXCEPT ![e] = "unacked"]
  /\ holder' = [holder EXCEPT ![e] = c]
  /\ inbox' = [inbox EXCEPT ![c] = @ \cup {[event |-> e, deaths |-> deaths[e]]}]
  /\ UNCHANGED <<deaths, dlq, effects, pc, cur, chan, ctxDone, budget>>

\* The retry queue's TTL dead-letters the message back to the main queue.
Expire(e) ==
  /\ loc[e] = "retry"
  /\ loc' = [loc EXCEPT ![e] = "main"]
  /\ deaths' = [deaths EXCEPT ![e] = @ + 1]
  /\ UNCHANGED <<holder, dlq, effects, process, budget>>

\* Answering a delivery moves its message, unless the channel that received
\* it is gone: the error is only logged.
Answer(c, place) ==
  IF chan[c]
  THEN /\ loc' = [loc EXCEPT ![Ev(c)] = place]
       /\ holder' = [holder EXCEPT ![Ev(c)] = None]
  ELSE UNCHANGED <<loc, holder>>

\* A closed channel gives everything it holds back to the main queue.
Requeue(c) ==
  /\ loc' = [e \in Events |-> IF holder[e] = c THEN "main" ELSE loc[e]]
  /\ holder' = [e \in Events |-> IF holder[e] = c THEN None ELSE holder[e]]

-----------------------------------------------------------------------------
(* Consume and handle.                                                     *)

\* The handler, called for a decoded envelope: a payload that does not decode is an
\* error before any call.
HandleUserCreated(e) == IF e \in BadPayload THEN "failed" ELSE "check"

\* The loop receives a buffered delivery.  A body that is not an Envelope is
\* dropped with an Ack; a bad payload fails the handler before any call.
\* select may prefer a buffered delivery to a cancelled context, and the
\* client may still hand one over after its channel closed.
Take(c) ==
  /\ pc[c] = "idle"
  /\ \E d \in inbox[c] :
       /\ cur' = [cur EXCEPT ![c] = d]
       /\ inbox' = [inbox EXCEPT ![c] = @ \ {d}]
       /\ Goto(c, IF d.event \in Undecodable THEN "ack" ELSE HandleUserCreated(d.event))
  /\ UNCHANGED <<broker, effects, chan, ctxDone, budget>>

\* Plausible bug: the existence check is dropped.
CheckNothing(c) ==
  /\ pc[c] = "check" /\ Goto(c, "dial")
  /\ UNCHANGED <<broker, effects, cur, inbox, chan, ctxDone, budget>>

\* ExistsByEventID: an event with a row is acknowledged without an e-mail.
Check(c) ==
  /\ pc[c] = "check"
  /\ \/ /\ ~ctxDone[c] /\ UNCHANGED budget
        /\ Goto(c, IF row[Ev(c)] # "none" THEN "ack" ELSE "dial")
     \/ CallFails(c) /\ Goto(c, "failed")
  /\ UNCHANGED <<broker, effects, cur, inbox, chan, ctxDone>>

\* DialContext is the only part of Send that looks at ctx.
Dial(c) ==
  /\ pc[c] = "dial"
  /\ \/ ~ctxDone[c] /\ Goto(c, "submit")
     \/ Goto(c, "failed")
  /\ UNCHANGED <<broker, effects, cur, inbox, chan, ctxDone, budget>>

\* The SMTP dialogue: accepted; refused; or accepted and Send still returns an
\* error (the reply to DATA is lost, or QUIT fails).  The connection has no deadline
\* and nothing watches ctx here: before a mute server it may never return.
Submit(c) ==
  /\ pc[c] = "submit"
  /\ \/ /\ mails' = [mails EXCEPT ![Ev(c)] = @ + 1]
        /\ \/ Goto(c, "record") /\ UNCHANGED budget
           \/ Goto(c, "failed") /\ SpendFault
     \/ Goto(c, "failed") /\ UNCHANGED <<mails, budget>>
  /\ UNCHANGED <<broker, row, cur, inbox, chan, ctxDone>>

\* Plausible bug: a status outside the enumeration.
InsertRetrying(e, status) == row' = [row EXCEPT ![e] = "retrying"]

\* INSERT under UNIQUE(event_id): the first row stays.
Insert(e, status) == row' = [row EXCEPT ![e] = IF @ = "none" THEN status ELSE @]

\* repo.Create(sent): stored, or Conflict, which counts as done; failed; or
\* committed with the answer lost.
RecordSent(c) ==
  /\ pc[c] = "record"
  /\ \/ ~ctxDone[c] /\ Insert(Ev(c), "sent") /\ Goto(c, "ack") /\ UNCHANGED budget
     \/ CallFails(c) /\ Goto(c, "failed") /\ UNCHANGED row
     \/ /\ ~ctxDone[c] /\ row[Ev(c)] = "none" /\ SpendFault
        /\ Insert(Ev(c), "sent") /\ Goto(c, "failed")
  /\ UNCHANGED <<broker, mails, cur, inbox, chan, ctxDone>>

\* Plausible bugs: the failure path returns without answering; it acknowledges; it
\* requeues instead of dead-lettering.
NackAs(c, answer) ==
  /\ pc[c] = "failed" /\ ~Exhausted(c) /\ answer
  /\ Goto(c, "idle")
  /\ cur' = [cur EXCEPT ![c] = None]
  /\ UNCHANGED <<deaths, dlq, effects, inbox, chan, ctxDone, budget>>
NackForgotten(c) == NackAs(c, UNCHANGED <<loc, holder>>)
NackAcking(c) == NackAs(c, Answer(c, "settled"))
NackRequeueing(c) == NackAs(c, Answer(c, "main"))

\* A failed handler with retries left dead-letters to the retry queue.
Nack(c) ==
  /\ pc[c] = "failed" /\ ~Exhausted(c)
  /\ Answer(c, "retry")
  /\ Goto(c, "idle")
  /\ cur' = [cur EXCEPT ![c] = None]
  /\ UNCHANGED <<deaths, dlq, effects, inbox, chan, ctxDone, budget>>

\* Out of retries: onExhausted (RecordFailure) runs first; its error is only
\* logged.
RecordFailure(c) ==
  /\ pc[c] = "failed" /\ Exhausted(c)
  /\ \/ ~ctxDone[c] /\ Insert(Ev(c), "failed") /\ UNCHANGED budget
     \/ CallFails(c) /\ UNCHANGED row
  /\ Goto(c, "park")
  /\ UNCHANGED <<broker, mails, cur, inbox, chan, ctxDone>>

\* Plausible bug: a failed publish to the DLQ is acknowledged all the same.
ParkIgnoringError(c) ==
  /\ pc[c] = "park" /\ Goto(c, "ack")
  /\ \/ chan[c] /\ dlq' = [dlq EXCEPT ![Ev(c)] = @ + 1] /\ UNCHANGED budget
     \/ UNCHANGED dlq /\ IF chan[c] THEN SpendFault ELSE UNCHANGED budget
  /\ UNCHANGED <<loc, holder, deaths, effects, cur, inbox, chan, ctxDone>>

\* Then the copy for the DLQ; if publishing it fails the delivery is requeued.
Park(c) ==
  /\ pc[c] = "park"
  /\ \/ /\ chan[c]
        /\ dlq' = [dlq EXCEPT ![Ev(c)] = @ + 1]
        /\ Goto(c, "ack")
        /\ UNCHANGED <<loc, holder, cur, budget>>
     \/ /\ IF chan[c] THEN SpendFault ELSE UNCHANGED budget
        /\ Answer(c, "main")
        /\ Goto(c, "idle")
        /\ cur' = [cur EXCEPT ![c] = None]
        /\ UNCHANGED dlq
  /\ UNCHANGED <<deaths, effects, inbox, chan, ctxDone>>

Ack(c) ==
  /\ pc[c] = "ack"
  /\ Answer(c, "settled")
  /\ Goto(c, "idle")
  /\ cur' = [cur EXCEPT ![c] = None]
  /\ UNCHANGED <<deaths, dlq, effects, inbox, chan, ctxDone, budget>>

\* Consume returns: ctx is cancelled, or the deliveries channel was closed.
\* Nothing reopens the channel.
Return(c) ==
  /\ pc[c] = "idle" /\ (ctxDone[c] \/ ~chan[c])
  /\ Goto(c, "stopped")
  /\ inbox' = [inbox EXCEPT ![c] = {}]
  /\ UNCHANGED <<broker, effects, cur, chan, ctxDone, budget>>

-----------------------------------------------------------------------------
(* The process around the loop.                                            *)

Start(c) ==
  /\ pc[c] = "down"
  /\ Goto(c, "idle")
  /\ chan' = [chan EXCEPT ![c] = TRUE]
  /\ ctxDone' = [ctxDone EXCEPT ![c] = FALSE]
  /\ UNCHANGED <<broker, effects, cur, inbox, budget>>

\* SIGTERM: cancelConsumer().
Signal(c) ==
  /\ pc[c] # "down" /\ ~ctxDone[c] /\ SpendFault
  /\ ctxDone' = [ctxDone EXCEPT ![c] = TRUE]
  /\ UNCHANGED <<broker, effects, pc, cur, inbox, chan>>

\* The AMQP connection closes: broken while running, or closed by main after
\* the loop returned or after 15 s, with a handler possibly still running.
LoseChannel(c) ==
  /\ pc[c] # "down" /\ chan[c]
  /\ IF ctxDone[c] THEN UNCHANGED budget ELSE SpendFault
  /\ Requeue(c)
  /\ chan' = [chan EXCEPT ![c] = FALSE]
  /\ UNCHANGED <<deaths, dlq, effects, pc, cur, inbox, ctxDone>>

\* The process ends: os.Exit at the end of main, or a crash at any moment.
\* Whatever its handler was doing is forgotten.
End(c) ==
  /\ pc[c] # "down"
  /\ IF ctxDone[c] /\ ~chan[c] THEN UNCHANGED budget ELSE SpendFault
  /\ Requeue(c)
  /\ Goto(c, "down")
  /\ cur' = [cur EXCEPT ![c] = None]
  /\ inbox' = [inbox EXCEPT ![c] = {}]
  /\ chan' = [chan EXCEPT ![c] = FALSE]
  /\ ctxDone' = [ctxDone EXCEPT ![c] = FALSE]
  /\ UNCHANGED <<deaths, dlq, effects>>

\* The steps of the loop but Submit.
Loop(c) ==
  \/ Take(c) \/ Check(c) \/ Dial(c) \/ RecordSent(c)
  \/ Nack(c) \/ RecordFailure(c) \/ Park(c) \/ Ack(c) \/ Return(c)

Next ==
  \/ \E e \in Events : Publish(e) \/ Expire(e)
  \/ \E c \in Consumers, e \in Events : Deliver(c, e)
  \/ \E c \in Consumers : Loop(c) \/ Submit(c)
  \/ \E c \in Consumers : Start(c) \/ Signal(c) \/ LoseChannel(c) \/ End(c)

Spec == Init /\ [][Next]_vars

\* The Go scheduler runs the loop, the database answers, the broker delivers and
\* expires TTLs, and main finishes a shutdown it began (15 s at most, whatever its
\* handler does); nothing forces a publish, a signal, a disturbance, a restart, or the
\* end of an SMTP dialogue.
Fairness ==
  /\ \A c \in Consumers :
       /\ WF_vars(Loop(c))
       /\ WF_vars(ctxDone[c] /\ LoseChannel(c))
       /\ WF_vars(ctxDone[c] /\ ~chan[c] /\ End(c))
  /\ \A e \in Events :
       WF_vars(Expire(e)) /\ WF_vars(\E c \in Consumers : Deliver(c, e))

FairSpec == Spec /\ Fairness

-----------------------------------------------------------------------------
(* Properties.                                                             *)

\* An event leaves the broker only when something accounts for it: a row of the
\* audit table, a copy in the DLQ, or a body nobody could decode.  This is what
\* the order of record, park and Ack in handle, park and HandleUserCreated is
\* for, across crashes, lost channels and replicas.
SettledAccounted ==
  \A e \in Events :
    loc[e] = "settled" => row[e] # "none" \/ dlq[e] > 0 \/ e \in Undecodable

\* A message that still has to be answered is held by a process that is up and
\* has it before it, buffered or in its handler: a message the broker thinks is
\* being worked on is never forgotten by the loop.
HeldIsWorkedOn ==
  \A e \in Events : loc[e] = "unacked" =>
    \E c \in Consumers :
      /\ holder[e] = c /\ chan[c]
      /\ \/ cur[c] # None /\ Ev(c) = e
         \/ \E d \in inbox[c] : d.event = e
         \/ pc[c] = "stopped" /\ ctxDone[c]

\* No event is given up before it went through the retry queue MaxRetries times,
\* and none goes through it more often: x-death is read right, the comparison
\* with maxRetries is strict, and neither a requeue nor a restart loses or
\* inflates the count.
RetryBudget ==
  \A e \in Events :
    /\ deaths[e] <= MaxRetries
    /\ loc[e] = "retry" => deaths[e] < MaxRetries
    /\ dlq[e] > 0 \/ row[e] = "failed" => deaths[e] = MaxRetries

\* A "sent" row is never written without an accepted e-mail.
SentWasMailed == \A e \in Events : row[e] = "sent" => mails[e] > 0

\* "A redelivery of an event that already produced a row is a no-op": a duplicate
\* e-mail costs a disturbance of its own that struck before the row was written,
\* a duplicate DLQ copy any disturbance.  Retries, competing replicas, and for
\* e-mails whatever happens once the row is there, never cause one.
DuplicatesCostFaults ==
  \A e \in Events : mails[e] <= 1 + early[e] /\ dlq[e] <= 1 + faults

\* The audit trail is append-only: the UNIQUE event_id makes the first verdict
\* on an event the final one, whoever else is still handling it.
VerdictIsFinal ==
  [][\A e \in Events : row[e] # "none" => row'[e] = row[e]]_vars

-----------------------------------------------------------------------------
(* The invariants the safety properties rest on.                           *)

\* What a process was given and has not answered.
InHand(c) == inbox[c] \cup ({cur[c]} \ {None})

\* Custody: a message is unacknowledged exactly while an open channel holds it;
\* over an open channel a process answers only messages it holds, each once, with
\* the broker's own retry count; what a cut-off process still has is a stale copy
\* of a published message, whose count can only be behind.
Custody ==
  /\ \A e \in Events :
       /\ loc[e] = "unacked" <=> holder[e] # None
       /\ holder[e] # None => chan[holder[e]]
  /\ \A c \in Consumers :
       /\ pc[c] \in Handling <=> cur[c] # None
       /\ pc[c] = "down" => ~chan[c] /\ inbox[c] = {}
       /\ \A d \in InHand(c) :
            d.deaths <= deaths[d.event] /\ loc[d.event] # "unpublished"
       /\ chan[c] =>
            /\ cur[c] \notin inbox[c]
            /\ \A d \in InHand(c) : holder[d.event] = c /\ d.deaths = deaths[d.event]

-----------------------------------------------------------------------------
(* What the comments promise.                                              *)

\* consumer.go's promise: a permanently failing message "ends up visible in the
\* DLQ", so an event whose failure is on record and that left the main queue
\* has its copy there.
FailureIsParked ==
  \A e \in Events : loc[e] = "settled" /\ row[e] = "failed" => dlq[e] > 0

\* No SMTP dialogue lasts for ever, and from some moment on some replica keeps its
\* channel and its loop.
MailAnswers == \A c \in Consumers : []<>(pc[c] # "submit")
SomeoneStays == \E c \in Consumers : <>[](pc[c] \notin {"down", "stopped"})

\* Every published event is settled, however often SMTP refuses it and whatever the
\* disturbances before, if the two hold: a mute server keeps the one handler of a
\* process for ever, and nothing in the code reopens a channel.
EventuallySettled ==
  MailAnswers /\ SomeoneStays =>
    \A e \in Events : loc[e] # "unpublished" ~> loc[e] = "settled"

\* The abstract account of every event: what is left of the broker's places is
\* whether the event is published and whether it is settled.
Ledger == INSTANCE EventLedger WITH
  state <- [e \in Events |->
              IF loc[e] = "unpublished" THEN "unpublished"
              ELSE IF loc[e] = "settled" THEN "closed" ELSE "open"],
  verdict <- row,
  parked <- dlq

\* The consumer implements the ledger: events close only when accounted for, a
\* verdict is given once, and no event is parked once it was settled, whatever
\* the replicas, retries and failures.
ImplementsLedger == Ledger!Spec
=============================================================================
