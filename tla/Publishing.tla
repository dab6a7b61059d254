----------------------------- MODULE Publishing -----------------------------
(***************************************************************************)
(* How a user.created event gets from the user service into the queue of   *)
(* the notification service: the publisher in confirm mode                 *)
(* (pkg/messaging/rabbitmq/publisher.go, services/user/internal/platform/  *)
(* messaging/publisher.go), the declarations each service makes at startup *)
(* (topology.go) in the order it makes them, and the broker that routes by *)
(* the bindings it has at that moment.  Declarations are durable: they     *)
(* outlive the processes.  The two services start, stop and restart        *)
(* independently; the user service's graceful shutdown (cmd/api/main.go)   *)
(* drains its servers before it closes the connection its handlers publish *)
(* on.  MaxFaults bounds the disturbances.                                 *)
(***************************************************************************)
EXTENDS Naturals, Sequences

CONSTANTS
  Events,    \* one Publish call each
  Rpcs,      \* those made for gRPC calls; the others are made for HTTP requests
  MaxFaults  \* bound on disturbances in a behaviour

ASSUME FaultsAssumption == MaxFaults \in Nat
ASSUME RpcsAssumption == Rpcs \subseteq Events

\* DeclareConsumerTopology, declaration by declaration.
Topology == <<"exchange", "retryExchange", "queue", "binding",
              "retryQueue", "retryBinding", "dlq">>
Declarations == {Topology[i] : i \in DOMAIN Topology}

VARIABLES
  declared,  \* what exists in the broker
  user,      \* the user service: "down", "up" or "draining"
  late,      \* its 15 seconds for draining are over
  conn,      \* its AMQP connection is open (it is dialled once, at startup)
  notif,     \* the notification service: "down", "declaring" or "consuming"
  next,      \* the declaration it makes next
  call,      \* each request and its Publish call: "none", "serving" before the call,
             \* "waiting", "ok", "error", or "cut" short once the 15 seconds are over
  message,   \* its message: "none", "wire", "queued" or "dropped"
  bound,     \* the queue was bound when the call began (history)
  faults

publisher == <<user, late, conn, call, message, bound>>
consumer == <<notif, next>>
vars == <<declared, publisher, consumer, faults>>

TypeOK ==
  /\ declared \subseteq Declarations
  /\ user \in {"down", "up", "draining"} /\ late \in BOOLEAN /\ conn \in BOOLEAN
  /\ notif \in {"down", "declaring", "consuming"}
  /\ next \in 1..Len(Topology) + 1
  /\ call \in [Events -> {"none", "serving", "waiting", "ok", "error", "cut"}]
  /\ message \in [Events -> {"none", "wire", "queued", "dropped"}]
  /\ bound \in [Events -> BOOLEAN]
  /\ faults \in 0..MaxFaults

Init ==
  /\ declared = {}
  /\ user = "down" /\ late = FALSE /\ conn = FALSE
  /\ notif = "down" /\ next = 1
  /\ call = [e \in Events |-> "none"]
  /\ message = [e \in Events |-> "none"]
  /\ bound = [e \in Events |-> FALSE]
  /\ faults = 0

SpendFault == faults < MaxFaults /\ faults' = faults + 1

-----------------------------------------------------------------------------
(* The user service.                                                       *)

\* main: Dial, NewPublisher (confirm mode), DeclareExchange.  Any error there
\* ends the process, which changes nothing.
UserStart ==
  /\ user = "down"
  /\ user' = "up" /\ conn' = TRUE
  /\ declared' = declared \cup {"exchange"}
  /\ UNCHANGED <<late, call, message, bound, consumer, faults>>

\* A request that will publish is accepted by the HTTP or the gRPC server.
Accept(e) ==
  /\ user = "up" /\ call[e] = "none"
  /\ call' = [call EXCEPT ![e] = "serving"]
  /\ UNCHANGED <<declared, user, late, conn, message, bound, consumer, faults>>

\* Plausible bug: Publish returns once the frame is written.
PublishUnconfirmed(e) ==
  /\ call[e] = "serving"
  /\ bound' = [bound EXCEPT ![e] = "binding" \in declared]
  /\ call' = [call EXCEPT ![e] = IF conn THEN "ok" ELSE "error"]
  /\ message' = [message EXCEPT ![e] = IF conn THEN "wire" ELSE "none"]
  /\ UNCHANGED <<declared, user, late, conn, consumer, faults>>

\* Plausible bug: the error of the publish is dropped and its confirmation awaited.
PublishUnchecked(e) ==
  /\ call[e] = "serving"
  /\ bound' = [bound EXCEPT ![e] = "binding" \in declared]
  /\ call' = [call EXCEPT ![e] = "waiting"]
  /\ message' = [message EXCEPT ![e] = IF conn THEN "wire" ELSE "none"]
  /\ UNCHANGED <<declared, user, late, conn, consumer, faults>>

\* The message leaves on the channel and the call waits for the confirmation;
\* without a connection the call fails at once.
Publish(e) ==
  /\ call[e] = "serving"
  /\ bound' = [bound EXCEPT ![e] = "binding" \in declared]
  /\ call' = [call EXCEPT ![e] = IF conn THEN "waiting" ELSE "error"]
  /\ message' = [message EXCEPT ![e] = IF conn THEN "wire" ELSE "none"]
  /\ UNCHANGED <<declared, user, late, conn, consumer, faults>>

\* The broker confirms what it routed and what it could not route alike:
\* mandatory is false, so an unroutable message is confirmed and discarded.
Confirm(e) ==
  /\ conn /\ call[e] = "waiting" /\ message[e] \in {"queued", "dropped"}
  /\ call' = [call EXCEPT ![e] = "ok"]
  /\ UNCHANGED <<declared, user, late, conn, message, bound, consumer, faults>>

\* Plausible bug: a nack becomes a result the callers do not know.
RefuseUnknown(e) ==
  /\ call[e] = "waiting" /\ message[e] = "wire" /\ SpendFault
  /\ call' = [call EXCEPT ![e] = "nacked"]
  /\ message' = [message EXCEPT ![e] = "none"]
  /\ UNCHANGED <<declared, user, late, conn, bound, consumer>>

\* The broker refuses the message with a nack.
Refuse(e) ==
  /\ call[e] = "waiting" /\ message[e] = "wire" /\ SpendFault
  /\ call' = [call EXCEPT ![e] = "error"]
  /\ message' = [message EXCEPT ![e] = "none"]
  /\ UNCHANGED <<declared, user, late, conn, bound, consumer>>

\* WaitContext: the request's context ends first; the message goes its way.
GiveUp(e) ==
  /\ call[e] = "waiting" /\ SpendFault
  /\ call' = [call EXCEPT ![e] = "error"]
  /\ UNCHANGED <<declared, user, late, conn, message, bound, consumer>>

\* The request is still being served.
Open(e) == call[e] \in {"serving", "waiting"}

\* What becomes of the frames in flight when a connection goes down: each was
\* received by the broker, or was not.
InFlightLost ==
  \E lost \in SUBSET {e \in Events : message[e] = "wire"} :
    message' = [e \in Events |-> IF e \in lost THEN "none" ELSE message[e]]

\* The connection closes; every outstanding confirmation turns negative.
LoseConnection ==
  /\ conn /\ SpendFault
  /\ conn' = FALSE
  /\ call' = [e \in Events |-> IF call[e] = "waiting" THEN "error" ELSE call[e]]
  /\ InFlightLost
  /\ UNCHANGED <<declared, user, late, bound, consumer>>

\* A crash: the callers are gone with the process.
UserCrash ==
  /\ user # "down" /\ SpendFault
  /\ user' = "down" /\ late' = FALSE /\ conn' = FALSE
  /\ call' = [e \in Events |-> IF Open(e) THEN "error" ELSE call[e]]
  /\ InFlightLost
  /\ UNCHANGED <<declared, bound, consumer>>

\* SIGTERM: both servers stop accepting and wait for what they serve.
Signal ==
  /\ user = "up" /\ user' = "draining"
  /\ UNCHANGED <<declared, late, conn, call, message, bound, consumer, faults>>

\* The context of the shutdown ends: Shutdown returns, whatever HTTP still serves, and
\* Stop cancels what gRPC still serves.
TimeUp ==
  /\ user = "draining" /\ ~late
  /\ late' = TRUE
  /\ UNCHANGED <<declared, user, conn, call, message, bound, consumer, faults>>

\* A gRPC call notices that it was cancelled: in a query before it publishes, or in
\* WaitContext.  What it has written goes its way.
Cancelled(e) ==
  /\ late /\ e \in Rpcs /\ Open(e)
  /\ call' = [call EXCEPT ![e] = "cut"]
  /\ UNCHANGED <<declared, user, late, conn, message, bound, consumer, faults>>

\* Plausible bug: the drain of the HTTP server has no time limit.
UserExitPatient ==
  /\ user = "draining" /\ \A e \in Events : ~Open(e)
  /\ user' = "down" /\ late' = FALSE /\ conn' = FALSE
  /\ UNCHANGED <<declared, call, message, bound, consumer, faults>>

\* Plausible bug: the connection is closed next to the drains, not after them.
UserExitAtOnce ==
  /\ user = "draining"
  /\ user' = "down" /\ late' = FALSE /\ conn' = FALSE
  /\ call' = [e \in Events |-> IF Open(e) THEN "error" ELSE call[e]]
  /\ UNCHANGED <<declared, message, bound, consumer, faults>>

\* Both drains are over, the HTTP server's by the end of its time if need be: GracefulStop
\* waits for the handlers of gRPC even after Stop.  Then the connection is closed and
\* the process exits.  What was written to the connection before still arrives.
UserExit ==
  /\ user = "draining" /\ \A e \in Events : Open(e) => late /\ e \notin Rpcs
  /\ user' = "down" /\ late' = FALSE /\ conn' = FALSE
  /\ call' = [e \in Events |-> IF Open(e) THEN "cut" ELSE call[e]]
  /\ UNCHANGED <<declared, message, bound, consumer, faults>>

-----------------------------------------------------------------------------
(* The broker and the notification service.                                *)

Route(e) ==
  /\ message[e] = "wire"
  /\ message' = [message EXCEPT ![e] =
                   IF "binding" \in declared THEN "queued" ELSE "dropped"]
  /\ UNCHANGED <<declared, user, late, conn, call, bound, consumer, faults>>

NotifStart ==
  /\ notif = "down"
  /\ notif' = "declaring" /\ next' = 1
  /\ UNCHANGED <<declared, publisher, faults>>

\* One more declaration; repeating one is harmless.
Declare ==
  /\ notif = "declaring" /\ next <= Len(Topology)
  /\ declared' = declared \cup {Topology[next]}
  /\ next' = next + 1
  /\ UNCHANGED <<publisher, notif, faults>>

Consume ==
  /\ notif = "declaring" /\ next > Len(Topology)
  /\ notif' = "consuming"
  /\ UNCHANGED <<declared, publisher, next, faults>>

\* A failed declaration ends the process, and so does anything later.
NotifEnd ==
  /\ notif # "down" /\ SpendFault
  /\ notif' = "down" /\ next' = 1
  /\ UNCHANGED <<declared, publisher>>

Next ==
  \/ UserStart \/ LoseConnection \/ UserCrash \/ Signal \/ TimeUp \/ UserExit
  \/ \E e \in Events : Accept(e) \/ Publish(e) \/ Confirm(e) \/ Refuse(e) \/ GiveUp(e)
  \/ \E e \in Events : Cancelled(e) \/ Route(e)
  \/ NotifStart \/ Declare \/ Consume \/ NotifEnd

Spec == Init /\ [][Next]_vars

\* The broker routes what it received and its confirmations arrive; the timer of a
\* shutdown fires, WaitContext watches its context and main goes on to its end.  A handler
\* may hang before it waits for its confirmation: nothing bounds the write of a frame.
Fairness ==
  /\ \A e \in Events : WF_vars(Route(e)) /\ WF_vars(Confirm(e))
  /\ \A e \in Events : WF_vars(call[e] = "waiting" /\ Cancelled(e))
  /\ WF_vars(TimeUp) /\ WF_vars(UserExit)

FairSpec == Spec /\ Fairness

-----------------------------------------------------------------------------
(* Properties.                                                             *)

\* publisher.go: "Publish only returns success once the broker has actually
\* accepted the message": a nil error is never given for a message that is still in
\* flight or lost with a connection.  Once the queue is bound it stays bound, through
\* every restart of either side, so the message is in it unless the call began before.
SuccessWasTaken ==
  \A e \in Events : call[e] = "ok" => message[e] = "queued" \/ (message[e] = "dropped" /\ ~bound[e])

\* A publish returns: the broker answers, the context ends or the channel closes.
EveryCallReturns == \A e \in Events : call[e] = "waiting" ~> call[e] # "waiting"

\* A graceful shutdown costs no event: a request accepted before it publishes and
\* hears its confirmation, unless something failed or its 15 seconds were not enough.
OnlyFaultsFail == faults = 0 => \A e \in Events : call[e] # "error"

\* Once told to stop the process ends, in spite of HTTP requests that hang and of RPCs whose
\* confirmation never comes, unless an RPC hangs before it waits for one: main.go's
\* forced stop cannot end that one, "a slow/stuck in-flight RPC" though it is there for.
ShutdownEnds ==
  (\A e \in Rpcs : []<>(call[e] # "serving")) => (user = "draining" ~> user = "down")

\* messaging.md: publisher and consumer both declare the topology, "so neither has
\* to assume the other started first": a publish that succeeded is in the queue
\* whichever started first.
StartOrderIsFree == \A e \in Events : call[e] = "ok" => message[e] = "queued"
=============================================================================
