---------------------------- MODULE Registration ----------------------------
(***************************************************************************)
(* POST /v1/auth/register end to end: Register of the auth service         *)
(* (services/auth/internal/auth/service.go) over its gRPC client           *)
(* (internal/clients/user/client.go, pkg/grpcmiddleware/timeout.go)        *)
(* composed with the user service of module Users, whose "register"        *)
(* requests are the Create RPCs.  A call that outlives its deadline is     *)
(* answered without it and its context is cancelled on the server, which   *)
(* may be anywhere in Create by then.  An error crosses the wire as a gRPC *)
(* code and comes back as an HTTP status (module Errors).                  *)
(*                                                                         *)
(* A deadline may strike at any time, or whenever the user service hangs.  *)
(* HTTP creations of the user service itself compete with registrations.   *)
(***************************************************************************)
EXTENDS Naturals, FiniteSets, Errors

CONSTANTS Requests, Names, Emails, MaxId, PoolSize, MaxFaults, None

\* What module Users assumes of them.
ASSUME UserAssumption ==
  /\ MaxId \in Nat /\ PoolSize \in Nat \ {0} /\ MaxFaults \in Nat
  /\ IsFiniteSet(Requests)
  /\ None \notin [name : Names, email : Emails]

VARIABLES table, serial, writes, op, id, body, pc, seen, answer, wrote, taken, free, events,
          faults   \* the user service

VARIABLES
  auth,     \* how far Register is: "idle", "exists", "hash", "create", "called", "replied"
  reply,    \* the HTTP status it answered, 0 before
  expired   \* the context of its Create RPC is cancelled

User == INSTANCE Users

userVars == <<table, serial, writes, op, id, body, pc, seen, answer, wrote, taken, free,
              events, faults>>
authVars == <<auth, reply, expired>>
vars == <<userVars, authVars>>

TypeOK ==
  /\ auth \in [Requests -> {"idle", "exists", "hash", "create", "called", "replied"}]
  /\ reply \in [Requests -> {0, 201, 409, 500}]
  /\ expired \in [Requests -> BOOLEAN]

Init ==
  /\ User!Init
  /\ \A r \in Requests : op[r] \in {"register", "create"}
  /\ \A r \in Requests : id[r] = 1   \* carried by neither operation
  /\ auth = [r \in Requests |-> "idle"]
  /\ reply = [r \in Requests |-> 0]
  /\ expired = [r \in Requests |-> FALSE]

-----------------------------------------------------------------------------

Reply(r, status) ==
  /\ auth' = [auth EXCEPT ![r] = "replied"]
  /\ reply' = [reply EXCEPT ![r] = status]

Step(r, label) == auth' = [auth EXCEPT ![r] = label] /\ UNCHANGED reply

-----------------------------------------------------------------------------
(* Register.                                                               *)

Submit(r) ==
  /\ auth[r] = "idle" /\ op[r] = "register"
  /\ Step(r, "exists")
  /\ UNCHANGED <<userVars, expired>>

\* The ExistsByEmail RPC and its answer: taken, free, or the RPC failed.
Exists(r) ==
  /\ auth[r] = "exists"
  /\ \/ /\ IF User!Holds(table, User!Email(r)) THEN Reply(r, HttpStatus("conflict"))
           ELSE Step(r, "hash")
        /\ UNCHANGED userVars
     \/ /\ User!SpendFault /\ Reply(r, HttpStatus(FromGrpc(GrpcCode("internal"))))
        /\ UNCHANGED <<table, serial, writes, op, id, body, pc, seen, answer, wrote, taken,
                       free, events>>
  /\ UNCHANGED expired

\* bcrypt, which refuses passwords over 72 bytes.
Hash(r) ==
  /\ auth[r] = "hash"
  /\ Step(r, "create") \/ Reply(r, HttpStatus("internal"))
  /\ UNCHANGED <<userVars, expired>>

\* The Create RPC reaches the user service.
Call(r) ==
  /\ auth[r] = "create"
  /\ Step(r, "called")
  /\ User!Arrive(r)
  /\ UNCHANGED expired

\* Plausible bug: the error of the RPC is dropped and its empty answer returned.
ReturnUnchecked(r) ==
  /\ auth[r] = "called" /\ pc[r] = "done"
  /\ Reply(r, 201)
  /\ UNCHANGED <<userVars, expired>>

\* Plausible bug: an unknown outcome is reported as a conflict.
ReturnGuessing(r) ==
  /\ auth[r] = "called" /\ pc[r] = "done"
  /\ Reply(r, IF answer[r] = "ok" THEN 201 ELSE 409)
  /\ UNCHANGED <<userVars, expired>>

\* Its answer comes back.
Return(r) ==
  /\ auth[r] = "called" /\ pc[r] = "done"
  /\ Reply(r, IF answer[r] = "ok" THEN 201 ELSE HttpStatus(FromGrpc(GrpcCode(answer[r]))))
  /\ UNCHANGED <<userVars, expired>>

\* Plausible bug: no deadline on the Create RPC.
DeadlineOnlyForReads(r) ==
  /\ auth[r] = "exists"
  /\ Reply(r, HttpStatus(FromGrpc("DeadlineExceeded")))
  /\ expired' = [expired EXCEPT ![r] = TRUE]
  /\ UNCHANGED userVars

\* Timeout: the deadline of the RPC under way passes.
Deadline(r) ==
  /\ auth[r] \in {"exists", "called"}
  /\ Reply(r, HttpStatus(FromGrpc("DeadlineExceeded")))
  /\ expired' = [expired EXCEPT ![r] = TRUE]
  /\ UNCHANGED userVars

-----------------------------------------------------------------------------
(* The user service, and what a cancelled context does to a Create there.  *)

\* The insert is given up, or the publish fails; what was already stored stays.
Cancelled(r) ==
  /\ expired[r]
  /\ \/ pc[r] = "insert" /\ User!Answer(r, "internal")
     \/ pc[r] = "publish" /\ User!Answer(r, "ok")
  /\ UNCHANGED <<table, serial, writes, op, id, body, seen, wrote, taken, free, events,
                 faults, authVars>>

\* Plausible bug: CreateWithPassword inserts without the publish of create.
ServeUnannounced(r) ==
  /\ \/ op[r] = "create" /\ (User!Arrive(r) \/ User!Publish(r))
     \/ User!PreCheck(r) \/ User!Insert(r) \/ User!FailStatement(r)
     \/ /\ op[r] = "register" /\ pc[r] = "publish" /\ User!Answer(r, "ok")
        /\ UNCHANGED <<table, serial, writes, op, id, body, seen, wrote, taken, free,
                       events, faults>>
  /\ UNCHANGED authVars

\* The steps of the user service; its HTTP creations arrive on their own.
Serve(r) ==
  /\ \/ op[r] = "create" /\ User!Arrive(r)
     \/ User!PreCheck(r) \/ User!Insert(r) \/ User!Publish(r)
     \/ User!FailStatement(r)
  /\ UNCHANGED authVars

\* The user service restarts: its clients see the connection fail.
Restart == User!Restart /\ UNCHANGED authVars

Next ==
  \/ \E r \in Requests :
       \/ Submit(r) \/ Exists(r) \/ Hash(r) \/ Call(r) \/ Return(r) \/ Deadline(r)
       \/ Cancelled(r) \/ Serve(r)
  \/ Restart

Spec == Init /\ [][Next]_vars

\* The auth service keeps running and its timers fire; the user service may hang.
Fairness ==
  \A r \in Requests :
    WF_vars(Hash(r) \/ Call(r)) /\ WF_vars(Exists(r) \/ Return(r) \/ Deadline(r))

-----------------------------------------------------------------------------
(* Properties.                                                             *)

\* 201 means that this very request's user, name and password included, is in the
\* table; 409 that it is not.
RegisterTellsTheTruth ==
  \A r \in Requests :
    /\ reply[r] = 201 => wrote[r] /\ table[id[r]] = body[r]
    /\ reply[r] = 409 => ~wrote[r]

\* A client that repeats its registration until it hears 201 or 409 can stop there:
\* the account exists, though a deadline, a lost answer or a restart left the
\* earlier attempts in doubt.
AnyAnswerSettles ==
  \A r \in Requests : reply[r] \in {201, 409} => User!Holds(table, User!Email(r))

\* grpc.md: the deadline is there so that "a hung or slow user service" does not
\* "hang the calling auth request indefinitely": every registration is answered
\* although the user service may stop responding.
EveryRegistrationAnswered ==
  \A r \in Requests : auth[r] # "idle" ~> auth[r] = "replied"
=============================================================================
