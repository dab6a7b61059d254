------------------------------- MODULE Users --------------------------------
(***************************************************************************)
(* The user service: its four writing operations (services/user/internal/  *)
(* user/service.go, called over HTTP by http_handler.go and over gRPC by   *)
(* grpc_server.go) as concurrent requests, statement by statement over the *)
(* users table (repository.go; email is UNIQUE, READ COMMITTED) and the    *)
(* database/sql pool.  A single statement, which gorm wraps in its own     *)
(* transaction, is one step; Update is a transaction of several.           *)
(*                                                                         *)
(* Abstracted: name and e-mail to a member of a small set each, passwords  *)
(* away (no operation changes one), the publisher to whether the broker    *)
(* took the event (module Publishing).  MaxFaults bounds the disturbances: *)
(* a failing statement, an answer lost after the commit, a failed publish, *)
(* a restart of the process.                                               *)
(***************************************************************************)
EXTENDS Naturals, FiniteSets

CONSTANTS
  Requests,   \* requests of a behaviour, each served once
  Names, Emails,
  MaxId,      \* bound on the serial column
  PoolSize,   \* DB_MAX_OPEN_CONNS
  MaxFaults,  \* bound on disturbances in a behaviour
  None

ASSUME SizesAssumption ==
  MaxId \in Nat /\ PoolSize \in Nat \ {0} /\ MaxFaults \in Nat
ASSUME FiniteAssumption == IsFiniteSet(Requests)
ASSUME NoneAssumption == None \notin [name : Names, email : Emails]

Ids == 1..MaxId
User == [name : Names, email : Emails]
Operations == {"create", "register", "update", "delete"}

VARIABLES
  table,    \* the users table
  serial,   \* next value of its id sequence
  writes,   \* writes of each id so far (history)
  op,       \* what each request does
  id,       \* the id in its path, or the one its insert was given
  body,     \* the name and e-mail it carries
  pc,       \* how far it is
  seen,     \* writes[id] when its transaction read the row (history)
  answer,   \* its outcome
  wrote,    \* it changed the table (history)
  taken,    \* another row held its e-mail at some point since it came (history)
  free,     \* idle connections of the pool
  events,   \* user.created messages the broker took, by user id
  faults

store == <<table, serial, writes>>
request == <<op, id, body>>
history == <<seen, wrote, taken>>
vars == <<store, request, history, pc, answer, free, events, faults>>

InTx == {"read", "check", "update"}

TypeOK ==
  /\ table \in [Ids -> User \cup {None}]
  /\ serial \in 1..MaxId + 1
  /\ writes \in [Ids -> Nat]
  /\ op \in [Requests -> Operations]
  /\ id \in [Requests -> Ids]
  /\ body \in [Requests -> User]
  /\ pc \in [Requests -> {"new", "precheck", "insert", "publish", "begin", "delete", "done"}
                         \cup InTx]
  /\ seen \in [Requests -> Nat]
  /\ answer \in [Requests -> {"none", "ok", "conflict", "notfound", "internal"}]
  /\ wrote \in [Requests -> BOOLEAN]
  /\ taken \in [Requests -> BOOLEAN]
  /\ free \in 0..PoolSize
  /\ events \in [Ids -> Nat]
  /\ faults \in 0..MaxFaults

\* The requests that will come are chosen at the start; what an operation does not
\* carry has a fixed value.
Init ==
  /\ table = [i \in Ids |-> None] /\ serial = 1
  /\ writes = [i \in Ids |-> 0]
  /\ op \in [Requests -> Operations]
  /\ id \in [Requests -> Ids]
  /\ body \in [Requests -> User]
  /\ \A r \in Requests :
       /\ op[r] \in {"create", "register"} => id[r] = 1
       /\ op[r] = "delete" => body[r] = CHOOSE u \in User : TRUE
  /\ pc = [r \in Requests |-> "new"]
  /\ seen = [r \in Requests |-> 0]
  /\ answer = [r \in Requests |-> "none"]
  /\ wrote = [r \in Requests |-> FALSE]
  /\ taken = [r \in Requests |-> FALSE]
  /\ free = PoolSize
  /\ events = [i \in Ids |-> 0]
  /\ faults = 0

-----------------------------------------------------------------------------

SpendFault == faults < MaxFaults /\ faults' = faults + 1

Holds(t, email) == \E i \in Ids : t[i] # None /\ t[i].email = email
HeldByOther(i, email) == \E j \in Ids \ {i} : table[j] # None /\ table[j].email = email

Email(r) == body[r].email

\* A row holds the e-mail of the request and is not the one the request is about.
HeldAgainst(t, r) ==
  \E i \in Ids : t[i] # None /\ t[i].email = Email(r) /\ (op[r] = "update" => i # id[r])

Goto(r, label) == pc' = [pc EXCEPT ![r] = label]

\* The request is answered.
Answer(r, outcome) ==
  /\ Goto(r, "done")
  /\ answer' = [answer EXCEPT ![r] = outcome]

\* Plausible bug: the connection is given back by the commit and the rollback.
LeaveTwice(r, outcome) == Answer(r, outcome) /\ free' = free + 2

\* A transaction ends, committed or rolled back, and gives its connection back.
Leave(r, outcome) == Answer(r, outcome) /\ free' = free + 1

\* A statement outside a transaction needs a connection of the pool while it runs.
Statement == free > 0 /\ UNCHANGED free

\* Write one row of the table.
Put(r, i, u) ==
  /\ table' = [table EXCEPT ![i] = u]
  /\ writes' = [writes EXCEPT ![i] = @ + 1]
  /\ wrote' = [wrote EXCEPT ![r] = TRUE]
  /\ taken' = [q \in Requests |-> taken[q] \/ (pc[q] # "new" /\ HeldAgainst(table', q))]

Untouched == UNCHANGED <<store, seen, wrote, taken>>

-----------------------------------------------------------------------------
(* Requests come in through http_handler.go or grpc_server.go.             *)

\* Create's pre-check; the gRPC Create goes straight to the insert.
Arrive(r) ==
  /\ pc[r] = "new"
  /\ Goto(r, CASE op[r] = "create" -> "precheck"
               [] op[r] = "register" -> "insert"
               [] op[r] = "update" -> "begin"
               [] op[r] = "delete" -> "delete")
  /\ taken' = [taken EXCEPT ![r] = HeldAgainst(table, r)]
  /\ UNCHANGED <<store, request, seen, wrote, answer, free, events, faults>>

\* A statement fails and the request is answered 500.
FailStatement(r) ==
  /\ pc[r] \in {"precheck", "insert", "begin", "delete"} /\ Statement /\ SpendFault
  /\ Answer(r, "internal") /\ Untouched
  /\ UNCHANGED <<request, events>>

PreCheck(r) ==
  /\ pc[r] = "precheck" /\ Statement
  /\ IF Holds(table, Email(r)) THEN Answer(r, "conflict")
     ELSE Goto(r, "insert") /\ UNCHANGED answer
  /\ Untouched /\ UNCHANGED <<request, events, faults>>

\* Plausible bug: the constraint is missing and the pre-check stands alone.
NoConstraint(r) == FALSE

\* UNIQUE(email) refuses the row.
Violates(r) == Holds(table, Email(r))

\* INSERT: refused (the serial value is used up all the same), stored, or stored
\* with the answer lost.
Insert(r) ==
  /\ pc[r] = "insert" /\ Statement /\ serial <= MaxId
  /\ serial' = serial + 1
  /\ IF Violates(r)
     THEN /\ Answer(r, "conflict")
          /\ UNCHANGED <<table, writes, id, wrote, taken, faults>>
     ELSE /\ Put(r, serial, body[r])
          /\ id' = [id EXCEPT ![r] = serial]
          /\ \/ Goto(r, "publish") /\ UNCHANGED <<answer, faults>>
             \/ Answer(r, "internal") /\ SpendFault
  /\ UNCHANGED <<op, body, seen, events>>

\* Plausible bug: a publish that reported an error is tried once more.
PublishTwice(r) ==
  /\ pc[r] = "publish"
  /\ \/ events' = [events EXCEPT ![id[r]] = @ + 1] /\ Answer(r, "ok")
     \/ events' = [events EXCEPT ![id[r]] = @ + 2] /\ Answer(r, "ok")
  /\ Untouched /\ UNCHANGED <<request, free, faults>>

\* PublishUserCreated after the commit: its failure is logged, never answered.
Publish(r) ==
  /\ pc[r] = "publish"
  /\ \/ events' = [events EXCEPT ![id[r]] = @ + 1] /\ UNCHANGED faults
     \/ SpendFault /\ UNCHANGED events
  /\ Answer(r, "ok") /\ Untouched
  /\ UNCHANGED <<request, free>>

\* Update runs in WithTx: BEGIN takes a connection until the end.
Begin(r) ==
  /\ pc[r] = "begin" /\ free > 0
  /\ free' = free - 1
  /\ Goto(r, "read")
  /\ Untouched /\ UNCHANGED <<request, answer, events, faults>>

\* A statement of the transaction fails: it is rolled back.
FailInTx(r) ==
  /\ pc[r] \in InTx /\ SpendFault
  /\ Leave(r, "internal") /\ Untouched
  /\ UNCHANGED <<request, events>>

\* Plausible bug: the e-mail is looked up although it does not change.
ReadThenCheck(r) ==
  /\ pc[r] = "read"
  /\ seen' = [seen EXCEPT ![r] = writes[id[r]]]
  /\ IF table[id[r]] = None THEN Leave(r, "notfound")
     ELSE Goto(r, "check") /\ UNCHANGED <<answer, free>>
  /\ UNCHANGED <<store, request, wrote, taken, events, faults>>

Read(r) ==
  /\ pc[r] = "read"
  /\ seen' = [seen EXCEPT ![r] = writes[id[r]]]
  /\ IF table[id[r]] = None THEN Leave(r, "notfound")
     ELSE /\ Goto(r, IF table[id[r]].email = Email(r) THEN "update" ELSE "check")
          /\ UNCHANGED <<answer, free>>
  /\ UNCHANGED <<store, request, wrote, taken, events, faults>>

\* Plausible bug: the check runs on s.repo instead of the transaction's repository
\* and needs a second connection.
CheckOutside(r) ==
  /\ pc[r] = "check" /\ Statement
  /\ Goto(r, "update") /\ Untouched /\ UNCHANGED <<request, answer, events, faults>>

Check(r) ==
  /\ pc[r] = "check"
  /\ IF Holds(table, Email(r)) THEN Leave(r, "conflict")
     ELSE Goto(r, "update") /\ UNCHANGED <<answer, free>>
  /\ Untouched /\ UNCHANGED <<request, events, faults>>

\* Plausible bug: gorm's Save, which inserts the row when it is gone.
UpdateSaving(r) ==
  /\ pc[r] = "update"
  /\ IF HeldByOther(id[r], Email(r))
     THEN Leave(r, "conflict") /\ UNCHANGED <<table, writes, wrote, taken>>
     ELSE Put(r, id[r], body[r]) /\ Leave(r, "ok")
  /\ UNCHANGED <<serial, request, seen, events, faults>>

\* UPDATE ... WHERE id and COMMIT: no row any more, refused by UNIQUE(email),
\* stored, or stored with the answer lost.
Update(r) ==
  /\ pc[r] = "update"
  /\ IF table[id[r]] = None \/ HeldByOther(id[r], Email(r))
     THEN /\ Leave(r, IF table[id[r]] = None THEN "notfound" ELSE "conflict")
          /\ UNCHANGED <<table, writes, wrote, taken, faults>>
     ELSE /\ Put(r, id[r], body[r])
          /\ \/ Leave(r, "ok") /\ UNCHANGED faults
             \/ Leave(r, "internal") /\ SpendFault
  /\ UNCHANGED <<serial, request, seen, events>>

\* Plausible bug: RowsAffected is not looked at.
DeleteBlind(r) ==
  /\ pc[r] = "delete" /\ Statement /\ Answer(r, "ok")
  /\ IF table[id[r]] = None THEN UNCHANGED <<table, writes, wrote, taken>>
     ELSE Put(r, id[r], None)
  /\ UNCHANGED <<serial, request, seen, events, faults>>

Delete(r) ==
  /\ pc[r] = "delete" /\ Statement
  /\ IF table[id[r]] = None
     THEN Answer(r, "notfound") /\ UNCHANGED <<table, writes, wrote, taken, faults>>
     ELSE /\ Put(r, id[r], None)
          /\ \/ Answer(r, "ok") /\ UNCHANGED faults
             \/ Answer(r, "internal") /\ SpendFault
  /\ UNCHANGED <<serial, request, seen, events>>

\* The process restarts: whoever was being served gets no answer from it, open
\* transactions are rolled back, the pool starts afresh.
Restart ==
  /\ SpendFault
  /\ \E r \in Requests : pc[r] \notin {"new", "done"}
  /\ pc' = [r \in Requests |-> IF pc[r] = "new" THEN "new" ELSE "done"]
  /\ answer' = [r \in Requests |->
                  IF pc[r] \in {"new", "done"} THEN answer[r] ELSE "internal"]
  /\ free' = PoolSize
  /\ Untouched /\ UNCHANGED <<request, events>>

Serve(r) ==
  \/ PreCheck(r) \/ Insert(r) \/ Publish(r) \/ Begin(r) \/ Read(r) \/ Check(r)
  \/ Update(r) \/ Delete(r)

Next ==
  \/ \E r \in Requests : Arrive(r) \/ Serve(r) \/ FailStatement(r) \/ FailInTx(r)
  \/ Restart

Spec == Init /\ [][Next]_vars

\* A request that came in is served: database/sql hands connections to waiters in
\* order, and the database answers every statement.
FairSpec == Spec /\ \A r \in Requests : SF_vars(Serve(r))

-----------------------------------------------------------------------------
(* Properties.                                                             *)

\* No two users share an e-mail, through every race of pre-check, insert and
\* update.
UniqueEmails ==
  \A i, j \in Ids : table[i] # None /\ table[j] # None /\ i # j
    => table[i].email # table[j].email

\* The answer says what happened to the table: a success wrote it, a refusal (409,
\* 404) did not, on every path and whatever failed on the way.
AnswersTellTheTruth ==
  \A r \in Requests :
    /\ answer[r] = "ok" => wrote[r]
    /\ answer[r] \in {"conflict", "notfound"} => ~wrote[r]

\* A 409 is only given when another user really held the e-mail at some moment while
\* the request was served.  An update is refused for its own user's e-mail only when
\* somebody else wrote that row after the update read it: ExistsByEmail does not leave
\* the user out, and only the comparison with the row read keeps it from being asked.
ConflictWasReal ==
  \A r \in Requests : answer[r] = "conflict" =>
    taken[r] \/ (op[r] = "update" /\ writes[id[r]] > seen[r])

\* "The event fires exactly once regardless of which API was used": never twice for
\* a user, never for an id that was not inserted, and, when nothing failed, for
\* every user whose creation was answered.
OneEventPerUser ==
  /\ \A i \in Ids : events[i] <= 1 /\ (events[i] = 1 => writes[i] > 0)
  /\ faults = 0 =>
       \A r \in Requests :
         op[r] \in {"create", "register"} /\ answer[r] = "ok" => events[id[r]] = 1

\* Every connection is idle or held by a transaction still running: no early return
\* leaks one.
PoolAccounted == free + Cardinality({r \in Requests : pc[r] \in InTx}) = PoolSize

Book == INSTANCE Accounts WITH
  accounts <- table,
  given <- {i \in Ids : writes[i] > 0},
  announced <- events,
  target <- id,
  effective <- wrote

\* Every request is one atomic operation on the accounts, whatever overlaps, fails or
\* restarts on the way: what pre-check, insert, read, check and update decide on still
\* holds when it is acted on, and a concurrent update never brings a deleted user back.
ImplementsAccounts == Book!Spec

\* Every request is answered, however small the pool and whatever the others do
\* (unless the serial column, bounded here, ran out).
EveryRequestAnswered ==
  \A r \in Requests : pc[r] # "new" ~> pc[r] = "done" \/ serial > MaxId

\* service.md: wrapping fetch, check and update in WithTx "eliminates the
\* lost-update race condition window": an update never overwrites a write that
\* came after its own read.
NoLostUpdate ==
  [][\A r \in Requests :
       pc[r] = "update" /\ wrote'[r] /\ ~wrote[r] => writes[id[r]] = seen[r]]_vars
=============================================================================
