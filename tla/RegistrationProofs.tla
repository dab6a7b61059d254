------------------------- MODULE RegistrationProofs -------------------------
(***************************************************************************)
(* Proofs about Registration, and its composition with the ledger in       *)
(* Delivery, for any requests, names and e-mails, any pool and any number  *)
(* of disturbances.                                                        *)
(***************************************************************************)
EXTENDS Delivery, TLAPS

Stages == {"new", "precheck", "insert", "publish", "done"}

Typed == TypeOK /\ User!TypeOK

\* Only creations are about, none of which runs a transaction.
Creations ==
  /\ \A r \in Requests : op[r] \in {"register", "create"} /\ pc[r] \in Stages
  /\ free = PoolSize

\* Ids the sequence has not reached have no row.
Unborn == \A i \in User!Ids : i >= serial => table[i] = None

\* What the user service knows of a request it serves: the row of a request that wrote
\* is there, as it was sent, and an answer is as good as its word.
Served(r) ==
  /\ pc[r] = "done" <=> answer[r] # "none"
  /\ wrote[r] => pc[r] \in {"publish", "done"} /\ table[id[r]] = body[r]
  /\ pc[r] = "publish" => wrote[r]
  /\ answer[r] \in {"none", "ok", "conflict", "internal"}
  /\ answer[r] = "ok" => wrote[r]
  /\ answer[r] = "conflict" => ~wrote[r] /\ User!Holds(table, User!Email(r))

\* A registration is with the user service only from its call on; what it was told
\* about its row or its e-mail is so.
Told(r) ==
  /\ op[r] = "create" => auth[r] = "idle"
  /\ auth[r] \in {"exists", "hash", "create"} => pc[r] = "new"
  /\ auth[r] = "idle" => op[r] = "create" \/ pc[r] = "new"
  /\ auth[r] = "called" => pc[r] # "new"
  /\ auth[r] # "replied" => reply[r] = 0
  /\ reply[r] = 201 => wrote[r]
  /\ reply[r] = 409 => /\ ~wrote[r] /\ pc[r] \in {"new", "done"}
                       /\ User!Holds(table, User!Email(r))

Whole ==
  /\ Typed /\ Creations /\ Unborn
  /\ \A r \in Requests : Served(r) /\ Told(r)

\* Rows are for good, and so is what a request carries.
RowsStay ==
  /\ \A i \in User!Ids : table[i] # None => table'[i] = table[i]
  /\ op' = op /\ body' = body

\* A step of r leaves the other requests where they are.
Apart(r) ==
  \A q \in Requests \ {r} :
    /\ pc'[q] = pc[q] /\ answer'[q] = answer[q] /\ wrote'[q] = wrote[q] /\ id'[q] = id[q]
    /\ auth'[q] = auth[q] /\ reply'[q] = reply[q]

-----------------------------------------------------------------------------

\* The initial state.
LEMMA Initially == Init => Whole
<1> SUFFICES ASSUME Init PROVE Whole
  OBVIOUS
<1>1. User!TypeOK
  BY UserAssumption DEF Init, User!Init, User!TypeOK, User!Ids, User!InTx
<1>2. TypeOK
  BY DEF Init, TypeOK
<1>3. Creations /\ Unborn /\ \A r \in Requests : Served(r) /\ Told(r)
  BY DEF Init, User!Init, Creations, Stages, Unborn, Served, Told
<1>4. QED
  BY <1>1, <1>2, <1>3 DEF Whole, Typed

\* An e-mail that is in the table stays there.
LEMMA HeldStays ==
  ASSUME Whole, RowsStay, NEW r \in Requests, User!Holds(table, User!Email(r))
  PROVE  User!Holds(table, User!Email(r))'
BY DEF User!Holds, User!Email, RowsStay, Whole, Typed, User!TypeOK

\* A row that was written is a row.
LEMMA BodiesAreRows == ASSUME Whole, NEW r \in Requests PROVE body[r] # None
BY UserAssumption DEF Whole, Typed, User!TypeOK, User!User

\* What was said of the others still holds.
LEMMA OthersKept ==
  ASSUME Whole, RowsStay, NEW r \in Requests, Apart(r), NEW q \in Requests, q # r
  PROVE  Served(q)' /\ Told(q)'
<1>1. id[q] \in User!Ids
  BY DEF Whole, Typed, User!TypeOK
<1>2. wrote[q] => table'[id[q]] = body[q]
  BY <1>1, BodiesAreRows DEF RowsStay, Whole, Served
<1>3. Served(q) /\ Told(q) /\ q \in Requests \ {r}
  BY DEF Whole
<1>4. Served(q)'
  BY <1>2, <1>3, HeldStays DEF Served, Apart, RowsStay
<1>5. Told(q)'
  BY <1>3, HeldStays DEF Told, Apart, RowsStay
<1>6. QED
  BY <1>4, <1>5

-----------------------------------------------------------------------------
(* The auth service.                                                       *)

\* A conflict comes out as one on the other side of the wire; an internal error and a
\* deadline are both a 500 there.
LEMMA Crossing ==
  /\ HttpStatus("conflict") = 409 /\ HttpStatus("internal") = 500
  /\ HttpStatus(FromGrpc(GrpcCode("conflict"))) = 409
  /\ HttpStatus(FromGrpc(GrpcCode("internal"))) = 500
  /\ HttpStatus(FromGrpc("DeadlineExceeded")) = 500
<1>1. GrpcCode("conflict") = "AlreadyExists" /\ GrpcCode("internal") = "Internal"
  BY DEF GrpcCode
<1>2. /\ FromGrpc("AlreadyExists") = "conflict" /\ FromGrpc("Internal") = "internal"
      /\ FromGrpc("DeadlineExceeded") = "internal"
  BY DEF FromGrpc
<1>3. QED
  BY <1>1, <1>2 DEF HttpStatus

\* Steps that leave the user service alone: only what r was told can change.
LEMMA AuthKept ==
  ASSUME Whole, NEW r \in Requests, UNCHANGED userVars,
         \/ Submit(r) \/ Hash(r) \/ Return(r) \/ Deadline(r)
         \/ Exists(r)
  PROVE  Whole'
<1> USE DEF Whole, userVars
<1>1. RowsStay /\ Creations' /\ Unborn' /\ User!TypeOK' /\ Served(r)'
  BY DEF RowsStay, Creations, Unborn, Typed, User!TypeOK, User!Holds, User!Email, Served
<1>2. Apart(r)
  BY DEF Submit, Hash, Return, Deadline, Exists, Reply, Step, Apart, Typed, TypeOK
<1>3. TypeOK'
  <2>1. ASSUME NEW status \in {0, 201, 409, 500}, Reply(r, status)
        PROVE  reply' \in [Requests -> {0, 201, 409, 500}]
    BY <2>1 DEF Reply, Typed, TypeOK
  <2>2. reply' \in [Requests -> {0, 201, 409, 500}]
    <3>1. CASE UNCHANGED reply
      BY <3>1 DEF Typed, TypeOK
    <3>2. CASE Return(r)
      <4>1. answer[r] \in {"ok", "conflict", "internal"}
        BY <3>2 DEF Return, Served
      <4>2. CASE answer[r] = "ok"
        BY <4>2, <3>2, <2>1 DEF Return
      <4>3. CASE answer[r] = "conflict"
        BY <4>3, <3>2, <2>1, Crossing DEF Return
      <4>4. CASE answer[r] = "internal"
        BY <4>4, <3>2, <2>1, Crossing DEF Return
      <4>5. QED
        BY <4>1, <4>2, <4>3, <4>4
    <3>3. CASE Submit(r) \/ Hash(r) \/ Deadline(r) \/ Exists(r)
      BY <3>3, <3>1, <2>1, Crossing DEF Submit, Hash, Deadline, Exists, Step
    <3>4. QED
      BY <3>2, <3>3
  <2>3. expired' \in [Requests -> BOOLEAN]
    <3>1. expired' = expired \/ expired' = [expired EXCEPT ![r] = TRUE]
      BY DEF Submit, Hash, Return, Deadline, Exists
    <3>2. expired \in [Requests -> BOOLEAN]
      BY DEF Typed, TypeOK
    <3>3. QED
      BY <3>1, <3>2, Zenon
  <2>4. auth' \in [Requests -> {"idle", "exists", "hash", "create", "called", "replied"}]
    <3>1. ASSUME NEW label \in {"exists", "hash", "create", "replied"},
                 auth' = [auth EXCEPT ![r] = label]
          PROVE  auth' \in [Requests -> {"idle", "exists", "hash", "create", "called", "replied"}]
      BY <3>1 DEF Typed, TypeOK
    <3>2. \E label \in {"exists", "hash", "create", "replied"} :
            auth' = [auth EXCEPT ![r] = label]
      BY DEF Submit, Hash, Return, Deadline, Exists, Reply, Step
    <3>3. QED
      BY <3>1, <3>2
  <2>5. QED
    BY <2>2, <2>3, <2>4 DEF TypeOK
<1>4. Told(r)'
  <2> USE Crossing DEF Reply, Step, Typed, TypeOK, Told, Served, Creations, User!Holds, User!Email
  <2>1. CASE Submit(r)
    BY <2>1 DEF Submit
  <2>2. CASE Hash(r)
    BY <2>2 DEF Hash
  <2>3. CASE Return(r)
    BY <2>3 DEF Return
  <2>4. CASE Deadline(r)
    BY <2>4 DEF Deadline
  <2>5. CASE Exists(r)
    BY <2>5 DEF Exists
  <2>6. QED
    BY <2>1, <2>2, <2>3, <2>4, <2>5
<1>5. QED
  BY <1>1, <1>2, <1>3, <1>4, OthersKept DEF Typed

\* The RPC of Exists may fail: the user service has spent a fault.
LEMMA FailedExistsKept ==
  ASSUME Whole, NEW r \in Requests, Exists(r), User!SpendFault, Reply(r, 500),
         UNCHANGED <<table, serial, writes, op, id, body, pc, seen, answer, wrote, taken,
                     free, events, expired>>
  PROVE  Whole'
<1>1. RowsStay /\ Creations' /\ Unborn' /\ Served(r)'
  BY DEF RowsStay, Creations, Unborn, User!Holds, User!Email, Served, Whole
<1>2. Apart(r)
  BY DEF Reply, Apart, Whole, Typed, TypeOK
<1>3. User!TypeOK'
  BY UserAssumption DEF User!SpendFault, Whole, Typed, User!TypeOK
<1>4. TypeOK'
  BY DEF Reply, Whole, Typed, TypeOK
<1>5. Told(r)'
  BY DEF Exists, Reply, Whole, Typed, TypeOK, Told, Creations
<1>6. QED
  BY <1>1, <1>2, <1>3, <1>4, <1>5, OthersKept DEF Whole, Typed

-----------------------------------------------------------------------------
(* The user service.                                                       *)

\* A request that was answered with nothing written, or with its row.
LEMMA AnswerKept ==
  ASSUME Whole, NEW r \in Requests, pc[r] \in Stages \ {"new", "done"},
         NEW outcome \in {"ok", "conflict", "internal"}, User!Answer(r, outcome),
         outcome = "ok" => pc[r] = "publish",
         outcome = "conflict" => User!Holds(table, User!Email(r)) /\ pc[r] # "publish",
         UNCHANGED <<table, op, id, body, wrote, taken, free, authVars>>,
         serial' \in serial..MaxId + 1, events' \in [User!Ids -> Nat], faults' \in 0..MaxFaults,
         UNCHANGED <<writes, seen>>
  PROVE  Whole'
<1> USE DEF authVars
<1>1. RowsStay /\ Apart(r)
  BY DEF RowsStay, Apart, User!Answer, User!Goto, Whole, Typed, User!TypeOK
<1>2. Typed'
  <2>1. pc' \in [Requests -> Stages \cup {"begin", "delete"} \cup User!InTx]
    BY DEF User!Answer, User!Goto, Whole, Typed, User!TypeOK, Stages
  <2>2. answer' \in [Requests -> {"none", "ok", "conflict", "notfound", "internal"}]
    BY DEF User!Answer, Whole, Typed, User!TypeOK
  <2>3. TypeOK'
    BY DEF Whole, Typed, TypeOK
  <2>4. serial' \in 1..MaxId + 1
    BY UserAssumption DEF Whole, Typed, User!TypeOK
  <2>5. QED
    BY <2>1, <2>2, <2>3, <2>4 DEF Whole, Typed, User!TypeOK, Stages
<1>3. Creations' /\ Unborn'
  <2>1. Creations'
    BY DEF Creations, Stages, User!Answer, User!Goto, Whole, Typed, User!TypeOK
  <2>2. Unborn'
    BY UserAssumption DEF Unborn, Whole, Typed, User!TypeOK, User!Ids
  <2>3. QED
    BY <2>1, <2>2
<1>4. pc'[r] = "done" /\ answer'[r] = outcome
  BY DEF User!Answer, User!Goto, Whole, Typed, User!TypeOK
<1>5. Served(r)'
  BY <1>4, <1>1, HeldStays DEF Served, Whole, Stages, RowsStay
<1>6. Told(r)'
  BY <1>4, <1>1, HeldStays DEF Told, Served, Whole, Stages, RowsStay
<1>7. QED
  BY <1>1, <1>2, <1>3, <1>5, <1>6, OthersKept DEF Whole

\* A request goes on to its next statement.
LEMMA GotoKept ==
  ASSUME Whole, NEW r \in Requests, NEW label \in {"precheck", "insert"}, User!Goto(r, label),
         pc[r] \in {"new", "precheck"}, taken' \in [Requests -> BOOLEAN],
         \/ UNCHANGED auth /\ (op[r] = "create" \/ pc[r] = "precheck")
         \/ auth[r] = "create" /\ auth' = [auth EXCEPT ![r] = "called"],
         UNCHANGED <<table, serial, writes, op, id, body, seen, answer, wrote, free, events,
                     faults, reply, expired>>
  PROVE  Whole'
<1>1. RowsStay /\ Apart(r)
  BY DEF RowsStay, Apart, User!Goto, Whole, Typed, User!TypeOK, TypeOK
<1>2. Typed'
  <2>1. pc' \in [Requests -> Stages \cup {"begin", "delete"} \cup User!InTx]
    BY DEF User!Goto, Whole, Typed, User!TypeOK, Stages
  <2>2. TypeOK'
    BY DEF Whole, Typed, TypeOK
  <2>3. QED
    BY <2>1, <2>2 DEF Whole, Typed, User!TypeOK, Stages
<1>3. Creations' /\ Unborn'
  BY DEF Creations, Stages, Unborn, User!Goto, Whole, Typed, User!TypeOK
<1>4. pc'[r] = label
  BY DEF User!Goto, Whole, Typed, User!TypeOK
<1>5. Served(r)'
  BY <1>4, <1>1, HeldStays DEF Served, Whole, RowsStay
<1>6. Told(r)'
  BY <1>4, <1>1, HeldStays DEF Told, Served, Whole, RowsStay, Typed, TypeOK
<1>7. QED
  BY <1>1, <1>2, <1>3, <1>5, <1>6, OthersKept DEF Whole

\* The row goes where none was, and belongs to the request.
LEMMA StoredKept ==
  ASSUME Whole, NEW r \in Requests, User!Insert(r), ~User!Violates(r), UNCHANGED authVars
  PROVE  Whole'
<1> USE UserAssumption DEF authVars
<1>1. /\ pc[r] = "insert" /\ serial \in User!Ids /\ serial' = serial + 1
      /\ User!Put(r, serial, body[r]) /\ id' = [id EXCEPT ![r] = serial]
      /\ UNCHANGED <<free, op, body, seen, events>>
      /\ \/ User!Goto(r, "publish") /\ UNCHANGED <<answer, faults>>
         \/ User!Answer(r, "internal") /\ User!SpendFault
  BY DEF User!Insert, User!Statement, User!Ids, Whole, Typed, User!TypeOK
<1>2. table[serial] = None /\ body[r] # None
  BY <1>1, BodiesAreRows DEF Whole, Unborn, Typed, User!TypeOK
<1>3. RowsStay
  BY <1>1, <1>2 DEF RowsStay, User!Put, Whole, Typed, User!TypeOK
<1>4. Apart(r)
  BY <1>1 DEF Apart, User!Put, User!Goto, User!Answer, Whole, Typed, User!TypeOK
<1>5. /\ table'[serial] = body[r] /\ wrote'[r] = TRUE /\ id'[r] = serial
      /\ \/ pc'[r] = "publish" /\ answer'[r] = answer[r]
         \/ pc'[r] = "done" /\ answer'[r] = "internal"
  BY <1>1 DEF User!Put, User!Goto, User!Answer, Whole, Typed, User!TypeOK
<1>6. Typed'
  <2>1. TypeOK'
    BY DEF Whole, Typed, TypeOK
  <2>2. pc' \in [Requests -> Stages \cup {"begin", "delete"} \cup User!InTx]
    BY <1>1 DEF User!Goto, User!Answer, Whole, Typed, User!TypeOK, Stages
  <2>3. answer' \in [Requests -> {"none", "ok", "conflict", "notfound", "internal"}]
    BY <1>1 DEF User!Answer, Whole, Typed, User!TypeOK
  <2>4. /\ table' \in [User!Ids -> User!User \cup {None}] /\ writes' \in [User!Ids -> Nat]
        /\ id' \in [Requests -> User!Ids] /\ serial' \in 1..MaxId + 1
    <3>1. /\ body[r] \in User!User /\ serial \in 1..MaxId + 1
          /\ table \in [User!Ids -> User!User \cup {None}] /\ writes \in [User!Ids -> Nat]
          /\ id \in [Requests -> User!Ids]
      BY DEF Whole, Typed, User!TypeOK
    <3>2. /\ table' = [table EXCEPT ![serial] = body[r]]
          /\ writes' = [writes EXCEPT ![serial] = @ + 1]
      BY <1>1 DEF User!Put
    <3>3. table' \in [User!Ids -> User!User \cup {None}]
      BY <3>1, <3>2
    <3>4. writes' \in [User!Ids -> Nat]
      <4>1. serial \in User!Ids
        BY <1>1
      <4>2. writes[serial] + 1 \in Nat
        BY <3>1, <4>1
      <4>3. QED
        BY <3>1, <3>2, <4>1, <4>2
    <3>5. id' \in [Requests -> User!Ids]
      BY <1>1, <3>1
    <3>6. serial' \in 1..MaxId + 1
      BY <1>1, <3>1, UserAssumption DEF User!Ids
    <3>7. QED
      BY <3>3, <3>4, <3>5, <3>6
  <2>5. wrote' \in [Requests -> BOOLEAN] /\ taken' \in [Requests -> BOOLEAN]
    <3>1. wrote' \in [Requests -> BOOLEAN]
      BY <1>1 DEF User!Put, Whole, Typed, User!TypeOK
    <3>2. taken' = [q \in Requests |->
                      taken[q] \/ (pc[q] # "new" /\ User!HeldAgainst(table', q))]
      BY <1>1 DEF User!Put
    <3>3. QED
      BY <3>1, <3>2
  <2>6. faults' \in 0..MaxFaults
    BY <1>1 DEF User!SpendFault, Whole, Typed, User!TypeOK
  <2>7. QED
    BY <1>1, <2>1, <2>2, <2>3, <2>4, <2>5, <2>6 DEF Whole, Typed, User!TypeOK, Stages
<1>7. Creations'
  BY <1>1 DEF Creations, Stages, User!Goto, User!Answer, Whole, Typed, User!TypeOK
<1>8. Unborn'
  BY <1>1 DEF Unborn, User!Put, User!Ids, Whole, Typed, User!TypeOK
<1>9. Served(r)'
  BY <1>1, <1>3, <1>5, HeldStays DEF Served, Whole, RowsStay
<1>10. Told(r)'
  BY <1>1, <1>3, <1>5, HeldStays DEF Told, Served, Whole, RowsStay
<1>11. QED
  BY <1>3, <1>4, <1>6, <1>7, <1>8, <1>9, <1>10, OthersKept DEF Whole

\* After a restart whoever was being served has an answer that says nothing.
LEMMA RestartKept == ASSUME Whole, Restart PROVE Whole'
<1> USE UserAssumption DEF Restart, User!Restart, User!Untouched, User!store,
           User!request, authVars
<1>1. RowsStay
  BY DEF RowsStay
<1>2. ASSUME NEW r \in Requests
      PROVE  /\ pc'[r] = IF pc[r] = "new" THEN "new" ELSE "done"
             /\ answer'[r] = IF pc[r] \in {"new", "done"} THEN answer[r] ELSE "internal"
  OBVIOUS
<1>3. Typed'
  <2>1. TypeOK'
    BY DEF Whole, Typed, TypeOK
  <2>2. pc' \in [Requests -> Stages \cup {"begin", "delete"} \cup User!InTx]
    BY DEF Stages
  <2>3. answer' \in [Requests -> {"none", "ok", "conflict", "notfound", "internal"}]
    BY DEF Whole, Typed, User!TypeOK
  <2>4. free' \in 0..PoolSize /\ faults' \in 0..MaxFaults
    BY DEF User!SpendFault, Whole, Typed, User!TypeOK
  <2>5. QED
    BY <2>1, <2>2, <2>3, <2>4 DEF Whole, Typed, User!TypeOK, Stages
<1>4. Creations' /\ Unborn'
  BY <1>2 DEF Creations, Stages, Unborn, Whole
<1>5. ASSUME NEW r \in Requests PROVE Served(r)' /\ Told(r)'
  BY <1>1, <1>2, HeldStays DEF Served, Told, Whole, RowsStay, Creations, Stages
<1>6. QED
  BY <1>3, <1>4, <1>5 DEF Whole

\* A cancelled context gives the insert up, or only the publish.
LEMMA CancelledKept == ASSUME Whole, NEW r \in Requests, Cancelled(r) PROVE Whole'
<1> USE DEF authVars, Stages
<1>1. serial' \in serial..MaxId + 1 /\ events' \in [User!Ids -> Nat] /\ faults' \in 0..MaxFaults
  BY UserAssumption DEF Cancelled, Whole, Typed, User!TypeOK
<1>2. CASE pc[r] = "insert" /\ User!Answer(r, "internal")
  BY <1>1, <1>2, AnswerKept DEF Cancelled
<1>3. CASE pc[r] = "publish" /\ User!Answer(r, "ok")
  BY <1>1, <1>3, AnswerKept DEF Cancelled
<1>4. QED
  BY <1>2, <1>3 DEF Cancelled

\* The user service's own steps.
LEMMA ServeKept == ASSUME Whole, NEW r \in Requests, Serve(r) PROVE Whole'
<1> USE DEF authVars, Stages, User!Untouched, User!store, User!request
<1>1. /\ serial \in serial..MaxId + 1 /\ events \in [User!Ids -> Nat] /\ faults \in 0..MaxFaults
      /\ User!SpendFault => faults' \in 0..MaxFaults
  BY UserAssumption DEF Whole, Typed, User!TypeOK, User!SpendFault
<1>2. CASE op[r] = "create" /\ User!Arrive(r)
  <2>1. taken' \in [Requests -> BOOLEAN]
    <3>1. taken' = [taken EXCEPT ![r] = User!HeldAgainst(table, r)]
      BY <1>2 DEF User!Arrive
    <3>2. User!HeldAgainst(table, r) \in BOOLEAN
      BY DEF User!HeldAgainst
    <3>3. taken \in [Requests -> BOOLEAN]
      BY DEF Whole, Typed, User!TypeOK
    <3>4. QED
      BY <3>1, <3>2, <3>3, Zenon
  <2>2. User!Goto(r, "precheck")
    BY <1>2 DEF User!Arrive
  <2>3. QED
    BY <1>2, <2>1, <2>2, GotoKept DEF User!Arrive, Serve
<1>3. CASE User!PreCheck(r)
  <2>1. CASE User!Holds(table, User!Email(r))
    BY <1>1, <1>3, <2>1, AnswerKept DEF User!PreCheck, User!Statement, Serve
  <2>2. CASE ~User!Holds(table, User!Email(r))
    <3>1. taken' \in [Requests -> BOOLEAN]
      BY <1>3 DEF User!PreCheck, Whole, Typed, User!TypeOK
    <3>2. QED
      BY <1>3, <2>2, <3>1, GotoKept DEF User!PreCheck, User!Statement, Serve
  <2>3. QED
    BY <2>1, <2>2
<1>4. CASE User!Insert(r)
  <2>1. CASE User!Violates(r)
    <3>1. serial' \in serial..MaxId + 1
      BY <1>4, UserAssumption DEF User!Insert, Whole, Typed, User!TypeOK
    <3>2. QED
      BY <1>1, <1>4, <2>1, <3>1, AnswerKept
         DEF User!Insert, User!Violates, User!Statement, Serve
  <2>2. CASE ~User!Violates(r)
    BY <1>4, <2>2, StoredKept DEF Serve
  <2>3. QED
    BY <2>1, <2>2
<1>5. CASE User!Publish(r)
  <2>1. events' \in [User!Ids -> Nat] /\ faults' \in 0..MaxFaults
    BY <1>1, <1>5 DEF User!Publish, Whole, Typed, User!TypeOK
  <2>2. QED
    BY <1>1, <1>5, <2>1, AnswerKept DEF User!Publish, Serve
<1>6. CASE User!FailStatement(r)
  <2>1. pc[r] \in Stages \ {"new", "done"} /\ UNCHANGED free
    BY <1>6 DEF User!FailStatement, User!Statement, Whole, Creations
  <2>2. QED
    BY <1>1, <1>6, <2>1, AnswerKept DEF User!FailStatement, Serve
<1>7. QED
  BY <1>2, <1>3, <1>4, <1>5, <1>6 DEF Serve

\* The Create RPC arrives at its insert.
LEMMA CallKept == ASSUME Whole, NEW r \in Requests, Call(r) PROVE Whole'
<1> USE DEF Call, Step, User!Arrive, User!store, User!request
<1>1. op[r] = "register"
  BY DEF Whole, Told, Creations
<1>2. User!Goto(r, "insert")
  BY <1>1
<1>3. taken' \in [Requests -> BOOLEAN]
  <2>1. User!HeldAgainst(table, r) \in BOOLEAN
    BY DEF User!HeldAgainst
  <2>2. taken \in [Requests -> BOOLEAN]
    BY DEF Whole, Typed, User!TypeOK
  <2>3. QED
    BY <2>1, <2>2, Zenon
<1>4. QED
  BY <1>2, <1>3, GotoKept

\* The inductive invariant holds.
LEMMA Inductive == Spec => []Whole
<1>1. ASSUME Whole, [Next]_vars PROVE Whole'
  <2>1. ASSUME NEW r \in Requests, Submit(r) \/ Hash(r) \/ Return(r) \/ Deadline(r) PROVE Whole'
    BY <1>1, <2>1, AuthKept DEF Submit, Hash, Return, Deadline
  <2>2. ASSUME NEW r \in Requests, Exists(r) PROVE Whole'
    <3>1. CASE UNCHANGED userVars
      BY <1>1, <2>2, <3>1, AuthKept
    <3>2. CASE /\ User!SpendFault /\ Reply(r, HttpStatus(FromGrpc(GrpcCode("internal"))))
               /\ UNCHANGED <<table, serial, writes, op, id, body, pc, seen, answer, wrote,
                              taken, free, events>>
      BY <1>1, <2>2, <3>2, Crossing, FailedExistsKept DEF Exists
    <3>3. QED
      BY <2>2, <3>1, <3>2 DEF Exists
  <2>3. CASE UNCHANGED vars
    <3>1. UNCHANGED <<userVars, authVars>>
      BY <2>3 DEF vars
    <3>2. QED
      BY <1>1, <3>1 DEF userVars, authVars, Whole, Typed, TypeOK, User!TypeOK, Creations,
                        Unborn, Served, Told, User!Holds, User!Email
  <2>4. QED
    BY <1>1, <2>1, <2>2, <2>3, CallKept, CancelledKept, ServeKept, RestartKept DEF Next
<1>2. QED
  BY Initially, <1>1, PTL DEF Spec

-----------------------------------------------------------------------------

\* The type invariant.
THEOREM RegistrationTypes == Spec => []TypeOK
<1>1. Whole => TypeOK
  BY DEF Whole, Typed
<1>2. QED
  BY Inductive, <1>1, PTL

\* Whatever a deadline, a lost answer or a restart does to a registration, 201 is only
\* said of a row that is there as it was sent, and 409 only by whoever has no row.
THEOREM AnswersAreKept == Spec => []RegisterTellsTheTruth
<1>1. Whole => RegisterTellsTheTruth
  BY DEF Whole, Served, Told, RegisterTellsTheTruth
<1>2. QED
  BY Inductive, <1>1, PTL

\* A client that was told 201 or 409 has an account under its e-mail.
THEOREM AnswersSettle == Spec => []AnyAnswerSettles
<1>1. Whole => AnyAnswerSettles
  <2>1. ASSUME Whole, NEW r \in Requests, reply[r] = 201
        PROVE  User!Holds(table, User!Email(r))
    <3>1. table[id[r]] = body[r] /\ body[r] # None /\ id[r] \in User!Ids
      BY <2>1, BodiesAreRows DEF Whole, Served, Told, Typed, User!TypeOK
    <3>2. QED
      BY <3>1 DEF User!Holds, User!Email
  <2>2. QED
    BY <2>1 DEF AnyAnswerSettles, Whole, Told
<1>2. QED
  BY Inductive, <1>1, PTL

-----------------------------------------------------------------------------
(* The event of a registration, and the ledger behind it.                  *)

\* Whoever is about to publish is alone with its id, which was not announced; a success
\* that nothing disturbed was; only a registration that was told 500 loses its context.
Announcing(r) ==
  /\ pc[r] = "publish" =>
       /\ id[r] < serial /\ events[id[r]] = 0
       /\ \A q \in Requests \ {r} : pc[q] = "publish" => id[q] # id[r]
  /\ answer[r] = "ok" => expired[r] \/ faults > 0 \/ events[id[r]] = 1
  /\ expired[r] => auth[r] = "replied" /\ reply[r] = 500
  /\ reply[r] = 201 => answer[r] = "ok"
Announced ==
  /\ \A i \in User!Ids : events[i] \in {0, 1} /\ (i >= serial => events[i] = 0)
  /\ \A r \in Requests : Announcing(r)

\* Steps of the auth service.
LEMMA AuthAnnounces ==
  ASSUME Whole, Announced, NEW r \in Requests,
         Submit(r) \/ Hash(r) \/ Return(r) \/ Deadline(r) \/ Exists(r)
  PROVE  Announced'
<1>1. /\ UNCHANGED <<serial, id, pc, answer, events>>
      /\ faults' = faults \/ faults' > 0
  BY DEF Submit, Hash, Return, Deadline, Exists, userVars, User!SpendFault,
         Whole, Typed, User!TypeOK
<1>2. ASSUME NEW q \in Requests \ {r} PROVE Announcing(q)'
  <2>1. auth'[q] = auth[q] /\ reply'[q] = reply[q] /\ expired'[q] = expired[q]
    BY DEF Submit, Hash, Return, Deadline, Exists, Reply, Step, Whole, Typed, TypeOK
  <2>2. QED
    BY <1>1, <2>1 DEF Announced, Announcing
<1>3. Announcing(r)'
  <2>1. /\ expired'[r] => auth'[r] = "replied" /\ reply'[r] = 500
        /\ reply'[r] = 201 => answer[r] = "ok"
        /\ expired[r] => expired'[r]
    <3> USE Crossing DEF Announced, Announcing, Reply, Step, Whole, Typed, TypeOK
    <3>1. CASE Submit(r) \/ Hash(r)
      BY <3>1 DEF Submit, Hash
    <3>2. CASE Return(r)
      <4>1. answer[r] = "ok" \/ answer[r] = "conflict" \/ answer[r] = "internal"
        BY <3>2 DEF Return, Served
      <4>2. QED
        BY <3>2, <4>1 DEF Return
    <3>3. CASE Deadline(r)
      BY <3>3 DEF Deadline
    <3>4. CASE Exists(r)
      BY <3>4 DEF Exists
    <3>5. QED
      BY <3>1, <3>2, <3>3, <3>4
  <2>2. QED
    BY <1>1, <2>1 DEF Announced, Announcing
<1>4. QED
  BY <1>1, <1>2, <1>3 DEF Announced

\* Steps of the user service for one request.
LEMMA ServiceAnnounces ==
  ASSUME Whole, Whole', Announced, NEW r \in Requests, Call(r) \/ Cancelled(r) \/ Serve(r)
  PROVE  Announced'
<1> USE DEF User!Goto, User!Answer, User!Untouched, User!store, User!request, authVars
<1>0. Apart(r) /\ reply' = reply /\ expired' = expired /\ (auth[r] # "create" => auth' = auth)
  <2>1. Call(r) => Apart(r)
    BY DEF Call, Step, User!Arrive, Apart, Whole, Typed, User!TypeOK, TypeOK
  <2>2. Cancelled(r) => Apart(r)
    BY DEF Cancelled, Apart, Whole, Typed, User!TypeOK
  <2>3. Serve(r) => Apart(r)
    BY DEF Serve, User!Arrive, User!PreCheck, User!Insert, User!Put, User!Publish,
           User!FailStatement, Apart, Whole, Typed, User!TypeOK
  <2>4. QED
    BY <2>1, <2>2, <2>3 DEF Call, Cancelled, Serve, Step
<1>1. ASSUME UNCHANGED <<id, events>>, serial' = serial \/ serial' = serial + 1,
             faults' >= faults, pc'[r] # "publish",
             answer'[r] = "ok" => answer[r] = "ok" \/ expired[r] \/ faults' > 0,
             reply[r] = 201 => answer'[r] = answer[r]
      PROVE  Announced'
  <2>1. /\ serial \in Nat /\ faults \in Nat /\ faults' \in Nat /\ serial' >= serial
        /\ expired[r] => auth[r] = "replied" /\ auth'[r] = auth[r]
    BY <1>0, <1>1, UserAssumption DEF Whole, Typed, User!TypeOK, Announced, Announcing
  <2>2. ASSUME NEW q \in Requests \ {r} PROVE Announcing(q)'
    <3>1. \A p \in Requests : pc'[p] = "publish" => p # r /\ pc[p] = "publish"
      BY <1>0, <1>1 DEF Apart
    <3>2. /\ answer'[q] = answer[q] /\ auth'[q] = auth[q] /\ reply'[q] = reply[q]
          /\ id' = id /\ events' = events /\ id[q] \in User!Ids
      BY <1>0, <1>1 DEF Apart, Whole, Typed, User!TypeOK
    <3>3. id[q] \in Nat /\ Announcing(q)
      BY <3>2 DEF Announced, User!Ids
    <3>4. QED
      BY <1>0, <1>1, <2>1, <3>1, <3>2, <3>3 DEF Announcing
  <2>3. Announcing(r)'
    BY <1>0, <1>1, <2>1 DEF Announced, Announcing
  <2>4. QED
    BY <1>1, <2>1, <2>2, <2>3 DEF Announced, User!Ids
<1>2. CASE Call(r) \/ (Serve(r) /\ (User!Arrive(r) \/ User!PreCheck(r)))
  BY <1>1, <1>2 DEF Call, Step, User!Arrive, User!PreCheck, User!Statement, Serve, Whole, Typed,
        User!TypeOK, Announced, Announcing, Served, Creations
<1>3. CASE Cancelled(r)
  BY <1>1, <1>3 DEF Cancelled, Whole, Typed, User!TypeOK, Announced, Announcing, Served
<1>4. CASE User!FailStatement(r) /\ Serve(r)
  BY <1>1, <1>4 DEF User!FailStatement, User!Statement, User!SpendFault, Serve, Whole, Typed,
        User!TypeOK, Announced, Announcing, Served
<1>5. CASE User!Insert(r) /\ Serve(r)
  <2>1. CASE User!Violates(r)
    BY <1>1, <1>5, <2>1 DEF User!Insert, User!Statement, Serve, Whole, Typed,
          User!TypeOK, Announced, Announcing, Served
  <2>2. CASE ~User!Violates(r)
    <3>1. /\ id' = [id EXCEPT ![r] = serial] /\ serial' = serial + 1 /\ serial \in User!Ids
          /\ UNCHANGED events /\ answer'[r] # "ok" /\ answer[r] = "none" /\ faults' >= faults
          /\ faults \in Nat /\ faults' \in Nat
      <4>1. /\ id' = [id EXCEPT ![r] = serial] /\ serial' = serial + 1 /\ serial \in User!Ids
            /\ UNCHANGED events /\ pc[r] = "insert"
        BY <1>5, <2>2, UserAssumption DEF User!Insert, Whole, Typed, User!TypeOK, User!Ids
      <4>2. answer[r] = "none"
        BY <4>1 DEF Whole, Served
      <4>3. \/ UNCHANGED <<answer, faults>>
            \/ answer' = [answer EXCEPT ![r] = "internal"] /\ User!SpendFault
        BY <1>5, <2>2 DEF User!Insert
      <4>4. answer'[r] # "ok"
        BY <4>2, <4>3 DEF Whole, Typed, User!TypeOK
      <4>5. faults \in Nat /\ faults' \in Nat /\ faults' >= faults
        BY <4>3, UserAssumption DEF User!SpendFault, Whole, Typed, User!TypeOK
      <4>6. QED
        BY <4>1, <4>2, <4>4, <4>5
    <3>2. ASSUME NEW q \in Requests \ {r} PROVE Announcing(q)'
      <4>1. /\ answer'[q] = answer[q] /\ auth'[q] = auth[q] /\ reply'[q] = reply[q]
            /\ id'[q] = id[q] /\ pc'[q] = pc[q] /\ id[q] \in Nat /\ serial \in Nat
        BY <1>0 DEF Apart, Whole, Typed, User!TypeOK, User!Ids
      <4>2. id'[r] = serial
        BY <3>1 DEF Whole, Typed, User!TypeOK
      <4>3. Announcing(q)
        BY DEF Announced
      <4>4. \A p \in Requests \ {q} : pc[q] = "publish" /\ pc'[p] = "publish" => id'[p] # id[q]
        <5>1. ASSUME NEW p \in Requests \ {q}, p # r, pc[q] = "publish", pc'[p] = "publish"
              PROVE  id'[p] # id[q]
          BY <1>0, <4>3, <5>1 DEF Apart, Announcing
        <5>2. pc[q] = "publish" => id'[r] # id[q]
          BY <4>1, <4>2, <4>3 DEF Announcing
        <5>3. QED
          BY <5>1, <5>2
      <4>5. QED
        BY <1>0, <3>1, <4>1, <4>3, <4>4 DEF Announcing
    <3>3. Announcing(r)'
      <4>1. id'[r] = serial /\ events[serial] = 0 /\ serial < serial'
        BY <3>1, UserAssumption DEF Announced, Whole, Typed, User!TypeOK
      <4>2. \A q \in Requests \ {r} : pc'[q] = "publish" => id'[q] < serial
        BY <1>0, <3>1 DEF Apart, Announced, Announcing
      <4>3. reply[r] # 201
        BY <1>5 DEF User!Insert, Whole, Told, Served
      <4>4. expired[r] => auth'[r] = "replied"
        BY <1>0, <1>5 DEF Serve, Announced, Announcing
      <4>5. QED
        BY SMTT(30), <1>0, <3>1, <4>1, <4>2, <4>3, <4>4, UserAssumption
           DEF Announced, Announcing, Whole, Typed, User!TypeOK, User!Ids
    <3>4. QED
      BY SMTT(30), <3>1, <3>2, <3>3, UserAssumption
         DEF Announced, Whole, Typed, User!TypeOK, User!Ids
  <2>3. QED
    BY <2>1, <2>2
<1>6. CASE User!Publish(r) /\ Serve(r)
  <2>1. CASE events' = events
    BY <1>1, <1>6, <2>1 DEF User!Publish, User!SpendFault, Serve, Whole, Typed,
          User!TypeOK, Announced, Announcing, Served, Told
  <2>2. CASE events' # events
    <3>1. /\ events' = [events EXCEPT ![id[r]] = 1] /\ UNCHANGED <<id, serial, faults>>
          /\ pc[r] = "publish" /\ answer'[r] = "ok" /\ pc'[r] = "done" /\ id[r] \in User!Ids
          /\ id[r] < serial
      BY <1>6, <2>2 DEF User!Publish, Whole, Typed, User!TypeOK, Announced, Announcing
    <3>2. ASSUME NEW q \in Requests \ {r} PROVE Announcing(q)'
      BY <1>0, <3>1 DEF Announced, Announcing, Apart, Whole, Typed, User!TypeOK
    <3>3. Announcing(r)'
      BY <1>0, <1>6, <3>1 DEF Serve, Announced, Announcing, Whole, Typed, User!TypeOK
    <3>4. ASSUME NEW i \in User!Ids
          PROVE  events'[i] \in {0, 1} /\ (i >= serial' => events'[i] = 0)
      <4>1. id[r] \in Nat /\ i \in Nat /\ serial \in Nat /\ events \in [User!Ids -> Nat]
        BY <3>1 DEF Whole, Typed, User!TypeOK, User!Ids
      <4>2. events'[i] = IF i = id[r] THEN 1 ELSE events[i]
        BY <3>1, <4>1
      <4>3. QED
        BY <3>1, <4>1, <4>2 DEF Announced
    <3>5. QED
      BY <3>2, <3>3, <3>4 DEF Announced
  <2>3. QED
    BY <2>1, <2>2
<1>7. Serve(r) => \/ User!Arrive(r) \/ User!PreCheck(r) \/ User!Insert(r) \/ User!Publish(r)
                  \/ User!FailStatement(r)
  BY DEF Serve
<1>8. QED
  BY <1>2, <1>3, <1>4, <1>5, <1>6, <1>7

\* At the start nothing was announced.
LEMMA AnnouncedInitially == Init => Announced
BY DEF Init, User!Init, Announced, Announcing

\* Every step.
LEMMA AnnouncedKept == ASSUME Whole, Whole', Announced, [Next]_vars PROVE Announced'
<1>1. CASE Restart
  <2>1. /\ UNCHANGED <<serial, id, events, auth, reply, expired>>
        /\ faults \in Nat /\ faults' = faults + 1
    BY <1>1, UserAssumption DEF Restart, User!Restart, User!Untouched, User!store, User!request,
          User!SpendFault, authVars, Whole, Typed, User!TypeOK
  <2>2. ASSUME NEW r \in Requests
        PROVE  /\ pc'[r] # "publish" /\ (answer'[r] = "ok" => answer[r] = "ok")
               /\ reply[r] = 201 => answer'[r] = "ok"
    BY <1>1 DEF Restart, User!Restart, Whole, Typed, User!TypeOK, Announced, Announcing, Served
  <2>3. QED
    BY <2>1, <2>2 DEF Announced, Announcing
<1>2. CASE UNCHANGED vars
  BY <1>2 DEF vars, userVars, authVars, Announced, Announcing
<1>3. ASSUME NEW r \in Requests, Submit(r) \/ Hash(r) \/ Return(r) \/ Deadline(r) \/ Exists(r)
      PROVE  Announced'
  BY <1>3, AuthAnnounces
<1>4. ASSUME NEW r \in Requests, Call(r) \/ Cancelled(r) \/ Serve(r) PROVE Announced'
  BY <1>4, ServiceAnnounces
<1>5. QED
  BY <1>1, <1>2, <1>3, <1>4 DEF Next

\* The second inductive invariant, on top of the first.
LEMMA AnnouncedAlways == Spec => []Announced
<1>1. Whole /\ Whole' /\ Announced /\ [Next]_vars => Announced'
  BY AnnouncedKept
<1>2. QED
  BY <1>1, AnnouncedInitially, Inductive, PTL DEF Spec

\* The broker takes at most one event in a step.
LEMMA OneAtATime ==
  ASSUME Whole, [Next]_vars, events' # events
  PROVE  \E i \in User!Ids : events' = [events EXCEPT ![i] = @ + 1]
<1>1. PICK r \in Requests : Serve(r)
  BY DEF Next, vars, userVars, authVars, Submit, Exists, Hash, Call, Return, Deadline, Cancelled,
         Restart, User!Restart, User!Arrive
<1>2. User!Publish(r)
  BY <1>1 DEF Serve, User!Arrive, User!PreCheck, User!Insert, User!FailStatement
<1>3. QED
  BY <1>2 DEF User!Publish, Whole, Typed, User!TypeOK

\* The ledger has the events the broker took, but for those nobody had a queue for.
Opened ==
  /\ state \in [User!Ids -> {"unpublished", "open", "closed"}]
  /\ \A i \in User!Ids : state[i] = "unpublished" <=> events[i] = 0 \/ i \in lost
  /\ \A i \in User!Ids : i \in lost => events[i] = 1

\* The ledger opens what the user service announces.
LEMMA OpenedKept ==
  ASSUME Whole, Announced, Announced', Opened, [DeliveryNext]_<<vars, notification>>
  PROVE  Opened'
<1>1. CASE UNCHANGED <<vars, notification>>
  BY <1>1 DEF vars, userVars, notification, ledger, Opened
<1>2. ASSUME NEW e \in User!Ids, Settle(e) PROVE Opened'
  <2>1. UNCHANGED <<events, lost>>
    BY <1>2 DEF Settle, vars, userVars
  <2>2. UNCHANGED state \/ (state[e] = "open" /\ state' = [state EXCEPT ![e] = "closed"])
    BY <1>2 DEF Settle, Ledger!Judge, Ledger!SetAside, Ledger!Close
  <2>3. QED
    BY <2>1, <2>2 DEF Opened
<1>3. CASE Attend \/ Abandon
  BY <1>3 DEF Attend, Abandon, vars, userVars, ledger, Opened
<1>4. CASE Next /\ Announce
  <2>1. CASE events' = events
    BY <1>4, <2>1 DEF Announce, ledger, Opened
  <2>2. CASE events' # events
    <3>1. PICK i \in User!Ids : events' = [events EXCEPT ![i] = @ + 1]
      BY <1>4, <2>2, OneAtATime
    <3>2. PICK e \in User!Ids :
            /\ events'[e] > events[e]
            /\ \/ lost' = lost \cup {e} /\ UNCHANGED state
               \/ /\ state[e] = "unpublished" /\ state' = [state EXCEPT ![e] = "open"]
                  /\ UNCHANGED lost
      BY <1>4, <2>2 DEF Announce, ledger, Ledger!Open
    <3>3. events \in [User!Ids -> Nat]
      BY DEF Whole, Typed, User!TypeOK
    <3>4. e = i /\ events'[e] # 0
      BY <3>1, <3>2, <3>3
    <3>5. events[e] = 0 /\ events'[e] = 1
      <4>1. events[e] \in {0, 1} /\ events'[e] \in {0, 1}
        BY DEF Announced
      <4>2. QED
        BY <3>2, <3>4, <4>1
    <3>6. \A j \in User!Ids \ {e} : events'[j] = events[j]
      BY <3>1, <3>3, <3>4
    <3>7. CASE lost' = lost \cup {e} /\ UNCHANGED state
      BY <3>4, <3>5, <3>6, <3>7 DEF Opened
    <3>8. CASE /\ state[e] = "unpublished" /\ state' = [state EXCEPT ![e] = "open"]
               /\ UNCHANGED lost
      <4>1. e \notin lost
        <5> SUFFICES ASSUME e \in lost PROVE FALSE
          OBVIOUS
        <5>1. events[e] = 1
          BY DEF Opened
        <5>2. QED
          BY <3>5, <5>1
      <4>2. QED
        BY <3>4, <3>6, <3>8, <4>1 DEF Opened
    <3>9. QED
      BY <3>2, <3>7, <3>8
  <2>3. QED
    BY <2>1, <2>2
<1>5. QED
  BY <1>1, <1>2, <1>3, <1>4 DEF DeliveryNext

-----------------------------------------------------------------------------

\* Registration keeps its promises in the composition.
LEMMA Projected == DeliverySpec => Spec
<1>1. DeliveryInit => Init
  BY DEF DeliveryInit
<1>2. [DeliveryNext]_<<vars, notification>> => [Next]_vars
  BY DEF DeliveryNext, Settle, Attend, Abandon
<1>3. QED
  BY <1>1, <1>2, PTL DEF DeliverySpec, Spec

\* Whoever is told 201 is announced, unless something failed: the deadline of a Create
\* RPC silences no event of a registration reported as done.
RegisteredIsAnnounced ==
  \A r \in Requests : reply[r] = 201 => faults > 0 \/ events[id[r]] = 1
THEOREM SuccessIsAnnounced == Spec => []RegisteredIsAnnounced
<1>1. Announced => RegisteredIsAnnounced
  BY DEF Announced, Announcing, RegisteredIsAnnounced
<1>2. QED
  BY AnnouncedAlways, <1>1, PTL

\* What the ledger has, in every reachable state of the composition.
LEMMA OpenedAlways == DeliverySpec => [](Announced /\ Opened)
<1>1. DeliveryInit => Opened
  BY DEF DeliveryInit, Init, User!Init, Ledger!Init, Opened
<1>2. /\ Whole /\ Announced /\ Announced' /\ Opened /\ [DeliveryNext]_<<vars, notification>>
      => Opened'
  BY OpenedKept
<1>3. QED
  BY <1>1, <1>2, Projected, Inductive, AnnouncedAlways, PTL DEF DeliverySpec

\* The composition refuses no publish: an event the user service has not announced is
\* one the ledger can still open, none is announced twice, and none it announced is
\* missing but those that came before there was a queue.
NeverRefused ==
  \A i \in User!Ids :
    events[i] \in {0, 1} /\ (state[i] = "unpublished" <=> events[i] = 0 \/ i \in lost)
THEOREM LedgerIsReady == DeliverySpec => []NeverRefused
<1>1. Announced /\ Opened => NeverRefused
  BY DEF Announced, Opened, NeverRefused
<1>2. QED
  BY OpenedAlways, <1>1, PTL

\* Whoever is told 201 is known to the notification service, unless something failed or
\* the event came before that ever ran: the safety half of RegisteredIsSettled.
RegisteredIsOpened ==
  \A r \in Requests :
    reply[r] = 201 => faults > 0 \/ id[r] \in lost \/ state[id[r]] \in {"open", "closed"}
THEOREM SuccessIsOpened == DeliverySpec => []RegisteredIsOpened
<1>1. Whole /\ Announced /\ Opened => RegisteredIsOpened
  <2> SUFFICES ASSUME Whole, Announced, Opened, NEW r \in Requests, reply[r] = 201, ~(faults > 0)
               PROVE  id[r] \in lost \/ state[id[r]] \in {"open", "closed"}
    BY DEF RegisteredIsOpened
  <2>1. id[r] \in User!Ids
    BY DEF Whole, Typed, User!TypeOK
  <2>2. events[id[r]] = 1
    BY DEF Announced, Announcing
  <2>3. QED
    BY <2>1, <2>2 DEF Opened
<1>2. QED
  BY OpenedAlways, Projected, Inductive, <1>1, PTL
=============================================================================
