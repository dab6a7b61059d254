----------------------------- MODULE UserProofs -----------------------------
(***************************************************************************)
(* Proofs about Users for any finite set of requests, any e-mails, any     *)
(* pool and any number of disturbances.                                    *)
(***************************************************************************)
EXTENDS Users, FiniteSetTheorems, TLAPS

\* A request that is not over has no answer; only one past its write has written.
Truth ==
  \A r \in Requests :
    /\ pc[r] # "done" => answer[r] = "none"
    /\ wrote[r] => pc[r] \in {"publish", "done"}
    /\ pc[r] = "publish" => wrote[r]

\* A row that holds the e-mail of a request was noticed by it once it came in.
Noticed ==
  \A r \in Requests : pc[r] # "new" /\ HeldAgainst(table, r) => taken[r]

\* An update looks its e-mail up because the row it read has another one, and the row
\* still has until somebody writes it.
Judged ==
  \A r \in Requests : pc[r] = "check" =>
    /\ seen[r] <= writes[id[r]]
    /\ writes[id[r]] = seen[r] => table[id[r]] # None /\ table[id[r]].email # Email(r)

\* Ids the sequence has not reached were never written.
Unborn == \A i \in Ids : i >= serial => table[i] = None /\ writes[i] = 0

\* A step brings no deleted row back.
Stays == \A i \in Ids : table[i] = None /\ writes[i] > 0 => table'[i] = None

\* A request goes through the statements of its own operation.
Creating(r) == op[r] \in {"create", "register"}
Kinds ==
  \A r \in Requests :
    IF Creating(r) THEN pc[r] \in {"new", "precheck", "insert", "publish", "done"}
    ELSE IF op[r] = "update" THEN pc[r] \in {"new", "begin", "done"} \cup InTx
    ELSE pc[r] \in {"new", "delete", "done"}

Whole ==
  /\ TypeOK /\ PoolAccounted /\ UniqueEmails /\ Unborn /\ Kinds
  /\ AnswersTellTheTruth /\ Truth /\ ConflictWasReal /\ Noticed /\ Judged

\* A request about to publish has a row of its own that nobody was told of, and the
\* sequence is past it; an id that was announced was written.
Told ==
  /\ \A i \in Ids : /\ events[i] \in {0, 1}
                    /\ i >= serial => events[i] = 0
                    /\ events[i] = 1 => writes[i] > 0
  /\ \A r \in Requests : pc[r] = "publish" =>
       /\ id[r] < serial /\ writes[id[r]] > 0 /\ events[id[r]] = 0
       /\ \A q \in Requests \ {r} : pc[q] = "publish" => id[q] # id[r]
  /\ faults = 0 =>
       \A r \in Requests : Creating(r) /\ answer[r] = "ok" => events[id[r]] = 1

\* Requests inside a transaction.
Inside == {r \in Requests : pc[r] \in InTx}

\* The initial state.
LEMMA Initially == Init => Whole
<1> SUFFICES ASSUME Init PROVE Whole
  OBVIOUS
<1> USE SizesAssumption DEF Init
<1>1. 1 \in 1..MaxId + 1
  OBVIOUS
<1>2. /\ TypeOK /\ UniqueEmails /\ Unborn /\ Kinds
      /\ AnswersTellTheTruth /\ Truth /\ ConflictWasReal /\ Noticed /\ Judged
  BY <1>1 DEF TypeOK, UniqueEmails, Unborn, Kinds, AnswersTellTheTruth, Truth,
              ConflictWasReal, Noticed, Judged, Ids, InTx
<1>3. Inside = {}
  BY DEF Inside, InTx
<1>4. PoolAccounted
  BY <1>3, FS_EmptySet DEF PoolAccounted, Inside
<1>5. QED
  BY <1>2, <1>4 DEF Whole

-----------------------------------------------------------------------------
(* The pool.                                                               *)

\* The requests inside a transaction are counted.
LEMMA InsideCounts == IsFiniteSet(Inside) /\ Cardinality(Inside) \in Nat
BY FiniteAssumption, FS_Subset, FS_CardinalityType DEF Inside

\* Every action gives back exactly the connections it ends the use of.
LEMMA PoolKept ==
  ASSUME TypeOK, PoolAccounted, [Next]_vars
  PROVE  PoolAccounted' /\ free' \in 0..PoolSize
<1> DEFINE Kept == Inside' = Inside /\ free' = free
           Left(r) == /\ r \in Inside /\ Inside' = Inside \ {r} /\ free' = free + 1
           Joined(r) == /\ r \notin Inside /\ free > 0
                        /\ Inside' = Inside \cup {r} /\ free' = free - 1
<1>a. free + Cardinality(Inside) = PoolSize /\ free \in Nat /\ PoolSize \in Nat
  BY SizesAssumption DEF PoolAccounted, Inside, TypeOK
<1>b. SUFFICES free' + Cardinality(Inside') = PoolSize /\ free' \in 0..PoolSize
  BY DEF PoolAccounted, Inside
<1>1. CASE Kept
  BY <1>1, <1>a, InsideCounts
<1>2. ASSUME NEW r \in Requests, Left(r)
      PROVE  free' + Cardinality(Inside') = PoolSize /\ free' \in 0..PoolSize
  <2>1. Cardinality(Inside) > 0 /\ Cardinality(Inside') = Cardinality(Inside) - 1
    BY <1>2, InsideCounts, FS_RemoveElement, FS_EmptySet
  <2>2. QED
    BY <2>1, <1>2, <1>a, InsideCounts
<1>3. ASSUME NEW r \in Requests, Joined(r)
      PROVE  free' + Cardinality(Inside') = PoolSize /\ free' \in 0..PoolSize
  <2>1. Cardinality(Inside') = Cardinality(Inside) + 1
    BY <1>3, InsideCounts, FS_AddElement
  <2>2. QED
    BY <2>1, <1>3, <1>a, InsideCounts
<1> HIDE DEF Left, Joined, Kept
<1>4. ASSUME NEW r \in Requests,
             Arrive(r) \/ PreCheck(r) \/ Insert(r) \/ Publish(r) \/ Delete(r) \/ FailStatement(r)
      PROVE  Kept
  BY <1>4 DEF Kept, Inside, InTx, TypeOK, Arrive, PreCheck, Insert, Publish, Delete,
              FailStatement, Statement, Answer, Goto, Operations
<1>5. ASSUME NEW r \in Requests, Begin(r) PROVE Joined(r)
  BY <1>5 DEF Joined, Inside, InTx, TypeOK, Begin, Goto
<1>6. ASSUME NEW r \in Requests, FailInTx(r) \/ Update(r) PROVE Left(r)
  BY <1>6 DEF Left, Inside, InTx, TypeOK, FailInTx, Update, Leave, Answer, Goto
<1>7. ASSUME NEW r \in Requests, Read(r) \/ Check(r) PROVE Left(r) \/ Kept
  BY <1>7 DEF Left, Kept, Inside, InTx, TypeOK, Read, Check, Leave, Answer, Goto
<1>8. CASE Restart
  <2>1. Inside' = {} /\ free' = PoolSize
    BY <1>8 DEF Restart, Inside, InTx, TypeOK
  <2>2. QED
    BY <2>1, FS_EmptySet, <1>a
<1>9. CASE UNCHANGED vars
  BY <1>9, <1>1 DEF vars, Kept, Inside
<1>10. QED
  BY <1>1, <1>2, <1>3, <1>4, <1>5, <1>6, <1>7, <1>8, <1>9 DEF Next, Serve
-----------------------------------------------------------------------------
(* The rest of the invariant, part by part.                                *)

Labels == {"new", "precheck", "insert", "publish", "begin", "delete", "done"} \cup InTx
Outcomes == {"none", "ok", "conflict", "notfound", "internal"}

\* Every action keeps the types.
LEMMA TypesKept ==
  ASSUME TypeOK, PoolAccounted, [Next]_vars
  PROVE  TypeOK'
<1> DEFINE PcOK == pc' \in [Requests -> Labels]
           AnswerOK == answer' \in [Requests -> Outcomes]
           FaultsOK == faults' \in 0..MaxFaults
           StoreOK == table' \in [Ids -> User \cup {None}] /\ writes' \in [Ids -> Nat]
           FlagsOK == wrote' \in [Requests -> BOOLEAN] /\ taken' \in [Requests -> BOOLEAN]
           SameRequest == op' \in [Requests -> Operations] /\ body' \in [Requests -> User]
<1>a. free' \in 0..PoolSize
  BY PoolKept
<1>b. ASSUME NEW r \in Requests, NEW label \in Labels, Goto(r, label) PROVE PcOK
  BY <1>b DEF TypeOK, Goto, Labels
<1>c. ASSUME NEW r \in Requests, NEW outcome \in Outcomes, Answer(r, outcome)
      PROVE  PcOK /\ AnswerOK
  BY <1>c, <1>b DEF TypeOK, Answer, Labels, Outcomes
<1>d. ASSUME NEW r \in Requests, NEW outcome \in Outcomes, Leave(r, outcome)
      PROVE  PcOK /\ AnswerOK
  BY <1>d, <1>c DEF Leave
<1>e. SpendFault \/ UNCHANGED faults => FaultsOK
  BY SizesAssumption DEF TypeOK, SpendFault
<1>f. ASSUME NEW r \in Requests, NEW i \in Ids, NEW u \in User \cup {None}, Put(r, i, u)
      PROVE  StoreOK /\ FlagsOK
  <2>1. StoreOK
    BY <1>f DEF TypeOK, Put
  <2>2. wrote' \in [Requests -> BOOLEAN]
    BY <1>f DEF TypeOK, Put
  <2>3. taken' \in [Requests -> BOOLEAN]
    BY <1>f, Zenon DEF Put
  <2>4. QED
    BY <2>1, <2>2, <2>3
<1>g. UNCHANGED <<table, writes>> => StoreOK
  BY DEF TypeOK
<1>h. UNCHANGED <<wrote, taken>> => FlagsOK
  BY DEF TypeOK
<1>i. UNCHANGED pc => PcOK
  BY DEF TypeOK, Labels
<1>j. UNCHANGED answer => AnswerOK
  BY DEF TypeOK, Outcomes
<1>k. ASSUME PcOK, AnswerOK, FaultsOK, StoreOK, FlagsOK, UNCHANGED <<op, body>>,
             serial' \in 1..MaxId + 1, id' \in [Requests -> Ids], seen' \in [Requests -> Nat],
             events' \in [Ids -> Nat]
      PROVE  TypeOK'
  BY <1>k, <1>a DEF TypeOK, Labels, Outcomes
<1>l. /\ UNCHANGED serial => serial' \in 1..MaxId + 1
      /\ UNCHANGED id => id' \in [Requests -> Ids]
      /\ UNCHANGED seen => seen' \in [Requests -> Nat]
      /\ UNCHANGED events => events' \in [Ids -> Nat]
  BY DEF TypeOK
<1>m. \A r \in Requests : id[r] \in Ids /\ body[r] \in User
  BY DEF TypeOK
<1> HIDE DEF PcOK, AnswerOK, FaultsOK, StoreOK, FlagsOK
<1> USE <1>b, <1>c, <1>d, <1>e, <1>g, <1>h, <1>i, <1>j, <1>k, <1>l
    DEF Labels, Outcomes, InTx, store, request, Untouched
<1>1. ASSUME NEW r \in Requests, Arrive(r) PROVE TypeOK'
  <2>1. FlagsOK
    <3>1. taken' \in [Requests -> BOOLEAN]
      BY <1>1, Zenon DEF Arrive, TypeOK, HeldAgainst
    <3>2. QED
      BY <3>1, <1>1 DEF Arrive, TypeOK, FlagsOK
  <2>2. op[r] \in Operations
    BY DEF TypeOK
  <2>3. PcOK
    BY <1>1, <2>2 DEF Arrive, Operations
  <2>4. QED
    BY <1>1, <2>1, <2>3 DEF Arrive
<1>2. ASSUME NEW r \in Requests, FailStatement(r) \/ FailInTx(r) PROVE TypeOK'
  BY <1>2 DEF FailStatement, FailInTx
<1>3. ASSUME NEW r \in Requests, PreCheck(r) \/ Begin(r) \/ Check(r) PROVE TypeOK'
  BY <1>3 DEF PreCheck, Begin, Check
<1>4. ASSUME NEW r \in Requests, Insert(r) PROVE TypeOK'
  <2>1. serial \in Ids /\ serial' \in 1..MaxId + 1
    BY <1>4, SizesAssumption DEF Insert, TypeOK, Ids
  <2>2. StoreOK /\ FlagsOK
    BY <1>4, <1>f, <1>m, <2>1 DEF Insert
  <2>3. PcOK /\ AnswerOK /\ FaultsOK
    BY <1>4 DEF Insert
  <2>4. id' \in [Requests -> Ids] /\ seen' \in [Requests -> Nat] /\ events' \in [Ids -> Nat]
    BY <1>4, <2>1 DEF Insert, TypeOK
  <2>5. QED
    BY <1>4, <2>1, <2>2, <2>3, <2>4 DEF Insert
<1>5. ASSUME NEW r \in Requests, Publish(r) PROVE TypeOK'
  <2>1. events' \in [Ids -> Nat]
    BY <1>5 DEF Publish, TypeOK
  <2>2. QED
    BY <1>5, <2>1 DEF Publish
<1>6. ASSUME NEW r \in Requests, Read(r) PROVE TypeOK'
  <2>1. seen' \in [Requests -> Nat]
    BY <1>6 DEF Read, TypeOK
  <2>2. QED
    BY <1>6, <2>1 DEF Read
<1>7. ASSUME NEW r \in Requests, Update(r) PROVE TypeOK'
  <2>1. StoreOK /\ FlagsOK
    BY <1>7, <1>f, <1>m DEF Update
  <2>2. QED
    BY <1>7, <2>1 DEF Update
<1>8. ASSUME NEW r \in Requests, Delete(r) PROVE TypeOK'
  <2>1. StoreOK /\ FlagsOK
    BY <1>8, <1>f, <1>m DEF Delete
  <2>2. QED
    BY <1>8, <2>1 DEF Delete
<1>9. CASE Restart
  <2>1. PcOK /\ AnswerOK
    BY <1>9 DEF Restart, TypeOK, PcOK, AnswerOK
  <2>2. QED
    BY <1>9, <2>1 DEF Restart
<1>10. CASE UNCHANGED vars
  BY <1>10 DEF vars, history
<1>11. QED
  BY <1>1, <1>2, <1>3, <1>4, <1>5, <1>6, <1>7, <1>8, <1>9, <1>10 DEF Next, Serve

\* Ids the sequence has not reached were never written.
LEMMA UnbornKept ==
  ASSUME TypeOK, Unborn, [Next]_vars
  PROVE  Unborn' /\ Stays
<1> USE DEF store, request, Untouched
<1>1. ASSUME NEW r \in Requests, Insert(r) PROVE Unborn' /\ Stays
  <2>1. serial \in Ids
    BY <1>1, SizesAssumption DEF Insert, TypeOK, Ids
  <2>2. table[serial] = None /\ writes[serial] = 0
    BY <2>1 DEF Unborn, Ids
  <2>3. \A i \in Ids \ {serial} : table'[i] = table[i] /\ writes'[i] = writes[i]
    BY <1>1, <2>1 DEF Insert, Put, TypeOK
  <2>4. serial' = serial + 1 /\ serial' > serial
    BY <1>1, <2>1 DEF Insert, Ids
  <2>5. Unborn'
    BY <2>3, <2>4, <2>1 DEF Unborn, Ids
  <2>6. Stays
    BY <2>2, <2>3 DEF Stays
  <2>7. QED
    BY <2>5, <2>6
<1>2. ASSUME NEW r \in Requests, Update(r) \/ Delete(r) PROVE Unborn' /\ Stays
  <2>1. id[r] \in Ids
    BY DEF TypeOK
  <2>2. CASE UNCHANGED <<table, writes>>
    BY <1>2, <2>2 DEF Update, Delete, Unborn, Stays
  <2>3. CASE table[id[r]] # None /\ \E u : Put(r, id[r], u)
    <3>1. \A i \in Ids \ {id[r]} : table'[i] = table[i] /\ writes'[i] = writes[i]
      BY <2>3, <2>1 DEF Put, TypeOK
    <3>2. serial' = serial /\ ~(id[r] >= serial)
      BY <1>2, <2>1, <2>3 DEF Update, Delete, Unborn
    <3>3. QED
      BY <3>1, <3>2, <2>3 DEF Unborn, Stays
  <2>4. QED
    BY <1>2, <2>2, <2>3 DEF Update, Delete
<1>3. CASE UNCHANGED store
  BY <1>3 DEF Unborn, Stays
<1>4. ASSUME NEW r \in Requests,
             \/ Arrive(r) \/ FailStatement(r) \/ FailInTx(r) \/ PreCheck(r) \/ Publish(r)
             \/ Begin(r) \/ Read(r) \/ Check(r)
      PROVE  UNCHANGED store
  BY <1>4 DEF Arrive, FailStatement, FailInTx, PreCheck, Publish, Begin, Read, Check
<1>5. CASE Restart
  BY <1>3, <1>5 DEF Restart
<1>6. CASE UNCHANGED vars
  BY <1>3, <1>6 DEF vars
<1>7. QED
  BY <1>1, <1>2, <1>3, <1>4, <1>5, <1>6 DEF Next, Serve

\* E-mails stay unique: an insert and an update write one nobody else has.
LEMMA UniqueKept ==
  ASSUME TypeOK, UniqueEmails, [Next]_vars
  PROVE  UniqueEmails'
<1> DEFINE Free(i, u) == u = None \/ \A j \in Ids \ {i} :
                           table[j] # None => table[j].email # u.email
<1>a. ASSUME NEW r \in Requests, NEW i \in Ids, NEW u, Free(i, u), Put(r, i, u)
      PROVE  UniqueEmails'
  <2>1. table'[i] = u /\ \A j \in Ids \ {i} : table'[j] = table[j]
    BY <1>a DEF Put, TypeOK
  <2>2. QED
    BY <2>1, <1>a DEF UniqueEmails
<1>b. CASE UNCHANGED table
  BY <1>b DEF UniqueEmails
<1> USE DEF store, request, Untouched
<1>1. ASSUME NEW r \in Requests, Insert(r) PROVE UniqueEmails'
  <2>1. serial \in Ids
    BY <1>1, SizesAssumption DEF Insert, TypeOK, Ids
  <2>2. CASE Violates(r)
    BY <1>1, <1>b, <2>2 DEF Insert
  <2>3. CASE ~Violates(r)
    <3>1. Free(serial, body[r])
      BY <2>3 DEF Violates, Holds, Email
    <3>2. Put(r, serial, body[r])
      BY <1>1, <2>3 DEF Insert
    <3>3. QED
      BY <3>1, <3>2, <2>1, <1>a
  <2>4. QED
    BY <2>2, <2>3
<1>2. ASSUME NEW r \in Requests, Update(r) PROVE UniqueEmails'
  <2>1. id[r] \in Ids
    BY DEF TypeOK
  <2>2. CASE UNCHANGED table
    BY <1>b, <2>2
  <2>3. CASE ~HeldByOther(id[r], Email(r)) /\ Put(r, id[r], body[r])
    <3>1. Free(id[r], body[r])
      BY <2>3 DEF HeldByOther, Email
    <3>2. QED
      BY <3>1, <2>1, <2>3, <1>a
  <2>4. QED
    BY <1>2, <2>2, <2>3 DEF Update
<1>3. ASSUME NEW r \in Requests, Delete(r) PROVE UniqueEmails'
  <2>1. id[r] \in Ids /\ Free(id[r], None)
    BY DEF TypeOK
  <2>2. UNCHANGED table \/ Put(r, id[r], None)
    BY <1>3 DEF Delete
  <2>3. QED
    BY <2>1, <2>2, <1>a, <1>b
<1>4. ASSUME NEW r \in Requests,
             \/ Arrive(r) \/ FailStatement(r) \/ FailInTx(r) \/ PreCheck(r) \/ Publish(r)
             \/ Begin(r) \/ Read(r) \/ Check(r)
      PROVE  UNCHANGED table
  BY <1>4 DEF Arrive, FailStatement, FailInTx, PreCheck, Publish, Begin, Read, Check
<1>5. CASE Restart
  BY <1>b, <1>5 DEF Restart
<1>6. CASE UNCHANGED vars
  BY <1>b, <1>6 DEF vars
<1>7. QED
  BY <1>1, <1>2, <1>3, <1>4, <1>5, <1>6, <1>b DEF Next, Serve

\* The answers stay true: a request writes at most once, with its last statement.
LEMMA TruthKept ==
  ASSUME TypeOK, AnswersTellTheTruth, Truth, [Next]_vars
  PROVE  AnswersTellTheTruth' /\ Truth'
<1> USE DEF TypeOK, AnswersTellTheTruth, Truth, Answer, Goto, Leave, Untouched, InTx
<1>1. ASSUME NEW r \in Requests, Arrive(r) PROVE AnswersTellTheTruth' /\ Truth'
  <2>1. op[r] \in Operations
    BY DEF TypeOK
  <2>2. \E label \in {"precheck", "insert", "begin", "delete"} : Goto(r, label)
    BY <1>1, <2>1 DEF Arrive, Operations
  <2>3. QED
    BY <1>1, <2>2 DEF Arrive
<1>2. ASSUME NEW r \in Requests, FailStatement(r) PROVE AnswersTellTheTruth' /\ Truth'
  BY <1>2 DEF FailStatement
<1>3. ASSUME NEW r \in Requests, FailInTx(r) PROVE AnswersTellTheTruth' /\ Truth'
  BY <1>3 DEF FailInTx
<1>4. ASSUME NEW r \in Requests, PreCheck(r) PROVE AnswersTellTheTruth' /\ Truth'
  BY <1>4 DEF PreCheck
<1>5. ASSUME NEW r \in Requests, Insert(r) PROVE AnswersTellTheTruth' /\ Truth'
  BY <1>5 DEF Insert, Put
<1>6. ASSUME NEW r \in Requests, Publish(r) PROVE AnswersTellTheTruth' /\ Truth'
  BY <1>6 DEF Publish
<1>7. ASSUME NEW r \in Requests, Begin(r) PROVE AnswersTellTheTruth' /\ Truth'
  BY <1>7 DEF Begin
<1>8. ASSUME NEW r \in Requests, Read(r) PROVE AnswersTellTheTruth' /\ Truth'
  BY <1>8 DEF Read
<1>9. ASSUME NEW r \in Requests, Check(r) PROVE AnswersTellTheTruth' /\ Truth'
  BY <1>9 DEF Check
<1>10. ASSUME NEW r \in Requests, Update(r) PROVE AnswersTellTheTruth' /\ Truth'
  BY <1>10 DEF Update, Put
<1>11. ASSUME NEW r \in Requests, Delete(r) PROVE AnswersTellTheTruth' /\ Truth'
  BY <1>11 DEF Delete, Put
<1>12. CASE Restart
  BY <1>12 DEF Restart
<1>13. CASE UNCHANGED vars
  BY <1>13 DEF vars, history
<1>14. QED
  BY <1>1, <1>2, <1>3, <1>4, <1>5, <1>6, <1>7, <1>8, <1>9, <1>10, <1>11, <1>12, <1>13 DEF Next, Serve

\* Conflicts stay justified: every write tells the requests that came in, and an update
\* whose row is written between its read and its check can tell.
LEMMA ConflictKept ==
  ASSUME TypeOK, Kinds, ConflictWasReal, Noticed, Judged, Truth, [Next]_vars
  PROVE  ConflictWasReal' /\ Noticed'
<1> USE DEF Answer, Goto, Leave, Untouched, store, request
<1>t. /\ op \in [Requests -> Operations] /\ id \in [Requests -> Ids] /\ DOMAIN pc = Requests
      /\ writes \in [Ids -> Nat] /\ seen \in [Requests -> Nat] /\ DOMAIN answer = Requests
      /\ DOMAIN taken = Requests
  BY DEF TypeOK
<1>a. ASSUME NEW r \in Requests, NEW i \in Ids, NEW u, Put(r, i, u), UNCHANGED <<op, body, seen>>,
             \A q \in Requests : op[q] = "update" => id'[q] = id[q],
             \A q \in Requests : pc'[q] # "new" => pc[q] # "new",
             \A q \in Requests : answer'[q] = "conflict" => answer[q] = "conflict"
      PROVE  ConflictWasReal' /\ Noticed'
  <2>1. \A q \in Requests :
          taken'[q] <=> taken[q] \/ (pc[q] # "new" /\ HeldAgainst(table', q))
    BY <1>a, Zenon DEF Put
  <2>2. \A q \in Requests : HeldAgainst(table, q)' => HeldAgainst(table', q)
    BY <1>a DEF HeldAgainst, Email
  <2>3. \A j \in Ids : writes[j] \in Nat /\ writes'[j] \in Nat /\ writes'[j] >= writes[j]
    BY <1>a, <1>t DEF Put
  <2>4. ASSUME NEW q \in Requests, op[q] = "update", writes[id[q]] > seen[q]
        PROVE  writes'[id[q]] > seen[q]
    BY <2>3, <2>4, <1>t
  <2>5. Noticed'
    BY <1>a, <2>1, <2>2 DEF Noticed
  <2>6. ConflictWasReal'
    BY <1>a, <2>1, <2>4 DEF ConflictWasReal
  <2>7. QED
    BY <2>5, <2>6
<1>b. ASSUME UNCHANGED <<table, writes, op, body, taken>>,
             \A q \in Requests : op[q] = "update" => id'[q] = id[q],
             \A q \in Requests : pc'[q] # "new" => pc[q] # "new",
             \A q \in Requests : answer'[q] = "conflict" =>
                \/ taken[q] /\ pc[q] # "new"
                \/ seen'[q] = seen[q] /\ op[q] = "update" /\ writes[id[q]] > seen[q]
      PROVE  ConflictWasReal' /\ Noticed'
  <2>1. \A q \in Requests : HeldAgainst(table, q)' => HeldAgainst(table, q)
    BY <1>b DEF HeldAgainst, Email
  <2>2. Noticed'
    BY <1>b, <2>1 DEF Noticed
  <2>3. ConflictWasReal'
    BY <1>b DEF ConflictWasReal
  <2>4. QED
    BY <2>2, <2>3
<1>c. ASSUME NEW q \in Requests, answer[q] = "conflict"
      PROVE  \/ taken[q] /\ pc[q] # "new"
             \/ op[q] = "update" /\ writes[id[q]] > seen[q]
  BY <1>c DEF ConflictWasReal, Truth
<1>1. ASSUME NEW r \in Requests, Arrive(r) PROVE ConflictWasReal' /\ Noticed'
  <2>1. answer[r] = "none" /\ UNCHANGED <<table, writes, op, body, id, seen, answer>>
    BY <1>1 DEF Arrive, Truth
  <2>2. /\ taken'[r] = HeldAgainst(table, r)
        /\ \A q \in Requests \ {r} : taken'[q] = taken[q] /\ pc'[q] = pc[q]
    BY <1>1, <1>t DEF Arrive
  <2>3. \A q \in Requests : HeldAgainst(table, q)' <=> HeldAgainst(table, q)
    BY <2>1 DEF HeldAgainst, Email
  <2>4. QED
    BY <2>1, <2>2, <2>3 DEF ConflictWasReal, Noticed
<1>2. ASSUME NEW r \in Requests, FailStatement(r) \/ FailInTx(r) \/ Publish(r) \/ Begin(r)
      PROVE  ConflictWasReal' /\ Noticed'
  <2>1. /\ UNCHANGED <<table, writes, op, body, taken, id, seen>> /\ pc[r] # "new"
        /\ \A q \in Requests \ {r} : pc'[q] = pc[q] /\ answer'[q] = answer[q]
        /\ answer'[r] = "conflict" => answer[r] = "conflict"
    BY <1>2, <1>t DEF FailStatement, FailInTx, Publish, Begin, InTx
  <2>2. QED
    BY <1>b, <1>c, <2>1
<1>3. ASSUME NEW r \in Requests, PreCheck(r) PROVE ConflictWasReal' /\ Noticed'
  <2>1. /\ UNCHANGED <<table, writes, op, body, taken, id, seen>> /\ pc[r] = "precheck"
        /\ \A q \in Requests \ {r} : pc'[q] = pc[q] /\ answer'[q] = answer[q]
        /\ answer'[r] = "conflict" => answer[r] = "conflict" \/ Holds(table, Email(r))
    BY <1>3, <1>t DEF PreCheck
  <2>2. op[r] # "update"
    BY <2>1 DEF Kinds, Creating, InTx
  <2>3. Holds(table, Email(r)) => taken[r]
    BY <2>1, <2>2 DEF Noticed, Holds, HeldAgainst
  <2>4. QED
    BY <1>b, <1>c, <2>1, <2>3
<1>4. ASSUME NEW r \in Requests, Insert(r) PROVE ConflictWasReal' /\ Noticed'
  <2>1. /\ UNCHANGED <<op, body, seen>> /\ pc[r] = "insert" /\ answer[r] = "none"
        /\ \A q \in Requests \ {r} : pc'[q] = pc[q] /\ answer'[q] = answer[q] /\ id'[q] = id[q]
    BY <1>4, <1>t DEF Insert, Truth
  <2>2. op[r] # "update"
    BY <2>1 DEF Kinds, Creating, InTx
  <2>3. CASE Violates(r)
    <3>1. UNCHANGED <<table, writes, taken, id>>
      BY <1>4, <2>3 DEF Insert
    <3>2. taken[r]
      BY <2>1, <2>2, <2>3 DEF Violates, Noticed, Holds, HeldAgainst
    <3>3. QED
      BY <1>b, <1>c, <2>1, <3>1, <3>2
  <2>4. CASE ~Violates(r)
    <3>1. Put(r, serial, body[r]) /\ answer'[r] # "conflict" /\ serial \in Ids
      BY <1>4, <1>t, <2>1, <2>4, SizesAssumption DEF Insert, TypeOK, Ids
    <3>2. QED
      BY <1>a, <2>1, <2>2, <3>1
  <2>5. QED
    BY <2>3, <2>4
<1>5. ASSUME NEW r \in Requests, Read(r) PROVE ConflictWasReal' /\ Noticed'
  <2>1. /\ UNCHANGED <<table, writes, op, body, taken, id>> /\ pc[r] = "read"
        /\ \A q \in Requests \ {r} :
             pc'[q] = pc[q] /\ answer'[q] = answer[q] /\ seen'[q] = seen[q]
        /\ answer'[r] # "conflict"
    BY <1>5, <1>t DEF Read, Truth
  <2>2. QED
    BY <1>b, <1>c, <2>1
<1>6. ASSUME NEW r \in Requests, Check(r) PROVE ConflictWasReal' /\ Noticed'
  <2>1. /\ UNCHANGED <<table, writes, op, body, taken, id, seen>> /\ pc[r] = "check"
        /\ \A q \in Requests \ {r} : pc'[q] = pc[q] /\ answer'[q] = answer[q]
        /\ answer'[r] = "conflict" => answer[r] = "conflict" \/ Holds(table, Email(r))
    BY <1>6, <1>t DEF Check
  <2>2. op[r] = "update"
    BY <2>1 DEF Kinds, Creating, InTx
  <2>3. ASSUME Holds(table, Email(r)), ~taken[r] PROVE writes[id[r]] > seen[r]
    <3>1. PICK i \in Ids : table[i] # None /\ table[i].email = Email(r)
      BY <2>3 DEF Holds
    <3>2. i = id[r]
      BY <2>1, <2>3, <3>1 DEF Noticed, HeldAgainst
    <3>3. seen[r] <= writes[id[r]] /\ writes[id[r]] # seen[r]
      BY <2>1, <3>1, <3>2 DEF Judged
    <3>4. QED
      BY <1>t, <3>3
  <2>4. QED
    BY <1>b, <1>c, <2>1, <2>2, <2>3
<1>7. ASSUME NEW r \in Requests, Update(r) PROVE ConflictWasReal' /\ Noticed'
  <2>1. /\ UNCHANGED <<op, body, seen, id>> /\ pc[r] = "update" /\ answer[r] = "none"
        /\ \A q \in Requests \ {r} : pc'[q] = pc[q] /\ answer'[q] = answer[q]
    BY <1>7, <1>t DEF Update, Truth
  <2>2. CASE table[id[r]] = None \/ HeldByOther(id[r], Email(r))
    <3>1. UNCHANGED <<table, writes, taken>>
      BY <1>7, <2>2 DEF Update
    <3>2. answer'[r] = "conflict" => HeldByOther(id[r], Email(r))
      BY <1>7, <1>t, <2>2 DEF Update
    <3>3. HeldByOther(id[r], Email(r)) => taken[r]
      BY <2>1 DEF HeldByOther, Noticed, HeldAgainst
    <3>4. QED
      BY <1>b, <1>c, <2>1, <3>1, <3>2, <3>3
  <2>3. CASE ~(table[id[r]] = None \/ HeldByOther(id[r], Email(r)))
    <3>1. Put(r, id[r], body[r]) /\ answer'[r] # "conflict"
      BY <1>7, <1>t, <2>3 DEF Update
    <3>2. QED
      BY <1>a, <1>t, <2>1, <3>1
  <2>4. QED
    BY <2>2, <2>3
<1>8. ASSUME NEW r \in Requests, Delete(r) PROVE ConflictWasReal' /\ Noticed'
  <2>1. /\ UNCHANGED <<op, body, seen, id>> /\ pc[r] = "delete" /\ answer'[r] # "conflict"
        /\ \A q \in Requests \ {r} : pc'[q] = pc[q] /\ answer'[q] = answer[q]
    BY <1>8, <1>t DEF Delete
  <2>2. CASE UNCHANGED <<table, writes, taken>>
    BY <1>b, <1>c, <2>1, <2>2
  <2>3. CASE Put(r, id[r], None)
    BY <1>a, <1>t, <2>1, <2>3
  <2>4. QED
    BY <1>8, <2>2, <2>3 DEF Delete
<1>9. CASE Restart
  <2>1. /\ UNCHANGED <<table, writes, op, body, taken, id, seen>>
        /\ \A q \in Requests : /\ pc'[q] # "new" => pc[q] # "new"
                               /\ answer'[q] = "conflict" => answer[q] = "conflict"
    BY <1>9 DEF Restart
  <2>2. QED
    BY <1>b, <1>c, <2>1
<1>10. CASE UNCHANGED vars
  BY <1>b, <1>c, <1>10 DEF vars, history
<1>11. QED
  BY <1>1, <1>2, <1>3, <1>4, <1>5, <1>6, <1>7, <1>8, <1>9, <1>10 DEF Next, Serve

\* What an update judged by holds until its row is written.
LEMMA JudgedKept ==
  ASSUME TypeOK, Judged, [Next]_vars
  PROVE  Judged'
<1> USE DEF Answer, Goto, Leave, Untouched, store, request
<1>t. /\ id \in [Requests -> Ids] /\ writes \in [Ids -> Nat] /\ seen \in [Requests -> Nat]
      /\ DOMAIN pc = Requests /\ DOMAIN table = Ids
  BY DEF TypeOK
<1>a. ASSUME UNCHANGED <<table, writes, body>>,
             \A q \in Requests : pc'[q] = "check" =>
               pc[q] = "check" /\ id'[q] = id[q] /\ seen'[q] = seen[q]
      PROVE  Judged'
  BY <1>a DEF Judged, Email
<1>b. ASSUME NEW r \in Requests, NEW i \in Ids, NEW u, Put(r, i, u), UNCHANGED <<body, seen>>,
             \A q \in Requests : pc'[q] = "check" => pc[q] = "check" /\ id'[q] = id[q]
      PROVE  Judged'
  <2> SUFFICES ASSUME NEW q \in Requests, pc'[q] = "check"
               PROVE  /\ seen[q] <= writes'[id[q]]
                      /\ writes'[id[q]] = seen[q] =>
                           table'[id[q]] # None /\ table'[id[q]].email # body[q].email
    BY <1>b DEF Judged, Email
  <2>1. /\ id[q] \in Ids /\ writes[id[q]] \in Nat /\ seen[q] \in Nat
        /\ seen[q] <= writes[id[q]]
        /\ writes[id[q]] = seen[q] =>
             table[id[q]] # None /\ table[id[q]].email # body[q].email
    BY <1>b, <1>t DEF Judged, Email
  <2>2. CASE id[q] = i
    <3>1. writes'[id[q]] = writes[id[q]] + 1
      BY <1>b, <1>t, <2>2 DEF Put
    <3>2. QED
      BY <2>1, <3>1
  <2>3. CASE id[q] # i
    <3>1. writes'[id[q]] = writes[id[q]] /\ table'[id[q]] = table[id[q]]
      BY <1>b, <1>t, <2>1, <2>3 DEF Put
    <3>2. QED
      BY <2>1, <3>1
  <2>4. QED
    BY <2>2, <2>3
<1>1. ASSUME NEW r \in Requests,
             \/ Arrive(r) \/ FailStatement(r) \/ FailInTx(r) \/ PreCheck(r) \/ Publish(r)
             \/ Begin(r) \/ Check(r)
      PROVE  Judged'
  <2>1. UNCHANGED <<table, writes, body, id, seen>>
    BY <1>1 DEF Arrive, FailStatement, FailInTx, PreCheck, Publish, Begin, Check
  <2>2. \A q \in Requests : pc'[q] = "check" => pc[q] = "check"
    <3>1. op[r] \in Operations
      BY DEF TypeOK
    <3>2. QED
      BY <1>1, <1>t, <3>1 DEF Arrive, FailStatement, FailInTx, PreCheck, Publish, Begin, Check,
                             Operations
  <2>3. QED
    BY <1>a, <2>1, <2>2
<1>2. ASSUME NEW r \in Requests, Read(r) PROVE Judged'
  <2>1. /\ UNCHANGED <<table, writes, body, id>> /\ seen'[r] = writes[id[r]]
        /\ \A q \in Requests \ {r} : pc'[q] = pc[q] /\ seen'[q] = seen[q]
        /\ pc'[r] = "check" => table[id[r]] # None /\ table[id[r]].email # Email(r)
    BY <1>2, <1>t DEF Read
  <2>2. writes[id[r]] <= writes[id[r]]
    BY <1>t
  <2>3. QED
    BY <2>1, <2>2 DEF Judged, Email
<1>3. ASSUME NEW r \in Requests, Insert(r) PROVE Judged'
  <2>1. /\ UNCHANGED <<body, seen>> /\ pc'[r] # "check"
        /\ \A q \in Requests \ {r} : pc'[q] = pc[q] /\ id'[q] = id[q]
    BY <1>3, <1>t DEF Insert
  <2>2. CASE Violates(r)
    <3>1. UNCHANGED <<table, writes>>
      BY <1>3, <2>2 DEF Insert
    <3>2. QED
      BY <1>a, <2>1, <3>1
  <2>3. CASE ~Violates(r)
    <3>1. Put(r, serial, body[r]) /\ serial \in Ids
      BY <1>3, <2>3, SizesAssumption DEF Insert, TypeOK, Ids
    <3>2. QED
      BY <1>b, <2>1, <3>1
  <2>4. QED
    BY <2>2, <2>3
<1>4. ASSUME NEW r \in Requests, Update(r) \/ Delete(r) PROVE Judged'
  <2>1. /\ UNCHANGED <<body, seen, id>> /\ pc'[r] # "check"
        /\ \A q \in Requests \ {r} : pc'[q] = pc[q]
    BY <1>4, <1>t DEF Update, Delete
  <2>2. UNCHANGED <<table, writes>> \/ \E u : Put(r, id[r], u)
    BY <1>4 DEF Update, Delete
  <2>3. QED
    BY <1>a, <1>b, <1>t, <2>1, <2>2
<1>5. CASE Restart
  <2>1. UNCHANGED <<table, writes, body, id, seen>> /\ \A q \in Requests : pc'[q] # "check"
    BY <1>5 DEF Restart
  <2>2. QED
    BY <1>a, <2>1
<1>6. CASE UNCHANGED vars
  BY <1>a, <1>6 DEF vars, history
<1>7. QED
  BY <1>1, <1>2, <1>3, <1>4, <1>5, <1>6 DEF Next, Serve

\* Statements follow their operation.
LEMMA KindsKept ==
  ASSUME TypeOK, Kinds, [Next]_vars
  PROVE  Kinds'
<1> USE DEF TypeOK, Kinds, Creating, Answer, Goto, Leave, Untouched, InTx, store, request
<1>1. ASSUME NEW r \in Requests, Arrive(r) PROVE Kinds'
  <2>1. op[r] \in Operations
    BY DEF TypeOK
  <2>2. QED
    BY <1>1, <2>1 DEF Arrive, Operations
<1>2. ASSUME NEW r \in Requests, FailStatement(r) PROVE Kinds'
  BY <1>2 DEF FailStatement
<1>3. ASSUME NEW r \in Requests, FailInTx(r) PROVE Kinds'
  BY <1>3 DEF FailInTx
<1>4. ASSUME NEW r \in Requests, PreCheck(r) PROVE Kinds'
  BY <1>4 DEF PreCheck
<1>5. ASSUME NEW r \in Requests, Insert(r) PROVE Kinds'
  BY <1>5 DEF Insert
<1>6. ASSUME NEW r \in Requests, Publish(r) PROVE Kinds'
  BY <1>6 DEF Publish
<1>7. ASSUME NEW r \in Requests, Begin(r) PROVE Kinds'
  BY <1>7 DEF Begin
<1>8. ASSUME NEW r \in Requests, Read(r) PROVE Kinds'
  BY <1>8 DEF Read
<1>9. ASSUME NEW r \in Requests, Check(r) PROVE Kinds'
  BY <1>9 DEF Check
<1>10. ASSUME NEW r \in Requests, Update(r) PROVE Kinds'
  BY <1>10 DEF Update
<1>11. ASSUME NEW r \in Requests, Delete(r) PROVE Kinds'
  BY <1>11 DEF Delete
<1>12. CASE Restart
  BY <1>12 DEF Restart
<1>13. CASE UNCHANGED vars
  BY <1>13 DEF vars
<1>14. QED
  BY <1>1, <1>2, <1>3, <1>4, <1>5, <1>6, <1>7, <1>8, <1>9, <1>10, <1>11, <1>12, <1>13 DEF Next, Serve

\* Nobody is announced twice: ids are handed out once, and whoever inserted one is the
\* only one to publish it.
LEMMA ToldKept ==
  ASSUME TypeOK, Truth, Kinds, Told, [Next]_vars
  PROVE  Told'
<1> USE DEF Answer, Goto, Leave, Untouched, InTx, store, request
<1>t. /\ serial \in Nat /\ faults \in Nat /\ events \in [Ids -> Nat] /\ writes \in [Ids -> Nat]
      /\ id \in [Requests -> Ids] /\ Ids \subseteq Nat /\ DOMAIN pc = Requests
      /\ DOMAIN answer = Requests
  BY SizesAssumption DEF TypeOK, Ids
<1>a. ASSUME UNCHANGED <<op, id, events>>, serial' \in Nat, serial' >= serial,
             \A i \in Ids : writes'[i] >= writes[i] /\ writes'[i] \in Nat,
             \A q \in Requests : pc'[q] = "publish" => pc[q] = "publish",
             \A q \in Requests : Creating(q) /\ answer'[q] = "ok" => answer[q] = "ok",
             faults' = 0 => faults = 0
      PROVE  Told'
  <2>1. ASSUME NEW i \in Ids
        PROVE  /\ events'[i] \in {0, 1}
               /\ i >= serial' => events'[i] = 0
               /\ events'[i] = 1 => writes'[i] > 0
    <3>1. i \in Nat /\ writes[i] \in Nat /\ writes'[i] \in Nat /\ writes'[i] >= writes[i]
      BY <1>a, <1>t
    <3>2. /\ events[i] \in {0, 1}
          /\ i >= serial => events[i] = 0
          /\ events[i] = 1 => writes[i] > 0
      BY DEF Told
    <3>3. i >= serial' => i >= serial
      BY <1>a, <1>t, <3>1
    <3>4. QED
      BY <1>a, <3>1, <3>2, <3>3
  <2>2. ASSUME NEW q \in Requests, pc'[q] = "publish"
        PROVE  /\ id'[q] < serial' /\ writes'[id'[q]] > 0 /\ events'[id'[q]] = 0
               /\ \A p \in Requests \ {q} : pc'[p] = "publish" => id'[p] # id'[q]
    <3>1. /\ id[q] < serial /\ writes[id[q]] > 0 /\ events[id[q]] = 0
          /\ \A p \in Requests \ {q} : pc[p] = "publish" => id[p] # id[q]
      BY <1>a, <2>2 DEF Told
    <3>2. id[q] \in Ids /\ id[q] \in Nat /\ writes[id[q]] \in Nat
      BY <1>t
    <3>3. id[q] < serial' /\ writes'[id[q]] > 0
      BY <1>a, <1>t, <3>1, <3>2
    <3>4. QED
      BY <1>a, <3>1, <3>3
  <2>3. faults' = 0 => \A q \in Requests : (Creating(q) /\ answer[q] = "ok" => events[id[q]] = 1)'
    BY <1>a DEF Told, Creating
  <2>4. QED
    BY <2>1, <2>2, <2>3 DEF Told
<1>b. ASSUME SpendFault PROVE faults' # 0
  BY <1>b, <1>t DEF SpendFault
<1>s. UNCHANGED serial => serial' \in Nat /\ serial' >= serial
  BY <1>t
<1>c. UNCHANGED writes => \A i \in Ids : writes'[i] >= writes[i] /\ writes'[i] \in Nat
  BY <1>t
<1>d. ASSUME NEW r \in Requests, NEW u, Put(r, id[r], u)
      PROVE  \A i \in Ids : writes'[i] >= writes[i] /\ writes'[i] \in Nat
  <2>1. writes' = [writes EXCEPT ![id[r]] = @ + 1]
    BY <1>d DEF Put
  <2>2. QED
    BY <1>t, <2>1
<1>1. ASSUME NEW r \in Requests, Arrive(r) PROVE Told'
  <2>1. op[r] \in Operations
    BY DEF TypeOK
  <2>2. \A q \in Requests : pc'[q] = "publish" => pc[q] = "publish"
    BY <1>1, <1>t, <2>1 DEF Arrive, Operations
  <2>3. UNCHANGED <<serial, op, id, events, writes, answer, faults>>
    BY <1>1 DEF Arrive
  <2>4. QED
    BY <1>a, <1>s, <1>c, <2>2, <2>3
<1>2. ASSUME NEW r \in Requests, FailStatement(r) PROVE Told'
  <2>1. UNCHANGED <<serial, op, id, events, writes>> /\ (faults' = 0 => faults = 0)
    BY <1>2, <1>b DEF FailStatement
  <2>2. \A q \in Requests : /\ pc'[q] = "publish" => pc[q] = "publish"
                            /\ answer'[q] = "ok" => answer[q] = "ok"
    BY <1>2, <1>t DEF FailStatement
  <2>3. QED
    BY <1>a, <1>s, <1>c, <2>1, <2>2
<1>3. ASSUME NEW r \in Requests, FailInTx(r) PROVE Told'
  <2>1. UNCHANGED <<serial, op, id, events, writes>> /\ (faults' = 0 => faults = 0)
    BY <1>3, <1>b DEF FailInTx
  <2>2. \A q \in Requests : /\ pc'[q] = "publish" => pc[q] = "publish"
                            /\ answer'[q] = "ok" => answer[q] = "ok"
    BY <1>3, <1>t DEF FailInTx
  <2>3. QED
    BY <1>a, <1>s, <1>c, <2>1, <2>2
<1>4. ASSUME NEW r \in Requests, PreCheck(r) PROVE Told'
  <2>1. UNCHANGED <<serial, op, id, events, writes>> /\ (faults' = 0 => faults = 0)
    BY <1>4, <1>b DEF PreCheck
  <2>2. \A q \in Requests : /\ pc'[q] = "publish" => pc[q] = "publish"
                            /\ answer'[q] = "ok" => answer[q] = "ok"
    BY <1>4, <1>t DEF PreCheck
  <2>3. QED
    BY <1>a, <1>s, <1>c, <2>1, <2>2
<1>5. ASSUME NEW r \in Requests, Begin(r) PROVE Told'
  <2>1. UNCHANGED <<serial, op, id, events, writes>> /\ (faults' = 0 => faults = 0)
    BY <1>5, <1>b DEF Begin
  <2>2. \A q \in Requests : /\ pc'[q] = "publish" => pc[q] = "publish"
                            /\ answer'[q] = "ok" => answer[q] = "ok"
    BY <1>5, <1>t DEF Begin
  <2>3. QED
    BY <1>a, <1>s, <1>c, <2>1, <2>2
<1>6. ASSUME NEW r \in Requests, Read(r) PROVE Told'
  <2>1. UNCHANGED <<serial, op, id, events, writes>> /\ (faults' = 0 => faults = 0)
    BY <1>6, <1>b DEF Read
  <2>2. \A q \in Requests : /\ pc'[q] = "publish" => pc[q] = "publish"
                            /\ answer'[q] = "ok" => answer[q] = "ok"
    BY <1>6, <1>t DEF Read
  <2>3. QED
    BY <1>a, <1>s, <1>c, <2>1, <2>2
<1>7. ASSUME NEW r \in Requests, Check(r) PROVE Told'
  <2>1. UNCHANGED <<serial, op, id, events, writes>> /\ (faults' = 0 => faults = 0)
    BY <1>7, <1>b DEF Check
  <2>2. \A q \in Requests : /\ pc'[q] = "publish" => pc[q] = "publish"
                            /\ answer'[q] = "ok" => answer[q] = "ok"
    BY <1>7, <1>t DEF Check
  <2>3. QED
    BY <1>a, <1>s, <1>c, <2>1, <2>2
<1>8. ASSUME NEW r \in Requests, Update(r) PROVE Told'
  <2>1. UNCHANGED <<serial, op, id, events>> /\ (faults' = 0 => faults = 0)
    BY <1>8, <1>b DEF Update
  <2>2. ~Creating(r)
    BY <1>8 DEF Update, Kinds
  <2>3. \A q \in Requests : /\ pc'[q] = "publish" => pc[q] = "publish"
                            /\ Creating(q) /\ answer'[q] = "ok" => answer[q] = "ok"
    BY <1>8, <1>t, <2>2 DEF Update
  <2>4. UNCHANGED writes \/ \E u : Put(r, id[r], u)
    BY <1>8 DEF Update
  <2>5. QED
    BY <1>a, <1>s, <1>c, <1>d, <2>1, <2>3, <2>4
<1>9. ASSUME NEW r \in Requests, Delete(r) PROVE Told'
  <2>1. UNCHANGED <<serial, op, id, events>> /\ (faults' = 0 => faults = 0)
    BY <1>9, <1>b DEF Delete
  <2>2. ~Creating(r)
    BY <1>9 DEF Delete, Kinds
  <2>3. \A q \in Requests : /\ pc'[q] = "publish" => pc[q] = "publish"
                            /\ Creating(q) /\ answer'[q] = "ok" => answer[q] = "ok"
    BY <1>9, <1>t, <2>2 DEF Delete
  <2>4. UNCHANGED writes \/ \E u : Put(r, id[r], u)
    BY <1>9 DEF Delete
  <2>5. QED
    BY <1>a, <1>s, <1>c, <1>d, <2>1, <2>3, <2>4
<1>10. ASSUME NEW r \in Requests, Insert(r) PROVE Told'
  <2>1. CASE Violates(r)
    <3>1. UNCHANGED <<op, id, events, writes, faults>> /\ serial' = serial + 1
      BY <1>10, <2>1 DEF Insert
    <3>2. \A q \in Requests : /\ pc'[q] = "publish" => pc[q] = "publish"
                              /\ answer'[q] = "ok" => answer[q] = "ok"
      BY <1>10, <1>t, <2>1 DEF Insert
    <3>3. serial' \in Nat /\ serial' >= serial
      BY <1>t, <3>1
    <3>4. QED
      BY <1>a, <1>c, <3>1, <3>2, <3>3
  <2>2. CASE ~Violates(r)
    <3>1. serial \in Ids /\ events[serial] = 0 /\ pc[r] = "insert"
      BY <1>10, <1>t, SizesAssumption DEF Insert, TypeOK, Ids, Told
    <3>2. /\ UNCHANGED <<op, events>> /\ serial' = serial + 1
          /\ id' = [id EXCEPT ![r] = serial]
          /\ writes' = [writes EXCEPT ![serial] = @ + 1]
          /\ faults' = 0 => faults = 0
      BY <1>10, <1>b, <2>2 DEF Insert, Put
    <3>3. \A q \in Requests : /\ answer'[q] = "ok" => q # r /\ answer[q] = "ok"
                              /\ q # r => pc'[q] = pc[q]
      BY <1>10, <1>t, <2>2, <3>1 DEF Insert, Truth
    <3>4. \A i \in Ids : /\ events'[i] \in {0, 1}
                         /\ i >= serial' => events'[i] = 0
                         /\ events'[i] = 1 => writes'[i] > 0
      <4> SUFFICES ASSUME NEW i \in Ids
                   PROVE  /\ events'[i] \in {0, 1}
                          /\ i >= serial' => events'[i] = 0
                          /\ events'[i] = 1 => writes'[i] > 0
        OBVIOUS
      <4>1. CASE i = serial
        BY <1>t, <3>1, <3>2, <4>1
      <4>2. CASE i # serial
        <5>1. writes'[i] = writes[i] /\ i \in Nat
          BY <1>t, <3>2, <4>2
        <5>2. i >= serial' => i >= serial
          BY <1>t, <3>2, <5>1
        <5>3. QED
          BY <3>2, <5>1, <5>2 DEF Told
      <4>3. QED
        BY <4>1, <4>2
    <3>5. ASSUME NEW q \in Requests, pc'[q] = "publish"
          PROVE  /\ id'[q] < serial' /\ writes'[id'[q]] > 0 /\ events'[id'[q]] = 0
                 /\ \A p \in Requests \ {q} : pc'[p] = "publish" => id'[p] # id'[q]
      <4>1. id'[r] = serial /\ \A p \in Requests \ {r} : id'[p] = id[p]
        BY <1>t, <3>2
      <4>2. \A p \in Requests \ {r} : pc'[p] = "publish" =>
              id[p] < serial /\ writes[id[p]] > 0 /\ events[id[p]] = 0
        BY <3>3 DEF Told
      <4>3. CASE q = r
        BY <1>t, <3>1, <3>2, <4>1, <4>2, <4>3
      <4>4. CASE q # r
        <5>1. \A p \in Requests \ {q, r} : pc'[p] = "publish" => id[p] # id[q]
          BY <3>3, <3>5, <4>4 DEF Told
        <5>2. id'[q] = id[q] /\ id[q] < serial /\ writes[id[q]] > 0 /\ events[id[q]] = 0
          BY <3>5, <4>1, <4>2, <4>4
        <5>3. id[q] # serial /\ id[q] < serial' /\ writes'[id[q]] = writes[id[q]]
          <6>1. id[q] \in Ids /\ id[q] \in Nat
            BY <1>t
          <6>2. id[q] # serial /\ id[q] < serial'
            BY <1>t, <3>2, <5>2, <6>1
          <6>3. QED
            BY <1>t, <3>2, <6>1, <6>2
        <5>4. \A p \in Requests \ {q} : pc'[p] = "publish" => id'[p] # id'[q]
          BY <4>1, <5>1, <5>2, <5>3
        <5>5. QED
          BY <3>2, <5>2, <5>3, <5>4
      <4>5. QED
        BY <4>3, <4>4
    <3>6. faults' = 0 => \A q \in Requests : (Creating(q) /\ answer[q] = "ok" => events[id[q]] = 1)'
      BY <1>t, <3>2, <3>3 DEF Told, Creating
    <3>7. QED
      BY <3>4, <3>5, <3>6 DEF Told
  <2>3. QED
    BY <2>1, <2>2
<1>11. ASSUME NEW r \in Requests, Publish(r) PROVE Told'
  <2>1. /\ pc[r] = "publish" /\ id[r] \in Ids /\ writes[id[r]] > 0 /\ events[id[r]] = 0
        /\ id[r] < serial
    BY <1>11, <1>t DEF Publish, Told
  <2>2. UNCHANGED <<serial, op, id, writes>>
    BY <1>11 DEF Publish
  <2>3. /\ pc'[r] = "done" /\ answer'[r] = "ok"
        /\ \A q \in Requests \ {r} : pc'[q] = pc[q] /\ answer'[q] = answer[q]
    BY <1>11, <1>t DEF Publish
  <2>4. \/ events' = [events EXCEPT ![id[r]] = @ + 1] /\ faults' = faults
        \/ events' = events /\ faults' # 0
    BY <1>11, <1>b DEF Publish
  <2>5. \A i \in Ids : /\ events'[i] \in {0, 1}
                       /\ i >= serial' => events'[i] = 0
                       /\ events'[i] = 1 => writes'[i] > 0
    BY <1>t, <2>1, <2>2, <2>4 DEF Told
  <2>6. ASSUME NEW q \in Requests, pc'[q] = "publish"
        PROVE  /\ id'[q] < serial' /\ writes'[id'[q]] > 0 /\ events'[id'[q]] = 0
               /\ \A p \in Requests \ {q} : pc'[p] = "publish" => id'[p] # id'[q]
    <3>1. q # r /\ pc[q] = "publish" /\ id[q] # id[r]
      BY <2>1, <2>3, <2>6 DEF Told
    <3>2. events'[id[q]] = events[id[q]]
      BY <1>t, <2>4, <3>1
    <3>3. \A p \in Requests \ {q} : pc'[p] = "publish" => pc[p] = "publish"
      BY <2>3
    <3>4. QED
      BY <2>2, <3>1, <3>2, <3>3 DEF Told
  <2>7. ASSUME faults' = 0, NEW q \in Requests, Creating(q)', answer'[q] = "ok"
        PROVE  events'[id'[q]] = 1
    <3>1. events' = [events EXCEPT ![id[r]] = @ + 1] /\ faults = 0
      BY <2>4, <2>7
    <3>2. CASE q = r
      BY <1>t, <2>1, <2>2, <3>1, <3>2
    <3>3. CASE q # r
      <4>1. events[id[q]] = 1
        BY <2>2, <2>3, <2>7, <3>1, <3>3 DEF Told, Creating
      <4>2. id[q] # id[r]
        BY <2>1, <4>1
      <4>3. QED
        BY <1>t, <2>2, <3>1, <4>1, <4>2
    <3>4. QED
      BY <3>2, <3>3
  <2>8. QED
    BY <2>5, <2>6, <2>7 DEF Told
<1>12. CASE Restart
  <2>1. UNCHANGED <<serial, op, id, events, writes>> /\ faults' # 0
    BY <1>12, <1>b DEF Restart
  <2>2. \A q \in Requests : pc'[q] # "publish"
    BY <1>12, <1>t DEF Restart
  <2>3. QED
    BY <2>1, <2>2 DEF Told
<1>13. CASE UNCHANGED vars
  BY <1>13 DEF vars, history, Told, Creating
<1>14. QED
  BY <1>1, <1>2, <1>3, <1>4, <1>5, <1>6, <1>7, <1>8, <1>9, <1>10, <1>11, <1>12, <1>13 DEF Next, Serve

\* The inductive invariant holds.
LEMMA Inductive == Spec => []Whole
<1>1. ASSUME Whole, [Next]_vars PROVE Whole'
  <2>1. TypeOK' /\ PoolAccounted'
    BY <1>1, TypesKept, PoolKept DEF Whole
  <2>2. UniqueEmails' /\ Unborn'
    BY <1>1, UniqueKept, UnbornKept DEF Whole
  <2>3. AnswersTellTheTruth' /\ Truth' /\ Kinds'
    BY <1>1, TruthKept, KindsKept DEF Whole
  <2>4. ConflictWasReal' /\ Noticed' /\ Judged'
    BY <1>1, ConflictKept, JudgedKept DEF Whole
  <2>5. QED
    BY <2>1, <2>2, <2>3, <2>4 DEF Whole
<1>2. QED
  BY Initially, <1>1, PTL DEF Spec

-----------------------------------------------------------------------------

\* The type invariant of the user service.
THEOREM UserTypes == Spec => []TypeOK
<1>1. Whole => TypeOK
  BY DEF Whole
<1>2. QED
  BY Inductive, <1>1, PTL

\* No two users share an e-mail, through any race of creations and updates.
THEOREM EmailsAreUnique == Spec => []UniqueEmails
<1>1. Whole => UniqueEmails
  BY DEF Whole
<1>2. QED
  BY Inductive, <1>1, PTL

\* No path through Update leaks or returns twice a connection of the pool.
THEOREM PoolBalances == Spec => []PoolAccounted
<1>1. Whole => PoolAccounted
  BY DEF Whole
<1>2. QED
  BY Inductive, <1>1, PTL

\* A success has written the table; a refusal has not.
THEOREM AnswersAreTrue == Spec => []AnswersTellTheTruth
<1>1. Whole => AnswersTellTheTruth
  BY DEF Whole
<1>2. QED
  BY Inductive, <1>1, PTL

\* A 409 is only given when another user held the e-mail while the request was served, or
\* to an update whose own row was written between its read and its check.
THEOREM ConflictsAreReal == Spec => []ConflictWasReal
<1>1. Whole => ConflictWasReal
  BY DEF Whole
<1>2. QED
  BY Inductive, <1>1, PTL

\* Nobody is told of a user twice.
LEMMA Announcing == Spec => []Told
<1>1. Init => Told
  BY DEF Init, Told
<1>2. Whole /\ Told /\ [Next]_vars => Told'
  BY ToldKept DEF Whole
<1>3. QED
  BY <1>1, <1>2, Inductive, PTL DEF Spec

\* The announcement of a user is published at most once, only for a row that was
\* inserted, and always when nothing failed, whichever API created it.
THEOREM AnnouncedOnce == Spec => []OneEventPerUser
<1>1. Told => OneEventPerUser
  BY DEF Told, OneEventPerUser, Creating
<1>2. QED
  BY Announcing, <1>1, PTL

-----------------------------------------------------------------------------
(* Every request is one atomic operation on the accounts.                  *)

\* A row in the table was written.
Born == \A i \in Ids : table[i] # None => writes[i] > 0

LEMMA BornKept ==
  ASSUME TypeOK, Born, [Next]_vars
  PROVE  Born'
<1> USE DEF store, request, Untouched
<1>1. ASSUME NEW r \in Requests, NEW i \in Ids, NEW u, Put(r, i, u) PROVE Born'
  <2>1. \A j \in Ids \ {i} : table'[j] = table[j] /\ writes'[j] = writes[j]
    BY <1>1 DEF Put, TypeOK
  <2>2. writes[i] \in Nat /\ writes'[i] = writes[i] + 1
    BY <1>1 DEF Put, TypeOK
  <2>3. QED
    BY <2>1, <2>2 DEF Born
<1>2. CASE UNCHANGED <<table, writes>>
  BY <1>2 DEF Born
<1>3. ASSUME NEW r \in Requests, Insert(r) PROVE Born'
  <2>1. serial \in Ids
    BY <1>3, SizesAssumption DEF Insert, TypeOK, Ids
  <2>2. QED
    BY <1>1, <1>2, <1>3, <2>1 DEF Insert
<1>4. ASSUME NEW r \in Requests, Update(r) \/ Delete(r) PROVE Born'
  <2>1. id[r] \in Ids
    BY DEF TypeOK
  <2>2. QED
    BY <1>1, <1>2, <1>4, <2>1 DEF Update, Delete
<1>5. ASSUME NEW r \in Requests,
             \/ Arrive(r) \/ FailStatement(r) \/ FailInTx(r) \/ PreCheck(r) \/ Publish(r)
             \/ Begin(r) \/ Read(r) \/ Check(r)
      PROVE  UNCHANGED <<table, writes>>
  BY <1>5 DEF Arrive, FailStatement, FailInTx, PreCheck, Publish, Begin, Read, Check
<1>6. CASE Restart
  BY <1>2, <1>6 DEF Restart
<1>7. CASE UNCHANGED vars
  BY <1>2, <1>7 DEF vars
<1>8. QED
  BY <1>2, <1>3, <1>4, <1>5, <1>6, <1>7 DEF Next, Serve

\* The service starts with no accounts.
LEMMA AccountsInit == Init => Book!Init
BY DEF Init, Book!Init

\* Every step is an operation on the accounts or none: the request's answer is decided
\* in the step that reads or writes the row it depends on.
LEMMA AccountsNext ==
  Whole /\ Born /\ Kinds /\ Told /\ [Next]_vars => [Book!Next]_(Book!book)
<1> SUFFICES ASSUME Whole, Born, Kinds, Told, [Next]_vars
             PROVE  [Book!Next]_(Book!book)
  OBVIOUS
<1> DEFINE Same == UNCHANGED <<table, writes, events, op, body, id, wrote>>
<1>t. /\ \A r \in Requests : id[r] \in Ids /\ body[r] \in User /\ pc[r] \in Labels
      /\ op \in [Requests -> Operations] /\ answer \in [Requests -> Outcomes]
      /\ wrote \in [Requests -> BOOLEAN] /\ DOMAIN pc = Requests
      /\ table \in [Ids -> User \cup {None}] /\ writes \in [Ids -> Nat]
      /\ events \in [Ids -> Nat] /\ id \in [Requests -> Ids]
  BY DEF Whole, TypeOK, Labels, Outcomes
<1>u. \A r \in Requests : /\ pc[r] # "done" => answer[r] = "none"
                          /\ pc[r] \notin {"publish", "done"} => ~wrote[r]
                          /\ pc[r] = "publish" => wrote[r]
  BY DEF Whole, Truth
<1>s. CASE Same /\ UNCHANGED answer
  BY <1>s DEF Book!book
<1>g. ASSUME NEW r \in Requests, pc[r] # "done", Answer(r, "internal"), Same PROVE Book!Next
  <2>1. answer' = [q \in Requests |-> IF q \in {r} THEN "internal" ELSE answer[q]]
    BY <1>g, <1>t DEF Answer
  <2>2. Book!GiveUp({r})
    BY <1>g, <1>u, <2>1 DEF Book!GiveUp
  <2>3. QED
    BY <2>2 DEF Book!Next
<1>c. ASSUME NEW r \in Requests, pc[r] \notin {"publish", "done"}, op[r] # "delete",
             Holds(table, Email(r)), Answer(r, "conflict"), Same
      PROVE  Book!Next
  <2>1. Book!Refuse(r)
    BY <1>c, <1>u DEF Book!Refuse, Book!Open, Book!Held, Book!Reply, Holds, Email, Answer
  <2>2. QED
    BY <2>1 DEF Book!Next
<1>n. ASSUME NEW r \in Requests, pc[r] \notin {"publish", "done"}, ~Creating(r),
             table[id[r]] = None, Answer(r, "notfound"), Same
      PROVE  Book!Next
  <2>1. Book!Refuse(r)
    BY <1>n, <1>u DEF Book!Refuse, Book!Open, Book!Creation, Book!Reply, Creating, Answer
  <2>2. QED
    BY <2>1 DEF Book!Next
<1>1. ASSUME NEW r \in Requests, Arrive(r) \/ Begin(r) PROVE [Book!Next]_(Book!book)
  BY <1>1, <1>s DEF Arrive, Begin, store, request, Untouched
<1>2. ASSUME NEW r \in Requests, FailStatement(r) \/ FailInTx(r)
      PROVE  [Book!Next]_(Book!book)
  <2>1. pc[r] # "done" /\ Answer(r, "internal") /\ Same
    BY <1>2 DEF FailStatement, FailInTx, InTx, Leave, Untouched, store, request
  <2>2. QED
    BY <1>g, <2>1
<1>3. ASSUME NEW r \in Requests, PreCheck(r) \/ Check(r) PROVE [Book!Next]_(Book!book)
  <2>1. pc[r] \notin {"publish", "done"} /\ op[r] # "delete" /\ Same
    BY <1>3 DEF PreCheck, Check, Kinds, Creating, Untouched, store, request
  <2>2. \/ UNCHANGED answer
        \/ Holds(table, Email(r)) /\ Answer(r, "conflict")
    BY <1>3 DEF PreCheck, Check, Leave
  <2>3. QED
    BY <1>c, <1>s, <2>1, <2>2
<1>4. ASSUME NEW r \in Requests, Read(r) PROVE [Book!Next]_(Book!book)
  <2>1. pc[r] \notin {"publish", "done"} /\ ~Creating(r) /\ Same
    BY <1>4 DEF Read, Kinds, store, request
  <2>2. \/ UNCHANGED answer
        \/ table[id[r]] = None /\ Answer(r, "notfound")
    BY <1>4 DEF Read, Leave
  <2>3. QED
    BY <1>n, <1>s, <2>1, <2>2
<1>w. ASSUME NEW r \in Requests, NEW i \in Ids, NEW u, Put(r, i, u)
      PROVE  /\ table' = [table EXCEPT ![i] = u]
             /\ wrote' = [wrote EXCEPT ![r] = TRUE]
             /\ {j \in Ids : writes'[j] > 0} = {j \in Ids : writes[j] > 0} \cup {i}
  <2>1. writes' = [writes EXCEPT ![i] = @ + 1]
    BY <1>w DEF Put
  <2>2. \A j \in Ids : writes'[j] = IF j = i THEN writes[j] + 1 ELSE writes[j]
    BY <1>t, <2>1
  <2>3. \A j \in Ids : writes'[j] > 0 <=> (writes[j] > 0 \/ j = i)
    BY <1>t, <2>2
  <2>4. {j \in Ids : writes'[j] > 0} = {j \in Ids : writes[j] > 0} \cup {i}
    BY <1>w, <2>3
  <2>5. QED
    BY <1>w, <2>4 DEF Put
<1>5. ASSUME NEW r \in Requests, Insert(r) PROVE [Book!Next]_(Book!book)
  <2>1. pc[r] = "insert" /\ Creating(r) /\ serial \in Ids
    <3>1. pc[r] = "insert" /\ serial <= MaxId
      BY <1>5 DEF Insert
    <3>2. serial \in 1..MaxId + 1
      BY DEF Whole, TypeOK
    <3>3. serial \in Ids
      BY <3>1, <3>2, SizesAssumption DEF Ids
    <3>4. Creating(r)
      BY <3>1 DEF Kinds, InTx
    <3>5. QED
      BY <3>1, <3>3, <3>4
  <2>2. CASE Violates(r)
    <3>1. Answer(r, "conflict") /\ Same /\ op[r] # "delete"
      BY <1>5, <2>1, <2>2 DEF Insert, Creating
    <3>2. QED
      BY <1>c, <2>1, <2>2, <3>1 DEF Violates
  <2>3. CASE ~Violates(r)
    <3>1. /\ Put(r, serial, body[r]) /\ id' = [id EXCEPT ![r] = serial]
          /\ UNCHANGED <<op, body, events>>
          /\ UNCHANGED answer \/ Answer(r, "internal")
      BY <1>5, <2>3 DEF Insert
    <3>2. serial \in Ids \ {i \in Ids : writes[i] > 0}
      BY <2>1 DEF Whole, Unborn, Ids
    <3>3. Book!Effect(r, serial, body[r])
      BY <1>u, <1>w, <2>1, <3>1 DEF Book!Effect, Book!Open
    <3>4. Book!Create(r)
      BY <1>w, <2>1, <2>3, <3>1, <3>2, <3>3
         DEF Book!Create, Book!Creation, Book!Held, Book!Reply, Creating, Violates, Holds,
             Email, Answer
    <3>5. QED
      BY <3>4 DEF Book!Next
  <2>4. QED
    BY <2>2, <2>3
<1>6. ASSUME NEW r \in Requests, Publish(r) PROVE [Book!Next]_(Book!book)
  <2>1. pc[r] = "publish" /\ Creating(r) /\ events[id[r]] = 0
    BY <1>6 DEF Publish, Kinds, Creating, InTx, Told
  <2>2. /\ answer' = [answer EXCEPT ![r] = "ok"]
        /\ UNCHANGED <<table, writes, op, body, id, wrote>>
    BY <1>6 DEF Publish, Answer, Untouched, store, request
  <2>3. UNCHANGED events \/ events' = [events EXCEPT ![id[r]] = 1]
    BY <1>6, <1>t, <2>1 DEF Publish
  <2>4. Book!Confirm(r)
    BY <1>u, <2>1, <2>2, <2>3 DEF Book!Confirm, Book!Creation, Book!Reply, Creating
  <2>5. QED
    BY <2>4 DEF Book!Next
<1>7. ASSUME NEW r \in Requests, Update(r) PROVE [Book!Next]_(Book!book)
  <2>1. pc[r] = "update" /\ op[r] = "update" /\ ~Creating(r)
    BY <1>7 DEF Update, Kinds, Creating
  <2>2. CASE table[id[r]] = None
    <3>1. Answer(r, "notfound") /\ Same
      BY <1>7, <2>2 DEF Update, Leave, request
    <3>2. QED
      BY <1>n, <2>1, <2>2, <3>1
  <2>3. CASE table[id[r]] # None /\ HeldByOther(id[r], Email(r))
    <3>1. Answer(r, "conflict") /\ Same
      BY <1>7, <2>3 DEF Update, Leave, request
    <3>2. Holds(table, Email(r))
      BY <2>3 DEF HeldByOther, Holds
    <3>3. QED
      BY <1>c, <2>1, <3>1, <3>2
  <2>4. CASE table[id[r]] # None /\ ~HeldByOther(id[r], Email(r))
    <3>1. /\ Put(r, id[r], body[r]) /\ UNCHANGED <<op, body, id, events>>
          /\ Answer(r, "ok") \/ Answer(r, "internal")
      BY <1>7, <2>4 DEF Update, Leave, request
    <3>2. writes[id[r]] > 0
      BY <1>t, <2>4 DEF Born
    <3>3. {j \in Ids : writes'[j] > 0} = {j \in Ids : writes[j] > 0}
      BY <1>t, <1>w, <3>1, <3>2
    <3>4. Book!Effect(r, id[r], body[r])
      BY <1>t, <1>u, <1>w, <2>1, <3>1 DEF Book!Effect, Book!Open
    <3>5. Book!Change(r)
      BY <2>1, <2>4, <3>1, <3>3, <3>4
         DEF Book!Change, Book!HeldBeside, Book!Reply, HeldByOther, Email, Answer
    <3>6. QED
      BY <3>5 DEF Book!Next
  <2>5. QED
    BY <2>2, <2>3, <2>4
<1>8. ASSUME NEW r \in Requests, Delete(r) PROVE [Book!Next]_(Book!book)
  <2>1. pc[r] = "delete" /\ op[r] = "delete" /\ ~Creating(r)
    BY <1>8, <1>t DEF Delete, Kinds, Creating, InTx, Operations
  <2>2. CASE table[id[r]] = None
    <3>1. Answer(r, "notfound") /\ Same
      BY <1>8, <2>2 DEF Delete, request
    <3>2. QED
      BY <1>n, <2>1, <2>2, <3>1
  <2>3. CASE table[id[r]] # None
    <3>1. /\ Put(r, id[r], None) /\ UNCHANGED <<op, body, id, events>>
          /\ Answer(r, "ok") \/ Answer(r, "internal")
      BY <1>8, <2>3 DEF Delete, request
    <3>2. writes[id[r]] > 0
      BY <1>t, <2>3 DEF Born
    <3>3. {j \in Ids : writes'[j] > 0} = {j \in Ids : writes[j] > 0}
      BY <1>t, <1>w, <3>1, <3>2
    <3>4. Book!Effect(r, id[r], None)
      BY <1>t, <1>u, <1>w, <2>1, <3>1 DEF Book!Effect, Book!Open
    <3>5. Book!Remove(r)
      BY <2>1, <2>3, <3>1, <3>3, <3>4 DEF Book!Remove, Book!Reply, Answer
    <3>6. QED
      BY <3>5 DEF Book!Next
  <2>4. QED
    BY <2>2, <2>3
<1>9. CASE Restart
  <2> DEFINE R == {r \in Requests : pc[r] \notin {"new", "done"}}
  <2>1. Same
    BY <1>9 DEF Restart, Untouched, store, request
  <2>2. answer' = [r \in Requests |-> IF r \in R THEN "internal" ELSE answer[r]]
    BY <1>9 DEF Restart
  <2>3. Book!GiveUp(R)
    BY <1>u, <2>1, <2>2 DEF Book!GiveUp
  <2>4. R \in SUBSET Requests
    OBVIOUS
  <2>5. QED
    BY <2>3, <2>4 DEF Book!Next
<1>10. CASE UNCHANGED vars
  BY <1>10, <1>s DEF vars, store, request, history
<1>11. QED
  BY <1>1, <1>2, <1>3, <1>4, <1>5, <1>6, <1>7, <1>8, <1>9, <1>10 DEF Next, Serve

\* However requests overlap, fail or are cut off, the user service does what some
\* sequence of atomic operations on a set of accounts does.
THEOREM AccountsImplemented == Spec => ImplementsAccounts
<1>1. Init => Born
  BY DEF Init, Born
<1>2. Whole /\ Born /\ [Next]_vars => Born'
  BY BornKept DEF Whole
<1>3. Whole => Kinds
  BY DEF Whole
<1>4. QED
  BY Inductive, Announcing, <1>1, <1>2, <1>3, AccountsInit, AccountsNext, PTL
  DEF Spec, ImplementsAccounts, Book!Spec

\* An account that was removed never comes back, in whatever order creations, updates
\* and deletions overlap.
THEOREM DeletionsLast ==
  Spec => [][\A i \in Ids : table[i] = None /\ writes[i] > 0 => table'[i] = None]_vars
<1>1. TypeOK /\ Unborn /\ [Next]_vars => [Stays]_vars
  BY UnbornKept
<1>2. Whole => TypeOK /\ Unborn
  BY DEF Whole
<1>3. [Stays]_vars =>
        [\A i \in Ids : table[i] = None /\ writes[i] > 0 => table'[i] = None]_vars
  BY DEF Stays
<1>4. QED
  BY Inductive, <1>1, <1>2, <1>3, PTL DEF Spec
=============================================================================
