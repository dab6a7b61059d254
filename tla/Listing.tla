------------------------------- MODULE Listing ------------------------------
(***************************************************************************)
(* A client that reads a list endpoint page by page while the table        *)
(* changes: parameters (pkg/pagination, pkg/query), the two statements of  *)
(* GetAll (a count, then a fetch, without a common snapshot) and the       *)
(* total_pages by which the client knows where to stop.  Users and         *)
(* notifications are listed by the same code; users are the ones that are  *)
(* also renamed and deleted.                                               *)
(*                                                                         *)
(* Abstracted: a filter to the set of names it accepts, the columns to the *)
(* key, one that has ties, and one that is not in the schema.  Pages stay  *)
(* far below the width of int.                                             *)
(***************************************************************************)
EXTENDS Naturals, SequencesExt

CONSTANTS
  MaxId,         \* bound on the serial column
  Names,         \* values of the other column, ordered
  Sorts,         \* ?sort= parameters: sequences of [field, desc]
  Limits,        \* ?limit= parameters, 0 for none
  DefaultLimit, MaxLimit,
  MaxWrites,     \* bound on writes during the walk
  None

ASSUME NamesAssumption == Names \subseteq Nat /\ None \notin Names
ASSUME LimitsAssumption ==
  /\ MaxId \in Nat /\ MaxWrites \in Nat /\ Limits \subseteq Nat
  /\ DefaultLimit \in Nat \ {0} /\ MaxLimit \in Nat /\ DefaultLimit <= MaxLimit
ASSUME SortsAssumption == Sorts \subseteq Seq([field : STRING, desc : BOOLEAN])

Ids == 1..MaxId

VARIABLES
  table,   \* the name in each row
  serial,  \* next id
  query,   \* what the client asks for: sort, names accepted, limit
  page,    \* the page it asks for
  pc,      \* "count", "fetch", "read", "failed" or "done"
  total,   \* the count of the answer being built
  rows,    \* the ids of its page
  got,     \* the ids received so far
  first,   \* the ids that matched when the walk began (history)
  writes,  \* writes since then (history)
  lost     \* a row was deleted (history)

store == <<table, serial>>
walk == <<query, page, got, first>>
vars == <<store, walk, pc, total, rows, writes, lost>>

-----------------------------------------------------------------------------
(* Parameters.                                                             *)

\* Plausible bug: the upper bound is forgotten.
NewParamsUnclamped(p, limit) ==
  [page |-> IF p < 1 THEN 1 ELSE p, limit |-> IF limit < 1 THEN DefaultLimit ELSE limit]

NewParams(p, limit) ==
  [page |-> IF p < 1 THEN 1 ELSE p,
   limit |-> IF limit < 1 THEN DefaultLimit
             ELSE IF limit > MaxLimit THEN MaxLimit ELSE limit]

Offset(params) == (params.page - 1) * params.limit

\* Plausible bug: the division rounds down.
TotalPagesFloor(params, n) == n \div params.limit

TotalPages(params, n) == (n + params.limit - 1) \div params.limit

\* user/model.go's schema: the third field of a request is not in it.
ListSchema == {"id", "name"}

Sortable(field) == field \in ListSchema

\* Plausible bug: the '-' is left on the field, which the schema does not know.
ParseKeepingDash(sort) ==
  LET sorts[n \in 0..Len(sort)] ==
        IF n = 0 THEN <<>>
        ELSE IF Sortable(sort[n].field) /\ ~sort[n].desc THEN Append(sorts[n - 1], sort[n])
        ELSE sorts[n - 1]
  IN  sorts[Len(sort)]

\* query.Parse: fields the schema does not allow are dropped silently.
Parse(sort) ==
  LET sorts[n \in 0..Len(sort)] ==
        IF n = 0 THEN <<>>
        ELSE IF Sortable(sort[n].field) THEN Append(sorts[n - 1], sort[n])
        ELSE sorts[n - 1]
  IN  sorts[Len(sort)]

Params == NewParams(page, query.limit)

-----------------------------------------------------------------------------
(* Statements.                                                             *)

\* The rows a WHERE with the filter returns.
Filters(t) == {i \in Ids : t[i] \in query.names}

Column(i, field) == IF field = "id" THEN i ELSE table[i]

\* Row i comes before row j under ORDER BY with this directive alone.
Before(i, j, s) ==
  IF s.desc THEN Column(j, s.field) < Column(i, s.field)
            ELSE Column(i, s.field) < Column(j, s.field)

\* ... under the whole list, the first directive that tells them apart deciding.
Precedes(i, j, sorts) ==
  \E k \in DOMAIN sorts :
    /\ Before(i, j, sorts[k])
    /\ \A h \in 1..k - 1 : Column(i, sorts[h].field) = Column(j, sorts[h].field)

\* Without a directive that tells rows apart PostgreSQL returns them in any order.
Sorted(s) ==
  \A k, h \in DOMAIN s : k < h => ~Precedes(s[h], s[k], Parse(query.sort))

\* LIMIT and OFFSET.
Window(s, params) ==
  SubSeq(s, Offset(params) + 1, Min({Len(s), Offset(params) + params.limit}))

TypeOK ==
  /\ table \in [Ids -> Names \cup {None}]
  /\ serial \in 1..MaxId + 1
  /\ query \in [sort : Sorts, names : SUBSET Names, limit : Limits]
  /\ page \in Nat
  /\ pc \in {"count", "fetch", "read", "failed", "done"}
  /\ total \in Nat
  /\ rows \in Seq(Ids) /\ Len(rows) <= MaxLimit
  /\ got \in Seq(Ids)
  /\ first \subseteq Ids
  /\ writes \in 0..MaxWrites
  /\ lost \in BOOLEAN

\* A table to read, and a client that knows what it wants to read.
Init ==
  /\ \E n \in Ids : \E names \in [1..n -> Names] :
       /\ serial = n + 1
       /\ table = [i \in Ids |-> IF i <= n THEN names[i] ELSE None]
  /\ query \in [sort : Sorts, names : SUBSET Names \ {{}}, limit : Limits]
  /\ page = 0   \* no ?page=
  /\ pc = "count"
  /\ total = 0 /\ rows = <<>> /\ got = <<>>
  /\ first = Filters(table)
  /\ writes = 0 /\ lost = FALSE

-----------------------------------------------------------------------------
(* The handler and GetAll.                                                 *)

Count ==
  /\ pc = "count" /\ pc' = "fetch"
  /\ total' = Cardinality(Filters(table))
  /\ UNCHANGED <<store, walk, rows, writes, lost>>

\* Plausible bug: the sort order goes to the count instead of the fetch.
FetchUnsorted ==
  /\ pc = "fetch" /\ pc' = "read"
  /\ \E s \in SetToSeqs(Filters(table)) : rows' = Window(s, Params)
  /\ UNCHANGED <<store, walk, total, writes, lost>>

Fetch ==
  /\ pc = "fetch" /\ pc' = "read"
  /\ \E s \in SetToSeqs(Filters(table)) : Sorted(s) /\ rows' = Window(s, Params)
  /\ UNCHANGED <<store, walk, total, writes, lost>>

\* Either statement fails: 500, and the client gives up.
Fail ==
  /\ pc \in {"count", "fetch"} /\ pc' = "failed"
  /\ UNCHANGED <<store, walk, total, rows, writes, lost>>

GetAll == Count \/ Fetch \/ Fail

\* The answer with its meta: the client goes on while there are pages left.
Read ==
  /\ pc = "read"
  /\ got' = got \o rows
  /\ IF Params.page < TotalPages(Params, total)
     THEN page' = Params.page + 1 /\ pc' = "count"
     ELSE pc' = "done" /\ UNCHANGED page
  /\ total' = 0 /\ rows' = <<>>
  /\ UNCHANGED <<store, query, first, writes, lost>>

-----------------------------------------------------------------------------
(* What others write meanwhile.                                            *)

\* One more write, at any moment: a count already made does not know of it.
Write ==
  /\ pc \notin {"failed", "done"} /\ writes < MaxWrites /\ writes' = writes + 1
  /\ UNCHANGED <<walk, pc, total, rows>>

Insert ==
  /\ serial <= MaxId /\ Write
  /\ \E name \in Names : table' = [table EXCEPT ![serial] = name]
  /\ serial' = serial + 1
  /\ UNCHANGED lost

Rename ==
  /\ Write
  /\ \E i \in Ids, name \in Names :
       /\ table[i] \notin {None, name}
       /\ table' = [table EXCEPT ![i] = name]
  /\ UNCHANGED <<serial, lost>>

Delete ==
  /\ Write
  /\ \E i \in Ids : table[i] # None /\ table' = [table EXCEPT ![i] = None]
  /\ lost' = TRUE
  /\ UNCHANGED serial

Next == GetAll \/ Read \/ Insert \/ Rename \/ Delete

Spec == Init /\ [][Next]_vars

-----------------------------------------------------------------------------
(* Properties.                                                             *)

\* On a table at rest, walking from page 1 to total_pages under any sort that names
\* the key returns every matching row exactly once.
WalkIsComplete ==
  pc = "done" /\ writes = 0 /\ (\E k \in DOMAIN query.sort : query.sort[k].field = "id") =>
    IsInjective(got) /\ ToSet(got) = first

\* The client reads all rows, oldest first.
OldestFirst ==
  /\ query.names = Names
  /\ query.sort # <<>> /\ query.sort[1] = [field |-> "id", desc |-> FALSE]

\* Reading oldest first, no row is seen twice, whatever is inserted, renamed or
\* deleted between two pages or between a count and its fetch.
NeverTwice == OldestFirst => IsInjective(got)

\* ... and as long as nothing is deleted none that was there is missed.
NothingMissed == OldestFirst /\ pc = "done" /\ ~lost => first \subseteq ToSet(got)
=============================================================================
