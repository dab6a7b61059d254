---------------------------- MODULE ListingProofs ---------------------------
(***************************************************************************)
(* What Listing promises, for every table, sort order, limit and number of *)
(* writes.  A walk is correct because each page is cut where the one       *)
(* before ended, which is about three things at once and gives the         *)
(* invariant its three parts:                                              *)
(*                                                                         *)
(*   Steady    at rest the order is the same on every page, since a sort   *)
(*             order that names the key leaves only one (OneOrder), and    *)
(*             what has been received is its beginning;                    *)
(*   Ahead     oldest first, what has been received is in front of the     *)
(*             next offset, counted by the rows in front of each: a new    *)
(*             row comes after all of them, a deletion only makes them     *)
(*             fewer;                                                      *)
(*   Gapless   oldest first and without deletions the matching ids are     *)
(*             1..serial - 1, so what a page holds can be computed, and    *)
(*             a count that is out of date still covers the rows that were *)
(*             there when the walk began.                                  *)
(***************************************************************************)
EXTENDS Listing, FiniteSetTheorems, SequenceTheorems, WellFoundedInduction, TLAPS

\* The rows of the list in front of row x, when it is read oldest first.
Earlier(x) == {i \in Filters(table) : i < x}

Increasing(s) == \A k, h \in DOMAIN s : k < h => s[k] < s[h]

Walking == pc \in {"count", "fetch", "read"}

\* What has been received is in front of what is still to come.
Ahead ==
  OldestFirst =>
    /\ Increasing(got) /\ \A k \in DOMAIN got : got[k] < serial
    /\ Walking => \A k \in DOMAIN got : Cardinality(Earlier(got[k])) < Offset(Params)
    /\ pc = "read" =>
         /\ Increasing(rows)
         /\ \A k \in DOMAIN rows :
              /\ rows[k] < serial
              /\ Cardinality(Earlier(rows[k])) < Offset(Params) + Params.limit
              /\ \A h \in DOMAIN got : got[h] < rows[k]

\* Without a deletion the ids have no gaps, and the pages read so far hold all up to theirs.
Gapless ==
  OldestFirst /\ ~lost =>
    /\ Filters(table) = 1..serial - 1 /\ first \subseteq 1..serial - 1
    /\ pc \in {"fetch", "read"} => total <= serial - 1 /\ first \subseteq 1..total
    /\ Walking => 1..Offset(Params) \subseteq ToSet(got)
    /\ pc = "read" => \A i \in Offset(Params) + 1..Offset(Params) + Params.limit :
                        i <= total => i \in ToSet(rows)
    /\ pc = "done" => first \subseteq ToSet(got)

\* The sort order names the key.
Keyed == \E k \in DOMAIN query.sort : query.sort[k].field = "id"

\* On a table at rest every page is cut out of the same list.
Steady ==
  writes = 0 /\ Keyed =>
    /\ Filters(table) = first
    /\ pc \in {"fetch", "read"} => total = Cardinality(first)
    /\ Walking => Offset(Params) <= Cardinality(first)
    /\ Walking /\ Offset(Params) = 0 => got = <<>>
    /\ Walking /\ Offset(Params) # 0 => \E s \in SetToSeqs(first) :
                                          Sorted(s) /\ got = SubSeq(s, 1, Offset(Params))
    /\ pc = "read" => \E s \in SetToSeqs(first) : Sorted(s) /\ rows = Window(s, Params)
    /\ pc = "done" => got \in SetToSeqs(first)

\* Ids are given out in order.
Reached == \A i \in Ids : table[i] # None => i < serial

Whole == TypeOK /\ Reached /\ Ahead /\ Gapless /\ Steady

-----------------------------------------------------------------------------
(* Numbers and pages.                                                      *)

\* A set of naturals with an element has a least one.
LEMMA Least == ASSUME NEW T \in SUBSET Nat, T # {} PROVE \E n \in T : \A k \in T : n <= k
<1> DEFINE R == OpToRel(<, Nat)
<1>1. \A k, n \in Nat : k < n => <<k, n>> \in R
  BY DEF OpToRel
<1>2. PICK n \in T : \A k \in T : <<k, n>> \notin R
  <2>1. IsWellFoundedOn(R, Nat)
    BY NatLessThanWellFounded
  <2> HIDE DEF R
  <2> QED BY <2>1, WFMin
<1>3. QED
  <2> HIDE DEF R
  <2>1. ASSUME NEW k \in T PROVE n <= k
    <3>1. k \in Nat /\ n \in Nat /\ ~(k < n)
      BY <1>1, <1>2
    <3>2. QED BY <3>1
  <2>2. QED BY <2>1

\* ... and so a set with 0 and every successor holds them all.
LEMMA Induct == ASSUME NEW S \in SUBSET Nat, 0 \in S, \A n \in S : n + 1 \in S PROVE S = Nat
<1>1. SUFFICES ASSUME Nat \ S # {} PROVE FALSE
  OBVIOUS
<1>2. PICK n \in Nat \ S : \A k \in Nat \ S : n <= k
  <2>1. Nat \ S \in SUBSET Nat OBVIOUS
  <2>2. QED BY <1>1, <2>1, Least
<1>3. n # 0 /\ n - 1 \in Nat /\ n - 1 \notin Nat \ S
  BY <1>2
<1>4. QED
  BY <1>2, <1>3

\* The first n numbers are n.
LEMMA UpTo == ASSUME NEW n \in Nat PROVE IsFiniteSet(1..n) /\ Cardinality(1..n) = n
<1>1. 1 \in Int /\ n \in Int /\ (n < 1 => n = 0)
  OBVIOUS
<1>2. IsFiniteSet(1..n) /\ Cardinality(1..n) = IF 1 > n THEN 0 ELSE n - 1 + 1
  BY <1>1, FS_Interval
<1>3. QED
  BY <1>2

\* What the client asks for, within bounds.
LEMMA Bounded ==
  ASSUME TypeOK
  PROVE  /\ Params.page \in Nat \ {0} /\ Params.limit \in Nat \ {0} /\ Params.limit <= MaxLimit
         /\ Offset(Params) \in Nat /\ MaxLimit \in Nat
<1>1. page \in Nat /\ query.limit \in Nat /\ DefaultLimit \in Nat \ {0} /\ MaxLimit \in Nat
      /\ DefaultLimit <= MaxLimit
  BY LimitsAssumption DEF TypeOK
<1>2. /\ Params.page = IF page < 1 THEN 1 ELSE page
      /\ Params.limit = IF query.limit < 1 THEN DefaultLimit
                        ELSE IF query.limit > MaxLimit THEN MaxLimit ELSE query.limit
  BY DEF Params, NewParams
<1>3. /\ Params.page \in Nat \ {0} /\ Params.limit \in Nat \ {0} /\ Params.limit <= MaxLimit
  BY <1>1, <1>2
<1>4. \A m, n \in Nat : m * n \in Nat
  OBVIOUS
<1>5. Offset(Params) \in Nat
  BY <1>3, <1>4 DEF Offset
<1>6. QED
  BY <1>1, <1>3, <1>5

\* The next page begins where this one ends.
LEMMA NextPage ==
  ASSUME TypeOK, UNCHANGED query, page' = Params.page + 1
  PROVE  /\ Params'.page = Params.page + 1 /\ Params'.limit = Params.limit
         /\ Offset(Params)' = Offset(Params) + Params.limit
<1>1. Params.page \in Nat \ {0} /\ Params.limit \in Nat
  BY Bounded
<1>2. Params'.page = Params.page + 1 /\ Params'.limit = Params.limit
  BY <1>1 DEF Params, NewParams
<1>3. \A m, n \in Nat : (m + 1) * n = m * n + n
  OBVIOUS
<1>4. Offset(Params)' = (Params.page - 1 + 1) * Params.limit
  BY <1>1, <1>2 DEF Offset
<1>5. QED
  BY <1>1, <1>2, <1>3, <1>4 DEF Offset

\* There is a next page as long as the count goes beyond the end of this one.
LEMMA MorePages ==
  ASSUME TypeOK, NEW n \in Nat
  PROVE  Params.page < TotalPages(Params, n) <=> Offset(Params) + Params.limit < n
<1> DEFINE p == Params.page
           l == Params.limit
           q == (n + l - 1) \div l
<1>1. p \in Nat \ {0} /\ l \in Nat \ {0}
  BY Bounded
<1> HIDE DEF p, l
<1>2. q \in Nat /\ n + l - 1 \in Nat
  BY <1>1, Z3
<1>3. q * l <= n + l - 1 /\ n + l - 1 < q * l + l
  BY <1>1, Z3
<1>4. (p - 1) * l + l = p * l
  BY <1>1, Z3
<1>5. p < q <=> p * l < n
  <2> HIDE DEF q
  <2>1. ASSUME p < q PROVE p * l < n
    <3>1. p * l + l <= q * l
      BY <1>1, <1>2, <2>1, Z3
    <3> DEFINE a == p * l
               b == q * l
    <3>2. a \in Nat /\ b \in Nat
      BY <1>1, <1>2, Z3
    <3> HIDE DEF a, b
    <3>3. QED
      BY <1>1, <1>3, <3>1, <3>2 DEF a, b
  <2>2. ASSUME q <= p PROVE n <= p * l
    <3>1. q * l <= p * l
      BY <1>1, <1>2, <2>2, Z3
    <3>2. QED
      BY <1>1, <1>2, <1>3, <3>1, Z3
  <2>3. QED
    BY <1>1, <1>2, <2>1, <2>2, Z3
<1>6. QED
  BY <1>4, <1>5 DEF p, l, TotalPages, Offset

-----------------------------------------------------------------------------
(* Sort orders.                                                            *)

Directive == [field : STRING, desc : BOOLEAN]

\* Parse keeps what the schema allows and nothing else, and a first directive first.
LEMMA ParseKeeps ==
  ASSUME NEW sort \in Seq(Directive)
  PROVE  /\ Parse(sort) \in Seq(Directive)
         /\ \A j \in DOMAIN Parse(sort) : Sortable(Parse(sort)[j].field)
         /\ \A k \in DOMAIN sort :
              Sortable(sort[k].field) => \E j \in DOMAIN Parse(sort) : Parse(sort)[j] = sort[k]
         /\ sort # <<>> /\ Sortable(sort[1].field) =>
              Parse(sort) # <<>> /\ Parse(sort)[1] = sort[1]
<1> DEFINE L == Len(sort)
           Step(g, n) == IF n = 0 THEN <<>>
                         ELSE IF Sortable(sort[n].field) THEN Append(g[n - 1], sort[n])
                         ELSE g[n - 1]
           Rec(g, n) == g = [m \in 0..n |-> Step(g, m)]
           w == CHOOSE g : Rec(g, L)
<1>0. L \in Nat /\ DOMAIN sort = 1..L /\ \A n \in 1..L : sort[n] \in Directive
  OBVIOUS
<1>1. \E g : Rec(g, L)
  <2> DEFINE S == {n \in Nat : \E g : Rec(g, n)}
  <2>1. 0 \in S
    <3> DEFINE g == [m \in 0..0 |-> <<>>]
    <3>1. Rec(g, 0)
      OBVIOUS
    <3>2. QED
      BY <3>1
  <2>2. ASSUME NEW n \in S PROVE n + 1 \in S
    <3>1. n \in Nat /\ \E g : Rec(g, n)
      OBVIOUS
    <3>2. PICK g : Rec(g, n)
      BY <3>1
    <3> DEFINE f == [m \in 0..n + 1 |-> IF m <= n THEN g[m] ELSE Step(g, m)]
    <3>3. \A m \in 0..n : g[m] = Step(g, m)
      BY <3>2
    <3>4. \A m \in 0..n : f[m] = g[m]
      BY <3>1
    <3>5. \A m \in 0..n + 1 : Step(f, m) = Step(g, m)
      BY <3>1, <3>4
    <3>6. \A m \in 0..n + 1 : f[m] = Step(f, m)
      BY <3>1, <3>3, <3>5
    <3>7. Rec(f, n + 1)
      BY <3>6
    <3>8. \E h : Rec(h, n + 1)
      <4> HIDE DEF f, Rec
      <4> QED
        BY <3>7
    <3>9. QED
      <4> HIDE DEF Rec
      <4> QED
        BY <3>1, <3>8
  <2>3. S = Nat
    <3>1. S \in SUBSET Nat
      OBVIOUS
    <3> HIDE DEF S
    <3> QED
      BY <3>1, <2>1, <2>2, Induct
  <2>4. QED
    BY <1>0, <2>3
<1>2. Rec(w, L)
  BY <1>1
<1>3. Parse(sort) = w[L]
  BY DEF Parse
<1> HIDE DEF w
<1>4. w[0] = <<>>
  BY <1>0, <1>2
<1>5. ASSUME NEW n \in Nat, n < L
      PROVE  w[n + 1] = IF Sortable(sort[n + 1].field) THEN Append(w[n], sort[n + 1]) ELSE w[n]
  <2>1. n + 1 \in 0..L /\ n + 1 # 0 /\ n + 1 - 1 = n
    BY <1>0, <1>5
  <2>2. w[n + 1] = Step(w, n + 1)
    BY <1>2, <2>1
  <2>3. QED
    BY <2>1, <2>2
<1> DEFINE Holds(n) ==
             /\ w[n] \in Seq(Directive)
             /\ \A j \in 1..Len(w[n]) : Sortable(w[n][j].field)
             /\ \A k \in 1..n :
                  Sortable(sort[k].field) => \E j \in 1..Len(w[n]) : w[n][j] = sort[k]
             /\ n > 0 /\ Sortable(sort[1].field) => Len(w[n]) > 0 /\ w[n][1] = sort[1]
           T == {n \in Nat : n <= L => Holds(n)}
<1>6. 0 \in T
  <2>1. Len(w[0]) = 0 /\ w[0] \in Seq(Directive)
    BY <1>4
  <2>2. QED
    BY <2>1
<1>7. ASSUME NEW n \in T PROVE n + 1 \in T
  <2>1. SUFFICES ASSUME n + 1 <= L PROVE Holds(n + 1)
    OBVIOUS
  <2>2. n \in Nat /\ n < L /\ Holds(n)
    <3> HIDE DEF Holds
    <3> QED
      BY <1>0, <2>1
  <2>3. CASE ~Sortable(sort[n + 1].field)
    <3>1. w[n + 1] = w[n]
      BY <1>5, <2>2, <2>3
    <3>2. QED
      BY <2>2, <2>3, <3>1
  <2>4. CASE Sortable(sort[n + 1].field)
    <3> DEFINE v == w[n]
               x == sort[n + 1]
    <3>1. w[n + 1] = Append(v, x)
      BY <1>5, <2>2, <2>4
    <3>2. v \in Seq(Directive) /\ x \in Directive
      BY <1>0, <2>2
    <3>3. /\ Append(v, x) \in Seq(Directive) /\ Len(Append(v, x)) = Len(v) + 1 /\ Len(v) \in Nat
          /\ Append(v, x)[Len(v) + 1] = x
          /\ \A j \in 1..Len(v) : Append(v, x)[j] = v[j]
      BY <3>2, AppendProperties
    <3>4. \A j \in 1..Len(v) : Sortable(v[j].field)
      BY <2>2
    <3>5. \A k \in 1..n : Sortable(sort[k].field) => \E j \in 1..Len(v) : v[j] = sort[k]
      BY <2>2
    <3>6. n > 0 /\ Sortable(sort[1].field) => Len(v) > 0 /\ v[1] = sort[1]
      BY <2>2
    <3>7. n = 0 => v = <<>>
      BY <1>4
    <3> DEFINE u == Append(v, x)
    <3>8. Sortable(x.field)
      BY <2>4
    <3> HIDE DEF v
    <3>9. \A j \in 1..Len(u) : Sortable(u[j].field)
      BY <3>3, <3>4, <3>8
    <3>10. \A k \in 1..n + 1 : Sortable(sort[k].field) => \E j \in 1..Len(u) : u[j] = sort[k]
      <4>1. TAKE k \in 1..n + 1
      <4>2. HAVE Sortable(sort[k].field)
      <4>3. CASE k \in 1..n
        BY <4>2, <4>3, <3>3, <3>5
      <4>4. CASE k = n + 1
        BY <4>4, <3>3
      <4>5. QED
        BY <2>2, <4>3, <4>4
    <3>11. Sortable(sort[1].field) => Len(u) > 0 /\ u[1] = sort[1]
      <4>1. CASE n = 0
        <5>1. Len(v) = 0
          BY <4>1, <3>7
        <5>2. QED
          BY <4>1, <5>1, <3>3
      <4>2. CASE n > 0
        BY <4>2, <3>3, <3>6
      <4>3. QED
        BY <2>2, <4>1, <4>2
    <3>12. QED
      BY <3>1, <3>3, <3>9, <3>10, <3>11
  <2>5. QED
    BY <2>3, <2>4
<1>8. Holds(L)
  <2>1. T \in SUBSET Nat
    OBVIOUS
  <2>2. T = Nat
    <3> HIDE DEF T
    <3> QED
      BY <1>6, <1>7, <2>1, Induct
  <2>3. QED
    BY <1>0, <2>2
<1>9. QED
  <2>1. DOMAIN w[L] = 1..Len(w[L])
    BY <1>8
  <2>2. sort # <<>> => L > 0
    BY <1>0
  <2>3. Len(w[L]) > 0 => w[L] # <<>>
    OBVIOUS
  <2>4. QED
    BY <1>0, <1>3, <1>8, <2>1, <2>2, <2>3

\* A list in the order of the database: each matching row once.
LEMMA Listed ==
  ASSUME NEW F, IsFiniteSet(F), NEW s \in SetToSeqs(F)
  PROVE  /\ Cardinality(F) \in Nat /\ s \in Seq(F) /\ Len(s) = Cardinality(F)
         /\ DOMAIN s = 1..Cardinality(F) /\ \A k \in 1..Cardinality(F) : s[k] \in F
         /\ \A k, h \in 1..Cardinality(F) : k # h => s[k] # s[h]
         /\ \A i \in F : \E k \in 1..Cardinality(F) : s[k] = i
<1> DEFINE n == Cardinality(F)
<1>1. n \in Nat
  BY FS_CardinalityType
<1>2. s \in [1..n -> F] /\ \A k, h \in 1..n : k # h => s[k] # s[h]
  BY DEF SetToSeqs
<1>3. s \in Injection(1..n, F)
  BY <1>2 DEF Injection, IsInjective
<1>4. Cardinality(1..n) = n
  BY <1>1, FS_Interval
<1>5. s \in Surjection(1..n, F)
  <2> HIDE DEF n
  <2> QED
    BY <1>3, <1>4, FS_Injection DEF n
<1>6. \A i \in F : \E k \in 1..n : s[k] = i
  BY <1>5 DEF Surjection
<1>7. s \in Seq(F) /\ Len(s) = n
  BY <1>1, <1>2
<1>8. QED
  BY <1>1, <1>2, <1>6, <1>7

\* The rows that match are finitely many ids, with names.
LEMMA Matching ==
  ASSUME TypeOK
  PROVE  /\ Filters(table) \subseteq Ids /\ IsFiniteSet(Filters(table)) /\ Ids \subseteq Nat
         /\ Cardinality(Filters(table)) \in Nat
         /\ \A i \in Filters(table) : table[i] \in Nat
<1>1. IsFiniteSet(Ids) /\ Ids \subseteq Nat
  BY LimitsAssumption, FS_Interval DEF Ids
<1>2. Filters(table) \subseteq Ids
  BY DEF Filters
<1>3. IsFiniteSet(Filters(table)) /\ Cardinality(Filters(table)) \in Nat
  BY <1>1, <1>2, FS_Subset, FS_CardinalityType
<1>4. query.names \subseteq Nat
  BY NamesAssumption DEF TypeOK
<1>5. QED
  BY <1>1, <1>2, <1>3, <1>4 DEF Filters

\* A row does not come before itself, and a sort order with the key in it puts one of any two
\* rows before the other.
LEMMA Total ==
  ASSUME TypeOK, NEW sorts \in Seq(Directive), \A k \in DOMAIN sorts : Sortable(sorts[k].field)
  PROVE  /\ \A i \in Filters(table) : ~Precedes(i, i, sorts)
         /\ (\E k \in DOMAIN sorts : sorts[k].field = "id") =>
              \A i, j \in Filters(table) :
                i # j => Precedes(i, j, sorts) \/ Precedes(j, i, sorts)
<1>1. ASSUME NEW i \in Filters(table), NEW k \in DOMAIN sorts
      PROVE  Column(i, sorts[k].field) \in Nat
  BY <1>1, Matching DEF Column
<1>2. ASSUME NEW i \in Filters(table) PROVE ~Precedes(i, i, sorts)
  BY <1>1, <1>2 DEF Precedes, Before
<1>3. ASSUME NEW c \in DOMAIN sorts, sorts[c].field = "id",
             NEW i \in Filters(table), NEW j \in Filters(table), i # j
      PROVE  Precedes(i, j, sorts) \/ Precedes(j, i, sorts)
  <2> DEFINE T == {k \in DOMAIN sorts : Column(i, sorts[k].field) # Column(j, sorts[k].field)}
  <2>1. DOMAIN sorts = 1..Len(sorts) /\ Len(sorts) \in Nat
    OBVIOUS
  <2>2. c \in T
    BY <1>3 DEF Column
  <2>3. PICK k \in T : \A h \in T : k <= h
    <3>1. T \in SUBSET Nat /\ T # {}
      BY <2>1, <2>2
    <3> HIDE DEF T
    <3>2. QED
      BY <3>1, Least
  <2>4. \A h \in 1..k - 1 : Column(i, sorts[h].field) = Column(j, sorts[h].field)
    BY <2>1, <2>3
  <2>5. \/ Column(i, sorts[k].field) < Column(j, sorts[k].field)
        \/ Column(j, sorts[k].field) < Column(i, sorts[k].field)
    BY <1>1, <2>3
  <2>6. Before(i, j, sorts[k]) \/ Before(j, i, sorts[k])
    BY <2>5 DEF Before
  <2>7. QED
    BY <2>3, <2>4, <2>6 DEF Precedes
<1>4. QED
  BY <1>2, <1>3

\* Such a sort order leaves the database one order only.
LEMMA OneOrder ==
  ASSUME TypeOK, Keyed, NEW s \in SetToSeqs(Filters(table)), NEW t \in SetToSeqs(Filters(table)),
         Sorted(s), Sorted(t)
  PROVE  s = t
<1> DEFINE F == Filters(table)
           n == Cardinality(F)
           sorts == Parse(query.sort)
           T == {k \in 1..n : s[k] # t[k]}
<1>1. IsFiniteSet(F)
  BY Matching
<1>2. /\ n \in Nat /\ s \in [1..n -> F] /\ t \in [1..n -> F]
      /\ DOMAIN s = 1..n /\ DOMAIN t = 1..n
      /\ (\A k \in 1..n : s[k] \in F /\ t[k] \in F)
      /\ (\A k, h \in 1..n : k # h => s[k] # s[h] /\ t[k] # t[h])
      /\ (\A i \in F : \E k \in 1..n : s[k] = i) /\ (\A i \in F : \E k \in 1..n : t[k] = i)
  <2> HIDE DEF F
  <2> QED
    BY <1>1, Listed DEF F, SetToSeqs
<1>3. \A i, j \in F : i # j => Precedes(i, j, sorts) \/ Precedes(j, i, sorts)
  <2>1. query.sort \in Seq(Directive)
    BY SortsAssumption DEF TypeOK, Directive
  <2>2. /\ sorts \in Seq(Directive) /\ \A k \in DOMAIN sorts : Sortable(sorts[k].field)
        /\ \E k \in DOMAIN sorts : sorts[k].field = "id"
    <3>1. PICK c \in DOMAIN query.sort : query.sort[c].field = "id"
      BY DEF Keyed
    <3>2. Sortable(query.sort[c].field)
      BY <3>1 DEF Sortable, ListSchema
    <3>3. QED
      BY <2>1, <3>1, <3>2, ParseKeeps
  <2>3. QED
    BY <2>2, Total
<1>4. /\ \A k, h \in 1..n : k < h => ~Precedes(s[h], s[k], sorts)
      /\ \A k, h \in 1..n : k < h => ~Precedes(t[h], t[k], sorts)
  BY <1>2 DEF Sorted
<1> HIDE DEF F, n, sorts
<1>5. ASSUME T # {} PROVE FALSE
  <2>1. PICK k \in T : \A h \in T : k <= h
    <3>1. T \in SUBSET Nat
      BY <1>2
    <3> HIDE DEF T
    <3>2. QED
      BY <1>5, <3>1, Least
  <2>2. \A h \in 1..n : h < k => s[h] = t[h]
    BY <1>2, <2>1
  <2>3. PICK a \in 1..n : t[a] = s[k]
    BY <1>2, <2>1
  <2>4. PICK b \in 1..n : s[b] = t[k]
    BY <1>2, <2>1
  <2>5. k < a /\ k < b
    <3>1. k \in 1..n /\ s[k] # t[k] /\ n \in Nat
      BY <1>2, <2>1
    <3>2. a # k /\ b # k
      BY <2>3, <2>4, <3>1
    <3>3. ~(a < k)
      BY <1>2, <2>2, <2>3, <3>1, <3>2
    <3>4. ~(b < k)
      BY <1>2, <2>2, <2>4, <3>1, <3>2
    <3>5. QED
      BY <3>1, <3>2, <3>3, <3>4
  <2>6. QED
    BY <1>2, <1>3, <1>4, <2>1, <2>3, <2>4, <2>5
<1>6. \A k \in 1..n : s[k] = t[k]
  BY <1>5
<1>7. QED
  BY <1>2, <1>6

\* Oldest first, the list is in the order of the ids, and as many rows are in front of one as
\* its place says.
LEMMA ByAge ==
  ASSUME TypeOK, OldestFirst, NEW s \in SetToSeqs(Filters(table)), Sorted(s)
  PROVE  /\ Increasing(s)
         /\ \A k \in DOMAIN s : Cardinality(Earlier(s[k])) = k - 1
<1> DEFINE F == Filters(table)
           n == Cardinality(F)
           sorts == Parse(query.sort)
<1>1. /\ n \in Nat /\ DOMAIN s = 1..n /\ F \subseteq Nat
      /\ (\A k \in 1..n : s[k] \in F) /\ (\A k, h \in 1..n : k # h => s[k] # s[h])
      /\ \A i \in F : \E k \in 1..n : s[k] = i
  BY Matching, Listed
<1>2. sorts # <<>> /\ sorts[1] = [field |-> "id", desc |-> FALSE] /\ 1 \in DOMAIN sorts
  <2>1. /\ query.sort \in Seq(Directive) /\ query.sort # <<>>
        /\ query.sort[1] = [field |-> "id", desc |-> FALSE]
    BY SortsAssumption DEF TypeOK, Directive, OldestFirst
  <2>2. Sortable(query.sort[1].field)
    BY <2>1 DEF Sortable, ListSchema
  <2>3. sorts \in Seq(Directive) /\ sorts # <<>> /\ sorts[1] = query.sort[1]
    BY <2>1, <2>2, ParseKeeps
  <2>4. QED
    BY <2>1, <2>3
<1> HIDE DEF sorts
<1>3. \A i, j \in F : i < j => Precedes(i, j, sorts)
  <2>1. TAKE i, j \in F
  <2>2. HAVE i < j
  <2>3. Before(i, j, sorts[1])
    BY <1>2, <2>2 DEF Before, Column
  <2>4. \A h \in 1..1 - 1 : Column(i, sorts[h].field) = Column(j, sorts[h].field)
    OBVIOUS
  <2>5. QED
    BY <1>2, <2>3, <2>4, Zenon DEF Precedes
<1>4. Increasing(s)
  <2>1. ASSUME NEW k \in 1..n, NEW h \in 1..n, k < h PROVE s[k] < s[h]
    <3>1. ~Precedes(s[h], s[k], sorts)
      BY <1>1, <2>1 DEF Sorted, sorts
    <3>2. ~(s[h] < s[k]) /\ s[h] # s[k] /\ s[h] \in Nat /\ s[k] \in Nat
      BY <1>1, <1>3, <2>1, <3>1
    <3>3. QED
      BY <3>2
  <2>2. QED
    BY <1>1, <2>1 DEF Increasing
<1>5. ASSUME NEW k \in 1..n PROVE Cardinality(Earlier(s[k])) = k - 1
  <2> DEFINE E == Earlier(s[k])
             f == [h \in 1..k - 1 |-> s[h]]
  <2>1. k - 1 \in Nat /\ \A h \in 1..k - 1 : h \in 1..n /\ h < k
    BY <1>1
  <2>2. \A h \in 1..k - 1 : s[h] \in E
    BY <1>1, <1>4, <2>1 DEF Earlier, Increasing
  <2>3. \A i \in E : \E h \in 1..k - 1 : s[h] = i
    <3>1. TAKE i \in E
    <3>2. i \in F /\ i < s[k]
      BY DEF Earlier
    <3>3. PICK h \in 1..n : s[h] = i
      BY <1>1, <3>2
    <3>4. ~(k < h) /\ k # h
      BY <1>1, <1>4, <3>2, <3>3 DEF Increasing
    <3>5. QED
      BY <1>1, <3>3, <3>4
  <2>4. \A g, h \in 1..k - 1 : f[g] = f[h] => g = h
    BY <1>1, <2>1
  <2> HIDE DEF E
  <2>5. f \in [1..k - 1 -> E]
    BY <2>2
  <2>6. f \in Bijection(1..k - 1, E)
    BY <2>3, <2>4, <2>5 DEF Bijection, Injection, Surjection, IsInjective
  <2>7. ExistsBijection(1..k - 1, E)
    BY <2>6 DEF ExistsBijection
  <2>8. QED
    BY <2>1, <2>7, FS_CountingElements DEF E
<1>6. QED
  BY <1>1, <1>4, <1>5

\* What a page holds: the rows of its window that the list reaches.
LEMMA Cut ==
  ASSUME TypeOK, NEW F, NEW s \in Seq(F)
  PROVE  LET w == Window(s, Params)
             o == Offset(Params)
             l == Params.limit
             e == IF Len(s) <= o + l THEN Len(s) ELSE o + l
         IN  /\ w = SubSeq(s, o + 1, e) /\ w \in Seq(F) /\ Len(w) <= l
             /\ Len(w) = IF o <= e THEN e - o ELSE 0
             /\ \A k \in 1..Len(w) : w[k] = s[o + k] /\ o + k \in 1..Len(s)
             /\ DOMAIN w = 1..Len(w)
<1> DEFINE w == Window(s, Params)
           o == Offset(Params)
           l == Params.limit
           e == IF Len(s) <= o + l THEN Len(s) ELSE o + l
<1>1. o \in Nat /\ l \in Nat /\ Len(s) \in Nat
  BY Bounded
<1>2. Min({Len(s), o + l}) = e
  <2> DEFINE T == {Len(s), o + l}
  <2>1. e \in T /\ \A y \in T : e <= y
    BY <1>1
  <2>2. \A x \in T : (\A y \in T : x <= y) => x = e
    BY <1>1
  <2> HIDE DEF T, e
  <2>3. Min(T) = e
    BY <2>1, <2>2 DEF Min
  <2>4. QED
    BY <2>3 DEF T
<1>3. w = SubSeq(s, o + 1, e)
  BY <1>2 DEF Window
<1> HIDE DEF w, o, l
<1>4. e \in Nat /\ e <= Len(s) /\ e <= o + l
  BY <1>1
<1>5. \A i \in o + 1..e : s[i] \in F
  BY <1>1, <1>4
<1> HIDE DEF e
<1>6. /\ w \in Seq(F) /\ Len(w) = (IF o + 1 <= e THEN e - (o + 1) + 1 ELSE 0)
      /\ \A i \in 1..e - (o + 1) + 1 : w[i] = s[o + 1 + i - 1]
  BY <1>1, <1>3, <1>4, <1>5, SubSeqProperties
<1>7. Len(w) = IF o <= e THEN e - o ELSE 0
  BY <1>1, <1>4, <1>6
<1>8. Len(w) <= l
  BY <1>1, <1>4, <1>7
<1>9. ASSUME NEW k \in 1..Len(w) PROVE w[k] = s[o + k] /\ o + k \in 1..Len(s)
  <2>1. k \in 1..e - (o + 1) + 1 /\ o + 1 + k - 1 = o + k /\ o + k \in 1..Len(s)
    BY <1>1, <1>4, <1>7
  <2>2. QED
    BY <1>6, <2>1
<1>10. DOMAIN w = 1..Len(w)
  BY <1>6
<1>11. QED
  BY <1>3, <1>6, <1>7, <1>8, <1>9, <1>10 DEF w, o, l, e

-----------------------------------------------------------------------------
(* The walk.                                                               *)

\* The initial state.
LEMMA Initially == Init => Whole
<1> SUFFICES ASSUME Init PROVE Whole
  OBVIOUS
<1>1. PICK n \in Ids : \E names \in [1..n -> Names] :
        /\ serial = n + 1
        /\ table = [i \in Ids |-> IF i <= n THEN names[i] ELSE None]
  BY DEF Init
<1>2. PICK names \in [1..n -> Names] :
        /\ serial = n + 1
        /\ table = [i \in Ids |-> IF i <= n THEN names[i] ELSE None]
  BY <1>1
<1>3. n \in Nat \ {0} /\ n <= MaxId /\ MaxId \in Nat
  BY LimitsAssumption DEF Ids
<1>4. \A i \in Ids : (i <= n => table[i] \in Names) /\ (~(i <= n) => table[i] = None)
  <2>1. ASSUME NEW i \in Ids, i <= n PROVE i \in 1..n
    BY <2>1, <1>3 DEF Ids
  <2>2. QED
    BY <1>2, <2>1
<1>5. TypeOK
  <2>1. table \in [Ids -> Names \cup {None}]
    BY <1>2, <1>4
  <2>2. serial \in 1..MaxId + 1
    BY <1>2, <1>3
  <2>3. Len(rows) <= MaxLimit
    BY LimitsAssumption DEF Init
  <2>4. first \subseteq Ids
    BY DEF Init, Filters
  <2>5. query \in [sort : Sorts, names : SUBSET Names, limit : Limits]
    BY DEF Init
  <2>6. /\ page \in Nat /\ pc \in {"count", "fetch", "read", "failed", "done"} /\ total \in Nat
        /\ rows \in Seq(Ids) /\ got \in Seq(Ids) /\ writes \in 0..MaxWrites /\ lost \in BOOLEAN
    <3>1. /\ page = 0 /\ pc = "count" /\ total = 0 /\ rows = <<>> /\ got = <<>> /\ writes = 0
          /\ lost = FALSE
      BY DEF Init
    <3>2. MaxWrites \in Nat
      BY LimitsAssumption
    <3>3. rows \in Seq(Ids) /\ got \in Seq(Ids)
      BY <3>1
    <3>4. writes \in 0..MaxWrites
      BY <3>1, <3>2
    <3>5. page \in Nat /\ total \in Nat
      BY <3>1
    <3>6. QED
      BY <3>1, <3>3, <3>4, <3>5, Zenon
  <2>7. QED
    BY <2>1, <2>2, <2>3, <2>4, <2>5, <2>6 DEF TypeOK
<1>6. Offset(Params) = 0
  <2>1. Params.page = 1 /\ Params.limit \in Nat
    BY <1>5, Bounded DEF Params, NewParams, Init
  <2>2. \A l \in Nat : 0 * l = 0
    OBVIOUS
  <2>3. QED
    BY <2>1, <2>2 DEF Offset
<1>7. DOMAIN got = {} /\ pc = "count" /\ got = <<>> /\ first = Filters(table) /\ lost = FALSE
  BY DEF Init
<1>8. Ahead
  BY <1>7 DEF Ahead, Increasing
<1>9. Gapless
  <2>1. ASSUME OldestFirst PROVE Filters(table) = 1..n
    <3>1. \A i \in Ids : i \in Filters(table) <=> table[i] \in Names
      BY <2>1 DEF OldestFirst, Filters
    <3>2. \A i \in Ids : table[i] \in Names <=> i <= n
      BY <1>4, NamesAssumption
    <3>3. \A i \in Ids : i \in 1..n <=> i <= n
      BY <1>3 DEF Ids
    <3>4. 1..n \subseteq Ids /\ Filters(table) \subseteq Ids
      BY <1>3 DEF Ids, Filters
    <3>5. QED
      BY <3>1, <3>2, <3>3, <3>4
  <2>2. serial - 1 = n
    BY <1>2, <1>3
  <2>3. QED
    BY <1>6, <1>7, <2>1, <2>2 DEF Gapless
<1>10. Steady
  BY <1>5, <1>6, <1>7, Matching DEF Steady
<1>11. Reached
  BY <1>2, <1>3, <1>4 DEF Reached, Ids
<1>12. QED
  BY <1>5, <1>8, <1>9, <1>10, <1>11 DEF Whole

\* A count, a failure and the end of an answer leave the table alone.
LEMMA Resting ==
  ASSUME UNCHANGED <<table, query, page>>
  PROVE  /\ Filters(table)' = Filters(table) /\ Params' = Params
         /\ Offset(Params)' = Offset(Params)
         /\ \A x : Earlier(x)' = Earlier(x)
         /\ \A s : Sorted(s)' <=> Sorted(s)
         /\ \A s : Window(s, Params)' = Window(s, Params)
BY DEF Filters, Params, Offset, Earlier, Sorted, Precedes, Before, Column, Window

\* The count sees every row there is.
LEMMA CountKept == ASSUME Whole, Count PROVE Whole'
<1>1. /\ UNCHANGED <<table, serial, query, page, got, first, rows, writes, lost>>
      /\ pc = "count" /\ pc' = "fetch" /\ total' = Cardinality(Filters(table))
      /\ TypeOK
  BY DEF Count, store, walk, Whole
<1>2. /\ Filters(table)' = Filters(table) /\ Params' = Params
      /\ Offset(Params)' = Offset(Params)
      /\ \A x : Earlier(x)' = Earlier(x)
      /\ \A s : Sorted(s)' <=> Sorted(s)
  BY <1>1, Resting
<1>3. TypeOK'
  BY <1>1, Matching DEF TypeOK
<1>4. Ahead'
  BY <1>1, <1>2 DEF Whole, Ahead, OldestFirst, Walking
<1>5. Gapless'
  <2>1. ASSUME OldestFirst, ~lost PROVE total' = serial - 1 /\ Filters(table) = 1..serial - 1
    <3>1. Filters(table) = 1..serial - 1 /\ serial - 1 \in Nat
      BY <1>1, <2>1 DEF Whole, Gapless, TypeOK
    <3>2. Cardinality(1..serial - 1) = serial - 1
      BY <3>1, UpTo
    <3>3. QED
      BY <1>1, <3>1, <3>2
  <2>2. serial - 1 <= serial - 1
    BY <1>1 DEF TypeOK
  <2>3. QED
    BY <1>1, <1>2, <2>1, <2>2 DEF Whole, Gapless, OldestFirst, Walking
<1>6. Steady'
  BY <1>1, <1>2 DEF Whole, Steady, Keyed, Walking
<1>7. QED
  BY <1>1, <1>3, <1>4, <1>5, <1>6 DEF Whole, Reached

\* A statement that fails ends the walk.
LEMMA FailKept == ASSUME Whole, Fail PROVE Whole'
<1>1. /\ UNCHANGED <<table, serial, query, page, got, first, total, rows, writes, lost>>
      /\ pc' = "failed" /\ TypeOK
  BY DEF Fail, store, walk, Whole
<1>2. Filters(table)' = Filters(table) /\ Params' = Params
  BY <1>1, Resting
<1>3. TypeOK'
  BY <1>1 DEF TypeOK
<1>4. Ahead' /\ Gapless' /\ Steady'
  BY <1>1, <1>2 DEF Whole, Ahead, Gapless, Steady, OldestFirst, Keyed, Walking
<1>5. QED
  BY <1>1, <1>3, <1>4 DEF Whole, Reached

\* A page fetched oldest first is behind all that was received: were one of its rows in front
\* of one of those, fewer rows would be in front of it than its window says.
LEMMA FetchAhead ==
  ASSUME Whole, OldestFirst, pc = "fetch", NEW s \in SetToSeqs(Filters(table)), Sorted(s),
         NEW w, w = Window(s, Params)
  PROVE  /\ Increasing(w)
         /\ \A k \in DOMAIN w :
              /\ w[k] < serial
              /\ Cardinality(Earlier(w[k])) < Offset(Params) + Params.limit
              /\ \A h \in DOMAIN got : got[h] < w[k]
<1> DEFINE F == Filters(table)
           o == Offset(Params)
           l == Params.limit
<1>1. /\ TypeOK /\ o \in Nat /\ l \in Nat /\ IsFiniteSet(F) /\ F \subseteq Ids /\ Ids \subseteq Nat
  BY Bounded, Matching DEF Whole
<1>2. s \in Seq(F) /\ DOMAIN s = 1..Len(s) /\ Len(s) \in Nat /\ \A k \in 1..Len(s) : s[k] \in F
  BY <1>1, Listed
<1>3. Increasing(s) /\ \A k \in 1..Len(s) : Cardinality(Earlier(s[k])) = k - 1
  BY <1>1, <1>2, ByAge
<1>4. /\ DOMAIN w = 1..Len(w) /\ Len(w) <= l /\ Len(w) \in Nat
      /\ \A k \in 1..Len(w) : w[k] = s[o + k] /\ o + k \in 1..Len(s)
  BY <1>1, <1>2, Cut
<1> HIDE DEF F, o, l
<1>5. Increasing(w)
  <2>1. ASSUME NEW k \in 1..Len(w), NEW h \in 1..Len(w), k < h PROVE w[k] < w[h]
    <3>1. o + k \in 1..Len(s) /\ o + h \in 1..Len(s) /\ o + k < o + h
      BY <1>1, <1>4, <2>1
    <3>2. s[o + k] < s[o + h]
      BY <1>2, <1>3, <3>1 DEF Increasing
    <3>3. QED
      BY <1>4, <3>2
  <2>2. QED
    BY <1>4, <2>1 DEF Increasing
<1>6. ASSUME NEW k \in 1..Len(w)
      PROVE  /\ w[k] \in F /\ Cardinality(Earlier(w[k])) = o + k - 1
             /\ Cardinality(Earlier(w[k])) < o + l
  BY <1>1, <1>2, <1>3, <1>4
<1>7. \A i \in F : i < serial
  BY <1>1, NamesAssumption DEF Whole, Reached, Filters, TypeOK, F
<1>8. ASSUME NEW k \in 1..Len(w), NEW h \in DOMAIN got PROVE got[h] < w[k]
  <2>1. Cardinality(Earlier(got[h])) < o /\ got[h] \in Ids
    BY <1>1, <1>8 DEF Whole, Ahead, Walking, TypeOK, o
  <2>2. w[k] \in Nat /\ got[h] \in Nat /\ F \subseteq Nat
    BY <1>1, <1>6, <2>1
  <2>3. ASSUME w[k] <= got[h] PROVE FALSE
    <3>1. Earlier(w[k]) \subseteq Earlier(got[h]) /\ Earlier(got[h]) \subseteq F
      BY <2>2, <2>3 DEF Earlier, F
    <3>2. IsFiniteSet(Earlier(got[h]))
      BY <1>1, <3>1, FS_Subset
    <3>3. /\ Cardinality(Earlier(w[k])) <= Cardinality(Earlier(got[h]))
          /\ Cardinality(Earlier(got[h])) \in Nat
      BY <3>1, <3>2, FS_Subset, FS_CardinalityType
    <3>4. QED
      BY <1>1, <1>6, <2>1, <3>3
  <2>4. QED
    BY <2>2, <2>3
<1>9. QED
  BY <1>4, <1>5, <1>6, <1>7, <1>8 DEF o, l

\* The database returns the page in an order it may choose.
LEMMA FetchKept == ASSUME Whole, Fetch PROVE Whole'
<1> DEFINE F == Filters(table)
           o == Offset(Params)
           l == Params.limit
<1>1. /\ UNCHANGED <<table, serial, query, page, got, first, total, writes, lost>>
      /\ pc = "fetch" /\ pc' = "read" /\ TypeOK
  BY DEF Fetch, store, walk, Whole
<1>2. PICK s \in SetToSeqs(F) : Sorted(s) /\ rows' = Window(s, Params)
  BY DEF Fetch
<1>3. /\ o \in Nat /\ l \in Nat /\ l <= MaxLimit /\ MaxLimit \in Nat /\ IsFiniteSet(F)
      /\ F \subseteq Ids /\ Ids \subseteq Nat
  BY <1>1, Bounded, Matching
<1>4. s \in Seq(F) /\ Len(s) \in Nat
  BY <1>3, Listed
<1>5. /\ Filters(table)' = Filters(table) /\ Params' = Params
      /\ Offset(Params)' = Offset(Params)
      /\ \A x : Earlier(x)' = Earlier(x)
      /\ \A t : Sorted(t)' <=> Sorted(t)
      /\ \A t : Window(t, Params)' = Window(t, Params)
  BY <1>1, Resting
<1>6. TypeOK'
  <2>1. rows' \in Seq(F) /\ Len(rows') <= l
    BY <1>1, <1>2, <1>4, Cut
  <2>2. rows' \in Seq(Ids) /\ Len(rows') <= MaxLimit
    <3>1. rows' \in Seq(Ids)
      BY <1>3, <2>1, SeqMonotonic
    <3>2. QED
      BY <1>3, <2>1, <3>1
  <2>3. QED
    BY <1>1, <2>2 DEF TypeOK
<1>7. Reached'
  BY <1>1 DEF Whole, Reached
<1>8. Ahead'
  <2>1. ASSUME OldestFirst
        PROVE  /\ Increasing(rows')
               /\ \A k \in DOMAIN rows' :
                    /\ rows'[k] < serial
                    /\ Cardinality(Earlier(rows'[k])) < Offset(Params) + Params.limit
                    /\ \A h \in DOMAIN got : got[h] < rows'[k]
    BY <1>1, <1>2, <2>1, FetchAhead
  <2>2. \A t : Increasing(t)' <=> Increasing(t')
    BY DEF Increasing
  <2>3. QED
    BY <1>1, <1>5, <2>1 DEF Whole, Ahead, OldestFirst, Walking, Increasing
<1>9. Gapless'
  <2>1. SUFFICES ASSUME OldestFirst, ~lost
                 PROVE  \A i \in o + 1..o + l : i <= total => i \in ToSet(rows')
    BY <1>1, <1>5 DEF Whole, Gapless, OldestFirst, Walking
  <2>2. F = 1..serial - 1 /\ total <= serial - 1 /\ serial - 1 \in Nat /\ total \in Nat
    BY <1>1, <2>1 DEF Whole, Gapless, TypeOK
  <2>3. Len(s) = serial - 1
    BY <1>3, <2>2, Listed, UpTo
  <2>4. \A k \in 1..Len(s) : s[k] = k
    <3>1. ASSUME NEW k \in 1..Len(s) PROVE s[k] = k
      <4>1. k \in DOMAIN s /\ s[k] \in 1..serial - 1
        BY <1>4, <2>2, <3>1
      <4>2. Cardinality(Earlier(s[k])) = k - 1
        BY <1>1, <1>2, <2>1, <4>1, ByAge
      <4>3. Earlier(s[k]) = 1..s[k] - 1
        BY <2>2, <4>1 DEF Earlier
      <4>4. Cardinality(1..s[k] - 1) = s[k] - 1
        <5>1. s[k] - 1 \in Nat
          BY <4>1, <2>2
        <5>2. QED
          BY <5>1, UpTo
      <4>5. QED
        BY <4>1, <4>2, <4>3, <4>4, <2>2, <2>3
    <3>2. QED
      BY <3>1
  <2>5. /\ DOMAIN rows' = 1..Len(rows')
        /\ Len(rows') = IF o <= (IF Len(s) <= o + l THEN Len(s) ELSE o + l)
                        THEN (IF Len(s) <= o + l THEN Len(s) ELSE o + l) - o ELSE 0
        /\ \A k \in 1..Len(rows') : rows'[k] = s[o + k] /\ o + k \in 1..Len(s)
    BY <1>1, <1>2, <1>4, Cut
  <2> HIDE DEF o, l
  <2>6. ASSUME NEW i \in o + 1..o + l, i <= total PROVE i \in ToSet(rows')
    <3>1. i - o \in 1..Len(rows') /\ o + (i - o) = i /\ i \in 1..Len(s)
      BY <1>3, <2>2, <2>3, <2>5, <2>6
    <3>2. rows'[i - o] = i
      BY <2>4, <2>5, <3>1
    <3>3. QED
      BY <2>5, <3>1, <3>2 DEF ToSet
  <2>7. QED
    BY <2>6
<1>10. Steady'
  <2>1. ASSUME writes = 0, Keyed PROVE s \in SetToSeqs(first) /\ Sorted(s)
    BY <1>2, <2>1 DEF Whole, Steady
  <2>2. QED
    BY <1>1, <1>2, <1>5, <2>1 DEF Whole, Steady, Keyed, Walking
<1>11. QED
  BY <1>6, <1>7, <1>8, <1>9, <1>10 DEF Whole

\* What the pages have in common with the whole list, when the table is at rest: each is cut out
\* where the one before ended.
LEMMA ReadSteady ==
  ASSUME Whole, pc = "read", writes = 0, Keyed
  PROVE  \E s \in SetToSeqs(first) :
           /\ Sorted(s) /\ total = Cardinality(first) /\ total \in Nat
           /\ got \o rows = SubSeq(s, 1, IF total <= Offset(Params) + Params.limit THEN total
                                         ELSE Offset(Params) + Params.limit)
           /\ SubSeq(s, 1, total) = s
<1> DEFINE F == Filters(table)
           o == Offset(Params)
           l == Params.limit
           e == IF total <= o + l THEN total ELSE o + l
<1>1. /\ F = first /\ total = Cardinality(first) /\ o <= total /\ (o = 0 => got = <<>>)
      /\ (o # 0 => \E s \in SetToSeqs(first) : Sorted(s) /\ got = SubSeq(s, 1, o))
      /\ (\E s \in SetToSeqs(first) : Sorted(s) /\ rows = Window(s, Params))
  BY DEF Whole, Steady, Walking
<1>2. TypeOK /\ o \in Nat /\ l \in Nat \ {0} /\ IsFiniteSet(F) /\ total \in Nat
  BY Bounded, Matching DEF Whole, TypeOK
<1>3. PICK s \in SetToSeqs(first) : Sorted(s) /\ rows = Window(s, Params)
  BY <1>1
<1>4. s \in Seq(F) /\ Len(s) = total
  BY <1>1, <1>2, Listed
<1>5. got = SubSeq(s, 1, o)
  <2>1. CASE o = 0
    <3>1. SubSeq(s, 1, 0) = <<>>
      <4>1. 0 < 1 /\ 0 \in Int /\ 1 \in Int
        OBVIOUS
      <4>2. QED
        BY <4>1, SubSeqEmpty
    <3>2. QED
      BY <1>1, <2>1, <3>1
  <2>2. CASE o # 0
    <3>1. PICK t \in SetToSeqs(first) : Sorted(t) /\ got = SubSeq(t, 1, o)
      BY <1>1, <2>2
    <3>2. s = t
      BY <1>1, <1>2, <1>3, <3>1, OneOrder
    <3>3. QED
      BY <3>1, <3>2
  <2>3. QED
    BY <2>1, <2>2
<1>6. rows = SubSeq(s, o + 1, e)
  BY <1>2, <1>3, <1>4, Cut
<1>7. got \o rows = SubSeq(s, 1, e)
  <2> HIDE DEF o, l
  <2>1. 1 \in 1..Len(s) + 1 /\ o \in 1 - 1..Len(s) /\ e \in o..Len(s)
    BY <1>1, <1>2, <1>4
  <2> HIDE DEF e
  <2>2. SubSeq(s, 1, o) \o SubSeq(s, o + 1, e) = SubSeq(s, 1, e)
    BY <1>4, <2>1, ConcatAdjacentSubSeq
  <2>3. QED
    BY <1>5, <1>6, <2>2
<1>8. SubSeq(s, 1, total) = s
  BY <1>4, SubSeqFull
<1>9. QED
  BY <1>1, <1>2, <1>3, <1>7, <1>8

\* The client takes the page and goes on, or is done.
LEMMA ReadKept == ASSUME Whole, Read PROVE Whole'
<1> DEFINE o == Offset(Params)
           l == Params.limit
           n == Len(got)
           m == Len(rows)
<1>1. /\ UNCHANGED <<table, serial, query, first, writes, lost>>
      /\ pc = "read" /\ got' = got \o rows /\ total' = 0 /\ rows' = <<>>
      /\ TypeOK /\ Reached /\ Ahead /\ Gapless
  BY DEF Read, store, Whole
<1>2. /\ Params.page \in Nat /\ o \in Nat /\ l \in Nat \ {0} /\ MaxLimit \in Nat
      /\ total \in Nat /\ got \in Seq(Ids) /\ rows \in Seq(Ids)
  BY <1>1, Bounded DEF TypeOK
<1>3. \/ o + l < total /\ page' = Params.page + 1 /\ pc' = "count"
      \/ ~(o + l < total) /\ page' = page /\ pc' = "done"
  BY <1>1, <1>2, MorePages DEF Read
<1>4. /\ n \in Nat /\ m \in Nat /\ DOMAIN got = 1..n /\ DOMAIN rows = 1..m
      /\ got' \in Seq(Ids) /\ DOMAIN got' = 1..n + m
      /\ (\A k \in 1..n : got'[k] = got[k]) /\ (\A k \in n + 1..n + m : got'[k] = rows[k - n])
  <2>1. /\ Len(got \o rows) = n + m /\ got \o rows \in Seq(Ids)
        /\ \A k \in 1..n + m : (got \o rows)[k] = IF k <= n THEN got[k] ELSE rows[k - n]
    BY <1>2, ConcatProperties
  <2>2. n \in Nat /\ m \in Nat /\ DOMAIN got = 1..n /\ DOMAIN rows = 1..m
    BY <1>2
  <2>3. DOMAIN (got \o rows) = 1..n + m
    BY <2>1
  <2> HIDE DEF n, m
  <2>4. (\A k \in 1..n : k \in 1..n + m /\ k <= n)
        /\ \A k \in n + 1..n + m : k \in 1..n + m /\ ~(k <= n)
    BY <2>2
  <2>5. QED
    BY <1>1, <2>1, <2>2, <2>3, <2>4
<1>5. Filters(table)' = Filters(table) /\ \A x : Earlier(x)' = Earlier(x)
  BY <1>1 DEF Filters, Earlier
<1>6. \A s : Sorted(s)' <=> Sorted(s)
  BY <1>1 DEF Sorted, Precedes, Before, Column
<1>7. pc' = "count" => Offset(Params)' = o + l
  BY <1>1, <1>3, NextPage
<1>8. TypeOK'
  <2>1. page' \in Nat
    BY <1>1, <1>2, <1>3 DEF TypeOK
  <2>2. rows' \in Seq(Ids) /\ Len(rows') <= MaxLimit /\ total' \in Nat
    BY <1>1, <1>2
  <2>3. pc' \in {"count", "fetch", "read", "failed", "done"}
    BY <1>3
  <2>4. QED
    BY <1>1, <1>4, <2>1, <2>2, <2>3 DEF TypeOK
<1>9. \A i : i \in ToSet(got) \/ i \in ToSet(rows) => i \in ToSet(got')
  <2>1. ASSUME NEW k \in 1..n PROVE got[k] \in ToSet(got')
    <3>1. k \in 1..n + m
      BY <1>4
    <3>2. QED
      BY <1>4, <2>1, <3>1 DEF ToSet
  <2>2. ASSUME NEW k \in 1..m PROVE rows[k] \in ToSet(got')
    <3>1. n + k \in n + 1..n + m /\ n + k \in 1..n + m /\ n + k - n = k
      BY <1>4
    <3>2. QED
      BY <1>4, <2>2, <3>1 DEF ToSet
  <2>3. QED
    BY <1>4, <2>1, <2>2 DEF ToSet
<1> HIDE DEF o, l, n, m
<1>10. Ahead'
  <2>1. SUFFICES ASSUME OldestFirst
                 PROVE  /\ Increasing(got)' /\ \A k \in DOMAIN got' : got'[k] < serial
                        /\ pc' = "count" =>
                             \A k \in DOMAIN got' : Cardinality(Earlier(got'[k])) < o + l
    BY <1>1, <1>3, <1>5, <1>7 DEF Ahead, OldestFirst, Walking
  <2>2. /\ \A k, h \in 1..n : k < h => got[k] < got[h]
        /\ \A k, h \in 1..m : k < h => rows[k] < rows[h]
        /\ \A k \in 1..n : got[k] < serial /\ Cardinality(Earlier(got[k])) < o
        /\ \A k \in 1..m : rows[k] < serial /\ Cardinality(Earlier(rows[k])) < o + l
                           /\ \A h \in 1..n : got[h] < rows[k]
    BY <1>1, <1>4, <2>1 DEF Ahead, Increasing, Walking, o, l
  <2>3. \A k \in 1..n + m : k \in 1..n \/ (k \in n + 1..n + m /\ k - n \in 1..m)
    BY <1>4
  <2>4. Increasing(got)'
    <3>1. ASSUME NEW k \in 1..n + m, NEW h \in 1..n + m, k < h PROVE got'[k] < got'[h]
      <4>1. CASE h \in 1..n
        <5>1. k \in 1..n
          BY <1>4, <3>1, <4>1
        <5>2. QED
          BY <1>4, <2>2, <3>1, <4>1, <5>1
      <4>2. CASE k \in 1..n /\ h \in n + 1..n + m /\ h - n \in 1..m
        BY <1>4, <2>2, <4>2
      <4>3. CASE /\ k \in n + 1..n + m /\ h \in n + 1..n + m
                 /\ k - n \in 1..m /\ h - n \in 1..m
        <5>1. k - n < h - n
          BY <1>4, <3>1
        <5>2. QED
          BY <1>4, <2>2, <4>3, <5>1
      <4>4. QED
        BY <2>3, <4>1, <4>2, <4>3
    <3>2. QED
      BY <1>4, <3>1 DEF Increasing
  <2>5. \A i : Cardinality(Earlier(i)) < o => Cardinality(Earlier(i)) < o + l
    <3>1. TAKE i
    <3>2. Cardinality(Earlier(i)) \in Nat
      <4>1. Earlier(i) \subseteq Filters(table) /\ IsFiniteSet(Filters(table))
        BY <1>1, Matching DEF Earlier
      <4>2. QED
        BY <4>1, FS_Subset, FS_CardinalityType
    <3>3. QED
      BY <1>2, <3>2
  <2>6. ASSUME NEW k \in 1..n + m
        PROVE  got'[k] < serial /\ Cardinality(Earlier(got'[k])) < o + l
    <3>1. CASE k \in 1..n
      BY <1>4, <2>2, <2>5, <3>1
    <3>2. CASE k \in n + 1..n + m /\ k - n \in 1..m
      BY <1>4, <2>2, <3>2
    <3>3. QED
      BY <2>3, <3>1, <3>2
  <2>7. QED
    BY <1>4, <2>4, <2>6
<1>11. Gapless'
  <2>1. SUFFICES ASSUME OldestFirst, ~lost
                 PROVE  /\ pc' = "count" => 1..o + l \subseteq ToSet(got')
                        /\ pc' = "done" => first \subseteq ToSet(got')
    BY <1>1, <1>3, <1>5, <1>7 DEF Gapless, OldestFirst, Walking
  <2>2. /\ first \subseteq 1..total /\ 1..o \subseteq ToSet(got)
        /\ \A i \in o + 1..o + l : i <= total => i \in ToSet(rows)
    BY <1>1, <2>1 DEF Gapless, Walking, o, l
  <2>3. ASSUME NEW i \in 1..o + l, i <= total PROVE i \in ToSet(got')
    <3>1. i \in 1..o \/ i \in o + 1..o + l
      BY <1>2
    <3>2. QED
      BY <1>9, <2>2, <2>3, <3>1
  <2>4. CASE o + l < total /\ pc' = "count"
    <3>1. \A i \in 1..o + l : i <= total
      BY <1>2, <2>4
    <3>2. QED
      BY <2>3, <2>4, <3>1
  <2>5. CASE ~(o + l < total) /\ pc' = "done"
    <3>1. \A i \in 1..total : i \in 1..o + l /\ i <= total
      BY <1>2, <2>5
    <3>2. QED
      BY <2>2, <2>3, <2>5, <3>1
  <2>6. QED
    BY <1>3, <2>4, <2>5
<1>12. Steady'
  <2>1. SUFFICES ASSUME writes = 0, Keyed
                 PROVE  /\ Filters(table) = first
                        /\ pc' = "count" =>
                             /\ o + l <= Cardinality(first) /\ o + l # 0
                             /\ \E s \in SetToSeqs(first) : Sorted(s) /\ got' = SubSeq(s, 1, o + l)
                        /\ pc' = "done" => got' \in SetToSeqs(first)
    BY <1>1, <1>3, <1>5, <1>6, <1>7 DEF Steady, Keyed, Walking
  <2>2. PICK s \in SetToSeqs(first) :
          /\ Sorted(s) /\ total = Cardinality(first)
          /\ got' = SubSeq(s, 1, IF total <= o + l THEN total ELSE o + l)
          /\ SubSeq(s, 1, total) = s
    BY <1>1, <2>1, ReadSteady DEF o, l
  <2>3. CASE o + l < total /\ pc' = "count"
    <3>1. o + l <= total /\ ~(total <= o + l) /\ o + l # 0
      BY <1>2, <2>3
    <3>2. QED
      BY <2>1, <2>2, <2>3, <3>1 DEF Whole, Steady
  <2>4. CASE ~(o + l < total) /\ pc' = "done"
    <3>1. total <= o + l
      BY <1>2, <2>4
    <3>2. QED
      BY <2>1, <2>2, <2>4, <3>1 DEF Whole, Steady
  <2>5. QED
    BY <1>3, <2>3, <2>4
<1>13. QED
  BY <1>1, <1>8, <1>10, <1>11, <1>12 DEF Whole, Reached

\* A write leaves the invariant alone if it puts no row in front of one given out before and,
\* unless it deletes, no gap into the ids.
LEMMA WriteKept ==
  ASSUME Whole, Write, Reached',
         table' \in [Ids -> Names \cup {None}], serial' \in 1..MaxId + 1, serial <= serial',
         lost' \in BOOLEAN,
         OldestFirst => \A x \in 1..serial - 1 : Earlier(x)' \subseteq Earlier(x),
         OldestFirst /\ ~lost' => ~lost /\ Filters(table)' = 1..serial' - 1
  PROVE  Whole'
<1>1. /\ UNCHANGED <<query, page, got, first, pc, total, rows>>
      /\ writes < MaxWrites /\ writes' = writes + 1
      /\ TypeOK /\ Ahead /\ Gapless
  BY DEF Write, walk, Whole
<1>2. /\ serial \in Nat /\ serial' \in Nat /\ MaxWrites \in Nat /\ writes \in Nat /\ total \in Nat
      /\ \A x \in Ids : x < serial => x \in 1..serial - 1
  BY <1>1, LimitsAssumption DEF TypeOK, Ids
<1>3. TypeOK'
  <2>1. writes' \in 0..MaxWrites
    BY <1>1, <1>2
  <2>2. QED
    BY <1>1, <2>1 DEF TypeOK
<1>4. /\ Params' = Params /\ Offset(Params)' = Offset(Params) /\ (OldestFirst' <=> OldestFirst)
      /\ (Walking' <=> Walking)
      /\ Offset(Params) \in Nat /\ Params.limit \in Nat
  BY <1>1, Bounded DEF Params, Offset, OldestFirst, Walking
<1>5. ASSUME OldestFirst, NEW x \in Ids, x < serial, NEW n \in Nat, Cardinality(Earlier(x)) < n
      PROVE  Cardinality(Earlier(x)') < n
  <2>1. Earlier(x)' \subseteq Earlier(x)
    BY <1>2, <1>5
  <2>2. Earlier(x) \subseteq Filters(table) /\ IsFiniteSet(Filters(table))
    BY <1>1, Matching DEF Earlier
  <2>3. IsFiniteSet(Earlier(x))
    BY <2>2, FS_Subset
  <2>4. /\ Cardinality(Earlier(x)') <= Cardinality(Earlier(x))
        /\ Cardinality(Earlier(x)') \in Nat /\ Cardinality(Earlier(x)) \in Nat
    BY <2>1, <2>3, FS_Subset, FS_CardinalityType
  <2>5. QED
    BY <1>5, <2>4
<1>6. Ahead'
  <2>1. SUFFICES ASSUME OldestFirst PROVE Ahead'
    BY <1>4 DEF Ahead
  <2>2. \A k \in DOMAIN got : got[k] \in Ids /\ got[k] < serial
    BY <1>1, <2>1 DEF TypeOK, Ahead
  <2>3. Walking => \A k \in DOMAIN got : Cardinality(Earlier(got[k])') < Offset(Params)
    BY <1>1, <1>4, <1>5, <2>1, <2>2 DEF Ahead
  <2>4. pc = "read" => \A k \in DOMAIN rows :
          rows[k] < serial /\ Cardinality(Earlier(rows[k])') < Offset(Params) + Params.limit
    <3>1. Offset(Params) + Params.limit \in Nat
      BY <1>4
    <3>2. pc = "read" => \A k \in DOMAIN rows : rows[k] \in Ids /\ rows[k] < serial
      BY <1>1, <2>1 DEF TypeOK, Ahead
    <3>3. QED
      BY <1>1, <1>5, <2>1, <3>1, <3>2 DEF Ahead
  <2>5. /\ \A k \in DOMAIN got : got[k] < serial'
        /\ pc = "read" => \A k \in DOMAIN rows : rows[k] < serial'
    <3>1. Ids \subseteq Nat
      BY DEF Ids
    <3>2. pc = "read" => \A k \in DOMAIN rows : rows[k] \in Ids
      BY <1>1 DEF TypeOK
    <3>3. \A n \in Nat : n < serial => n < serial'
      BY <1>2
    <3>4. QED
      BY <2>2, <2>4, <3>1, <3>2, <3>3
  <2>6. /\ Increasing(got)' = Increasing(got) /\ Increasing(rows)' = Increasing(rows)
        /\ \A k : Earlier(got[k])' = {i \in Filters(table)' : i < got[k]}
        /\ \A k : Earlier(rows[k])' = {i \in Filters(table)' : i < rows[k]}
    BY <1>1 DEF Increasing, Earlier
  <2>7. QED
    BY <1>1, <1>4, <2>1, <2>3, <2>4, <2>5, <2>6 DEF Ahead, Earlier
<1>7. Gapless'
  <2>1. SUFFICES ASSUME OldestFirst, ~lost' PROVE Gapless'
    BY <1>4 DEF Gapless
  <2>2. ~lost /\ Filters(table)' = 1..serial' - 1
    BY <2>1
  <2>3. 1..serial - 1 \subseteq 1..serial' - 1 /\ (total <= serial - 1 => total <= serial' - 1)
    <3>1. \A m, n, t \in Nat : m <= n => /\ 1..m - 1 \subseteq 1..n - 1
                                         /\ t <= m - 1 => t <= n - 1
      OBVIOUS
    <3>2. QED
      BY <1>2, <3>1
  <2>4. first \subseteq 1..serial' - 1 /\ (total <= serial - 1 => total <= serial' - 1)
    BY <1>1, <2>1, <2>2, <2>3 DEF Gapless
  <2>5. QED
    BY <1>1, <1>4, <2>1, <2>2, <2>3, <2>4 DEF Gapless
<1>8. Steady'
  BY <1>1, <1>2 DEF Steady
<1>9. QED
  BY <1>3, <1>6, <1>7, <1>8 DEF Whole

\* A new row is behind all the others.
LEMMA InsertKept == ASSUME Whole, Insert PROVE Whole'
<1>1. PICK name \in Names : table' = [table EXCEPT ![serial] = name]
  BY DEF Insert
<1>2. /\ TypeOK /\ Reached /\ Gapless /\ Write /\ serial <= MaxId /\ serial' = serial + 1
      /\ lost' = lost /\ query' = query
  BY DEF Insert, Write, walk, Whole
<1>3. /\ MaxId \in Nat /\ serial \in Ids /\ serial \in Nat \ {0} /\ Ids \subseteq Nat
      /\ table \in [Ids -> Names \cup {None}]
  BY <1>2, LimitsAssumption DEF TypeOK, Ids
<1>4. \A i \in Ids : table'[i] = IF i = serial THEN name ELSE table[i]
  BY <1>1, <1>3
<1>5. Filters(table)' = Filters(table) \cup (IF name \in query.names THEN {serial} ELSE {})
  <2>1. \A i \in Ids : i \in Filters(table)' <=> table'[i] \in query.names
    BY <1>2 DEF Filters
  <2>2. \A i \in Ids : i \in Filters(table) <=> table[i] \in query.names
    BY DEF Filters
  <2>3. serial \notin Filters(table)
    BY <1>2, <1>3, NamesAssumption DEF Reached, Filters, TypeOK
  <2>4. Filters(table)' \subseteq Ids /\ Filters(table) \subseteq Ids
    BY DEF Filters
  <2>5. QED
    BY <1>3, <1>4, <2>1, <2>2, <2>3, <2>4
<1>6. Reached'
  <2>1. ASSUME NEW i \in Ids, table'[i] # None PROVE i < serial + 1
    BY <1>2, <1>3, <1>4, <2>1 DEF Reached
  <2>2. QED
    BY <1>2, <2>1 DEF Reached
<1>7. table' \in [Ids -> Names \cup {None}]
  BY <1>1, <1>3
<1>8. serial' \in 1..MaxId + 1 /\ serial <= serial' /\ serial' - 1 = serial
  BY <1>2, <1>3
<1>9. ASSUME NEW x \in 1..serial - 1 PROVE Earlier(x)' \subseteq Earlier(x)
  <2>1. x \in Nat /\ x < serial
    BY <1>3
  <2>2. QED
    BY <1>3, <1>5, <2>1 DEF Earlier
<1>10. ASSUME OldestFirst, ~lost' PROVE ~lost /\ Filters(table)' = 1..serial' - 1
  <2>1. Filters(table) = 1..serial - 1 /\ name \in query.names
    BY <1>2, <1>10 DEF Gapless, OldestFirst
  <2>2. QED
    BY <1>2, <1>3, <1>5, <1>8, <1>10, <2>1
<1>11. lost' \in BOOLEAN
  BY <1>2 DEF TypeOK
<1>12. QED
  BY <1>2, <1>6, <1>7, <1>8, <1>9, <1>10, <1>11, WriteKept

\* A row that is renamed stays where it is, when rows are listed by their age.
LEMMA RenameKept == ASSUME Whole, Rename PROVE Whole'
<1>1. PICK i \in Ids, name \in Names :
        table[i] \notin {None, name} /\ table' = [table EXCEPT ![i] = name]
  BY DEF Rename
<1>2. /\ TypeOK /\ Reached /\ Gapless /\ Write /\ UNCHANGED <<serial, lost, query>>
  BY DEF Rename, Write, walk, Whole
<1>3. table \in [Ids -> Names \cup {None}] /\ serial \in 1..MaxId + 1 /\ serial \in Nat
  BY <1>2 DEF TypeOK
<1>4. \A j \in Ids : table'[j] = IF j = i THEN name ELSE table[j]
  BY <1>1, <1>3
<1>5. OldestFirst => Filters(table)' = Filters(table)
  <2>1. SUFFICES ASSUME OldestFirst PROVE Filters(table)' = Filters(table)
    OBVIOUS
  <2>2. \A j \in Ids : j \in Filters(table)' <=> table'[j] \in Names
    BY <1>2, <2>1 DEF Filters, OldestFirst
  <2>3. \A j \in Ids : j \in Filters(table) <=> table[j] \in Names
    BY <2>1 DEF Filters, OldestFirst
  <2>4. Filters(table)' \subseteq Ids /\ Filters(table) \subseteq Ids
    BY DEF Filters
  <2>5. QED
    BY <1>1, <1>3, <1>4, <2>2, <2>3, <2>4
<1>6. Reached'
  BY <1>1, <1>2, <1>4 DEF Reached
<1>7. table' \in [Ids -> Names \cup {None}]
  BY <1>1, <1>3
<1>8. OldestFirst => \A x \in 1..serial - 1 : Earlier(x)' \subseteq Earlier(x)
  BY <1>5 DEF Earlier
<1>9. OldestFirst /\ ~lost' => ~lost /\ Filters(table)' = 1..serial' - 1
  BY <1>2, <1>5 DEF Gapless
<1>10. lost' \in BOOLEAN /\ serial <= serial'
  BY <1>2, <1>3 DEF TypeOK
<1>11. QED
  BY <1>2, <1>3, <1>6, <1>7, <1>8, <1>9, <1>10, WriteKept

\* A deletion moves rows to the front and never back.
LEMMA DeleteKept == ASSUME Whole, Delete PROVE Whole'
<1>1. PICK i \in Ids : table[i] # None /\ table' = [table EXCEPT ![i] = None]
  BY DEF Delete
<1>2. TypeOK /\ Reached /\ Write /\ UNCHANGED <<serial, query>> /\ lost' = TRUE
  BY DEF Delete, Write, walk, Whole
<1>3. table \in [Ids -> Names \cup {None}] /\ serial \in 1..MaxId + 1 /\ serial \in Nat
  BY <1>2 DEF TypeOK
<1>4. \A j \in Ids : table'[j] = IF j = i THEN None ELSE table[j]
  BY <1>1, <1>3
<1>5. Filters(table)' \subseteq Filters(table)
  <2>1. \A j \in Ids : j \in Filters(table)' <=> table'[j] \in query.names
    BY <1>2 DEF Filters
  <2>2. \A j \in Ids : j \in Filters(table) <=> table[j] \in query.names
    BY DEF Filters
  <2>3. None \notin query.names /\ Filters(table)' \subseteq Ids
    BY <1>2, NamesAssumption DEF TypeOK, Filters
  <2>4. QED
    BY <1>4, <2>1, <2>2, <2>3
<1>6. Reached'
  BY <1>2, <1>4 DEF Reached
<1>7. table' \in [Ids -> Names \cup {None}]
  BY <1>1, <1>3
<1>8. \A x \in 1..serial - 1 : Earlier(x)' \subseteq Earlier(x)
  BY <1>5 DEF Earlier
<1>9. serial <= serial'
  BY <1>2, <1>3
<1>10. QED
  BY <1>2, <1>3, <1>6, <1>7, <1>8, <1>9, WriteKept

\* Whatever happens, and when nothing does.
LEMMA StepKept == ASSUME Whole, [Next]_vars PROVE Whole'
<1>1. CASE Count
  BY <1>1, CountKept
<1>2. CASE Fetch
  BY <1>2, FetchKept
<1>3. CASE Fail
  BY <1>3, FailKept
<1>4. CASE Read
  BY <1>4, ReadKept
<1>5. CASE Insert
  BY <1>5, InsertKept
<1>6. CASE Rename
  BY <1>6, RenameKept
<1>7. CASE Delete
  BY <1>7, DeleteKept
<1>8. CASE UNCHANGED vars
  <2>1. UNCHANGED <<table, serial, query, page, pc, total, rows, got, first, writes, lost>>
    BY <1>8 DEF vars, store, walk
  <2>2. TypeOK'
    BY <2>1 DEF Whole, TypeOK
  <2>3. /\ Filters(table)' = Filters(table) /\ Params' = Params
        /\ \A x : Earlier(x)' = Earlier(x)
        /\ \A s : Sorted(s)' <=> Sorted(s)
        /\ \A s : Window(s, Params)' = Window(s, Params)
    BY <2>1, Resting
  <2>4. Ahead' /\ Gapless' /\ Reached'
    BY <2>1, <2>3 DEF Whole, Ahead, Gapless, Reached, OldestFirst, Walking, Increasing
  <2>5. Steady'
    BY <2>1, <2>3 DEF Whole, Steady, Keyed, Walking
  <2>6. QED
    BY <2>2, <2>4, <2>5 DEF Whole
<1>9. QED
  BY <1>1, <1>2, <1>3, <1>4, <1>5, <1>6, <1>7, <1>8 DEF Next, GetAll

\* The inductive invariant.
LEMMA Inductive == Spec => []Whole
<1>1. Whole /\ [Next]_vars => Whole'
  BY StepKept
<1>2. QED
  BY <1>1, Initially, PTL DEF Spec

-----------------------------------------------------------------------------
(* What a walk promises.                                                   *)

\* Every variable stays within its type: above all, the answer to a request never has more
\* rows than the limit allows, whatever limit it asks for.
THEOREM ListingTypes == Spec => []TypeOK
<1>1. Whole => TypeOK
  BY DEF Whole
<1>2. QED
  BY <1>1, Inductive, PTL

\* On a table at rest, walking from page 1 to total_pages (pagination.Params.Meta) under any
\* sort that names the key returns every matching row exactly once.
THEOREM WalksAreComplete == Spec => []WalkIsComplete
<1>1. ASSUME Whole PROVE WalkIsComplete
  <2>1. SUFFICES ASSUME pc = "done", writes = 0, Keyed
                 PROVE  IsInjective(got) /\ ToSet(got) = first
    BY DEF WalkIsComplete, Keyed
  <2>2. got \in SetToSeqs(first) /\ first = Filters(table)
    BY <1>1, <2>1 DEF Whole, Steady
  <2>3. IsFiniteSet(first)
    BY <1>1, <2>2, Matching DEF Whole
  <2> DEFINE n == Cardinality(first)
  <2>4. /\ DOMAIN got = 1..n /\ (\A k \in 1..n : got[k] \in first)
        /\ (\A k, h \in 1..n : k # h => got[k] # got[h])
        /\ (\A i \in first : \E k \in 1..n : got[k] = i)
    BY <2>2, <2>3, Listed
  <2> HIDE DEF n
  <2>5. IsInjective(got)
    BY <2>4 DEF IsInjective
  <2>6. ToSet(got) = first
    BY <2>4 DEF ToSet
  <2>7. QED
    BY <2>5, <2>6
<1>2. QED
  BY <1>1, Inductive, PTL

\* Reading oldest first, no row is seen twice, whatever is inserted, renamed or deleted between
\* two pages or between the count of a page and its fetch.
THEOREM NothingTwice == Spec => []NeverTwice
<1>1. ASSUME Whole PROVE NeverTwice
  <2>1. SUFFICES ASSUME OldestFirst PROVE IsInjective(got)
    BY DEF NeverTwice
  <2>2. \A k, h \in DOMAIN got : k < h => got[k] < got[h]
    BY <1>1, <2>1 DEF Whole, Ahead, Increasing
  <2>3. /\ DOMAIN got = 1..Len(got) /\ Len(got) \in Nat
        /\ \A k \in DOMAIN got : k \in Nat /\ got[k] \in Nat
    <3>1. got \in Seq(Ids) /\ Ids \subseteq Nat
      BY <1>1 DEF Whole, TypeOK, Ids
    <3>2. DOMAIN got = 1..Len(got) /\ Len(got) \in Nat
      BY <3>1
    <3>3. \A k \in DOMAIN got : got[k] \in Ids
      BY <3>1
    <3>4. \A k \in 1..Len(got) : k \in Nat
      BY <3>2
    <3>5. QED
      BY <3>1, <3>2, <3>3, <3>4
  <2>4. ASSUME NEW k \in DOMAIN got, NEW h \in DOMAIN got, got[k] = got[h] PROVE k = h
    <3>1. ~(k < h) /\ ~(h < k)
      BY <2>2, <2>3, <2>4
    <3>2. QED
      BY <2>3, <3>1
  <2>5. QED
    BY <2>4 DEF IsInjective
<1>2. QED
  BY <1>1, Inductive, PTL

\* Reading oldest first, as long as nothing is deleted the walk misses none of the rows that
\* were there when it began, however stale total_pages is when it ends.
THEOREM NothingIsMissed == Spec => []NothingMissed
<1>1. Whole => NothingMissed
  BY DEF Whole, Gapless, NothingMissed
<1>2. QED
  BY <1>1, Inductive, PTL
=============================================================================
