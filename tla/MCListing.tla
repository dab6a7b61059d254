------------------------------ MODULE MCListing -----------------------------
(* Small instances of Listing for TLC.                                     *)
EXTENDS Listing

Asc(f) == [field |-> f, desc |-> FALSE]
Desc(f) == [field |-> f, desc |-> TRUE]

\* No sort, one or two columns in both directions, one the schema does not know.
SomeSorts ==
  {<<>>, <<Asc("id")>>, <<Desc("id")>>, <<Desc("name")>>, <<Desc("name"), Asc("id")>>,
   <<Asc("password"), Desc("id")>>}

TwoNames == {1, 2}
SomeLimits == {0, 1, 7}
=============================================================================
