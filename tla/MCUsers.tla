------------------------------- MODULE MCUsers ------------------------------
(* Small instances of Users for TLC.                                       *)
EXTENDS Users

CONSTANTS r1, r2, r3, n1, a, b

ThreeRequests == {r1, r2, r3}
OneName == {n1}
TwoEmails == {a, b}
=============================================================================
