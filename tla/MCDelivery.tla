----------------------------- MODULE MCDelivery -----------------------------
(* Small instance of Delivery for TLC.                                     *)
EXTENDS Delivery

CONSTANTS r1, r2, r3, n1, a

\* Requests that repeat a registration or compete for its e-mail.
ThreeRequests == {r1, r2, r3}
OneName == {n1}
OneEmail == {a}
=============================================================================
