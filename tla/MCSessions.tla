----------------------------- MODULE MCSessions -----------------------------
(* Small instances of Sessions for TLC.                                    *)
EXTENDS Sessions, TLC

CONSTANTS t1, t2, t3, r1, r2, r3

ThreeTokens == {t1, t2, t3}
TwoRequests == {r1, r2}
ThreeRequests == {r1, r2, r3}

\* Tokens are interchangeable, and so are requests.
Swaps == Permutations(Tokens) \cup Permutations(Requests)
=============================================================================
