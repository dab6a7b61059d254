----------------------------- MODULE MCLifecycle -----------------------------
(* Small instance of Lifecycle for TLC.                                    *)
EXTENDS Lifecycle

\* The retry delay is left to its default.
AllGood ==
  [port |-> "good", store |-> "good", broker |-> "good", peer |-> "good",
   key |-> "good", delay |-> "absent"]

\* A key that cannot be read, a password that does not survive the DSN, and a changed
\* retry delay.
SomeEnvs ==
  [auth |-> {AllGood, [AllGood EXCEPT !.key = "bad"]},
   user |-> {AllGood, [AllGood EXCEPT !.store = "spaced"]},
   notification |-> {AllGood, [AllGood EXCEPT !.delay = "1m"]}]
=============================================================================
