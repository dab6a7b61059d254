----------------------------- MODULE MCConsumer -----------------------------
(* Small instances of Consumer for TLC.                                    *)
EXTENDS Consumer

CONSTANTS e1, e2, c1, c2

\* A well-formed event alone, or with one of another kind.
OneEvent == {e1}
TwoEvents == {e1, e2}
SecondEvent == {e2}
NoEvents == {}
OneConsumer == {c1}
TwoConsumers == {c1, c2}
=============================================================================
