---------------------------- MODULE MCPublishing ----------------------------
(* Small instance of Publishing for TLC.                                   *)
EXTENDS Publishing

CONSTANTS e1, e2

\* A second event covers calls on either side of a restart.
TwoEvents == {e1, e2}

\* One is published by a gRPC call, the other by an HTTP request.
OneRpc == {e1}
=============================================================================
