------------------------------- MODULE MCHttp -------------------------------
(* Small instance of Http for TLC.                                         *)
EXTENDS Http

\* The routers' chain with the two middlewares that are commented out there.
WholeChain == <<"RequestID", "Logger", "Cors", "RateLimit", "PanicRecovery">>

OneRequest == {"r"}
OneAddress == {"a"}
=============================================================================
